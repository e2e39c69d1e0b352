----------------------------- MODULE MCCuration ------------------------------
(* Three Files in the catalogue, two of them in one library, and a fourth    *)
(* that a scan may meet there; a tag and an Event of that library, and an    *)
(* album there and an Event of the other library that may be made.           *)
EXTENDS Curation, TLC

CONSTANTS here, there, f1, f2, f3, f4, album, tag, event, picnic

TwoLibraries ==
    [x \in {f1, f2, f4, album, tag, event} |-> here] @@ [x \in {f3, picnic} |-> there]

\* One Photo for all, as when copies were edited; or one for each.
OneOrEach == {[f \in Catalogued |-> 1],
              [f \in Catalogued |-> CASE f = f1 -> 1 [] f = f2 -> 2 [] f = f3 -> 3]}

\* Enough for the tag to be suggested to the rest of the Event.
TagAndEvent == <<[of |-> tag, items |-> {1}], [of |-> event, items |-> {f1, f2}]>>
WithAlbum == Append(TagAndEvent, [of |-> album, items |-> {}])

Symmetry == {x @@ y @@ z : x \in Permutations(Contents), y \in Permutations(Sessions),
                             z \in Permutations(Labels)}
===============================================================================
