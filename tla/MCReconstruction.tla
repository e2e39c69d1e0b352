-------------------------- MODULE MCReconstruction --------------------------
(* Three frames of one camera, whose clock was reset to day 4.             *)
EXTENDS Reconstruction, TLC

CONSTANTS f1, f2, f3

MCFiles == {f1, f2, f3}
MCNumber == (f1 :> 1) @@ (f2 :> 2) @@ (f3 :> 3)

Seen(claim, gps) == [claim |-> claim, gps |-> gps, doubt |-> "none"]
MCObservations == {Seen(13, 10)}

Anchor(start, end) == [start |-> start, end |-> end]
MCFileAnchors == {Anchor(12, None)}
MCDirectoryAnchors == {Anchor(8, 10)}

Free == [f \in MCFiles |-> None]
Anchored(f) == [Free EXCEPT ![f] = Anchor(10, None)]
Reset == (f1 :> Seen(8, None)) @@ (f2 :> Seen(8, None)) @@ (f3 :> Seen(9, None))
Located == [Reset EXCEPT ![f2] = Seen(8, 10)]

MCSessions ==
    {[strong |-> TRUE, seen |-> Reset, own |-> Anchored(f1)],
     [strong |-> TRUE, seen |-> Reset, own |-> Anchored(f3)],
     [strong |-> TRUE, seen |-> Located, own |-> Free]}

Symmetry == Permutations(Procs)

MCFloors == {None, 12}
=============================================================================
