----------------------------- MODULE DateEngine -----------------------------
(***************************************************************************)
(* From what a session of photographs claims, and what is known besides,   *)
(* to interpreted capture dates: chronology.py, reconcile.py and           *)
(* reconstruct.py.  A session is the files of one directory, camera and    *)
(* naming scheme.  Instants are half days, so that day d is the instants   *)
(* 2d and 2d+1; dates are days.                                            *)
(***************************************************************************)
EXTENDS Integers, FiniteSets

CONSTANTS
    Files,        \* the files of the session
    Number,       \* [Files -> their numbers in the naming scheme]
    ResetDays,    \* days a camera starts at when its clock was reset
    MaxGap,       \* DEFAULT_MAX_SEQ_GAP
    MinRun,       \* DEFAULT_MIN_RESET_RUN
    None

ASSUME NumberAssumption ==
    /\ Number \in [Files -> Nat]
    /\ \A f, g \in Files : Number[f] = Number[g] => f = g

(***************************************************************************)
(* Evidence ev: ev.present is the present files, ev.strong whether the     *)
(* camera's serial identifies one body, ev.floor its manufacture floor;    *)
(* ev.seen[f] is what f's revision claims (claim, gps date, and doubt, the *)
(* worst of the intrinsic doubts beside a reset epoch); ev.anchor[f] is    *)
(* the human anchor that applies to f, a day or a range of days.           *)
(***************************************************************************)
Exact(ev, f) == ev.anchor[f] # None /\ ev.anchor[f].end = None
Ranged(ev, f) == ev.anchor[f] # None /\ ev.anchor[f].end # None

Day(t) == t \div 2
Midnight(d) == 2 * d
Near(t, u) == t - u \in -2 .. 2

Claim(ev, f) == ev.seen[f].claim
Gps(ev, f) == ev.seen[f].gps
Dated(ev) == {f \in ev.present : Claim(ev, f) # None}

-----------------------------------------------------------------------------
(* Slices 1 and 2: intrinsic ratings, segments, reset runs, order.         *)

OnReset(ev, f) == Claim(ev, f) # None /\ Day(Claim(ev, f)) \in ResetDays

Intrinsic(ev, f) ==
    CASE Claim(ev, f) = None -> "UNKNOWN"
      [] ev.seen[f].doubt = "impossible" -> "LIKELY_WRONG"
      [] ev.seen[f].doubt \in {"weak", "inconsistent"} \/ OnReset(ev, f) -> "QUESTIONABLE"
      [] OTHER -> "PROBABLY_VALID"

Before(f, g) == Number[f] < Number[g]
After(f, g) == Before(g, f)

\* g is the next file after f.
Follows(ev, f, g) ==
    Before(f, g) /\ ~\E h \in ev.present : Before(f, h) /\ Before(h, g)

\* The files whose step to the next file satisfies Step.
Linked(ev, Step(_, _)) ==
    {f \in ev.present : \E g \in ev.present : Step(f, g) /\ Follows(ev, f, g)}

\* Every file from f up to g is linked to the next.
Joined(ev, links, f, g) ==
    \A h \in ev.present : ~Before(h, f) /\ Before(h, g) => h \in links

\* Sessions are cut where the numbers leave a gap.
Adjacent(f, g) == Number[g] - Number[f] \in 1 .. MaxGap

\* Two successive frames of a reset pattern: one epoch, the clock ticking on.
Ticks(ev, f, g) ==
    /\ Adjacent(f, g) /\ OnReset(ev, f) /\ OnReset(ev, g)
    /\ Day(Claim(ev, f)) = Day(Claim(ev, g)) /\ Claim(ev, g) >= Claim(ev, f)

Ticking(ev) ==
    LET Step(f, g) == Ticks(ev, f, g) IN Linked(ev, Step)

Run(ev, f) ==
    LET links == Ticking(ev)
    IN {g \in ev.present : /\ OnReset(ev, f) /\ OnReset(ev, g)
                           /\ Joined(ev, links, f, g) /\ Joined(ev, links, g, f)}

\* The reset pattern f belongs to, empty if none.
Group(ev, f) ==
    LET run == Run(ev, f) IN IF Cardinality(run) >= MinRun THEN run ELSE {}

\* f is dated more than the tolerance before g.
Regresses(ev, f, g) == Claim(ev, f) < Claim(ev, g) - 1

\* The frame whose date is the running maximum f is compared with, if any.  A
\* frame within the tolerance takes its place although it may be earlier.
Leader(ev) ==
    LET links == Linked(ev, Adjacent)
        Previous(f) == {g \in Dated(ev) : /\ Before(g, f) /\ Joined(ev, links, g, f)
                                          /\ ~\E h \in Dated(ev) : Before(g, h) /\ Before(h, f)}
        lead[f \in ev.present] ==
            UNION {IF \E g \in lead[p] : Regresses(ev, p, g) THEN lead[p] ELSE {p} :
                       p \in Previous(f)}
    IN lead

\* The frames of one device implicated in an order conflict.
Conflicting(ev) ==
    LET lead == Leader(ev)
    IN UNION {{c[1], c[2]} : c \in {d \in Dated(ev) \X Dated(ev) :
                  ev.strong /\ d[2] \in lead[d[1]] /\ Regresses(ev, d[1], d[2])}}

Combined(ev, f) ==
    IF Intrinsic(ev, f) = "PROBABLY_VALID" /\ f \in Conflicting(ev)
    THEN "QUESTIONABLE" ELSE Intrinsic(ev, f)

\* Every doubt about f is of a kind that an independent date in agreement
\* settles: neither an inconsistency nor an order conflict.
Resolvable(ev, f) ==
    /\ Intrinsic(ev, f) \in {"PROBABLY_VALID", "QUESTIONABLE"}
    /\ ev.seen[f].doubt # "inconsistent"
    /\ f \notin Conflicting(ev)

-----------------------------------------------------------------------------
(* Slice 3: independent calendar evidence.                                 *)

Disproved(ev, f) ==
    LET c == Claim(ev, f) IN
    /\ ~Exact(ev, f) /\ c # None
    /\ \/ ev.floor # None /\ c < ev.floor
       \/ Ranged(ev, f) /\ (\/ c < Midnight(ev.anchor[f].start) - 2
                           \/ c > Midnight(ev.anchor[f].end) + 2)
       \/ Gps(ev, f) # None /\ ~Near(c, Midnight(Gps(ev, f)))

Corroborated(ev, f) ==
    /\ ~Exact(ev, f) /\ Claim(ev, f) # None /\ ~Disproved(ev, f)
    /\ Gps(ev, f) # None

Contradicts(ev, f) ==
    \/ Disproved(ev, f)
    \/ /\ Exact(ev, f) /\ Claim(ev, f) # None
       /\ ~Near(Claim(ev, f), Midnight(ev.anchor[f].start))

Supports(ev, f) == Corroborated(ev, f) \/ (Exact(ev, f) /\ ~Contradicts(ev, f))

\* A reset run of one device that independent evidence disproves and none
\* supports.
Condemned(ev, f) ==
    LET run == Group(ev, f) IN
    /\ ev.strong
    /\ \E g \in run : Contradicts(ev, g)
    /\ ~\E g \in run : Supports(ev, g)

Final(ev, f) ==
    IF Exact(ev, f) THEN "TRUSTED"
    ELSE IF Disproved(ev, f) THEN "LIKELY_WRONG"
    ELSE IF Corroborated(ev, f) /\ Resolvable(ev, f) THEN "TRUSTED"
    ELSE IF ~Corroborated(ev, f) /\ Condemned(ev, f) THEN "LIKELY_WRONG"
    ELSE Combined(ev, f)

-----------------------------------------------------------------------------
(* Phase 7: reconstruction.                                                *)

Revisable(ev, f) == Final(ev, f) \in {"QUESTIONABLE", "LIKELY_WRONG"}

Point(d, how) == [start |-> d, end |-> None, method |-> how]
Span(s, e, how) == [start |-> s, end |-> e, method |-> how]

\* The independent date of f itself: a human's, else the GPS date.
KnownTrue(ev, f) ==
    IF Exact(ev, f) THEN ev.anchor[f].start
    ELSE IF ev.anchor[f] = None THEN Gps(ev, f) ELSE None

\* Fault: the true date of a GPS frame counts as an exact date as well.
OffsetsWithGps(ev, f) ==
    {KnownTrue(ev, g) - Day(Claim(ev, g)) :
        g \in {h \in Group(ev, f) : KnownTrue(ev, h) # None}}

\* The offsets the exact dates of f's run give its clock.
Offsets(ev, f) ==
    {ev.anchor[g].start - Day(Claim(ev, g)) : g \in {h \in Group(ev, f) : Exact(ev, h)}}

\* The clock of f's run is off by the one offset that its exact dates give.
ByOffset(ev, f) ==
    LET offs == Offsets(ev, f) IN
    /\ KnownTrue(ev, f) = None
    /\ ev.strong /\ Cardinality(offs) = 1 /\ offs # {0}
    /\ Revisable(ev, f)

Corrected(ev, f) == Day(Claim(ev, f)) + (CHOOSE o \in Offsets(ev, f) : TRUE)

\* The point dates of f's run on the side of f that Side says.
Points(ev, f, Side(_, _)) ==
    LET beside == {g \in Group(ev, f) : Side(g, f)}
    IN {KnownTrue(ev, g) : g \in {h \in beside : Exact(ev, h)}}
         \cup {Corrected(ev, g) : g \in {h \in beside : ByOffset(ev, h)}}

\* Fault: neighbours in conflict bracket as well.
BracketsAnyOrder(lo, hi) ==
    {d \in lo \X hi : \A e \in lo \X hi : e[1] <= d[1] /\ d[2] <= e[2]}

\* The latest of lo with the earliest of hi, unless they are out of order.
Brackets(lo, hi) ==
    {d \in lo \X hi : /\ d[1] <= d[2]
                      /\ \A e \in lo \X hi : e[1] <= d[1] /\ d[2] <= e[2]}

Between(d) ==
    IF d[1] = d[2] THEN Point(d[1], "bracket") ELSE Span(d[1], d[2], "bracket")

\* What the dates next to f bound f's own with, at most one date.
Bracketed(ev, f) ==
    LET bounds == Brackets(Points(ev, f, Before), Points(ev, f, After))
    IN {Between(d) : d \in {e \in bounds : ev.strong /\ Revisable(ev, f)}}

\* reconstruct(): of each file a date, an inclusive range of dates, or nothing.
Interpret(ev, f) ==
    IF Exact(ev, f) THEN Point(KnownTrue(ev, f), "direct")
    ELSE IF KnownTrue(ev, f) # None
         THEN Span(KnownTrue(ev, f) - 1, KnownTrue(ev, f) + 1, "direct_gps")
    ELSE IF ByOffset(ev, f) THEN Point(Corrected(ev, f), "offset")
    ELSE IF Ranged(ev, f) THEN Span(ev.anchor[f].start, ev.anchor[f].end, "anchor_range")
    ELSE IF Bracketed(ev, f) # {} THEN CHOOSE d \in Bracketed(ev, f) : TRUE
    ELSE None

Reconstruct(ev) == [f \in ev.present |-> Interpret(ev, f)]

-----------------------------------------------------------------------------
(* What a reconstruction depends on: _canon_input and _fingerprints.       *)

Canon(ev, f, run) ==
    [file |-> f, recorded |-> Claim(ev, f), reliability |-> Final(ev, f),
     strong |-> run # {} /\ ev.strong,
     anchor |-> ev.anchor[f], known |-> KnownTrue(ev, f)]

\* Fault: the fingerprint of a frame leaves its reset run out.
FingerprintAlone(ev, f) == [self |-> Canon(ev, f, Group(ev, f)), group |-> None]

Fingerprint(ev, f) ==
    LET run == Group(ev, f) IN
    [self |-> Canon(ev, f, run),
     group |-> IF run = {} THEN None ELSE {Canon(ev, g, run) : g \in run}]

=============================================================================
