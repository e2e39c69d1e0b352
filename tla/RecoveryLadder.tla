--------------------------- MODULE RecoveryLadder ---------------------------
(***************************************************************************)
(* What the chain of recovery evidence promises, without disks, locks or   *)
(* interruptions.  A proposal is climbed one rung at a time: a suspect     *)
(* preserved, a donor materialized, a target found ready.  Each rung holds *)
(* one checkpoint and keeps it for ever; none is reached unless the human  *)
(* decision the proposal names is still the latest one, and still asks for *)
(* the recovery of a flagged File.                                         *)
(***************************************************************************)
EXTENDS Naturals

CONSTANTS Proposals, Stages, Materializations, None

VARIABLES
    intent,        \* the latest mismatch decision
    standing,      \* it retains the expected bytes, and the File is flagged
    chain          \* [Proposals -> the decision it names and its checkpoints]

Rungs == [intent : Nat \cup {None},
          staged : SUBSET Stages,
          materialized : SUBSET Materializations,
          ready : SUBSET Materializations]

Init ==
    /\ intent = 0
    /\ standing = TRUE
    /\ chain = [p \in Proposals |->
                   [intent |-> None, staged |-> {}, materialized |-> {}, ready |-> {}]]

\* p still rests on the decision it was reviewed under.
Stands(p) == standing /\ chain[p].intent = intent

Propose(p) ==
    /\ standing /\ chain[p].intent = None
    /\ chain' = [chain EXCEPT ![p].intent = intent]

Stage(p, s) ==
    /\ Stands(p) /\ chain[p].staged = {}
    /\ \A q \in Proposals : s \notin chain[q].staged
    /\ chain' = [chain EXCEPT ![p].staged = {s}]

Materialize(p, m) ==
    /\ Stands(p) /\ chain[p].staged # {} /\ chain[p].materialized = {}
    /\ \A q \in Proposals : m \notin chain[q].materialized
    /\ chain' = [chain EXCEPT ![p].materialized = {m}]

Ready(p, m) ==
    /\ Stands(p) /\ m \in chain[p].materialized /\ chain[p].ready = {}
    /\ chain' = [chain EXCEPT ![p].ready = {m}]

Climb(p) ==
    \/ Propose(p)
    \/ \E s \in Stages : Stage(p, s)
    \/ \E m \in Materializations : Materialize(p, m) \/ Ready(p, m)

Next ==
    \/ standing' \in BOOLEAN /\ UNCHANGED <<intent, chain>>
    \/ intent' = intent + 1 /\ standing' \in BOOLEAN /\ UNCHANGED chain
    \/ (\E p \in Proposals : Climb(p)) /\ UNCHANGED <<intent, standing>>

Spec == Init /\ [][Next]_<<intent, standing, chain>>

=============================================================================
