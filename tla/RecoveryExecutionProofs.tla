----------------------- MODULE RecoveryExecutionProofs -----------------------
(***************************************************************************)
(* Safety of recovery execution for any number of executions, readinesses, *)
(* files and bytes, and any number of steps of everybody else.             *)
(*                                                                         *)
(* The argument: whoever is inside its second transaction holds SQLite's   *)
(* write lock, so no other execution can rename anything and no catalogue  *)
(* row can change until it ends; what it has proved stays true unless      *)
(* another program acts, and that resets `calm`.                           *)
(***************************************************************************)
EXTENDS RecoveryExecution, TLAPS

\* Inside the second transaction.
Holding == {"open", "park", "parked", "copy", "install", "attest", "retain",
            "rollback", "reverse", "reattest", "placed", "restored", "aborted"}

\* Before any rename of an execution.
Before(e) ==
    \/ pc[e] \in {"idle", "previewed", "authorized", "open", "park", "aborted"}
    \/ pc[e] \in {"copy", "install"} /\ Restores(e)

LockHeld == \A e \in Execs : pc[e] \in Holding <=> writer = e

PlansRecorded ==
    \A e \in Execs : pc[e] # "idle" => /\ plan[e] \in Readinesses
                                       /\ ready[plan[e]] \in Evidence

AttemptsStarted == \A e \in Execs : e \in attempts <=> pc[e] \notin {"idle", "previewed"}

ResultsEnded == \A e \in Execs : result[e] # None => pc[e] = "done"

IntentStands == \A e \in Execs : pc[e] \in Holding => flagged /\ intent

ParkingReplaces ==
    \A e \in Execs : pc[e] \in {"open", "park", "parked"} => ~Restores(e)

\* Until it renames, the file of an execution is at none of the names.
NotMovedBefore ==
    \A e \in Execs : Before(e) \/ result[e] = "aborted" =>
        ~moved[e] /\ \A n \in Names : dir[n] # e

\* At the name of a temporary is the file of its execution, or what another
\* program put there since it was created.
TemporariesTold ==
    \A e \in Execs :
        /\ temp[e] \in Strangers \cup {e, None}
        /\ pc[e] \in {"idle", "previewed", "authorized", "open", "park", "parked", "copy"} =>
               temp[e] = None

HandleReviewed ==
    \A e \in Execs :
        /\ pc[e] \in {"idle", "previewed", "authorized"} => fd[e] = None
        /\ pc[e] \in Holding \ {"open", "aborted"} => fd[e] = ready[plan[e]].obj

PlacedStands ==
    \A e \in Execs :
        /\ pc[e] \in {"retain", "placed"} /\ calm[e] =>
               dir[Target] = e /\ bytes[e] = Expected
        /\ pc[e] = "placed" /\ calm[e] /\ fd[e] # None => bytes[fd[e]] = Reviewed(e)

RestoredStands ==
    \A e \in Execs : pc[e] = "restored" /\ calm[e] =>
        dir[Target] = fd[e] /\ bytes[fd[e]] = Reviewed(e)

Inv == /\ TypeOK /\ LockHeld /\ PlansRecorded /\ AttemptsStarted /\ ResultsEnded
       /\ IntentStands /\ ParkingReplaces /\ NotMovedBefore /\ TemporariesTold
       /\ HandleReviewed /\ PlacedStands /\ RestoredStands /\ OneAttempt

USE ObjectAssumption, NoneIsNew

-----------------------------------------------------------------------------
LEMMA InvInit == Init => Inv
<1> SUFFICES ASSUME Init PROVE Inv
  OBVIOUS
<1>1. /\ TypeOK /\ LockHeld /\ PlansRecorded /\ AttemptsStarted /\ ResultsEnded
      /\ IntentStands /\ ParkingReplaces /\ HandleReviewed /\ PlacedStands
      /\ RestoredStands /\ OneAttempt
  BY DEF Init, TypeOK, LockHeld, PlansRecorded, AttemptsStarted, ResultsEnded,
         IntentStands, ParkingReplaces, HandleReviewed, PlacedStands, RestoredStands,
         OneAttempt, Unresolved, Holding, States, Names, Objects
<1>2. NotMovedBefore
  <2>1. PICK o \in Strangers \cup {None} :
            dir = [n \in Names |-> IF n = Target THEN o ELSE None]
    BY DEF Init
  <2>2. \A e \in Execs, n \in Names : dir[n] # e
    BY <2>1 DEF Objects
  <2>3. moved = [e \in Execs |-> FALSE]
    BY DEF Init
  <2> QED
    BY <2>2, <2>3 DEF NotMovedBefore
<1>3. TemporariesTold
  BY DEF Init, TemporariesTold
<1> QED
  BY <1>1, <1>2, <1>3 DEF Inv

LEMMA ExecuteInv == ASSUME NEW e \in Execs, Inv, Execute(e) PROVE Inv'
<1> USE DEF Inv, TypeOK, LockHeld, PlansRecorded, AttemptsStarted, ResultsEnded,
            IntentStands, ParkingReplaces, NotMovedBefore, Before, TemporariesTold,
            HandleReviewed, PlacedStands, RestoredStands, OneAttempt, Unresolved, Holding, States,
            Names, Objects, Evidence, Restores, Reviewed, catalogue
<1>1. CASE Begin(e)
  BY <1>1 DEF Begin, PlanHolds, ReadinessHolds
<1>2. CASE BeginRefused(e)
  BY <1>2 DEF BeginRefused
<1>3. CASE OpenTarget(e)
  BY <1>3 DEF OpenTarget, At, Observed
<1>4. CASE Park(e)
  BY <1>4 DEF Park, Rename
<1>5. CASE ProveParked(e)
  BY <1>5 DEF ProveParked, At
<1>6. CASE Copy(e)
  BY <1>6 DEF Copy, At
<1>7. CASE Install(e)
  BY <1>7 DEF Install, Rename, Source, Taken
<1>8. CASE InstallLost(e)
  BY <1>8 DEF InstallLost, Rename, Source, Taken
<1>9. CASE Refuse(e)
  BY <1>9 DEF Refuse, At, Abandoned, Debris
<1>10. CASE Attest(e)
  BY <1>10 DEF Attest, At
<1>11. CASE Retain(e)
  BY <1>11 DEF Retain, At
<1>12. CASE ProveReversible(e)
  BY <1>12 DEF ProveReversible, At
<1>13. CASE Reverse(e)
  BY <1>13 DEF Reverse, Rename
<1>14. CASE Reattest(e)
  BY <1>14 DEF Reattest, At
<1>15. CASE Record(e)
  BY <1>15 DEF Record
<1>16. CASE GiveUp(e)
  BY <1>16 DEF GiveUp, Ended, Abandoned, Debris
<1> QED
  BY <1>1, <1>2, <1>3, <1>4, <1>5, <1>6, <1>7, <1>8, <1>9, <1>10, <1>11, <1>12, <1>13, <1>14, <1>15, <1>16 DEF Execute

LEMMA PersonInv ==
    ASSUME Inv, NEW e \in Execs, NEW r \in Readinesses,
           RecordReadiness(r) \/ Preview(e, r) \/ Authorize(e)
    PROVE  Inv'
<1> USE DEF Inv, TypeOK, LockHeld, PlansRecorded, AttemptsStarted, ResultsEnded,
            IntentStands, ParkingReplaces, NotMovedBefore, Before, TemporariesTold,
            HandleReviewed, PlacedStands, RestoredStands, OneAttempt, Unresolved, Holding, States,
            Names, Objects, Evidence, Restores, Reviewed, catalogue
<1>1. CASE RecordReadiness(r)
  BY <1>1 DEF RecordReadiness, Observed
<1>2. CASE Preview(e, r)
  BY <1>2 DEF Preview, PlanHolds, Unused
<1>3. CASE Authorize(e)
  BY <1>3 DEF Authorize, PlanHolds, Unused
<1> QED
  BY <1>1, <1>2, <1>3

LEMMA OthersInv == ASSUME Inv, Others PROVE Inv'
<1> USE DEF Inv, TypeOK, LockHeld, PlansRecorded, AttemptsStarted, ResultsEnded,
            IntentStands, ParkingReplaces, NotMovedBefore, Before, TemporariesTold,
            HandleReviewed, PlacedStands, RestoredStands, OneAttempt, Unresolved, Holding,
            Names, Objects, Evidence, Restores, Elsewhere
<1>1. ASSUME NEW o \in Strangers, NEW c \in Contents, Arrive(o, c) PROVE Inv'
  BY <1>1 DEF Arrive
<1>2. ASSUME NEW n \in Names, Vanish(n) PROVE Inv'
  BY <1>2 DEF Vanish
<1>3. ASSUME NEW o \in Objects, NEW c \in Contents, Overwrite(o, c) PROVE Inv'
  BY <1>3 DEF Overwrite
<1>4. ASSUME NEW r \in Readinesses, Spoil(r) PROVE Inv'
  BY <1>4 DEF Spoil
<1>5. CASE Verify
  <2>1. flagged' \in BOOLEAN
    BY <1>5, Zenon DEF Verify
  <2> QED
    BY <1>5, <2>1 DEF Verify
<1>6. CASE Reconsider
  <2>1. intent' = FALSE
    BY <1>6, Zenon DEF Reconsider
  <2>2. intent' \in BOOLEAN
    BY <2>1, Zenon
  <2> QED
    BY <1>6, <2>2 DEF Reconsider
<1>7. ASSUME NEW e \in Execs, NEW o \in Strangers \cup {None}, Substitute(e, o) PROVE Inv'
  BY <1>7 DEF Substitute
<1> QED
  BY <1>1, <1>2, <1>3, <1>4, <1>5, <1>6, <1>7 DEF Others

LEMMA StutterInv == ASSUME Inv, UNCHANGED vars PROVE Inv'
BY DEF vars, Inv, TypeOK, LockHeld, PlansRecorded, AttemptsStarted, ResultsEnded,
       IntentStands, ParkingReplaces, NotMovedBefore, Before, TemporariesTold,
       HandleReviewed, PlacedStands, RestoredStands, OneAttempt, Unresolved, Restores, Reviewed

LEMMA StepInv == ASSUME Inv, [Next]_vars PROVE Inv'
<1>1. ASSUME NEW r \in Readinesses, RecordReadiness(r) PROVE Inv'
  <2>1. CASE Execs = {}
    BY <1>1, <2>1 DEF RecordReadiness, Observed, Inv, TypeOK, LockHeld, PlansRecorded,
       AttemptsStarted, ResultsEnded, IntentStands, ParkingReplaces, NotMovedBefore,
       TemporariesTold, HandleReviewed, PlacedStands, RestoredStands, OneAttempt, Unresolved,
       Names, Objects, Evidence
  <2>2. CASE \E e \in Execs : TRUE
    BY <1>1, <2>2, PersonInv
  <2> QED
    BY <2>1, <2>2
<1>2. ASSUME NEW e \in Execs, NEW r \in Readinesses, Preview(e, r) PROVE Inv'
  BY <1>2, PersonInv
<1>3. ASSUME NEW e \in Execs, Authorize(e) PROVE Inv'
  <2>1. plan[e] \in Readinesses
    BY <1>3 DEF Authorize, Inv, PlansRecorded
  <2> QED
    BY <1>3, <2>1, PersonInv
<1> QED
  BY <1>1, <1>2, <1>3, ExecuteInv, OthersInv, StutterInv DEF Next

\* The inductive invariant holds in every reachable state.
THEOREM Invariance == Spec => []Inv
BY InvInit, StepInv, PTL DEF Spec

\* Every reachable state is well typed.
THEOREM ExecutionTypeCorrect == Spec => []TypeOK
<1>1. Inv => TypeOK
  BY DEF Inv
<1> QED
  BY <1>1, Invariance, PTL

\* A readiness is spent at most once, and an attempt whose outcome is unknown
\* blocks every other one on the File, for good.
THEOREM OneAttemptEver == Spec => []OneAttempt
<1>1. Inv => OneAttempt
  BY DEF Inv
<1> QED
  BY <1>1, Invariance, PTL

\* The ledger calls no attempt aborted that has renamed anything at the target's
\* name or from it, or whose file is anywhere but at its temporary's name.
THEOREM AbortedMeansUntouched == Spec => []AbortedUntouched
<1>1. Inv => AbortedUntouched
  BY DEF Inv, NotMovedBefore, TemporariesTold, AbortedUntouched, Objects
<1> QED
  BY <1>1, Invariance, PTL

-----------------------------------------------------------------------------
LEMMA SurviveStep ==
    ASSUME Inv, [Next]_vars, pc' # pc, NEW o \in Strangers, Named(o)
    PROVE  Named(o)'
<1> USE DEF Inv, TypeOK, LockHeld, Holding, Names, Objects, Named
<1>1. PICK e \in Execs : \/ \E r \in Readinesses : Preview(e, r)
                        \/ Authorize(e) \/ Execute(e)
  BY DEF Next, vars, Others, Arrive, Vanish, Substitute, Overwrite, Spoil, Verify,
         Reconsider, Elsewhere, RecordReadiness
<1>2. CASE dir' = dir /\ temp' = temp
  BY <1>2
<1>3. CASE Park(e)
  <2>1. dir' = [dir EXCEPT ![Target] = None, ![e] = fd[e]] /\ temp' = temp
    BY <1>3 DEF Park, Rename
  <2>2. dir[Target] = fd[e] /\ dir[e] = None /\ e # Target
    BY <1>3 DEF Park
  <2> QED
    BY <2>1, <2>2
<1>4. CASE Copy(e)
  <2>1. temp[e] = None /\ dir' = dir /\ temp' = [temp EXCEPT ![e] = e]
    BY <1>4 DEF Copy, At, TemporariesTold
  <2> QED
    BY <2>1
<1>5. CASE Install(e) \/ InstallLost(e)
  <2>1. dir[Target] = None /\ temp' = Taken(e)
    BY <1>5 DEF Install, InstallLost
  <2>2. PICK x : /\ dir' = [dir EXCEPT ![Target] = x]
                 /\ temp[e] \in Strangers /\ temp[e] = Source(e) => x = temp[e]
    BY <1>5 DEF Install, InstallLost, Rename, Source
  <2> QED
    BY <2>1, <2>2 DEF Taken
<1>6. CASE Reverse(e)
  <2>1. dir' = [dir EXCEPT ![Target] = fd[e], ![e] = None] /\ temp' = temp
    BY <1>6 DEF Reverse, Rename
  <2>2. dir[Target] = None /\ dir[e] = fd[e] /\ e # Target
    BY <1>6 DEF Reverse
  <2> QED
    BY <2>1, <2>2
<1>7. CASE dir' = dir /\ Abandoned(e)
  <2>1. PICK x \in Debris(e) : temp' = [temp EXCEPT ![e] = x]
    BY <1>7 DEF Abandoned
  <2>2. temp[e] = o => x = o
    BY <2>1 DEF Debris, TemporariesTold
  <2> QED
    BY <1>7, <2>1, <2>2
<1> QED
  BY <1>1, <1>2, <1>3, <1>4, <1>5, <1>6, <1>7
     DEF Execute, Begin, BeginRefused, OpenTarget, ProveParked, Refuse, Attest,
         Retain, ProveReversible, Reattest, Record, GiveUp, At, Preview, Authorize

\* No execution takes away a file of another program, at whatever moment the
\* file arrived.
THEOREM StrangersAlwaysSurvive == Spec => StrangersSurvive
<1>1. Inv /\ [Next]_vars =>
        [pc' # pc => \A o \in Strangers : Named(o) => Named(o)']_vars
  BY SurviveStep
<1> QED
  BY <1>1, Invariance, PTL DEF Spec, StrangersSurvive

LEMMA IntentStep ==
    ASSUME Inv, [Next]_vars, pc' # pc, dir' # dir
    PROVE  flagged /\ intent
<1>1. PICK e \in Execs : Park(e) \/ Install(e) \/ InstallLost(e) \/ Reverse(e)
  BY DEF Next, vars, Others, Arrive, Vanish, Substitute, Overwrite, Spoil, Verify, Reconsider,
         Elsewhere, RecordReadiness, Preview, Authorize, Execute, Begin, BeginRefused,
         OpenTarget, ProveParked, Copy, Refuse, Attest, Retain, ProveReversible,
         Reattest, Record, GiveUp, At
<1>2. pc[e] \in Holding
  BY <1>1 DEF Park, Install, InstallLost, Reverse, Rename, Holding
<1> QED
  BY <1>2 DEF Inv, IntentStands

\* Whatever Verify and reviewers do meanwhile, the directory is changed only
\* while the File is flagged and the intent to recover it stands.
THEOREM MovesOnlyUnderIntent == Spec => MovesUnderIntent
<1>1. Inv /\ [Next]_vars => [pc' # pc /\ dir' # dir => flagged /\ intent]_vars
  BY IntentStep
<1> QED
  BY <1>1, Invariance, PTL DEF Spec, MovesUnderIntent

-----------------------------------------------------------------------------
LEMMA RecordStep ==
    ASSUME Inv, [Next]_vars, NEW e \in Execs, result'[e] # result[e],
           result'[e] # "aborted"
    PROVE  pc[e] = result'[e]
<1>1. PICK x \in Execs : Execute(x)
  <2>1. CASE Others
    <3>1. Elsewhere
      BY <2>1, Zenon DEF Others, Arrive, Vanish, Substitute, Overwrite, Spoil, Verify, Reconsider
    <3> QED
      BY <3>1 DEF Elsewhere
  <2>2. CASE \E r \in Readinesses : RecordReadiness(r)
    BY <2>2 DEF RecordReadiness
  <2>3. ASSUME NEW x \in Execs,
               (\E r \in Readinesses : Preview(x, r)) \/ Authorize(x)
        PROVE  result' = result
    BY <2>3 DEF Preview, Authorize, catalogue
  <2>4. CASE UNCHANGED vars
    BY <2>4 DEF vars
  <2> QED
    BY <2>1, <2>2, <2>3, <2>4, Zenon DEF Next
<1>2. BeginRefused(x) \/ Record(x)
  BY <1>1 DEF Execute, Begin, OpenTarget, Park, ProveParked, Copy, Install,
              InstallLost, Refuse, Attest, Retain, ProveReversible, Reverse,
              Reattest, GiveUp, At, Rename, catalogue
<1> QED
  BY <1>2 DEF BeginRefused, Record, Inv, TypeOK

\* What the ledger calls placed is the expected content at the target and the
\* reviewed suspect unharmed, unless others acted since.
THEOREM PlacedMeansExpected == Spec => PlacedIsExpected
<1>1. ASSUME Inv, [Next]_vars, NEW e \in Execs,
             result[e] # "placed", result'[e] = "placed", calm[e]
      PROVE  /\ dir[Target] = e /\ bytes[e] = Expected
             /\ fd[e] = ready[plan[e]].obj
             /\ fd[e] # None => bytes[fd[e]] = Reviewed(e)
  <2>1. pc[e] = "placed"
    BY <1>1, RecordStep
  <2> QED
    BY <1>1, <2>1 DEF Inv, PlacedStands, HandleReviewed, Holding
<1>2. Inv /\ [Next]_vars =>
        [\A e \in Execs :
            result[e] # "placed" /\ result'[e] = "placed" /\ calm[e] =>
                /\ dir[Target] = e /\ bytes[e] = Expected
                /\ fd[e] = ready[plan[e]].obj
                /\ fd[e] # None => bytes[fd[e]] = Reviewed(e)]_vars
  BY <1>1
<1> QED
  BY <1>2, Invariance, PTL DEF Spec, PlacedIsExpected

\* What the ledger calls restored is the reviewed suspect back at the target,
\* unless others acted since.
THEOREM RestoredMeansReviewed == Spec => RestoredIsReviewed
<1>1. ASSUME Inv, [Next]_vars, NEW e \in Execs,
             result[e] # "restored", result'[e] = "restored", calm[e]
      PROVE  /\ dir[Target] = ready[plan[e]].obj
             /\ bytes[dir[Target]] = Reviewed(e)
  <2>1. pc[e] = "restored"
    BY <1>1, RecordStep
  <2> QED
    BY <1>1, <2>1 DEF Inv, RestoredStands, HandleReviewed, Holding
<1>2. Inv /\ [Next]_vars =>
        [\A e \in Execs :
            result[e] # "restored" /\ result'[e] = "restored" /\ calm[e] =>
                /\ dir[Target] = ready[plan[e]].obj
                /\ bytes[dir[Target]] = Reviewed(e)]_vars
  BY <1>1
<1> QED
  BY <1>2, Invariance, PTL DEF Spec, RestoredIsReviewed

\* Both results are true in every behaviour.
THEOREM RecordedMeansTrue == Spec => RecordedIsTrue
  BY PlacedMeansExpected, RestoredMeansReviewed DEF RecordedIsTrue

=============================================================================
