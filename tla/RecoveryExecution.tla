-------------------------- MODULE RecoveryExecution --------------------------
(***************************************************************************)
(* The one operation that changes the photographs' own directory: putting  *)
(* the expected bytes back in place of a damaged or missing target.  A     *)
(* recorded readiness checkpoint is previewed, confirmed into a durable    *)
(* one-shot attempt, and executed by several renames and proofs, while     *)
(* other programs write to the same directory, Verify and reviewers write  *)
(* to the same catalogue, and the executing process may die at any point.  *)
(*                                                                         *)
(* One File is the target.  A file-system object is its identity; names    *)
(* point at objects, an open handle stays on its object.  The secured      *)
(* temporary file of execution e is the object e, and the name of the      *)
(* suspect e sets aside is e too (it contains the execution's id).  The    *)
(* temporary has a name in the photographs' own directory, where others    *)
(* can see it, and where it may stay: `temp` is what is at that name.      *)
(***************************************************************************)
EXTENDS Naturals

CONSTANTS
    Execs,         \* execution ids: one per preview
    Readinesses,   \* readiness checkpoints of the target, each with its donor
    Strangers,     \* file objects made by other programs
    Contents,      \* byte strings
    Expected,      \* the bytes of the expected revision
    None,          \* no object, no evidence, no result
    MaxEnv         \* bound: steps of other programs and of reviewers

Target  == "target"
Objects == Strangers \cup Execs
Names   == Execs \cup {Target}

ASSUME ObjectAssumption ==
    /\ None \notin Objects \cup Contents \cup Readinesses
    /\ Strangers \cap Execs = {}
    /\ Target \notin Execs
    /\ Expected \in Contents

\* None is an ordinary value, not one of the strings and records below.
ASSUME NoneIsNew ==
    /\ None \notin {"placed", "restored", "aborted"}
    /\ None \notin [obj : Objects \cup {None}, bytes : Contents \cup {None}]

VARIABLES
    windows,       \* native Windows: an existing target can be replaced
    dir,           \* [Names -> Objects or None]: the target's directory
    temp,          \* [Execs -> Objects or None]: the temporaries' names in it
    bytes,         \* [Objects -> Contents]
    donor,         \* readinesses whose staged donor still has Expected
    flagged,       \* the File's health is hash_mismatch
    intent,        \* the latest human decision is to retain the expected bytes
    ready,         \* [Readinesses -> the recorded evidence or None]
    plan,          \* [Execs -> the readiness it previews, or None]
    attempts,      \* executions with an immutable attempt row
    result,        \* [Execs -> the immutable result row, or None]
    writer,        \* who holds SQLite's write lock
    pc,            \* where each execution is
    fd,            \* the object each execution holds open as the suspect
    moved,         \* history: it has renamed at the target's name
    calm,          \* history: nobody else did anything since it last did
    envs

catalogue == <<flagged, intent, ready, attempts, result>>
vars == <<windows, dir, temp, bytes, donor, flagged, intent, ready, plan, attempts,
          result, writer, pc, fd, moved, calm, envs>>

Evidence == [obj : Objects \cup {None}, bytes : Contents \cup {None}]

Init ==
    /\ windows \in BOOLEAN
    /\ \E o \in Strangers \cup {None}, c \in Contents :
        /\ dir = [n \in Names |-> IF n = Target THEN o ELSE None]
        /\ bytes = [x \in Objects |-> IF x = o THEN c ELSE Expected]
    /\ temp = [e \in Execs |-> None]
    /\ donor = Readinesses
    /\ flagged = TRUE /\ intent = TRUE
    /\ ready = [r \in Readinesses |-> None]
    /\ plan = [e \in Execs |-> None]
    /\ attempts = {}
    /\ result = [e \in Execs |-> None]
    /\ writer = None
    /\ pc = [e \in Execs |-> "idle"]
    /\ fd = [e \in Execs |-> None]
    /\ moved = [e \in Execs |-> FALSE]
    /\ calm = [e \in Execs |-> FALSE]
    /\ envs = 0

-----------------------------------------------------------------------------
(* Everybody else.                                                         *)

Elsewhere ==
    /\ envs < MaxEnv /\ envs' = envs + 1
    /\ calm' = [e \in Execs |-> FALSE]
    /\ UNCHANGED <<windows, ready, plan, attempts, result, writer, pc, fd, moved>>

\* Some name of the directory leads to o.
Named(o) == (\E n \in Names : dir[n] = o) \/ (\E e \in Execs : temp[e] = o)

\* A file appears at the target: new, renamed in, or an old one back again.
Arrive(o, c) ==
    /\ dir[Target] = None /\ ~Named(o)
    /\ dir' = [dir EXCEPT ![Target] = o]
    /\ bytes' = [bytes EXCEPT ![o] = c]
    /\ Elsewhere /\ UNCHANGED <<temp, donor, flagged, intent>>

\* The target or a suspect set aside is deleted or renamed away.
Vanish(n) ==
    /\ dir[n] # None
    /\ dir' = [dir EXCEPT ![n] = None]
    /\ Elsewhere /\ UNCHANGED <<temp, bytes, donor, flagged, intent>>

\* A temporary is deleted, or another file is put in its place.
Substitute(e, o) ==
    /\ temp[e] # None
    /\ o = None \/ ~Named(o)
    /\ temp' = [temp EXCEPT ![e] = o]
    /\ Elsewhere /\ UNCHANGED <<dir, bytes, donor, flagged, intent>>

\* A file of the directory, a secured temporary included, is written in place.
Overwrite(o, c) ==
    /\ c # bytes[o] /\ Named(o)
    /\ bytes' = [bytes EXCEPT ![o] = c]
    /\ Elsewhere /\ UNCHANGED <<dir, temp, donor, flagged, intent>>

\* The staged donor evidence is damaged or removed.
Spoil(r) ==
    /\ r \in donor
    /\ donor' = donor \ {r}
    /\ Elsewhere /\ UNCHANGED <<dir, temp, bytes, flagged, intent>>

\* Verify reconciles the File's health with what is at the target; what does
\* not decode is unreadable, which is not flagged.
Verify ==
    /\ writer = None
    /\ dir[Target] # None
    /\ \/ flagged' = (bytes[dir[Target]] # Expected)
       \/ flagged' = FALSE
    /\ Elsewhere /\ UNCHANGED <<dir, temp, bytes, donor, intent>>

\* A later mismatch decision supersedes the intent to recover.
Reconsider ==
    /\ writer = None
    /\ intent /\ intent' = FALSE
    /\ Elsewhere /\ UNCHANGED <<dir, temp, bytes, donor, flagged>>

-----------------------------------------------------------------------------
(* Readiness, preview, authorization.                                      *)

\* The target as a readiness observes it, with its identity.
Observed ==
    [obj |-> dir[Target],
     bytes |-> IF dir[Target] = None THEN None ELSE bytes[dir[Target]]]

\* build_target_replacement_readiness succeeds for r.
ReadinessHolds(r) ==
    /\ flagged /\ intent
    /\ Observed.bytes # Expected
    /\ r \in donor

RecordReadiness(r) ==
    /\ writer = None
    /\ ready[r] = None
    /\ ReadinessHolds(r)
    /\ ready' = [ready EXCEPT ![r] = Observed]
    /\ UNCHANGED <<windows, dir, temp, bytes, donor, flagged, intent, plan, attempts,
                   result, writer, pc, fd, moved, calm, envs>>

\* restore_missing_recorded_target, or else replace_existing_target.
Restores(e) == ready[plan[e]].obj = None

Reviewed(e) == ready[plan[e]].bytes

Unresolved == {e \in attempts : result[e] = None}

Unused(e, r) == e \notin attempts /\ \A x \in attempts : plan[x] # r

\* _build_plan succeeds: no other attempt is unresolved, and the readiness can
\* be rebuilt exactly as it was recorded.
PlanHolds(e, r) ==
    /\ ready[r] # None
    /\ Unresolved \subseteq {e}
    /\ ReadinessHolds(r)
    /\ Observed = ready[r]
    /\ ready[r].obj # None => windows

Preview(e, r) ==
    /\ pc[e] = "idle"
    /\ Unused(e, r) /\ PlanHolds(e, r)
    /\ plan' = [plan EXCEPT ![e] = r]
    /\ pc' = [pc EXCEPT ![e] = "previewed"]
    /\ UNCHANGED <<windows, dir, temp, bytes, donor, catalogue, writer, fd, moved,
                   calm, envs>>

\* Fault: the preview is trusted, only the execution id is looked up.
AuthorizeUnproved(e) ==
    /\ pc[e] = "previewed" /\ writer = None
    /\ e \notin attempts
    /\ attempts' = attempts \cup {e}
    /\ pc' = [pc EXCEPT ![e] = "authorized"]
    /\ UNCHANGED <<windows, dir, temp, bytes, donor, flagged, intent, ready, plan,
                   result, writer, fd, moved, calm, envs>>

\* The confirmed preview is rebuilt under the write lock and becomes an
\* attempt, committed before anything is touched.
Authorize(e) ==
    /\ pc[e] = "previewed" /\ writer = None
    /\ Unused(e, plan[e]) /\ PlanHolds(e, plan[e])
    /\ attempts' = attempts \cup {e}
    /\ pc' = [pc EXCEPT ![e] = "authorized"]
    /\ UNCHANGED <<windows, dir, temp, bytes, donor, flagged, intent, ready, plan,
                   result, writer, fd, moved, calm, envs>>

-----------------------------------------------------------------------------
(* Execution.                                                              *)

\* A step of e inside its transaction that leaves the directory alone.
At(e, from, to) ==
    /\ pc[e] = from
    /\ pc' = [pc EXCEPT ![e] = to]
    /\ UNCHANGED <<windows, dir, donor, catalogue, plan, writer, moved, calm, envs>>

\* A step of e that renames something in the directory.
Rename(e, from, to, d) ==
    /\ pc[e] = from
    /\ pc' = [pc EXCEPT ![e] = to]
    /\ dir' = d
    /\ moved' = [moved EXCEPT ![e] = TRUE]
    /\ calm' = [calm EXCEPT ![e] = TRUE]
    /\ UNCHANGED <<windows, bytes, donor, catalogue, plan, fd, envs>>

\* The second transaction: everything is proved once more under the lock.
Begin(e) ==
    /\ pc[e] = "authorized" /\ writer = None
    /\ PlanHolds(e, plan[e])
    /\ writer' = e
    /\ pc' = [pc EXCEPT ![e] = IF Restores(e) THEN "copy" ELSE "open"]
    /\ UNCHANGED <<windows, dir, temp, bytes, donor, catalogue, plan, fd, moved, calm,
                   envs>>

BeginRefused(e) ==
    /\ pc[e] = "authorized" /\ writer = None
    /\ ~PlanHolds(e, plan[e])
    /\ result' = [result EXCEPT ![e] = "aborted"]
    /\ pc' = [pc EXCEPT ![e] = "done"]
    /\ UNCHANGED <<windows, dir, temp, bytes, donor, flagged, intent, ready, plan,
                   attempts, writer, fd, moved, calm, envs>>

\* Open the exact target and hash it through the handle.
OpenTarget(e) ==
    /\ At(e, "open", "park") /\ UNCHANGED <<bytes, temp>>
    /\ dir[e] = None
    /\ Observed = ready[plan[e]]
    /\ fd' = [fd EXCEPT ![e] = dir[Target]]

\* Set the suspect aside by its handle, replacing nothing.
Park(e) ==
    /\ dir[Target] = fd[e] /\ dir[e] = None
    /\ Rename(e, "park", "parked", [dir EXCEPT ![Target] = None, ![e] = fd[e]])
    /\ UNCHANGED <<writer, temp>>

ProveParked(e) ==
    /\ At(e, "parked", "copy") /\ UNCHANGED <<bytes, fd, temp>>
    /\ dir[Target] = None
    /\ bytes[fd[e]] = Reviewed(e)

\* Create the secured temporary beside the target and copy the donor into it,
\* hashing both.
Copy(e) ==
    /\ At(e, "copy", "install") /\ UNCHANGED fd
    /\ plan[e] \in donor
    /\ temp' = [temp EXCEPT ![e] = e]
    /\ bytes' = [bytes EXCEPT ![e] = Expected]

\* What a rename to the target takes from the temporary's name: Windows goes
\* by the handle, elsewhere it is whatever is there since it was last looked at.
Source(e) == IF windows THEN e ELSE temp[e]

\* The name is used up by that.
Taken(e) == [temp EXCEPT ![e] = IF temp[e] = Source(e) THEN None ELSE temp[e]]

\* Fault: the destination is replaced.
InstallReplacing(e) ==
    /\ Source(e) = e
    /\ Rename(e, "install", "attest", [dir EXCEPT ![Target] = e])
    /\ temp' = Taken(e) /\ UNCHANGED writer

\* Acquire the target name atomically, without replacing.
Install(e) ==
    /\ dir[Target] = None /\ Source(e) = e
    /\ Rename(e, "install", "attest", [dir EXCEPT ![Target] = e])
    /\ temp' = Taken(e) /\ UNCHANGED writer

\* Fault: a failure after the name was acquired counts as any other failure.
InstallLostUnnoticed(e) ==
    /\ dir[Target] = None /\ Source(e) # None
    /\ \E o \in IF windows THEN {e, None} ELSE {temp[e]} :
        Rename(e, "install", IF Restores(e) THEN "aborted" ELSE "rollback",
               [dir EXCEPT ![Target] = o])
    /\ temp' = Taken(e) /\ UNCHANGED writer

\* The name is acquired but a later step of the installation fails, as it does
\* when the temporary was another file: Windows deletes the exact object again
\* if it can, elsewhere what was moved stays.
InstallLost(e) ==
    /\ dir[Target] = None /\ Source(e) # None
    /\ \E o \in IF windows THEN {e, None} ELSE {temp[e]} :
        Rename(e, "install", IF Restores(e) THEN "dead" ELSE "rollback",
               [dir EXCEPT ![Target] = o])
    /\ temp' = Taken(e)
    /\ writer' = IF pc'[e] = "dead" THEN None ELSE writer

\* What is at the temporary's name when e fails: it may have been created, and
\* Windows deletes the exact object if it can; elsewhere it is retained.
Debris(e) ==
    {temp[e]} \cup (IF pc[e] = "copy" THEN {e} ELSE {})
              \cup (IF pc[e] = "install" /\ windows /\ temp[e] = e THEN {None} ELSE {})

Abandoned(e) == \E o \in Debris(e) : temp' = [temp EXCEPT ![e] = o]

\* An ordinary error before any transition aborts, after parking rolls back.
Refuse(e) ==
    \/ /\ At(e, "open", "aborted") /\ UNCHANGED <<bytes, fd, temp>>
    \/ \E s \in {"parked", "copy", "install"} :
        /\ At(e, s, IF Restores(e) THEN "aborted" ELSE "rollback")
        /\ Abandoned(e) /\ UNCHANGED <<bytes, fd>>

\* Open the target pathname: it is the installed object with its bytes.
Attest(e) ==
    /\ At(e, "attest", IF Restores(e) THEN "placed" ELSE "retain")
    /\ UNCHANGED <<bytes, fd, temp>>
    /\ dir[Target] = e /\ bytes[e] = Expected

\* Fault: the retained suspect is not hashed again.
RetainUnproved(e) == At(e, "retain", "placed") /\ UNCHANGED <<bytes, fd, temp>>

Retain(e) ==
    /\ At(e, "retain", "placed") /\ UNCHANGED <<bytes, fd, temp>>
    /\ bytes[fd[e]] = Reviewed(e)

\* Before the reverse rename: handle and pathname prove the reviewed suspect,
\* and the target is still absent.
ProveReversible(e) ==
    /\ At(e, "rollback", "reverse") /\ UNCHANGED <<bytes, fd, temp>>
    /\ dir[Target] = None /\ dir[e] = fd[e]
    /\ bytes[fd[e]] = Reviewed(e)

Reverse(e) ==
    /\ dir[Target] = None /\ dir[e] = fd[e]
    /\ Rename(e, "reverse", "reattest", [dir EXCEPT ![Target] = fd[e], ![e] = None])
    /\ UNCHANGED <<writer, temp>>

\* After it: handle and pathname prove the reviewed suspect again.
Reattest(e) ==
    /\ At(e, "reattest", "restored") /\ UNCHANGED <<bytes, fd, temp>>
    /\ dir[Target] = fd[e]
    /\ bytes[fd[e]] = Reviewed(e)

\* The immutable result, and the commit that releases the lock.
Record(e) ==
    /\ pc[e] \in {"placed", "restored", "aborted"}
    /\ result' = [result EXCEPT ![e] = pc[e]]
    /\ pc' = [pc EXCEPT ![e] = "done"]
    /\ writer' = None
    /\ UNCHANGED <<windows, dir, temp, bytes, donor, flagged, intent, ready, plan,
                   attempts, fd, moved, calm, envs>>

Ended == {"idle", "previewed", "done", "dead"}

\* Fault: the exception leaves without a rollback.
GiveUpLocked(e) ==
    /\ pc[e] \notin Ended
    /\ pc' = [pc EXCEPT ![e] = "dead"] /\ Abandoned(e)
    /\ UNCHANGED <<windows, dir, bytes, donor, catalogue, plan, writer, fd,
                   moved, calm, envs>>

\* An exception that proves nothing, an interrupt or the death of the process:
\* the transaction is rolled back and the attempt stays unresolved.
GiveUp(e) ==
    /\ pc[e] \notin Ended
    /\ pc' = [pc EXCEPT ![e] = "dead"] /\ Abandoned(e)
    /\ writer' = IF writer = e THEN None ELSE writer
    /\ UNCHANGED <<windows, dir, bytes, donor, catalogue, plan, fd, moved, calm, envs>>

-----------------------------------------------------------------------------
Execute(e) ==
    \/ Begin(e) \/ BeginRefused(e)
    \/ OpenTarget(e) \/ Park(e) \/ ProveParked(e) \/ Copy(e)
    \/ Install(e) \/ InstallLost(e) \/ Refuse(e) \/ Attest(e) \/ Retain(e)
    \/ ProveReversible(e) \/ Reverse(e) \/ Reattest(e)
    \/ Record(e) \/ GiveUp(e)

Others ==
    \/ \E o \in Strangers, c \in Contents : Arrive(o, c)
    \/ \E n \in Names : Vanish(n)
    \/ \E e \in Execs, o \in Strangers \cup {None} : Substitute(e, o)
    \/ \E o \in Objects, c \in Contents : Overwrite(o, c)
    \/ \E r \in Readinesses : Spoil(r)
    \/ Verify \/ Reconsider

Next ==
    \/ Others
    \/ \E r \in Readinesses : RecordReadiness(r)
    \/ \E e \in Execs : \/ \E r \in Readinesses : Preview(e, r)
                        \/ Authorize(e)
                        \/ Execute(e)

Spec == Init /\ [][Next]_vars

\* An execution that was started runs on to its end or dies; previews and
\* confirmations are a person's to make.
FairSpec == Spec /\ \A e \in Execs : WF_vars(Execute(e))

-----------------------------------------------------------------------------
(* Properties.                                                             *)

States == {"idle", "previewed", "authorized", "open", "park", "parked", "copy",
           "install", "attest", "retain", "rollback", "reverse", "reattest",
           "placed", "restored", "aborted", "done", "dead"}

\* Type correctness.
TypeOK ==
    /\ windows \in BOOLEAN /\ flagged \in BOOLEAN /\ intent \in BOOLEAN
    /\ dir \in [Names -> Objects \cup {None}] /\ temp \in [Execs -> Objects \cup {None}]
    /\ bytes \in [Objects -> Contents]
    /\ donor \subseteq Readinesses
    /\ ready \in [Readinesses -> Evidence \cup {None}]
    /\ plan \in [Execs -> Readinesses \cup {None}]
    /\ attempts \subseteq Execs
    /\ result \in [Execs -> {None, "placed", "restored", "aborted"}]
    /\ writer \in Execs \cup {None}
    /\ pc \in [Execs -> States]
    /\ fd \in [Execs -> Objects \cup {None}]
    /\ moved \in [Execs -> BOOLEAN] /\ calm \in [Execs -> BOOLEAN]
    /\ envs \in Nat

\* A readiness is spent on one attempt, and never are two attempts on the
\* target unresolved: an attempt whose outcome is unknown blocks every other,
\* however many previews of however many readinesses people hold.
OneAttempt ==
    /\ \A e, x \in attempts : plan[e] = plan[x] => e = x
    /\ \A e, x \in Unresolved : e = x

\* An attempt recorded as aborted before the transition has renamed nothing at
\* the target's name or from it, not even for a moment: its own file is at no
\* name but its temporary's, and that is all it can have left in the
\* photographs' directory (where POSIX keeps it).
AbortedUntouched ==
    \A e \in Execs : result[e] = "aborted" =>
        ~moved[e] /\ (\A n \in Names : dir[n] # e) /\ \A x \in Execs \ {e} : temp[x] # e

\* No step of an execution takes a file of another program out of the
\* directory: neither a late arrival at the target, nor the suspect, nor what
\* was put in the place of its temporary.
StrangersSurvive == [][pc' # pc => \A o \in Strangers : Named(o) => Named(o)']_vars

\* An attempt is recorded as placed only if, unless others acted since the
\* installation, the target is the installed object with the expected bytes,
\* and the suspect it displaced is the reviewed object with the reviewed bytes.
PlacedIsExpected ==
    [][\A e \in Execs :
        result[e] # "placed" /\ result'[e] = "placed" /\ calm[e] =>
            /\ dir[Target] = e /\ bytes[e] = Expected
            /\ fd[e] = ready[plan[e]].obj
            /\ fd[e] # None => bytes[fd[e]] = Reviewed(e)]_vars

\* An attempt is recorded as restored only if, unless others acted since the
\* reverse rename, the target is the reviewed object with the reviewed bytes.
RestoredIsReviewed ==
    [][\A e \in Execs :
        result[e] # "restored" /\ result'[e] = "restored" /\ calm[e] =>
            /\ dir[Target] = ready[plan[e]].obj
            /\ bytes[dir[Target]] = Reviewed(e)]_vars

\* The two results that speak of the target are true when they are recorded.
RecordedIsTrue == PlacedIsExpected /\ RestoredIsReviewed

\* The directory is changed only while the File is still flagged and the
\* human intent to recover still stands, whatever Verify or reviewers did
\* between preview, confirmation and execution.
MovesUnderIntent ==
    [][pc' # pc /\ dir' # dir => flagged /\ intent]_vars

\* Every attempt comes to an end and gives the catalogue's write lock back.
AttemptEnds ==
    \A e \in Execs : e \in attempts ~> pc[e] \in Ended /\ writer # e

=============================================================================
