--------------------------- MODULE PhotoIdentity ---------------------------
(* Which logical Photo every File belongs to, and the three reviewed        *)
(* operations that change it: the split of a Photo whose Files hold         *)
(* different bytes (identity_resolution.py), the merge of two Photos that   *)
(* hold the same bytes (identity_merge.py, competing_identity.py), and the  *)
(* recovery that undoes a split. Each is planned by a session from what it  *)
(* reads, shown to a person, and executed later under BEGIN IMMEDIATE: the  *)
(* plan is made again, compared with the reviewed one, and the bytes of     *)
(* every File concerned are read before and after the change.               *)
(*                                                                          *)
(* Sessions are the connections of the desktop and of commands. Between any *)
(* two of their steps the other sessions, the scanner, Verify and programs  *)
(* that rewrite photographs may act. What people curate over Photos         *)
(* (collections, lineage, the audit) is declared here because a plan        *)
(* depends on it, and changed in Curation.                                  *)
EXTENDS Naturals, Sequences, FiniteSets

CONSTANTS
    Files,      \* File rows the catalogue may get
    Photos,     \* ids of logical Photos, given out in order
    Libs,       \* libraries
    Albums, Tags, Events,   \* collections; an Event is named by its cluster
    LibOf,      \* the library of each File and collection
    Contents,   \* bytes of a photograph
    Sessions,   \* connections that review and curate
    None,       \* no Photo, no bytes, nobody
    MaxOps,     \* bound: the time when the last operation is stamped
    MaxEnv,     \* bound on what other programs do
    MaxSteps,   \* bound on both together
    MaxUndo     \* bound: how much later a recovery may still begin

Shelves == Albums \cup Tags
Collections == Shelves \cup Events

ASSUME IdentityAssumption ==
    /\ Photos \subseteq Nat /\ MaxOps \in Nat /\ MaxEnv \in Nat /\ MaxSteps \in Nat /\ MaxUndo \in Nat
    /\ LibOf \in [Files \cup Collections -> Libs]
    /\ None \notin Photos \cup Contents \cup Sessions \cup Files
    /\ Events \cap Shelves = {}

VARIABLES
    libs,       \* rows of libraries
    photos,     \* rows of photos
    issued,     \* ids ever given to a Photo
    photoOf,    \* files.photo_id, None without a row
    current,    \* the current revision of each File: its number and bytes
    sound,      \* present, healthy and coherent: current bytes are verified
    disk,       \* the bytes at the File's path
    proposed,   \* Files and Photos that stored recovery proposals refer to
    members,    \* members of every collection that exists
    shown,      \* how it is shown: its cover, and its stored order
    label,      \* its name, note, description, context
    history,    \* organization_history and event_history, in commit order
    lineage,    \* pairs of photo_lineage
    lineageLog, \* rows of photo_lineage_history
    verdicts,   \* suggestions that were accepted or dismissed
    splits,     \* rows of identity_resolution_history
    recovered,  \* those that have a row in ..._recovery_history
    merges,     \* rows of identity_merge_history
    lock,       \* the session in a write transaction that spans steps
    task,       \* what every session is doing
    clock,      \* times taken by _now()
    envs        \* what other programs did

identity == <<libs, photos, issued, photoOf, splits, recovered, merges>>
evidence == <<current, sound, proposed>>
kinship  == <<lineage, lineageLog>>
curated  == <<members, shown, label, history, kinship, verdicts>>
vars == <<identity, evidence, disk, curated, lock, task, clock, envs>>

Idle == [at |-> "idle"]

Timely(op) ==
    LET more == IF op = "recover" THEN MaxUndo ELSE 0
    IN  clock < MaxOps + more /\ clock + envs < MaxSteps + more

Rows == {f \in Files : photoOf[f] # None}
FilesOf(p) == {f \in Files : photoOf[f] = p}

\* verified_current_sha256_sql: expected bytes count only while they stand.
Verified(f) == IF photoOf[f] # None /\ sound[f] THEN current[f].sha ELSE None
AllVerified(S) == \A f \in S : Verified(f) # None
Holding(c) == {f \in Files : Verified(f) = c}

\* A Photo is represented in a library by a File there.
Represented(p, l) == \E f \in FilesOf(p) : LibOf[f] = l

\* A cover goes with its membership, an order with any change of members.
Plain == [cover |-> None, order |-> None]
ShownWithout(c, gone) ==
    IF members[c] \cap gone = {} THEN shown[c]
    ELSE [Plain EXCEPT !.cover = IF shown[c].cover \in gone THEN None ELSE shown[c].cover]

ShelvesWith(p) == {c \in Shelves \cap DOMAIN members : p \in members[c]}

(***************************************************************************)
(* Plans                                                                    *)
(***************************************************************************)
Plan(op, l, from, to, c, files) ==
    [op |-> op, lib |-> l, from |-> from, to |-> to, sha |-> c, files |-> files]

\* Mutant: memberships are not looked at.
SplittableStranding(x) ==
    /\ x.files # {} /\ x.files # FilesOf(x.from)
    /\ AllVerified(FilesOf(x.from))
    /\ Holding(x.sha) = x.files
    /\ \A f \in x.files : LibOf[f] = x.lib

\* A split takes one whole cohort of verified equal bytes, all in the library,
\* out of a Photo that keeps other Files; no other Photo may hold the bytes,
\* and no membership may be left without a File in its library.
Splittable(x) ==
    /\ x.files # {} /\ x.files # FilesOf(x.from)
    /\ AllVerified(FilesOf(x.from))
    /\ Holding(x.sha) = x.files
    /\ \A f \in x.files : LibOf[f] = x.lib
    /\ \/ \E f \in FilesOf(x.from) \ x.files : LibOf[f] = x.lib
       \/ \A c \in ShelvesWith(x.from) : LibOf[c] # x.lib

SplitPlans ==
    {x \in {Plan("split", l, p, None, c, FilesOf(p) \cap Holding(c)) :
                l \in libs, p \in photos, c \in Contents} : Splittable(x)}

\* What would be lost or need reconciling if the Photo were retired.
Curated(p) ==
    \/ ShelvesWith(p) # {}
    \/ \E i \in DOMAIN history : history[i].of \in Shelves /\ p \in history[i].items
Related(p) == \E r \in lineageLog : p \in {r.parent, r.child}
Resolved(p) ==
    \/ \E r \in splits : p \in {r.src, r.new}
    \/ \E r \in merges : p \in {r.survivor, r.retired}

\* Exactly two Photos of the library hold the bytes, and nothing else; neither
\* has a history of its own.
Mergeable(x) ==
    LET both == FilesOf(x.from) \cup FilesOf(x.to) IN
    /\ x.from # x.to
    /\ {photoOf[f] : f \in {g \in Holding(x.sha) : LibOf[g] = x.lib}} = {x.from, x.to}
    /\ \A f \in both : Verified(f) = x.sha /\ LibOf[f] = x.lib
    /\ \A p \in {x.from, x.to} : ~Curated(p) /\ ~Related(p) /\ ~Resolved(p)

MergePlans ==
    {x \in {Plan("merge", l, p, q, c, FilesOf(p)) :
                l \in libs, p \in photos, q \in photos, c \in Contents} : Mergeable(x)}

\* What happened to either Photo of the split after it, by the times recorded.
LaterChange(r) ==
    LET pair == {r.src, r.new} IN
    \/ \E i \in DOMAIN history :
          /\ history[i].of \in Shelves /\ history[i].at > r.at
          /\ history[i].items \cap pair # {}
    \/ \E e \in lineageLog : e.at > r.at /\ {e.parent, e.child} \cap pair # {}
    \/ \E o \in splits \ {r} : o.at > r.at /\ {o.src, o.new} \cap pair # {}

\* Mutant: Files that joined the new Photo are not noticed.
RecoverableGrown(r) ==
    /\ r \notin recovered
    /\ {r.src, r.new} \subseteq photos
    /\ FilesOf(r.src) # {} /\ r.files \subseteq FilesOf(r.new)
    /\ \A f \in r.files : LibOf[f] = r.lib /\ Verified(f) = r.sha
    /\ AllVerified(FilesOf(r.src))
    /\ ~LaterChange(r)
    /\ \A f \in Holding(r.sha) : photoOf[f] \in {r.src, r.new}

\* Mutant: what happened to the Photos since is not looked at.
RecoverableLater(r) ==
    /\ r \notin recovered
    /\ {r.src, r.new} \subseteq photos
    /\ FilesOf(r.src) # {} /\ FilesOf(r.new) = r.files
    /\ \A f \in r.files : LibOf[f] = r.lib /\ Verified(f) = r.sha
    /\ AllVerified(FilesOf(r.src))
    /\ \A f \in Holding(r.sha) : photoOf[f] \in {r.src, r.new}

\* A split can be undone while its Photo holds exactly the Files it got, all
\* still verified with its bytes, and nothing happened to either Photo.
Recoverable(r) ==
    /\ r \notin recovered
    /\ {r.src, r.new} \subseteq photos
    /\ FilesOf(r.src) # {} /\ FilesOf(r.new) = r.files
    /\ \A f \in r.files : LibOf[f] = r.lib /\ Verified(f) = r.sha
    /\ AllVerified(FilesOf(r.src))
    /\ ~LaterChange(r)
    /\ \A f \in Holding(r.sha) : photoOf[f] \in {r.src, r.new}

RecoveryPlans ==
    {Plan("recover", r.lib, r.new, r.src, r.sha, r.files) :
        r \in {o \in splits : Recoverable(o)}}

Plans == SplitPlans \cup MergePlans \cup RecoveryPlans

\* The Files a plan is about, and the fingerprint of their catalogue state.
Concerned(x) == FilesOf(x.from) \cup (IF x.to = None THEN {} ELSE FilesOf(x.to))
Fingerprint(x) == [f \in Concerned(x) |-> <<photoOf[f], current[f], sound[f]>>]

\* Mutant: what the catalogue says is believed.
AttestedByCatalogue(S) == AllVerified(S)

\* require_expected_physical_bytes. The Files are read one after another in
\* the program; here all are read at one moment.
Attested(S) == \A f \in S : disk[f] = Verified(f)

(***************************************************************************)
(* Review and execution                                                     *)
(***************************************************************************)
Review(s) ==
    /\ task[s] = Idle
    /\ \E x \in Plans :
          task' = [task EXCEPT ![s] = [at |-> "reviewed", plan |-> x, print |-> Fingerprint(x)]]
    /\ UNCHANGED <<identity, evidence, disk, curated, lock, clock, envs>>

\* BEGIN IMMEDIATE; the plan is made again and must be the reviewed one.
Begin(s) ==
    /\ task[s].at = "reviewed" /\ lock = None /\ Timely(task[s].plan.op)
    /\ LET x == task[s].plan IN
       /\ x \in Plans /\ Fingerprint(x) = task[s].print
       /\ Attested(Concerned(x))
       /\ task' = [task EXCEPT ![s] = [at |-> "begun", plan |-> x,
                                       print |-> task[s].print, now |-> clock]]
    /\ lock' = s /\ clock' = clock + 1
    /\ UNCHANGED <<identity, evidence, disk, curated, envs>>

\* The second reading, after the change and before it is committed.
Reattest(s) ==
    /\ task[s].at = "begun"
    /\ Attested(Concerned(task[s].plan))
    /\ task' = [task EXCEPT ![s] = [at |-> "attested", plan |-> task[s].plan,
                                    print |-> task[s].print, now |-> task[s].now, late |-> {}]]
    /\ UNCHANGED <<identity, evidence, disk, curated, lock, clock, envs>>

Reassigned(x, p) == [f \in Files |-> IF f \in x.files THEN p ELSE photoOf[f]]

Fresh == {p \in Photos \ issued : \A q \in Photos \ issued : p <= q}

SplitCommit(s) ==
    LET x == task[s].plan IN
    /\ task[s].at = "attested" /\ x.op = "split"
    /\ \E p \in Fresh :
          /\ photos' = photos \cup {p} /\ issued' = issued \cup {p}
          /\ photoOf' = Reassigned(x, p)
          /\ splits' = splits \cup
                {[at |-> task[s].now, lib |-> x.lib, src |-> x.from, new |-> p, sha |-> x.sha,
                  files |-> x.files, kin |-> FilesOf(x.from) \ x.files, before |-> Len(history)]}
    /\ task' = [task EXCEPT ![s] = Idle] /\ lock' = None
    /\ UNCHANGED <<libs, recovered, merges, evidence, disk, curated, clock, envs>>

\* DELETE FROM photos: memberships, covers and lineage go with the row, and it
\* fails if a recovery proposal refers to it (migration 035).
Retire(p) ==
    /\ \A r \in proposed : r.photo # p
    /\ photos' = photos \ {p}
    /\ members' = [c \in DOMAIN members |-> members[c] \ {p}]
    /\ shown' = [c \in DOMAIN members |-> ShownWithout(c, {p})]
    /\ lineage' = {e \in lineage : p \notin {e[1], e[2]}}

RecoveryCommit(s) ==
    LET x == task[s].plan IN
    /\ task[s].at = "attested" /\ x.op = "recover"
    /\ photoOf' = Reassigned(x, x.to)
    /\ Retire(x.from)
    /\ recovered' = recovered \cup {r \in splits : r.new = x.from}
    /\ task' = [task EXCEPT ![s] = Idle] /\ lock' = None
    /\ UNCHANGED <<libs, issued, splits, merges, evidence, disk, label, history,
                   lineageLog, verdicts, clock, envs>>

MergeCommit(s) ==
    LET x == task[s].plan IN
    /\ task[s].at = "attested" /\ x.op = "merge"
    /\ photoOf' = Reassigned(x, x.to)
    /\ Retire(x.from)
    /\ merges' = merges \cup {[lib |-> x.lib, survivor |-> x.to, retired |-> x.from]}
    /\ task' = [task EXCEPT ![s] = Idle] /\ lock' = None
    /\ UNCHANGED <<libs, issued, splits, recovered, evidence, disk, label, history,
                   lineageLog, verdicts, clock, envs>>

\* A stale plan, a failed reading, any exception, the dialog or the process
\* closing: the transaction, if there is one, is rolled back.
Abandon(s) ==
    /\ task[s] # Idle
    /\ task' = [task EXCEPT ![s] = Idle]
    /\ lock' = IF lock = s THEN None ELSE lock
    /\ UNCHANGED <<identity, evidence, disk, curated, clock, envs>>

(***************************************************************************)
(* The rest of the catalogue and other programs                             *)
(***************************************************************************)
\* Another program rewrites or removes a photograph.
Edit ==
    /\ envs < MaxEnv /\ clock + envs < MaxSteps /\ envs' = envs + 1
    /\ \E f \in Files, c \in Contents \cup {None} :
          /\ disk[f] # c
          /\ disk' = [disk EXCEPT ![f] = c]
          /\ task' = [s \in Sessions |->
                IF task[s].at = "attested" THEN [task[s] EXCEPT !.late = @ \cup {f}] ELSE task[s]]
    /\ UNCHANGED <<identity, evidence, curated, lock, clock>>

\* Verify finds the bytes as expected, or not.
Verify(f) ==
    /\ lock = None /\ f \in Rows
    /\ sound' = [sound EXCEPT ![f] = disk[f] = current[f].sha]
    /\ sound' # sound
    /\ UNCHANGED <<identity, current, proposed, disk, curated, lock, task, clock, envs>>

\* New bytes at the File's path become its current revision, by a scan or by
\* a reviewed adoption; its Photo stays.
Adopt(f) ==
    /\ lock = None /\ f \in Rows /\ disk[f] \notin {None, current[f].sha}
    /\ current' = [current EXCEPT ![f] = [n |-> @.n + 1, sha |-> disk[f]]]
    /\ sound' = [sound EXCEPT ![f] = TRUE]
    /\ UNCHANGED <<identity, proposed, disk, curated, lock, task, clock, envs>>

\* A scan meets a photograph it has no row for: a copy joins the Photo of a
\* File of the library with its bytes, anything else is a new Photo.
Appear(f) ==
    LET twins == {g \in Holding(disk[f]) : LibOf[g] = LibOf[f]} IN
    /\ lock = None /\ f \notin Rows /\ disk[f] # None /\ LibOf[f] \in libs
    /\ \E p \in IF twins = {} THEN Fresh ELSE {photoOf[g] : g \in twins} :
          /\ photoOf' = [photoOf EXCEPT ![f] = p]
          /\ photos' = photos \cup {p} /\ issued' = issued \cup {p}
    /\ current' = [current EXCEPT ![f] = [n |-> @.n + 1, sha |-> disk[f]]]
    /\ sound' = [sound EXCEPT ![f] = TRUE]
    /\ UNCHANGED <<libs, splits, recovered, merges, proposed, disk, curated, lock,
                   task, clock, envs>>

\* A recovery is planned for a flagged File from a verified copy elsewhere.
Propose(f) ==
    /\ lock = None /\ f \in Rows /\ ~sound[f]
    /\ \E d \in Holding(current[f].sha) :
          proposed' = proposed \cup {[file |-> g, photo |-> photoOf[g]] : g \in {f, d}}
    /\ proposed' # proposed
    /\ UNCHANGED <<identity, current, sound, disk, curated, lock, task, clock, envs>>

=============================================================================
