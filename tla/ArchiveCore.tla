----------------------------- MODULE ArchiveCore -----------------------------
(***************************************************************************)
(* Scan, Verify and human mismatch resolution over one catalogued Library, *)
(* while the photographs on disk are edited, moved, corrupted, deleted and *)
(* the volume is unplugged by somebody else.                               *)
(*                                                                         *)
(* A scan is a thread of steps, because what it reads it reads at          *)
(* different times: it opens a session, SELECTs the rows (in autocommit:   *)
(* no transaction is open yet), takes the write lock at the first          *)
(* directory it records, walks the tree path by path, and reconciles the   *)
(* inventory with the rows it SELECTed.  Everything from the lock to the   *)
(* commit is one SQLite transaction: `tx` is its working copy, `db` what   *)
(* every other connection sees, and an exception returns to `db`.          *)
(***************************************************************************)
EXTENDS Catalogue

CONSTANTS
    Scanners,      \* processes that may scan (the GUI worker, the CLI)
    Serial,        \* TRUE: the desktop busy gate, one operation at a time
    Reviews,       \* TRUE: mismatch resolution is exercised
    ReadFaults,    \* TRUE: a listing or a read of a good file may fail
    Bad,           \* bytes on disk that do not decode
    Absent,        \* no file on disk
    Stamp,         \* [Contents -> ...]: the size and mtime of a file on disk
    Occupied,      \* paths that may have a file at first
    Legacy,        \* [FileIds -> Paths or None]: Phase-1 rows without a hash
    MaxEnv, MaxOps, MaxRev   \* bounds: disk changes, operations, revisions

\* The process name of Verify; one Library is verified by one process.
Verifier == "verify"
\* ... and of the reviewer who executes a mismatch resolution.
Reviewer == "reviewer"

ASSUME ValuesAssumption ==
    /\ Bad \notin Contents
    /\ Absent \notin Contents \cup {Bad}

ASSUME ProcessAssumption ==
    /\ Verifier \notin Scanners /\ Reviewer \notin Scanners
    /\ None \notin Scanners \cup {Verifier, Reviewer}

ASSUME LegacyAssumption == Legacy \in [FileIds -> Paths \cup {None}]

Actions == {"adopt", "retain", "unresolved"}

PlanState ==
    [file : FileIds, action : Actions,
     evidence : [row : Row, expected : Revision, obs : Nat,
                 bytes : Contents \cup {Bad, Absent}],
     touched : SUBSET Paths]

\* A reviewer who holds no plan is told from every plan.
ASSUME PlanAssumption == None \notin PlanState

VARIABLES
    disk,          \* [Paths -> bytes]: the Library's files, never ours to write
    online,        \* the Library root is an accessible directory
    db,            \* the committed catalogue
    tx,            \* the write transaction's view of it (= db when none is open)
    complete,      \* libraries.source_tree_identity_complete
    writer,        \* who holds SQLite's write lock
    sc,            \* one scan per scanner
    vf,            \* the Verify run
    plan,          \* the mismatch-resolution plan a reviewer holds; touched:
                   \* history, the paths that changed since it was last proved
    decided,       \* how often the plan's decision_id has been executed
    unsettled,     \* history: Files Verify flagged whose mismatch is not settled
    envs, ops      \* history: disk changes and operations so far

vars == <<disk, online, db, tx, complete, writer, sc, vf, plan, decided,
          unsettled, envs, ops>>

Bytes == Contents \cup {Bad}
Idle == [pc |-> "idle", snap |-> None, todo |-> {}, seen |-> {},
         inv |-> [p \in Paths |-> None], errors |-> FALSE,
         matched |-> {}, fresh |-> {}, touched |-> {}]
VIdle == [pc |-> "idle", todo |-> {}, touched |-> {}, cut |-> FALSE]

LegacyCatalogue ==
    [row |-> [f \in FileIds |->
                IF Legacy[f] = None THEN UnbornRow
                ELSE [presence |-> "present", health |-> "ok", path |-> Legacy[f],
                      sha |-> None, photo |-> f, cur |-> 1, lib |-> FALSE]],
     rev |-> [f \in FileIds |->
                IF Legacy[f] = None THEN <<>>
                ELSE <<[sha |-> None, superseded |-> FALSE]>>],
     obs |-> [f \in FileIds |-> 0]]

Init ==
    /\ disk \in [Paths -> Bytes \cup {Absent}]
    /\ \A p \in Paths \ Occupied : disk[p] = Absent
    /\ online = TRUE
    /\ db = LegacyCatalogue
    /\ tx = LegacyCatalogue
    /\ complete = FALSE
    /\ writer = None
    /\ sc = [s \in Scanners |-> Idle]
    /\ vf = VIdle
    /\ plan = None
    /\ decided = 0
    /\ unsettled = {}
    /\ envs = 0
    /\ ops = 0

-----------------------------------------------------------------------------
(* The world outside: photographs change, the volume comes and goes.       *)

\* History: the paths that changed on disk under a running operation,
Touched(op, S) ==
    IF op.pc = "idle" THEN op ELSE [op EXCEPT !.touched = @ \cup S]

\* ... or under a decision that is being executed.
TouchedPlan(S) ==
    IF writer = Reviewer THEN [plan EXCEPT !.touched = @ \cup S] ELSE plan

Disturb(S) ==
    /\ envs < MaxEnv /\ envs' = envs + 1
    /\ sc' = [s \in Scanners |-> Touched(sc[s], S)]
    /\ vf' = Touched(vf, S)
    /\ plan' = TouchedPlan(S)
    /\ UNCHANGED <<online, db, tx, complete, writer, decided, unsettled, ops>>

\* A file is created, edited, restored from elsewhere, corrupted or deleted,
WriteDisk(p, b) ==
    /\ b # disk[p]
    /\ disk' = [disk EXCEPT ![p] = b]
    /\ Disturb({p})

\* ... or renamed.
RenameDisk(p, q) ==
    /\ p # q /\ disk[p] # Absent
    /\ disk' = [disk EXCEPT ![q] = disk[p], ![p] = Absent]
    /\ Disturb({p, q})

\* The volume is unplugged, or plugged in again.
Plug ==
    /\ envs < MaxEnv /\ envs' = envs + 1
    /\ online' = ~online
    /\ vf' = IF vf.pc = "idle" THEN vf ELSE [vf EXCEPT !.cut = TRUE]
    /\ UNCHANGED <<disk, db, tx, complete, writer, sc, plan, decided, unsettled, ops>>

-----------------------------------------------------------------------------
(* Operations and the write lock.                                          *)

Quiet == vf.pc = "idle" /\ \A s \in Scanners : sc[s].pc = "idle"

\* The busy gate lets one operation run at a time; without it (a CLI beside
\* the desktop) only SQLite's write lock orders them.
MayStart ==
    /\ ops < MaxOps
    /\ writer = None
    /\ Serial => Quiet

Free == writer = None

\* A write statement of an open transaction: the unique index refuses it or
\* it becomes the transaction's view.
Write(t) == OnePresentPerPath(t) /\ tx' = t

\* A catalogue change committed in one step.
WriteThrough(t) == OnePresentPerPath(t) /\ tx' = t /\ db' = t

-----------------------------------------------------------------------------
(* scan_library.                                                           *)

\* Root unavailable: an honest incomplete session, nothing else.
ScanOffline(s) ==
    /\ sc[s].pc = "idle" /\ MayStart /\ ~online
    /\ ops' = ops + 1
    /\ UNCHANGED <<disk, online, db, tx, complete, writer, sc, vf, plan, decided,
                   unsettled, envs>>

\* Withdraw the source-tree claim and commit the running session.
ScanOpen(s) ==
    /\ sc[s].pc = "idle" /\ MayStart /\ online
    /\ ops' = ops + 1
    /\ complete' = FALSE
    /\ sc' = [sc EXCEPT ![s] = [Idle EXCEPT !.pc = "opened"]]
    /\ UNCHANGED <<disk, online, db, tx, writer, vf, plan, decided, unsettled, envs>>

\* SELECT the rows to reconcile against: committed data, no transaction.
ScanSelect(s) ==
    /\ sc[s].pc = "opened"
    /\ sc' = [sc EXCEPT ![s].pc = "selected", ![s].snap = db]
    /\ UNCHANGED <<disk, online, db, tx, complete, writer, vf, plan, decided,
                   unsettled, envs, ops>>

\* The first directory recorded opens the transaction and takes the lock; a
\* root that cannot be listed any more leaves nothing to walk.
ScanLock(s) ==
    /\ sc[s].pc = "selected" /\ Free
    /\ writer' = s
    /\ sc' = [sc EXCEPT ![s].pc = "walk",
                        ![s].todo = IF online THEN Paths ELSE {},
                        ![s].errors = ~online]
    /\ UNCHANGED <<disk, online, db, tx, complete, vf, plan, decided, unsettled,
                   envs, ops>>

\* The File the SELECTed rows have present at path p.
KnownAt(s, p) == {f \in PresentFiles(sc[s].snap) : sc[s].snap.row[f].path = p}

\* The fast path: healthy, verified, and size and mtime as recorded.
StoredHash(s, p) ==
    {c \in Contents : \E f \in KnownAt(s, p) :
        /\ VerifiedCurrent(sc[s].snap, f) = c
        /\ Stamp[c] = Stamp[disk[p]]}

\* The walk has an order of its own; paths are interchangeable, so one order
\* stands for all.
Walking(s, p) ==
    /\ sc[s].pc = "walk" /\ p \in sc[s].todo
    /\ p = CHOOSE x \in sc[s].todo : TRUE

Walked(s, p, st) ==
    /\ sc' = [sc EXCEPT ![s] = [st EXCEPT !.todo = @ \ {p}]]
    /\ UNCHANGED <<disk, online, db, tx, complete, writer, vf, plan, decided,
                   unsettled, envs, ops>>

\* os.walk reports that a directory above p could not be listed.
VisitBlind(s, p) ==
    /\ Walking(s, p) /\ (ReadFaults \/ ~online)
    /\ Walked(s, p, [sc[s] EXCEPT !.errors = TRUE])

VisitAbsent(s, p) ==
    /\ Walking(s, p) /\ online /\ disk[p] = Absent
    /\ Walked(s, p, sc[s])

\* Listed, but stat, decode or hash failed: physically present all the same.
VisitUnreadable(s, p) ==
    /\ Walking(s, p) /\ disk[p] # Absent
    /\ disk[p] = Bad \/ ReadFaults \/ ~online
    /\ Walked(s, p, [sc[s] EXCEPT !.seen = @ \cup {p}])

VisitDecoded(s, p) ==
    /\ Walking(s, p) /\ online /\ disk[p] \in Contents
    /\ \E c \in Contents :
        /\ IF StoredHash(s, p) # {} THEN c \in StoredHash(s, p) ELSE c = disk[p]
        /\ Walked(s, p, [sc[s] EXCEPT !.seen = @ \cup {p}, !.inv[p] = c])

\* Pass 1 is over: what was decoded is what is to be reconciled.
EndWalk(s) ==
    /\ sc[s].pc = "walk" /\ sc[s].todo = {}
    /\ sc' = [sc EXCEPT ![s].pc = "reconcile",
                        ![s].todo = {p \in Paths : sc[s].inv[p] # None}]
    /\ UNCHANGED <<disk, online, db, tx, complete, writer, vf, plan, decided,
                   unsettled, envs, ops>>

-----------------------------------------------------------------------------
(* Pass 2 of a scan: reconcile, first the Files at a known path, then the  *)
(* orphans, then what was not matched.                                     *)

OnDisk(s) == {p \in Paths : sc[s].inv[p] # None}

\* The row object the scanner holds: re-read only for rows it re-indexed.
View(s, f) == IF f \in sc[s].fresh THEN tx.row[f] ELSE sc[s].snap.row[f]

\* The hash index: present Files under their verified bytes, missing ones
\* under their coherent revision, re-indexed ones under what they became.
IndexedSha(s, f) ==
    IF f \in sc[s].fresh THEN tx.row[f].sha
    ELSE IF sc[s].snap.row[f].presence = "present" THEN VerifiedCurrent(sc[s].snap, f)
    ELSE IF sc[s].snap.row[f].presence = "missing" /\ Coherent(sc[s].snap, f)
    THEN sc[s].snap.row[f].sha
    ELSE None

Candidates(s, p) == {f \in FileIds : IndexedSha(s, f) = sc[s].inv[p]}

\* One path reconciled: the rows it settled, and the re-indexed ones.
Reconciled(s, p, matched, fresh) ==
    /\ sc' = [sc EXCEPT ![s].todo = @ \ {p}, ![s].matched = @ \cup matched,
                        ![s].fresh = @ \cup fresh]
    /\ UNCHANGED <<disk, online, db, complete, writer, vf, plan, decided,
                   unsettled, envs, ops>>

Known(s, p, f) ==
    /\ sc[s].pc = "reconcile" /\ p \in sc[s].todo
    /\ f \in KnownAt(s, p)

\* A Phase-1 row without a hash: complete its content-less revision.
KnownBackfill(s, p, f) ==
    /\ Known(s, p, f)
    /\ sc[s].snap.row[f].sha = None
    /\ Write(Complete(tx, f, sc[s].snap.row[f].cur, sc[s].inv[p], At(tx.row[f], p)))
    /\ Reconciled(s, p, {f}, {f})

KnownUnchanged(s, p, f) ==
    /\ Known(s, p, f)
    /\ sc[s].snap.row[f].sha = sc[s].inv[p]
    /\ Write(Refresh(tx, f, p))
    /\ Reconciled(s, p, {f}, {})

\* Different bytes where Verify has flagged a mismatch: hold everything.
KnownHeld(s, p, f) ==
    /\ Known(s, p, f)
    /\ sc[s].snap.row[f].sha \notin {None, sc[s].inv[p]}
    /\ sc[s].snap.row[f].health = "hash_mismatch"
    /\ tx' = tx
    /\ Reconciled(s, p, {f}, {})

\* Fault: a flagged File is re-based like any other.
KnownModifiedAlways(s, p, f) ==
    /\ Known(s, p, f)
    /\ sc[s].snap.row[f].sha \notin {None, sc[s].inv[p]}
    /\ Len(tx.rev[f]) < MaxRev
    /\ Write(Supersede(tx, f, sc[s].snap.row[f].cur, sc[s].inv[p], At(tx.row[f], p)))
    /\ Reconciled(s, p, {f}, {f})

\* Different bytes otherwise: a legitimate edit, a new revision.
KnownModified(s, p, f) ==
    /\ Known(s, p, f)
    /\ sc[s].snap.row[f].sha \notin {None, sc[s].inv[p]}
    /\ sc[s].snap.row[f].health # "hash_mismatch"
    /\ Len(tx.rev[f]) < MaxRev
    /\ Write(Supersede(tx, f, sc[s].snap.row[f].cur, sc[s].inv[p], At(tx.row[f], p)))
    /\ Reconciled(s, p, {f}, {f})

\* A path no row has present, after every known path has been reconciled.
Orphan(s, p) ==
    /\ sc[s].pc = "reconcile" /\ p \in sc[s].todo
    /\ \A q \in sc[s].todo : KnownAt(s, q) = {}

\* Missing Files with these bytes whose own path this is.
Restorable(s, p) ==
    {f \in Candidates(s, p) \ sc[s].matched :
        View(s, f).presence = "missing" /\ View(s, f).path = p}

\* Fault: any other File with these bytes counts as having moved here.
RelocatableByContent(s, p) ==
    {f \in Candidates(s, p) : View(s, f).path # p}

\* Files with these bytes whose own path holds no decoded file any more.
Relocatable(s, p) ==
    {f \in Candidates(s, p) \ sc[s].matched : View(s, f).path \notin OnDisk(s)}

Twins(s, p) ==
    {f \in Candidates(s, p) :
        View(s, f).presence = "present" /\ View(s, f).path \in OnDisk(s)}

OrphanRestored(s, p) ==
    /\ Orphan(s, p)
    /\ \E f \in Restorable(s, p) :
        /\ Write(Relocate(tx, f, p, sc[s].inv[p]))
        /\ Reconciled(s, p, {f}, {f})

\* Fault: of several candidates one is picked.
OrphanMovedPickingOne(s, p) ==
    /\ Orphan(s, p)
    /\ Restorable(s, p) = {}
    /\ \E f \in Relocatable(s, p) :
        /\ Write(Relocate(tx, f, p, sc[s].inv[p]))
        /\ Reconciled(s, p, {f}, {f})

OrphanMoved(s, p) ==
    /\ Orphan(s, p)
    /\ Restorable(s, p) = {}
    /\ \E f \in Relocatable(s, p) :
        /\ Relocatable(s, p) = {f}
        /\ Write(Relocate(tx, f, p, sc[s].inv[p]))
        /\ Reconciled(s, p, {f}, {f})

\* The new File gets a fresh id, and its own Photo unless ph names one.
Inserted(s, p, ph) ==
    \E g \in FileIds \ Files(tx) :
        /\ g = CHOOSE h \in FileIds \ Files(tx) : TRUE
        /\ Write(Insert(tx, g, p, sc[s].inv[p], IF ph = None THEN g ELSE ph))
        /\ Reconciled(s, p, {g}, {g})

\* Several Files could have gone here: choose none of them.
OrphanAmbiguous(s, p) ==
    /\ Orphan(s, p)
    /\ Restorable(s, p) = {}
    /\ \E f, g \in Relocatable(s, p) : f # g
    /\ LET photos == {View(s, f).photo : f \in Relocatable(s, p)}
       IN  \E ph \in photos : Inserted(s, p, IF photos = {ph} THEN ph ELSE None)

\* Fault: a copy is given a Photo of its own.
OrphanCopiedApart(s, p) ==
    /\ Orphan(s, p)
    /\ Restorable(s, p) = {} /\ Relocatable(s, p) = {}
    /\ \E f \in Twins(s, p) : Inserted(s, p, None)

OrphanCopied(s, p) ==
    /\ Orphan(s, p)
    /\ Restorable(s, p) = {} /\ Relocatable(s, p) = {}
    /\ \E f \in Twins(s, p) : Inserted(s, p, View(s, f).photo)

OrphanNew(s, p) ==
    /\ Orphan(s, p)
    /\ Restorable(s, p) = {} /\ Relocatable(s, p) = {} /\ Twins(s, p) = {}
    /\ Inserted(s, p, None)

\* Rows the scan matched with nothing on disk.
Unmatched(s) ==
    {f \in Files(sc[s].snap) \ sc[s].matched :
        sc[s].snap.row[f].path \notin OnDisk(s)}

\* ... whose path holds something that could not be read,
Undecoded(s) ==
    {f \in Unmatched(s) : /\ sc[s].snap.row[f].path \in sc[s].seen
                          /\ sc[s].snap.row[f].health # "unreadable"}

\* Fault: an incomplete walk is believed.
GoneIgnoringErrors(s) ==
    {f \in Unmatched(s) : /\ sc[s].snap.row[f].path \notin sc[s].seen
                          /\ sc[s].snap.row[f].presence = "present"}

\* Fault: a File with a health problem is not looked for.
GoneIfHealthy(s) ==
    {f \in Unmatched(s) : /\ sc[s].snap.row[f].path \notin sc[s].seen
                          /\ ~sc[s].errors
                          /\ sc[s].snap.row[f].presence = "present"
                          /\ sc[s].snap.row[f].health = "ok"}

\* ... or is gone, which only a complete walk may conclude.
Gone(s) ==
    {f \in Unmatched(s) : /\ sc[s].snap.row[f].path \notin sc[s].seen
                          /\ ~sc[s].errors
                          /\ sc[s].snap.row[f].presence = "present"}

Accounted(s) ==
    [row |-> [f \in FileIds |->
                IF f \in Undecoded(s)
                THEN [tx.row[f] EXCEPT !.presence = "present", !.health = "unreadable"]
                ELSE IF f \in Gone(s) THEN [tx.row[f] EXCEPT !.presence = "missing"]
                ELSE tx.row[f]],
     rev |-> tx.rev, obs |-> tx.obs]

ReadyToCommit(s) == sc[s].pc = "reconcile" /\ sc[s].todo = {}

ScanCommit(s) ==
    /\ ReadyToCommit(s)
    /\ WriteThrough(Accounted(s))
    /\ complete' = ~sc[s].errors
    /\ writer' = None
    /\ sc' = [sc EXCEPT ![s] = Idle]
    /\ UNCHANGED <<disk, online, vf, plan, decided, unsettled, envs, ops>>

\* An exception (a refused statement, a full disk, a busy database) or the
\* end of the process: everything since the lock is rolled back.
ScanFail(s) ==
    /\ sc[s].pc # "idle"
    /\ tx' = IF writer = s THEN db ELSE tx
    /\ writer' = IF writer = s THEN None ELSE writer
    /\ sc' = [sc EXCEPT ![s] = Idle]
    /\ UNCHANGED <<disk, online, db, complete, vf, plan, decided, unsettled, envs, ops>>

-----------------------------------------------------------------------------
(* verify_library: one transaction from its first statement to its commit. *)

\* Reachability is decided here, once; the Files of an offline Library are
\* skipped, a Phase-1 row that has no Library is not.
VerifyBegin ==
    /\ vf.pc = "idle" /\ MayStart
    /\ ops' = ops + 1
    /\ writer' = Verifier
    /\ vf' = [VIdle EXCEPT !.pc = "run",
                           !.todo = {f \in PresentFiles(db) : online \/ ~db.row[f].lib}]
    /\ UNCHANGED <<disk, online, db, tx, complete, sc, plan, decided, unsettled, envs>>

Verifying(f) == vf.pc = "run" /\ f \in vf.todo

Verified(f, t) ==
    /\ tx' = t
    /\ vf' = [vf EXCEPT !.todo = @ \ {f}]
    /\ UNCHANGED <<disk, online, db, complete, writer, sc, plan, decided, unsettled,
                   envs, ops>>

BytesAt(f) == IF online THEN disk[tx.row[f].path] ELSE Absent

VerifyMissing(f) ==
    /\ Verifying(f) /\ BytesAt(f) = Absent
    /\ Verified(f, SetMissing(tx, f))

VerifyUnreadable(f) ==
    /\ Verifying(f) /\ BytesAt(f) # Absent
    /\ BytesAt(f) = Bad \/ ReadFaults
    /\ Verified(f, SetHealth(tx, f, "unreadable"))

VerifyBackfill(f) ==
    /\ Verifying(f) /\ BytesAt(f) \in Contents
    /\ Current(tx, f).sha = None
    /\ Verified(f, Complete(tx, f, tx.row[f].cur, BytesAt(f),
                            [tx.row[f] EXCEPT !.health = "ok"]))

VerifyMatch(f) ==
    /\ Verifying(f) /\ BytesAt(f) \in Contents
    /\ Current(tx, f).sha = BytesAt(f)
    /\ Verified(f, SetHealth(tx, f, "ok"))

\* Fault: a mismatch already observed counts as known good.
VerifyMismatchOnce(f) ==
    /\ Verifying(f) /\ BytesAt(f) \in Contents
    /\ Current(tx, f).sha \notin {None, BytesAt(f)}
    /\ Verified(f, IF tx.obs[f] > 0 THEN SetHealth(tx, f, "ok")
                   ELSE Observe(SetHealth(tx, f, "hash_mismatch"), f))

VerifyMismatch(f) ==
    /\ Verifying(f) /\ BytesAt(f) \in Contents
    /\ Current(tx, f).sha \notin {None, BytesAt(f)}
    /\ Verified(f, Observe(SetHealth(tx, f, "hash_mismatch"), f))

VerifyCommit ==
    /\ vf.pc = "run" /\ vf.todo = {}
    /\ db' = tx
    /\ writer' = None
    /\ vf' = VIdle
    /\ unsettled' = {f \in FileIds : tx.obs[f] > db.obs[f]}
                    \cup {f \in unsettled : tx.row[f].health # "ok"}
    /\ UNCHANGED <<disk, online, tx, complete, sc, plan, decided, envs, ops>>

VerifyFail ==
    /\ vf.pc = "run"
    /\ tx' = db
    /\ writer' = None
    /\ vf' = VIdle
    /\ UNCHANGED <<disk, online, db, complete, sc, plan, decided, unsettled, envs, ops>>

-----------------------------------------------------------------------------
(* Mismatch resolution: a plan bound to evidence, re-proved on execution.  *)

\* What the fingerprint covers: the row, the revision it expects, the latest
\* mismatch observation, and the bytes now at the path.
Evidence(t, f) ==
    [row |-> t.row[f], expected |-> Current(t, f), obs |-> t.obs[f],
     bytes |-> IF online THEN disk[t.row[f].path] ELSE Absent]

\* _validated_snapshot, and the refusal of bytes that match again.
Resolvable(t, f) ==
    /\ t.row[f].presence # "none" /\ t.row[f].lib
    /\ t.row[f].health = "hash_mismatch"
    /\ Current(t, f).sha \notin {None, Evidence(t, f).bytes}
    /\ ~Current(t, f).superseded

\* A plan's own readings count as one moment: all of it is proved again.
PlanResolution(f, a) ==
    /\ Reviews /\ writer # Reviewer /\ (Serial => Quiet)
    /\ Resolvable(db, f)
    /\ a = "adopt" => Evidence(db, f).bytes \in Contents
    /\ plan' = [file |-> f, action |-> a, evidence |-> Evidence(db, f), touched |-> {}]
    /\ decided' = 0
    /\ UNCHANGED <<disk, online, db, tx, complete, writer, sc, vf, unsettled, envs, ops>>

\* Fault: only the row and its revision are proved again, neither the latest
\* observation nor the bytes.
MayExecuteOnRow ==
    /\ plan # None /\ Free /\ (Serial => Quiet)
    /\ decided = 0
    /\ Resolvable(db, plan.file)
    /\ db.row[plan.file] = plan.evidence.row
    /\ Current(db, plan.file) = plan.evidence.expected

\* The decision_id is not yet used, and the evidence is unchanged.
MayExecute ==
    /\ plan # None /\ Free /\ (Serial => Quiet)
    /\ decided = 0
    /\ Resolvable(db, plan.file)
    /\ Evidence(db, plan.file) = plan.evidence

\* BEGIN IMMEDIATE, and the evidence proved again: rows, then bytes.
ExecuteBegin ==
    /\ MayExecute
    /\ writer' = Reviewer
    /\ plan' = [plan EXCEPT !.touched = {}]
    /\ UNCHANGED <<disk, online, db, tx, complete, sc, vf, decided, unsettled, envs, ops>>

\* The decision and its commit, some time after the bytes were read.
Decide(settled) ==
    /\ writer = Reviewer /\ writer' = None
    /\ decided' = decided + 1
    /\ unsettled' = unsettled \ settled
    /\ UNCHANGED <<disk, online, complete, sc, vf, plan, envs, ops>>

ExecuteAdopt ==
    /\ Decide({plan.file})
    /\ plan.action = "adopt"
    /\ LET f == plan.file
       IN  /\ Len(db.rev[f]) < MaxRev
           /\ WriteThrough(Supersede(db, f, db.row[f].cur, plan.evidence.bytes,
                                     At(db.row[f], db.row[f].path)))

ExecuteRecord ==
    /\ Decide({})
    /\ plan.action \in {"retain", "unresolved"}
    /\ UNCHANGED <<db, tx>>

\* An exception or the end of the process: nothing is decided.
ExecuteFail ==
    /\ writer = Reviewer /\ writer' = None
    /\ UNCHANGED <<disk, online, db, tx, complete, sc, vf, plan, decided, unsettled,
                   envs, ops>>

-----------------------------------------------------------------------------
ScanStep(s) ==
    \/ ScanOffline(s) \/ ScanOpen(s) \/ ScanSelect(s) \/ ScanLock(s)
    \/ \E p \in Paths : \/ VisitBlind(s, p) \/ VisitAbsent(s, p)
                        \/ VisitUnreadable(s, p) \/ VisitDecoded(s, p)
    \/ EndWalk(s)
    \/ \E p \in Paths, f \in FileIds :
        \/ KnownBackfill(s, p, f) \/ KnownUnchanged(s, p, f)
        \/ KnownHeld(s, p, f) \/ KnownModified(s, p, f)
    \/ \E p \in Paths : \/ OrphanRestored(s, p) \/ OrphanMoved(s, p)
                        \/ OrphanAmbiguous(s, p) \/ OrphanCopied(s, p)
                        \/ OrphanNew(s, p)
    \/ ScanCommit(s) \/ ScanFail(s)

VerifyStep ==
    \/ VerifyBegin
    \/ \E f \in FileIds : \/ VerifyMissing(f) \/ VerifyUnreadable(f)
                          \/ VerifyBackfill(f) \/ VerifyMatch(f) \/ VerifyMismatch(f)
    \/ VerifyCommit \/ VerifyFail

ReviewStep ==
    \/ \E f \in FileIds, a \in Actions : PlanResolution(f, a)
    \/ ExecuteBegin \/ ExecuteAdopt \/ ExecuteRecord \/ ExecuteFail

WorldStep ==
    \/ \E p \in Paths, b \in Bytes \cup {Absent} : WriteDisk(p, b)
    \/ \E p, q \in Paths : RenameDisk(p, q)
    \/ Plug

Next == WorldStep \/ (\E s \in Scanners : ScanStep(s)) \/ VerifyStep \/ ReviewStep

Spec == Init /\ [][Next]_vars

-----------------------------------------------------------------------------
(* Properties.                                                             *)

ScanState ==
    [pc : {"idle", "opened", "selected", "walk", "reconcile"},
     snap : Catalogue \cup {None}, todo : SUBSET Paths, seen : SUBSET Paths,
     inv : [Paths -> Contents \cup {None}], errors : BOOLEAN,
     matched : SUBSET FileIds, fresh : SUBSET FileIds, touched : SUBSET Paths]

VerifyState ==
    [pc : {"idle", "run"}, todo : SUBSET FileIds, touched : SUBSET Paths,
     cut : BOOLEAN]

\* Type correctness: every variable has its type, and every catalogued File a
\* path and a Photo, in the committed catalogue and in the open transaction.
TypeOK ==
    /\ disk \in [Paths -> Bytes \cup {Absent}]
    /\ online \in BOOLEAN /\ complete \in BOOLEAN
    /\ db \in Catalogue /\ tx \in Catalogue
    /\ writer \in Scanners \cup {Verifier, Reviewer, None}
    /\ sc \in [Scanners -> ScanState]
    /\ vf \in VerifyState
    /\ plan \in PlanState \cup {None}
    /\ Located(db) /\ Located(tx)
    /\ unsettled \subseteq FileIds
    /\ decided \in Nat /\ envs \in Nat /\ ops \in Nat

\* current_revision_id of every File resolves to a revision of that File that
\* is not superseded, in the committed catalogue and inside any transaction,
\* whatever stale rows a scan reconciles with.
CurrentRevisionLive == CurrentLive(db) /\ CurrentLive(tx)

\* Where operations run one at a time the rows of a File tell one story:
\* exactly its current revision has superseded_at NULL, and files.sha256
\* mirrors that one. (Stale rows break this where two operations overlap;
\* CurrentRevisionLive is what is left there.)
CurrentRevisionCoherent ==
    \A f \in Files(db) :
        /\ \A i \in 1 .. Len(db.rev[f]) :
                ~db.rev[f][i].superseded <=> i = db.row[f].cur
        /\ db.row[f].sha = Current(db, f).sha

\* When a scan commits against the rows it SELECTed (no other process has
\* committed since), the catalogue agrees with every path that nobody touched
\* meanwhile: a decoded photograph has a present File recorded with its bytes
\* (or held by an open mismatch, or trusted on size and mtime), an undecodable
\* one has no healthy File, and after a complete walk an absent one has no
\* present File at all.
ScanReflectsDisk ==
    [][\A s \in Scanners : ScanCommit(s) /\ sc[s].snap = db =>
        \A p \in Paths \ sc[s].touched :
            LET here == {f \in PresentFiles(db') : db'.row[f].path = p}
            IN  /\ sc[s].inv[p] # None =>
                    \E f \in here : \/ db'.row[f].sha = disk[p]
                                    \/ db'.row[f].health = "hash_mismatch"
                                    \/ Stamp[db'.row[f].sha] = Stamp[disk[p]]
                /\ disk[p] = Bad /\ p \in sc[s].seen =>
                    \A f \in here : db'.row[f].health # "ok"
                /\ disk[p] = Absent /\ ~sc[s].errors => here = {}]_vars

\* A File whose path still holds a photograph the scan could decode stays at
\* that path: its identity is never given to a copy elsewhere.
UndisturbedFileStays ==
    [][\A s \in Scanners : ScanCommit(s) =>
        \A f \in PresentFiles(db) :
            sc[s].inv[db.row[f].path] # None =>
                /\ db'.row[f].presence = "present"
                /\ db'.row[f].path = db.row[f].path]_vars

\* A scan marks a File missing only if its path really had no file at some
\* moment of the scan, whatever listings and reads fail or volumes vanish.
ScanMissingIsAbsent ==
    [][\A s \in Scanners : ScanCommit(s) =>
        \A f \in PresentFiles(db) : db'.row[f].presence = "missing" =>
            \/ disk[db.row[f].path] = Absent
            \/ db.row[f].path \in sc[s].touched]_vars

\* A new copy of a photograph that is still verified in place becomes a File
\* of a Photo that has those bytes on disk, unless two vanished Files could
\* both have become it.
CopyJoinsPhoto ==
    [][\A s \in Scanners : ScanCommit(s) =>
        \A g \in PresentFiles(db') \ Files(db) :
            LET c     == db'.row[g].sha
                twins == {f \in PresentFiles(db) :
                            /\ VerifiedCurrent(db, f) = c
                            /\ sc[s].inv[db.row[f].path] = c}
                kin   == {f \in PresentFiles(db') \ {g} : db'.row[f].sha = c}
                lost  == {f \in Files(db) :
                            /\ db.row[f].sha = c
                            /\ db.row[f].path \notin OnDisk(s)}
            IN  \/ twins = {}
                \/ \E f, h \in lost : f # h
                \/ \E f \in kin : db'.row[f].photo = db'.row[g].photo]_vars

\* When several vanished Files could have become a new one, none is chosen:
\* no File with those bytes moves or comes back at another path.
AmbiguityChoosesNone ==
    [][\A s \in Scanners : ScanCommit(s) =>
        \A f, h \in Files(db) :
            /\ f # h
            /\ \A x \in {f, h} : /\ db.row[x].path \notin OnDisk(s)
                                 /\ Coherent(db, x)
                                 /\ db.row[x].presence = "missing"
                                        \/ VerifiedCurrent(db, x) # None
            /\ db.row[f].sha = db.row[h].sha
            => db'.row[f].path = db.row[f].path]_vars

\* Verify's verdict on every present File whose path nobody touched is what
\* is on disk against the bytes of its current revision: missing, unreadable,
\* mismatched or ok. (files.sha256 need not mirror that revision where a scan
\* relocated the File on stale rows.)
VerifyVerdict ==
    [][VerifyCommit /\ ~vf.cut /\ online =>
        \A f \in PresentFiles(db) :
            LET p == db.row[f].path
                r == db'.row[f]
                c == Current(db', f).sha
            IN  p \notin vf.touched =>
                /\ r.presence = "missing" <=> disk[p] = Absent
                /\ disk[p] = Bad => r.health = "unreadable"
                /\ disk[p] \in Contents /\ ~ReadFaults => r.health # "unreadable"
                /\ disk[p] \in Contents /\ r.health = "ok" => c = disk[p]
                /\ disk[p] \in Contents /\ r.health = "hash_mismatch" =>
                        c # disk[p] /\ db'.obs[f] > db.obs[f]]_vars

\* A moved File really left its old path: the bytes it is recorded with are
\* no longer there.
MovedMeansGone ==
    [][\A s \in Scanners : ScanCommit(s) =>
        \A f \in PresentFiles(db) :
            /\ db'.row[f].path # db.row[f].path
            /\ db.row[f].path \notin sc[s].touched
            => disk[db.row[f].path] # db.row[f].sha]_vars

\* The current revision of a File that is flagged hash_mismatch changes only
\* by an adoption, to the bytes a reviewer saw, on the row the reviewer saw.
FlaggedChangesOnlyByReview ==
    [][\A f \in FileIds :
        db.row[f].health = "hash_mismatch" /\ db'.row[f].cur # db.row[f].cur =>
            /\ plan # None /\ plan.action = "adopt" /\ plan.file = f
            /\ decided' > decided
            /\ plan.evidence.row = db.row[f]
            /\ db'.row[f].sha = plan.evidence.bytes]_vars

\* A verified mismatch, once recorded, stays unresolved until Verify sees the
\* expected bytes again or a reviewer adopts the new ones.
MismatchNeverSilentlyAdopted ==
    [][\A f \in unsettled :
        db'.row[f].cur # db.row[f].cur => decided' > decided]_vars

\* A decision that is committed is still about what its reviewer saw, whatever
\* scans, Verify and other programs did since: the row, its revision and its
\* latest observation are those, and bytes that are adopted were on disk at
\* some moment of the execution, and still are if nobody has touched the path
\* since. No other File is touched, nor this one unless its bytes are adopted.
DecisionOnEvidence ==
    [][decided' > decided =>
        LET f == plan.file
            e == plan.evidence
        IN  /\ e.row = db.row[f] /\ e.expected = Current(db, f) /\ e.obs = db.obs[f]
            /\ \A g \in FileIds \ {f} : db'.row[g] = db.row[g]
            /\ IF plan.action = "adopt"
               THEN /\ db'.row[f].sha = e.bytes
                    /\ disk[db.row[f].path] = e.bytes \/ db.row[f].path \in plan.touched
               ELSE db'.row[f] = db.row[f]]_vars

\* The source-tree inventory is never claimed complete while a scan runs.
ClaimWithdrawn ==
    complete => \A s \in Scanners : sc[s].pc = "idle"

\* Pass 2 can always commit: resurrecting an undecodable path never needs two
\* present Files at one path.
CommitFits ==
    \A s \in Scanners : ReadyToCommit(s) => OnePresentPerPath(Accounted(s))

-----------------------------------------------------------------------------
(* The catalogue, as FileLedger sees it.                                   *)

\* The contents of f's revisions up to the current one, and how f stands.
LedgerEntry(t, f) ==
    [history  |-> History(t.rev[f], t.row[f].cur),
     presence |-> t.row[f].presence,
     health   |-> t.row[f].health]

Archive == INSTANCE FileLedger
    WITH file <- [f \in FileIds |-> LedgerEntry(db, f)],
         Legacies <- {f \in FileIds : Legacy[f] # None}

\* With one operation at a time the catalogue is a ledger: what scans, Verify
\* and adoptions commit takes every File at most one step, to a first or to
\* other contents or to another standing, and no history is ever rewritten.
KeepsLedger == Archive!Spec

=============================================================================
