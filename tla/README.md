# Verification of the Personal Photo Archive

The Personal Photo Archive (PPA, `src/ppa`) catalogues photographs in place. It
never owns them: people and programs edit, move, corrupt and delete files while
PPA scans, verifies and reconciles a SQLite catalogue with what it finds. Its
promises (`docs/ARCHIVE_SAFETY_CONTRACT.md`) are about *not losing or rewriting
history*. These modules model that logic, check it with TLC on small instances,
and prove the parts that matter most with TLAPS for every instance.

Run them from this directory: `tlc -config ArchiveSerial.cfg MCArchiveCore`,
`tlapm ArchiveCoreProofs.tla`, and so on. `PROJECT.json` ties every definition
to source lines, every run to its question and every property to a plausible
bug that violates it.

## 1. Inventory

| Component | State | Operations | Interacts through |
|---|---|---|---|
| Scanner (`scanner.py`) | `files`, `file_revisions`, `photos`, `scan_sessions`, `libraries.source_tree_identity_complete` | `scan_library`: withdraw the claim, SELECT rows, walk the tree, reconcile, account for the missing, commit | disk, catalogue rows read before its lock |
| Verify (`integrity.py`) | `files.health_status`, `presence_status`, mismatch observations | `verify_library` | disk, catalogue |
| Current identity (`current_identity.py`, `hashing.py`) | none | the verified-current SHA-256 | read by every consumer of a hash |
| Mismatch resolution (`mismatch_resolution.py`, `mismatch_investigation.py`, `physical_observation.py`) | resolution rows, revisions | plan, execute `adopt` / `retain` / `unresolved` | Verify's flag, disk, recovery's intent |
| Catalogue schema (`db/`) | 41 migrations, constraints, triggers | one transaction per migration | everything |
| Recovery planning, preservation, donor materialization (`recovery_planning.py`, `recovery_preservation.py`, `recovery_donor_materialization.py`) | proposals, stages, materializations, directories in operational storage | propose, stage, materialize, adopt orphans, clean up | catalogue, operational storage, donor Files |
| Recovery readiness (`recovery_target_readiness.py`) | readiness checkpoints | build, record | all of the chain above, target on disk |
| Recovery execution (`recovery_target_execution.py`) | attempts, results (immutable) | preview, authorize, execute, inspect | readiness, the photographs' own directory |
| Secure write (`secure_write.py`) | temporary files, handles | bound temporary, install, rename without replacing | every writer of files |
| Source-tree and operational authority (`source_tree_authority.py`, `operational_authority.py`) | directory identities | record, require, enroll | scanner, secure write, recovery |
| Identity merge, split, recovery, lineage (`identity_merge.py`, `identity_resolution.py`, `competing_identity.py`, `divergence_investigation.py`, `duplicate_lineage.py`) | `files.photo_id`, photos, lineage, append-only resolutions | plan, review and execute merge, split, split recovery; relate, unrelate | catalogue, disk, curation that refers to Photos |
| Date reconstruction (`dating.py`, `chronology.py`, `reconcile.py`, `reconstruct*.py`, `batch_review.py`, `anchors.py`) | `reconstructions`, anchors | analyse, store, confirm, reject, reopen, batch confirm | current revision, evidence fingerprints |
| Events (`event*.py`) and organization (`organization*.py`, `album_home.py`, `tag_home.py`) | events, albums, tags, memberships, covers and orders, suggestion verdicts, histories | create, label, add, remove, present, suggest, accept, dismiss, restore | photos; two-connection races |
| Library removal (`catalogue.py`, `forget_library`) | all rows of a library | read, delete | everything above |
| Read models and reports (`catalogue.py`, `timeline*.py`, `review*.py`, `pilot*.py`, `archive_health.py`, ...) | none, but the pilot's session file | queries | catalogue |
| Thumbnails, export (`thumbnails.py`, `safe_export.py`) | output files, `operational_directories`, `operational_files` | choose a folder, write, install, record | secure write, both authorities |
| Desktop (`ui/main_window.py`, `ui/workers.py`) | the busy gate `_busy`, workers, progress dialogs, activity runs | request, cancel, abandon, handle a worker's end, chain, offer the next step, close | every operation above |
| CLI (`cli.py`) | none | the same operations in a process of their own | catalogue, disk |

What is hard in this code:

* **Stale reads.** Python's `sqlite3` opens a transaction at the first write, so
  a scan SELECTs the rows it will reconcile in autocommit, and writes much later.
* **A disk nobody locks.** Every listing, decode and hash is a moment of its own.
* **Partial failure.** A directory that cannot be listed, a file that cannot be
  decoded, a volume pulled out in the middle, an exception and its rollback.
* **Human decisions on evidence that ages.** Plans are shown, confirmed later,
  and must be proved again under a lock.
* **Files and catalogue cannot commit together.** A recovery that dies between
  the two must neither be repeated nor be reported as something it was not.
* **Checks before BEGIN.** Curation, Events and `forget_library` read and check in
  autocommit; in their transaction only triggers, foreign keys and unique indexes
  speak, and two desktop windows or a CLI may be connected.
* **Names that other people use too.** A folder may be moved, and a photograph put
  at an output's name, between any two system calls.
* **A gate that handlers must free.** One flag keeps operations apart; it is freed
  by slots that run later, in any order, some of them inside others.

What makes each component correct is stated as properties in its module (below). `PROJECT.json` lists the hazards by source line.

## 2. Modules

| Module | Models | Extends |
|---|---|---|
| `Catalogue` | `files` and `file_revisions` rows, the predicates and UPDATEs on them | |
| `FileLedger` | abstract: what the catalogue promises of each File | |
| `ArchiveCore` | scan, Verify, mismatch resolution, the disk, the write lock | `Catalogue`, instantiates `FileLedger` |
| `MCArchiveCore` | definitions given to the constants of the runs | `ArchiveCore` |
| `CatalogueProofs` | lemmas: what each UPDATE preserves | `Catalogue` |
| `ArchiveCoreProofs` | inductive invariants, theorems, the refinement | `ArchiveCore`, `CatalogueProofs` |
| `RecoveryExecution` | readiness record, preview, authorization, execution | |
| `RecoveryExecutionProofs` | inductive invariant and theorems | `RecoveryExecution` |
| `RecoveryLadder` | abstract: what the chain of recovery evidence promises | |
| `RecoveryPipeline` | proposal, preservation stage, donor materialization and adoption, readiness | instantiates `RecoveryLadder` |
| `MCRecoveryPipeline` | symmetry of the runs | `RecoveryPipeline` |
| `RecoveryPipelineProofs` | inductive invariant, theorems, the refinement | `RecoveryPipeline` |
| `DateEngine` | from claims and anchors to interpreted dates and fingerprints (no state) | |
| `Reconstruction` | stored interpretations, decisions, batches, changing evidence | `DateEngine` |
| `MCReconstruction` | the session of the runs: three frames of one camera | `Reconstruction` |
| `ReconstructionProofs` | lemmas about the engine, inductive invariant, theorems | `Reconstruction` |
| `PhotoIdentity` | which Photo a File belongs to: split, merge, recovery, and the scans and edits around them | |
| `Curation` | collections, presentation, suggestions, lineage, `forget_library`; the composition with `PhotoIdentity` | `PhotoIdentity` |
| `MCCuration` | two libraries and the collections of the runs | `Curation` |
| `CurationProofs` | inductive invariant, theorems | `Curation` |
| `Outputs` | exports and thumbnails through the POSIX installer, under both authorities | |
| `MCOutputs` | the folders of the run | `Outputs` |
| `OutputsProofs` | inductive invariant, theorems | `Outputs` |
| `Desktop` | the main window's gate, workers and handlers | |
| `DesktopProofs` | inductive invariant, theorems | `Desktop` |

### Catalogue and ArchiveCore

A catalogue is a record `[row, rev, obs]`: the row of each File, the sequence of
its revisions (indices are revision ids), and how many mismatch observations it
has. Every UPDATE or INSERT is an operator from catalogue to catalogue. `db` is
what is committed, `tx` what the open write transaction sees; a rollback is
`tx' = db`. `writer` is SQLite's single write lock.

| Code | Actions |
|---|---|
| `scan_library`, root unavailable | `ScanOffline` |
| claim withdrawn and session committed (scanner.py:221) | `ScanOpen` |
| SELECT in autocommit (scanner.py:251) | `ScanSelect` |
| first directory recorded takes the lock (scanner.py:298) | `ScanLock` |
| pass 1, `os.walk`, the stored-hash fast path | `VisitBlind`, `VisitAbsent`, `VisitUnreadable`, `VisitDecoded`, `EndWalk` |
| pass 2, known paths | `KnownBackfill`, `KnownUnchanged`, `KnownHeld`, `KnownModified` |
| pass 2, orphans | `OrphanRestored`, `OrphanMoved`, `OrphanAmbiguous`, `OrphanCopied`, `OrphanNew` |
| missing accounting and commit; any exception | `ScanCommit`, `ScanFail` |
| `verify_library` | `VerifyBegin`, one action per verdict, `VerifyCommit`, `VerifyFail` |
| `plan_` and `execute_mismatch_resolution` | `PlanResolution`; under the lock `ExecuteBegin` (everything proved again), then `ExecuteAdopt`, `ExecuteRecord` or `ExecuteFail` |
| anybody else | `WriteDisk`, `RenameDisk`, `Plug` |

Abstractions, all of them data: a content is its SHA-256; `Stamp` gives size and
mtime (`StampDistinct`: every edit shows in `stat()`; `StampSame`: none does);
one Library; the row's status mirror, path history, audit events and hard-link
evidence are left out. Paths are visited in one fixed order (they are
interchangeable). A fresh id is the first unused one. A scan whose root cannot
be listed any more still takes the lock when it commits; `ScanLock` stands for
that too. `ScanFail` is any exception, a refused statement included, and the
death of the process: in SQLite both are a rollback.

A reviewer is a process that holds the write lock. `ExecuteBegin` is BEGIN IMMEDIATE
and `_validated_snapshot` (mismatch_resolution.py:226-247): rows and bytes are proved
at that moment. The UPDATEs and the commit (:249-338) are one step some time after it,
and the disk may change between the two; `plan.touched` remembers where it did. The
readings of a *plan* are one moment, because all of them are made again. The model has
one plan at a time, and a new one may take its place whenever none is executed; plans
are not counted among the operations.

`FileLedger` knows neither disks, transactions nor rows that age. A File is its
history (the contents it has had, the current one last), whether it is there and
whether its bytes are healthy; a step is a whole scan or Verify that commits, or one
adoption, and takes each File one step at most (`Scanned`, `Verified`, `Adopt`). The
mapping is `LedgerEntry`: the contents of a File's revisions up to the one its row
points at, with the row's presence and health. Every action but these
three commits is a stutter. The first revision of a File that was catalogued without its bytes has
contents `None`, which a later scan or Verify fills in (`Completed`): this is the one
entry of a history that may change, and only from `None`.

### RecoveryExecution

The one operation that changes the photographs' own directory. Objects are
file-system identities, names point at them, an open handle stays on its object;
the temporary file of execution `e` is object `e` and the name of the suspect it
sets aside is name `e`, because both carry the execution id. The temporary has a name
in the photographs' directory from its creation on, and `temp[e]` is what is at that
name: others see it, write it, delete it or put something else there.

| Code | Actions |
|---|---|
| `record_target_replacement_readiness` | `RecordReadiness` |
| `build_target_replacement_execution_plan` | `Preview` |
| `_authorize_attempt`, committed on its own | `Authorize` |
| second `BEGIN IMMEDIATE`, plan rebuilt | `Begin`, `BeginRefused` |
| `_execute_windows_replace`: open, park, prove | `OpenTarget`, `Park`, `ProveParked` |
| `_copy_donor_to_temp`, `temp.install`, `_verify_installed_path` | `Copy`, `Install`, `InstallLost`, `Attest` |
| the suspect hashed again | `Retain` |
| `_restore_parked_windows_target` | `ProveReversible`, `Reverse`, `Reattest` |
| `except` branches | `Refuse` (an ordinary error before or after parking), `GiveUp` (everything that leaves the attempt unresolved, the death of the process included) |
| `_record_result` and commit | `Record` |
| Verify, a later decision, other programs | `Verify`, `Reconsider`, `Arrive`, `Vanish`, `Substitute` (of a temporary), `Overwrite`, `Spoil` |

`InstallLost` is the installation that acquires the name and then fails
(`SecureWriteTransitionError`): on Windows the object may be deleted again,
elsewhere it stays. `Source` is what the rename to the target takes: the object of the
handle on Windows, elsewhere whatever is at the temporary's name by then, which the
installer notices afterwards. `Debris` is what cleanup leaves at that name: on Windows
nothing if the deletion by handle succeeds, elsewhere the temporary
(secure_write.py:1905-1910). `Park` and `Reverse` require the suspect to be at its name
still, although a rename by handle would find it anywhere. Where the code proves an object both through its handle and
through its name, the model reads both in one step. The identity of the root and
parent directories, link counts, modification times and I/O errors are not
state: their checks may fail at any step (`Refuse`, `GiveUp`). The chain of
evidence behind a readiness is reduced to `donor`, the readinesses whose staged
copy still has the expected bytes.

### RecoveryLadder and RecoveryPipeline

How the evidence that `RecoveryExecution` consumes comes to be. One operation at
a time is inside a write transaction (`job`), each of its moments on disk is an
action, and other programs act between any two. The disk is names, objects and
bytes: a rename, a hard link, an edit in place and a replacement differ, and a
freed identity may be reused.

| Code | Actions |
|---|---|
| `build_recovery_plan`, `record_recovery_plan_proposal` | `ProposeBegin`, `ProposeCommit` |
| `execute_preservation_stage` under `BEGIN IMMEDIATE`: plan rebuilt, directory made | `StageBegin` |
| target and donor before; copy; target after the copy and `temp.install` | `StageLook`, `Preserve`, `InstallSuspect` |
| identity of the copy, manifest; both sides again; attestation, INSERT, commit | `WriteManifest`, `StageReobserve`, `StageCommit` |
| `execute_donor_materialization`, the same way | `MaterializeBegin`, `MaterializeLook`, `CopyDonor`, `InstallCopy`, `WriteDonorManifest`, `MaterializeReprove`, `MaterializeRecheck`, `MaterializeCommit` |
| `_adopt_verified_donor_orphan_without_delete` | `AdoptBegin`, `AdoptLook`, `AdoptReprove`, `AdoptCommit` |
| `build_` and `record_target_replacement_readiness` | `ReadyBegin`, `ReadyAttest`, `ReadyCommit` |
| every `except BaseException`, and the death of the process | `Abandon` |
| Verify, a later decision, a scan | `Verify`, `Reconsider`, `Scan` |
| other programs, a person who tidies up | `Overwrite`, `Remove`, `Arrive`, `Rename`, `SpoilManifest`, `Tidy` |

`RecoveryLadder` knows neither disks nor interruptions: a proposal climbs one
rung at a time, one checkpoint each, only under a standing decision. It is
implemented with `chain <- Chain`, the checkpoints of each proposal read off the
four tables, and `standing <- flagged /\ retained`.

Abstractions. One File with one expected revision. Modification times are not
state, so an observation is identity and bytes: the model accepts a file touched
without a change, which the code refuses. A plan built before the lock is built
again under it and compared, so only the second one is an action; what made it
differ is a refusal, which changes nothing. A manifest is which stage (`manifest`) or
materialization (`note`) it names, or `Spoiled`: anything PPA did not write, put there
by others at any time from the making of the directory on. Both are written with
`replace=True` (recovery_preservation.py:574, recovery_donor_materialization.py:835),
so whatever has the name is set aside: kept under another name on POSIX, deleted on
Windows. A failure in between may leave the name empty. A copy installed
and its identity read are two actions, because the code reads the identity by
name; the final attestation and the commit are one, because the commit reads no
disk. A temporary of a failed donor copy may stay (`pending`) or not. Failures of
I/O, authority or free space are `Abandon`. That a *new* artifact is no source
object is not checked again in the model (the object is new); it is for adopted
orphans. A stage directory is never removed, which is what
`_safe_cleanup_created_stage` does, although the docstring of
`execute_preservation_stage` and `docs/PHASE14_0_RECOVERY_PRESERVATION.md` still
say that a failure removes it.

### DateEngine and Reconstruction

`DateEngine` is the pure part: what a session of photographs claims, and what is
known besides, in; dates and fingerprints out.

| Code | Operators |
|---|---|
| `assess`, `_is_reset_epoch` | `Intrinsic`, `OnReset` |
| `_segment`, `_detect_reset_patterns` | `Linked`, `Joined`, `Ticks`, `Run`, `Group` |
| `_detect_order_conflicts` | `Regresses`, `Leader`, `Conflicting`, `Combined` |
| `_evaluate_one`, `reconcile` | `Disproved`, `Corroborated`, `Contradicts`, `Supports`, `Condemned`, `Final` |
| `reconstruct`: direct, offset, range, bracket | `KnownTrue`, `ByOffset`, `Corrected`, `Bracketed`, `Interpret` |
| `_canon_input`, `_fingerprints` | `Canon`, `Fingerprint` |

`Reconstruction` is what happens to the results. Evidence changes in transactions
of its own; an operation reads statement by statement in autocommit.

| Code | Actions |
|---|---|
| `store_reconstructions`: dates (:224), fingerprints (:225), revisions, decisions, transaction | `StoreDates`, `StorePrints`, `StoreRevisions`, `StoreDecided`, `StoreCommit` |
| `_decide`: SELECT, freshness, UPDATE | `DecideSelect`, `DecideFresh`, `DecideCommit` |
| `reopen_reconstruction` | `Reopen` |
| `plan_batch_confirmation`, `confirm_batch`: again, transaction | `PlanBatch`, `BatchRebuild`, `BatchCommit` |
| `add_anchor`; a scan's new revision, metadata extracted again, presence | `AddFileAnchor`, `AddDirectoryAnchor`, `Rescan`, `Reextract`, `Appear` |
| an exception and its ROLLBACK, a refusal, the death of the process | `Fail` |

Abstractions. One session, that is one directory, camera and naming scheme, so a
run of frames is an interval of it. An instant is half a day (`2d`, `2d + 1`), the
granularity of the tolerances (one day, twelve hours). What `assess` finds besides
a reset epoch is an input, `doubt`, ranked by what it lets later layers do. Library
anchors behave as directory anchors do and are left out; the floor of a camera is
one date, which only the CLI's `run` is given. `strong` (a credible serial) does not
change. `_build_inputs`, `evaluate_staleness` and `plan_batch_confirmation` are one
read each, although they are several SELECTs: the model has fewer torn readings
than the code, and those it has suffice to show the second disagreement of section 5.
Confidence, evidence text and timestamps are left out. A row's `whole` is history,
not code: no evidence changed between the two readings that made it. The verdict is
chosen at the commit, since nothing before depends on it.

### PhotoIdentity and Curation

A session is a connection: a desktop window or a command. The reviewed operations
(`PhotoIdentity`) are a plan shown to a person and an execution under
`BEGIN IMMEDIATE` in which the plan is made again and the bytes are read twice. The
curations (`Curation`) are a read in autocommit and, later, a transaction; they are
composed in one module because a plan reads what people curate, and a commit
changes what a curation has read.

| Code | Actions |
|---|---|
| `plan_identity_split`, `plan_identity_merge`, `plan_identity_recovery`, shown in the dialog | `Review`, from `SplitPlans`, `MergePlans`, `RecoveryPlans` |
| `execute_...`: BEGIN IMMEDIATE, plan and fingerprint again, first reading | `Begin` |
| second reading, after the change and before the commit | `Reattest` |
| the three commits | `SplitCommit`, `MergeCommit`, `RecoveryCommit` |
| stale plan, failed reading, exception, a closed window, death | `Abandon` |
| create, add, remove, label, cover, order, reset of albums, tags and Events | `StartX`, then `CommitX` |
| `build_`, `apply_`, `dismiss_`, `restore_organization_suggestion` | `ReviewSuggestion`, `ApplySuggestion`, `DismissSuggestion`, `StartRestore`, `CommitRestore` |
| `add_lineage`, `remove_lineage` | `StartRelate`, `CommitRelate`, `StartUnrelate`, `CommitUnrelate` |
| `forget_library`: lists, then deletions | `StartForget`, `CommitForget` |
| scanner, Verify, recovery planning, other programs | `Appear`, `Adopt`, `Verify`, `Propose`, `Edit` |

Triggers, cascades and foreign keys are guards and effects of the commits: library
guards (`Belongs`), the lineage cycle guard (`Descends`), cleanup of presentations
(`ShownWithout`), restricted deletions (`ForgetBlocked`, `Retire`).

Abstractions. Reading the bytes of several Files is one moment, the best case for
the second reading; `late` records which Files were changed after it, which nothing
in the program can see. A revision is a number and bytes, so bytes that come back
are still another revision. Names, notes, descriptions and Event contexts are one
`label`. A Photo's notes (a further blocker of a merge), saved views, favourites and
the undo of a membership (an ordinary add or remove) are left out. The audit of the
migrations 013 to 022 is one sequence, in commit order; the rows that go with a
forgotten library stay in it, erased, since ids are never given again; its times are those taken by
`_now()`, which is before the lock for curations and inside it for identity.

### Outputs

| Code | Actions |
|---|---|
| `validate_export_destination`, `SourceTreeAuthorityPolicy.from_connection` | `Begin` |
| `BoundDirectory.open`, `ensure_directory_authority` | `Bind`, `Make` |
| `require_directory`, ownership of what is there | `Admit` |
| `BoundTemporaryFile.create`, `binary_writer` and fsync, last check of `safe_export_temp` | `Create`, `Write`, `Check` |
| `install`: look, park, identity, rename, attestation | `Look`, `Park`, `Ready`, `Acquire`, `Attest` |
| `record_owned_file_identity` | `Record` |
| any error; rollback; death | `Fail`, `Restore`, `Die` |
| a scan's claim withdrawn; its commit | `ScanOpen`, `ScanCommit` |
| `enroll_export_root`; people | `Enroll`, `MoveFolder`, `MovePhoto`, `Delete` |

A descriptor is the folder object, a path is what `at` says now, and a rename
without replacement is atomic in one folder. Left out: inode reuse, the Windows
installer, the attestation sidecar of a thumbnail, and the mode without a catalogue.
What the model shows of deaths: between `Acquire` and `Record` the file stays
unowned, so later exports to it are refused; between `Park` and `Acquire` the name
stays empty; between `Make` and `Admit` the folder stays un-enrolled.

### Desktop

An operation is a record in the table `Op` (where it is asked for, how it treats the
gate, how its worker can end, its progress dialog, what it chains to or offers); the
actions are generic.

| Code | Actions |
|---|---|
| `_on_...`: guard, `_set_busy(True)`, `_run_begin`, `WorkerRegistry.start` | `Request` |
| cancel of a progress dialog | `AskToStop`, `Abandon` (Albums, Tags, Discovery) |
| a worker's `run` and its one terminal signal | `Work` |
| queued slots on the GUI thread | `Deliver`: `Succeed`, `ScanSucceeds`, `Fail`, `ExecutionFails` |
| the question inside a handler | `Accept`, `Decline` |
| `closeEvent`, `WorkerRegistry.shutdown` | `Close`, `Shutdown` |

`slipped` is history: the person passed or gave up the gate with work in flight.
Queued delivery is Qt's and external; after closing has begun nothing is delivered.
Dialogs with a registry of their own and the thumbnail worker's queue are left out.

## 3. Runs

| Run | Question | Bounds |
|---|---|---|
| `ArchiveSerial` | One operation at a time over a Phase-1 row: type, missing and flagged Files; does the catalogue implement `FileLedger`? are moves, copies, restorations and ambiguous origins told apart? | 3 paths, 2 of them occupied at first, 2 contents of equal size and mtime, 3 Files, 2 disk changes, 4 operations beside the decisions |
| `ArchiveConcurrent` | Desktop and CLI together: what must a commit say? | 2 scanners, Verify, reviews, 2 changes, 3 operations beside the decisions |
| `RecoveryExecution` | Two people hold two previews of one target; everything fails and interferes | 2 executions, 2 readinesses, 2 foreign files, 3 interferences |
| `RecoveryPipeline` | The chain of evidence, interrupted, retried and interfered with; refines `RecoveryLadder` | 1 proposal, 2 stages, 2 materializations, 1 donor, 4 objects, 2 interferences, 1 later decision |
| `Reconstruction` | Desktop and CLI on one reset run: is what is fresh derived, does what is decided stick, is a batch what was reviewed? | 2 processes, 3 frames, 3 initial sessions, 1 change of evidence, 3 operations |
| `Curation` | Splits, merges, recoveries, curation and forgotten libraries of two connections, on Photos that scans and edits change | 2 sessions, 4 Files, 4 Photos, 2 libraries, an album, a tag and two Events, 2 operations of any kind and then one recovery, 1 edit (2 of both before the recovery) |
| `Outputs` | An export and a thumbnail at once, failing and dying anywhere, while people move folders and photographs | 2 writers, 3 places, 1 library folder, 2 acts of people |
| `Desktop` | All operations of the main window, cancelled, abandoned, chained, handled at any time | 2 threads, 23 operations a person asks for and 6 that handlers start |
| `ArchiveLaundered`, `ReconstructionTorn`, `CurationLastMember`, `DesktopLegacyCache` | the first four disagreements of section 5 | the smallest instance of each |

**Why the bounds suffice.** An archive hazard needs one File, one other path
(where it went, or a copy of it) and, for ambiguity or a successor at the same
path, one more File; hence 2 or 3 paths and 3 Files. Two contents are what
"recorded" and "something else" need, `Bad` is the third kind of bytes. The
longest serial story is scan, edit, Verify, plan, anything at all, execute: plans and
executions are not counted, so at least one scan or Verify and one change remain to
come between plan and execution, or between the proof of the bytes and the commit. `MaxRev = 3` is one
revision more than those stories produce. In a recovery the deepest race needs
one change before authorization and one on each side of a rename: `MaxEnv = 3`.
Two executions are enough for exclusion, which is pairwise. In the pipeline two
stages compete for one proposal and two materializations for one stage; proposals
do not share checkpoints, so a second one would only multiply states (the theorems
are for any number). Four objects are target, donor, suspect and copy, so that a
fifth file can only arrive on a freed identity, the case that identity checks are
about; two interferences are one before and one after a proof. In a reset run three frames are the
smallest batch, and the smallest run in which an anchor at one end, in the middle
and at the other end differ (offset, bracket, condemnation); the three initial
sessions have an exact anchor at either end or a GPS frame in the middle. A
computation, a decision or batch and a second computation are three operations, and
one change of evidence falls anywhere among their steps. Of the curations a stale
read needs one operation of the other session. The longest story is split, a further
curation or identity decision, recovery. The clock starts at 1 and `MaxOps = 3` leaves
room for two operations of any kind; `MaxUndo = 1` lets a recovery begin after them, so
what must refuse it (`~LaterChange` in `Recoverable`) is exercised: without it
`RetiredPhotoIsBare` is violated. A fourth File is what a
scan may add to a Photo that is being taken apart; two libraries are what a Photo
may be in and one of them forgotten (Verify, scans and proposals are not counted).
For outputs two writers are two of a kind that meet in one folder, or one of each;
two acts of people are a folder moved away and another put in its place, or a
photograph put at a name and taken away. For the gate two threads are what it keeps
apart; three threads with one operation of each kind were checked once and gave
nothing new. Initially the disk holds anything at the paths of `Occupied`,
photographs, undecodable bytes or nothing, so that every archive run starts in all of
those situations at once; the third path of `ArchiveSerial` is where files go later.

`SYMMETRY`: contents, scanners, sessions, processes, objects and stages are treated as
interchangeable where nothing in a module tells them apart, in runs without liveness.

`CHECK_DEADLOCK FALSE`: the system is at rest when nobody asks for another
operation and the bounds on changes and operations are reached.

**Serial** is the desktop's `_busy` gate (`ui/main_window.py`): it refuses a
second operation while a worker runs. `Serial = FALSE` is a CLI process beside
the desktop, which only the write lock orders.

**Fairness.** Two modules state some. `RecoveryExecution`: weak fairness of each
execution's own steps, since an execution once started is a straight run of
Python which goes on, raises or dies; a lock that is not released within
`busy_timeout` raises too, and raising and dying are `GiveUp`. Nobody is obliged
to preview or confirm, and no other program to do anything. `AttemptEnds` says
that this is enough for the write lock always to come back. `Desktop`: weak fairness of
each thread's work, of the delivery of its signal and of the shutdown, because
threads are scheduled, the GUI thread serves its queue and `shutdown` joins the
threads. Nobody is obliged to answer a question, cancel or close.

## 4. What the properties say

* `CurrentRevisionLive`, `CurrentRevisionCoherent`: the three copies of "what are
  this File's bytes" (row mirror, pointer, `superseded_at`) agree.
* `KeepsLedger` (the refinement): whatever a scan visits, resurrects, matches and
  accounts for in its two passes, what it commits has taken each File one step at
  most. No history is shortened or rewritten, no File gets two contents from one
  scan, none gets any from Verify unless it had none, and a flagged File gets
  others from a reviewer only.
* `ScanReflectsDisk`, `VerifyVerdict`: what a commit says of every path nobody
  touched is true of the disk. For a scan this needs that nobody else committed
  between its SELECT and its commit: a scan that read a File as flagged only decodes
  its path (`KnownHeld`), and leaves the File missing or unreadable if a Verify that
  could not reach the volume has marked it so meanwhile. Verify
  needs no such proviso, but what it compares with is the current revision
  (integrity.py:95-105), and a scan that relocated the File on stale rows may have
  left `files.sha256` with other bytes than that.
* `ScanMissingIsAbsent`, `UndisturbedFileStays`, `CopyJoinsPhoto`,
  `AmbiguityChoosesNone`: identity. Nothing is missing because a listing failed;
  nothing in place is moved to a copy; a copy joins its Photo; of several origins
  none is chosen.
* `FlaggedChangesOnlyByReview`, `DecisionOnEvidence`, and the theorem about
  `ClaimWithdrawn`: a flagged
  File changes revision only by an adoption, and the decision commits on the row,
  revision and observation its reviewer saw, which the lock has kept since they were
  proved. The bytes nobody can lock: what is adopted was on disk at a moment of the
  execution, and is still there unless somebody has touched the path since. The
  source-tree claim never stands while a scan runs.
* `ClimbsLadder` (the refinement): after any interruption, retry or adoption a
  proposal has at most one stage, materialization and readiness, gained in order,
  never taken back, each under the decision it was reviewed under.
* `PreservedIsReviewed`, `CopyIsOperational`, `ReadyRestsOnChain`: what a
  checkpoint says of the disk was true when it was committed. `ReadyRestsOnChain`
  needs `calm` for the evidence, which is hashed before the last look at the
  target, and not for the target.
* `NothingDisturbed`: no step of PPA in the pipeline takes away or rewrites a file at
  the name of a source, a preserved suspect or a donor copy, nor the manifest of a
  checkpoint that is committed. It does not speak of a file that others put at the name
  of a manifest before that, which is displaced: section 5, `NewNamesOnly`.
* `FreshMeansDerived`: a fingerprint leaves out nothing the date depends on, so a
  row that staleness calls fresh has the date today's evidence gives, provided its
  two readings were of one state of the evidence (`whole`; without that proviso see
  section 5).
* `StickyToEngine`: no recomputation takes a decision back, wherever the decision
  falls among its reads.
* `BatchActsOnReview`: a batch confirms the rows that were
  shown, and what is shown is one clock correction that one exact date gives, unless
  evidence changed during the computation of one of its rows. Torn rows can pass the
  test for one exact anchor (batch_review.py:118-127), since a row keeps the method it
  was computed with and only its fingerprint is looked at: two changes of evidence
  suffice, so the run does not meet it.
* `PointsRestOnHumans`: without the GPS dates every fresh point date would be the
  same; a UTC date, a day off at either side, bounds ranges of its own frame only.
* `OneAttempt`, `AbortedUntouched`, `StrangersSurvive`, `RecordedIsTrue`,
  `AttemptEnds`, and the theorem about `MovesUnderIntent`: a recovery happens at
  most once, under a standing intent, its recorded result is what happened, and
  it never takes another program's file away. An attempt recorded as aborted has
  renamed nothing at the target's name or from it; it may have left its own temporary
  in the photographs' directory, and nothing else.

`RecordedIsTrue` (`PlacedIsExpected` and `RestoredIsReviewed`) carries the proviso "unless others
acted since the last rename" (`calm`): a program that writes between the last
proof and the result row cannot be excluded by anything short of a lock on the
file. Everything earlier is caught by the proofs.

* `NoGhostPhoto`: Photos and Files stay in step although `forget_library` lists them
  before its transaction and splits, merges and scans commit in between.
* `MembershipBacked`, `AuditReplays`: curations were checked on what was true then;
  what they leave behind is true now, and the audit says exactly that.
* `RetiredPhotoIsBare`: deleting a Photo's row cascades; nothing is ever there to be
  taken away, neither when two Photos are merged nor when a split is recovered after
  others had time to curate the new Photo.
* `ReassignedOnReviewedBytes`: identity changes only as reviewed, on bytes read under
  the lock (`late` excepts a change after the last reading).
* `RecoveryReunites`: a recovery returns the divided Photo whole, or is refused.
* `WholeOutput`, `NothingDestroyed`, `OnlyOwnFolders`, `OwnershipEarned`: an output
  name never shows half a file, no file of anybody loses its last name, nothing is
  written to a folder that a library had, and ownership comes of making, not of names.
* `GateHolds`, `GateReleased`, `RunEndsWithItsOperation`: one operation in flight while
  the gate is held, never a Yes that is dropped, never a gate that stays shut, never a
  run of the log ended by another's handler.

## 5. Disagreements between documents and code

Found by a run that must be violated, the documents quoted in `PROJECT.json`:

1. `ArchiveLaundered`: a verified mismatch that is undecodable for one scan or
   Verify becomes `unreadable`, and then loses the hold of scanner.py:963; the
   next scan adopts its bytes without a decision.
2. `ReconstructionTorn`: `store_reconstructions` evaluates the evidence twice, once
   for the dates and once for the fingerprints. An anchor added between the two
   leaves a row computed without it and bound to the evidence with it, which is
   fresh for ever and may be confirmed. Computing both from one list of inputs
   would do.
3. `CurationLastMember`: `remove_event_member` counts before BEGIN; two windows can
   take away both members of an Event.
4. `DesktopLegacyCache`: with a thumbnail folder that was never enrolled, the first
   complete scan makes the re-arming of the thumbnails raise inside its handler, and
   the gate stays shut until the program is closed.

Reproducible by stating the property named (all are in the modules) in a cfg made
from an existing one:

5. `CommitFits`, with `ArchiveLaundered.cfg`: a missing File and its successor at one
   path; when the path becomes undecodable, scanner.py:414-433 makes both present,
   the unique index refuses, and every scan fails until the bytes change.
   `006_unique_identity.sql:7-10` provides for such a pair.
6. `MovedMeansGone`, with `ArchiveSerial.cfg` and `ReadFaults = TRUE`: a File that
   could not be read counts as gone, so a copy that appears in the same scan is taken
   for its move (scanner.py:1079; README.md:190 "now lives only at another").
7. `FlaggedChangesOnlyByReview`, with `ArchiveConcurrent.cfg`: a Verify of the CLI flags
   a File between a scan's SELECT and its lock, and the scan supersedes it.
   `ArchiveSerial` shows that the property holds when operations do not overlap.
8. `VerdictsTerminal`, with `Reconstruction.cfg`: the UPDATE of `_decide`
   (reconstruct_catalogue.py:323) does not repeat the test of the status, so of two
   processes that decide one proposal the second replaces the first's verdict.
9. `RecoveryHonoursLaterCuration`, with `Curation.cfg`, `Standing <- WithAlbum`,
   `Kinds = {"add"}`, `MaxEnv = 0`, `MaxOps = MaxSteps = 4` and `MaxUndo = 0`: a
   curation takes its time before it has the lock (organization.py:324), so one that
   commits after a split can bear an earlier time, and the split may be recovered
   although PHASE10_4_IDENTITY_RESOLUTION_RECOVERY.md:15 says "no later Album/Tag
   curation touched either logical Photo, even if later removed".
10. `DisplacedIsRestored`, with `Outputs.cfg`, three exports, no thumbnail and `MaxOutside = 0`: an
   output parked by mistake stays at its rollback name. PHASE14_1_15 (:63-65) says it
   is restored, PHASE14_1_16 (:47-48) that it is "preserved as rollback debris"; the
   code does the latter.
11. `GateHolds` without `~slipped`, with `Desktop.cfg`: abandoning Albums, Tags or
   Discovery frees the gate while the worker runs, and Duplicates & Lineage does not
   look at it; PHASE11_1_COMMAND_PALETTE.md:11 says requests "cannot bypass busy-state
   protection".
12. `NewNamesOnly`, with `RecoveryPipeline.cfg`: PHASE14_1_15 (:67-68) says "A newly
   appearing destination is never replaced under 'new file' semantics; creation uses
   `replace=False`". The manifests of a stage and of a materialization are created with
   `replace=True` and without the identity of what they may replace, so a file that
   somebody put at their name is set aside, and on Windows then deleted
   (secure_write.py:1768-1784, :1621-1622).

Also, an aborted attempt records `source_namespace_changed = 0`
(recovery_target_execution.py:755, :1011; PHASE14_3_3:68), although on POSIX the
temporary it made stays in the photographs' directory: in the model, `temp[e] = e`
with `result[e] = "aborted"` is reachable.

Seen while reading, and not modelled: `main_window.py:2106` and `:2145` call
`self._refresh()`, which does not exist (the gate is free by then); the cancelled flag
of the album projection is not reset when it starts again; PHASE13_0_RECOVERY_PLANNING.md:90
and migration 035 disagree about what a proposal keeps from being deleted.

## 6. Proofs

Every safety property of a passing run is a theorem, for any number of paths,
contents, Files, processes, sessions and so on; each theorem is listed under
`theorems` in `PROJECT.json` with the property it states.

`ArchiveCoreProofs` (on `CatalogueProofs`) has three invariants, each the base of the
next.

* `IInv` gives `TypeCorrect`, `CurrentRevisionStaysLive` and `DecisionsActOnEvidence`.
  The question is why stale rows are structurally harmless. A scan
  supersedes revision `snap.row[f].cur`, which may be an old one by now. The
  invariant therefore relates three catalogues: `db`, `tx` and each scan's
  snapshot. Every UPDATE *grows* a catalogue (`CatalogueProofs`, one lemma per
  UPDATE): no statement removes a File or a revision or revives a superseded one.
  So each snapshot is below `db`, what it names still exists in `tx`, and retiring
  an old revision again changes nothing while the pointer goes to the one appended
  last. For decisions the invariant says what holds while the reviewer has the lock
  (`Proved`): rows, revision and observation are those of the plan, since nobody else
  can write, and the bytes are those of the plan or the path is in `plan.touched`.
  This is the part `DecisionFits`; `PlanFits` says that only a content is ever planned
  to be adopted.
* `Observed` gives `VerdictIsOnDisk` and `ScansReflectDisk`. It says what a running
  operation knows and has done. `Honest`: the walk is right about every path nobody
  touched. `Faithful`, for a scan whose rows are those of `db`: each File that pass 2
  has matched is `Settled` (at a decoded path, its own if that one is decoded, on no
  account as one of two rivals, with the Photo of a twin that stays), every path
  done has its File (`Placed`), and every other row is untouched. One path settles
  one File (`PathSettles`, from one lemma for a known path, one for a move or a
  restoration and one for an insertion) and disturbs none
  (`SettlesFaithfully`). What makes that go through is that a File at a decoded path
  is settled before any orphan is looked at, and that one not yet settled is still
  indexed by its verified bytes, so whatever order the paths come in, the candidates
  of an orphan are the rivals of the rows SELECTed. `Checked`: Verify has judged what
  it is done with and moved nothing.
* `Gated`, with `Serial`: no operation, a decision included, runs beside another
  (`OneAtATime`), so a scan's rows are always
  those of `db`; the row of each File and its revisions tell one story (`Tells`), and
  the transaction extends the committed ledger (`Ledger`). From it:
  `CurrentRevisionIsCoherent`, `ArchiveKeepsLedger`, `FlaggedWaitsForReview`,
  `MissingIsAbsent`, `UndisturbedStays`, `CopiesJoinTheirPhoto`,
  `AmbiguityIsNotResolved`. `ClaimStaysWithdrawn` needs less (`OneScan`).

For the refinement, `Drafted` says what the open transaction has made of each File so
far: one step of a scan, or of Verify, from its committed entry. That a scan never adds
up to two steps of one File needs an argument: pass 1 writes nothing, pass 2 settles a
File once, and what the commit resurrects or marks missing is what pass 2 has left as
it was (`WalkStays`, `ScanDrafts`, `CommitScans`). `Posts` and `Certifies` say the same
of one statement of pass 2 and of Verify. The lemmas on `History` (`CatalogueProofs`) say
what each UPDATE does to it, which rests on `Tells`: the pointer is the last revision.

The assumption `Serial = TRUE` is the busy gate, and no less will do: section 5 (7)
shows one of these properties failing without it.

`RecoveryExecutionProofs`: all safety properties of the run and `MovesUnderIntent`. The invariant
`Inv` says who may be where: an execution inside its transaction is the writer
and its intent stands (Verify and reviewers need the same lock); the handle is on
the reviewed object; before its first rename `moved` is false and its object is at no
name but its temporary's (`NotMovedBefore`), and a temporary's name holds that
execution's own object or a stranger's (`TemporariesTold`), which is what
`AbortedMeansUntouched` needs once others may exchange temporaries; once it is `placed`
or `restored` and nobody else acted, the directory is what its last proofs saw.
Exclusion comes from the write lock and from unresolved attempts, and so holds for
any number of executions, readinesses and foreign files.

`RecoveryPipelineProofs`: type correctness, the four safety properties of the
run, and that `RecoveryPipeline` implements `RecoveryLadder`. The invariant `Inv`
is `TypeOK /\ Stands`, and `Stands` is what the write lock keeps: the rows hang
together (`RowsHang`: a stage refers to a proposal, a materialization to a stage,
one each), and an operation inside its transaction still has what it found when
it began, namely an unused id, a standing decision and no competing checkpoint
(`ProposeStands`, `StageStands`, `CopyStands`, `AdoptStands`, `ReadyStands`,
`ConfirmStands`). `SumReviewed` ties the bytes a stage carries to those the
proposal recorded, although the copy is taken from a file that changes: this is
what `PreservedIsReviewed` rests on. A manifest is only written under a checkpoint that
is not there yet (`ManifestsStay`), which is what `PipelineDisturbsNothing` says of
committed ones. For the refinement each action is shown to
be a rung of the ladder or to leave `Chain` alone.

`ReconstructionProofs`:

* `FingerprintDeterminesDate`: for any two states of the evidence, equal
  fingerprints of a file mean equal interpreted dates. The lemmas follow the
  engine: a reset run is the run of each of its frames
  (`RunShared`, `GroupShared`), equal fingerprints make it the same set of frames,
  every member has the same claim, rating and known
  date (`CanonTells`), hence the same offsets and corrections (`OffsetsAlike`,
  `CorrectionAlike`), hence the same brackets. Nothing is assumed of the rating
  beyond being a part of the fingerprint, which is why the whole of slices 1 to 3
  may stay folded.
* `FreshRowsAreDerived`: `Spec => []FreshMeansDerived`, from the invariant `IInv` that a
  whole row's date and fingerprint come from *some* one state of the evidence
  (`RowsSound`), as do the readings of a computation under way (`JobsSound`).
* `DecisionsStick`: `Spec => StickyToEngine`.
* `TypeCorrect`, from `Shape`: no range ends before it starts. Anchors do not
  (`EvidenceAssumption`: the CHECK of `007_anchors.sql` and `add_anchor`); a bracket is
  ordered because a neighbour's date only opens it if it is not later than the other
  (`BracketedOrdered`, `InterpretOrdered`).
* `PointsAreHuman`: `Spec => []PointsRestOnHumans`. A GPS date alone gives a range, and
  an offset is taken only from exact dates, so without it every frame that has a point
  date keeps it (`PointWithoutGps`); the fingerprint theorem carries this from the
  evidence a row was computed from to today's.
* `BatchesActOnReview`: `Spec => BatchActsOnReview`. A batch carries the revision and
  fingerprint of each row into its transaction, where one fingerprint means one date
  (`OnePrintOneDate`); rows that are fresh, whole and by offset make the reset run's
  exact dates agree on one correction (`OneClock`).

`CurationProofs`: all properties of the run, for any libraries, collections and
sessions. `Inv` has three parts beside the types and gives `NoPhotoIsGhost` and
`ReassignmentIsReviewed`. `PlanStands`: a
session between `Begin` and its commit holds the lock and its plan is still one that
would be made, with the same fingerprint; nearly all of the proof is that what the
other sessions do without the lock (`Review`, `Start...`) changes nothing a plan is
made from, and that what does change it needs the lock. `Attests`: the bytes read last
are there, or changed since. `ForgetStands`: what `forget_library` read is stale only
in ways that an audit row refuses: a Photo that it has not listed can only hold a File
it has listed after a split or merge in that library, whose history restricts the
deletion. That is why reading before BEGIN is harmless there.

`CurationInv` gives the other four: `MembershipIsBacked`, `AuditReplaysWhatIs`,
`RetiredPhotosAreBare`, `RecoveriesReunite`. The difficulty is time: a recovery is
refused for *later* curation, and what is later is told by times that sessions took
before they had the lock. The invariant says what those times mean. A split's new
Photo is in no audit row, lineage row or waiting session of an earlier time
(`RowStands`, `SplitStands`, `Intends`), and whoever holds the lock began after every
split there is (`Follows`). So "nothing later" means that the new Photo was never
curated, and what a recovery retires was on no shelf; a merge asks for that outright.
Hence no identity operation changes a collection, and the audit goes on telling what
is in it (`CollectionStands`, with `Told` and `Named` reading the rows from the end).
`StandingAssumption` says that the collections of the initial state are made of
what is in their library, and once each.

`OutputsProofs`: all four properties. What a name may show is a matter of the name
(`Shows`): the temporary name of writer w its own file or a photograph that was put
there, the rollback name something that was an output, the output name what is whole.
And a writer past admission has a folder that its path is enrolled for and that was
not among those its operation must avoid (`Granted`); enrolment is for ever, so this
outlives every move of folders. `Late` writers are whole, which is what `WholeOutput`
rests on; the no-replace rename is what `NothingDestroyed` rests on.

`DesktopProofs`: `GateAlwaysHolds` and `RunsEndWithTheirOperation`. `GateHolds` alone
is not inductive, since a Yes starts the operation of the latest of several questions.
The invariant adds that at most one question stands (`OneQuestion`: it stands only
while the gate is free, and whatever would put a second one has to take the gate, which
a standing question forbids), and that an open run belongs to the thread that works
for its operation (`RunsFit`).

Assumptions: frames have different numbers, and `None` is not a verdict;
`None` is no plan and no stage's manifest, and `Spoiled` names no stage or
materialization; `None` and the sentinels are not contents, paths or ids; the
process names differ; an object of another program is not an execution's
temporary; writers, folders and photographs are different objects and libraries
places among the paths; Events are no albums or tags. They are named `ASSUME`s,
evaluated by TLC in every run.

Only model-checked: `AttemptEnds` and `GateReleased`, since liveness under fairness is
beyond the prover. So are induction over data and RECURSIVE operators; no module here
needs them.

What proving has changed. `ScanReflectsDisk` and `VerifyVerdict` were stated without
the two provisos of section 4, and `BatchActsOnReview` without `Whole`; each held on
its run and was found false, by TLC on a larger instance or by hand, when its proof did
not go through. `LedgerAppendOnly`, which said of the revisions only that none disappears
or changes, gave way to `KeepsLedger`, which says it of the whole entry and also says
who may add to it. What is adopted was first said to be on disk at the commit, an
aborted attempt to have left the directory as it was, and the pipeline to disturb no
named file whatever; each held because the model made one step of several (the proof of
the bytes and the commit) or gave no name to what has one in the code (the temporary of
an execution, a stranger's file at a manifest's name). The deletions of `forget_library` were first modelled as a shorter
audit, which reused ids that AUTOINCREMENT never gives again.

## 7. What is left

All modules planned are written. Open, in order of importance:

1. That the readinesses `RecoveryPipeline` records behave as the `donor` of
   `RecoveryExecution`, and that `Install` of both is what `Outputs` shows of the
   installer.
2. A Phase-1 row in `ArchiveConcurrent`; several sessions of photographs and library
   anchors in `DateEngine`; `_build_inputs` as the several reads it is.

**Not modelled, and why.** The migration runner: one transaction per migration, before
anything else opens the catalogue; what could go wrong is the SQL on old data. Read
models and reports keep no state; the pilot's session file (`pilot_session.py`) is
loaded, audited and saved without looking again, so two dashboards may lose a
checkpoint, and has no other invariant. Metadata parsing, logging, configuration and
diagnostics are I/O and conversion. The Windows installer of outputs needs handles and
sharing modes that the code reaches through `ctypes` only. The CLI contributes what a
second process contributes, which the sessions, scanners and processes of the modules
stand for. Saved views, favourites and a Photo's notes are single rows nobody's
correctness depends on.
