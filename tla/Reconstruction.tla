---------------------------- MODULE Reconstruction ----------------------------
(***************************************************************************)
(* Stored interpretations of capture dates (reconstruct_catalogue.py,      *)
(* batch_review.py).  The desktop and the CLI are processes of their own   *)
(* on one catalogue: they compute proposals, show them, and record what a  *)
(* human decides, while anchors are added and scans bring new bytes.       *)
(* Python's sqlite3 begins a transaction at the first write, so every read *)
(* before it sees whatever is committed at that moment.                    *)
(***************************************************************************)
EXTENDS DateEngine

CONSTANTS
    Procs,         \* processes with a connection
    Observations,  \* what a revision may claim: claim, gps, doubt
    FileAnchors, DirectoryAnchors,    \* the dates a human may assert
    Floors,        \* what the CLI may be given as camera floors
    Sessions,      \* what may be known at first: strong, seen and own
    MinBatch,      \* the smallest run a batch may confirm
    MaxEvents,     \* bound: changes of evidence
    MaxJobs        \* bound: operations that do not fail

Verdicts == {"confirmed", "rejected"}

ASSUME VerdictAssumption == None \notin Verdicts

Claimed ==
    [claim : Int \cup {None}, gps : Int \cup {None},
     doubt : {"none", "weak", "inconsistent", "impossible"}]

\* A range does not end before it starts: the table's CHECK, and add_anchor.
Anchors ==
    {a \in [start : Int, end : Int \cup {None}] : a.end = None \/ a.start <= a.end}

ASSUME EvidenceAssumption ==
    /\ None \notin Int
    /\ IsFiniteSet(Files) /\ IsFiniteSet(Procs)
    /\ MaxEvents \in Nat /\ MaxJobs \in Nat
    /\ Observations \subseteq Claimed
    /\ \A a \in FileAnchors \cup DirectoryAnchors : a \in Anchors
    /\ \A s \in Sessions : /\ s.strong \in BOOLEAN
                           /\ s.seen \in [Files -> Claimed]
                           /\ s.own \in [Files -> Anchors \cup {None}]

VARIABLES
    strong,      \* the camera's serial identifies one body
    present,     \* the present files
    revision,    \* [Files -> the number of their current revision]
    seen,        \* [Files -> what that revision claims]
    own,         \* [Files -> the latest anchor of the file, or None]
    directory,   \* the latest anchor of the directory, or None
    rows,        \* [Files -> the reconstruction, or None]
    job,         \* [Procs -> the operation of the process]
    plan,        \* the batch shown to the reviewer, or None
    events, jobs

evidence == <<strong, present, revision, seen, own, directory>>
vars == <<strong, present, revision, seen, own, directory, rows, job, plan, events, jobs>>

\* resolve_for: the most specific anchor applies.
Resolve(f) == IF own[f] # None THEN own[f] ELSE directory

Evidence(floor) ==
    [present |-> present, strong |-> strong, floor |-> floor, seen |-> seen,
     anchor |-> [f \in Files |-> Resolve(f)]]

Prints(ev) == [f \in ev.present |-> Fingerprint(ev, f)]
Get(map, f) == IF f \in DOMAIN map THEN map[f] ELSE None

Idle == [at |-> "idle"]

\* A row: the date, what it is bound to, and whether the evidence stayed the
\* same while both were read (history).
Row(date, rev, print, whole) ==
    [date |-> date, rev |-> rev, print |-> print, whole |-> whole, status |-> "proposed"]

Fresh(f, ev) ==
    /\ rows[f].rev = revision[f]
    /\ rows[f].print # None /\ f \in present /\ rows[f].print = Fingerprint(ev, f)

Today == Evidence(None)

Init ==
    /\ \E s \in Sessions : strong = s.strong /\ seen = s.seen /\ own = s.own
    /\ present = Files
    /\ revision = [f \in Files |-> 1]
    /\ directory = None
    /\ rows = [f \in Files |-> None]
    /\ job = [p \in Procs |-> Idle]
    /\ plan = None
    /\ events = 0 /\ jobs = 0

-----------------------------------------------------------------------------
(* Evidence changes: each in a transaction of its own.                     *)

\* Whoever is computing proposals reads from both sides of the change.
Event ==
    /\ events < MaxEvents /\ events' = events + 1
    /\ job' = [p \in Procs |->
                  IF job[p].at \in {"prints", "revisions"}
                  THEN [job[p] EXCEPT !.whole = FALSE] ELSE job[p]]
    /\ UNCHANGED <<strong, rows, plan, jobs>>

\* add_anchor: the latest anchor of a scope applies, and none is removed.
AddFileAnchor(f, a) ==
    /\ own' = [own EXCEPT ![f] = a]
    /\ Event /\ UNCHANGED <<present, revision, seen, directory>>

AddDirectoryAnchor(a) ==
    /\ directory' = a
    /\ Event /\ UNCHANGED <<present, revision, seen, own>>

\* A scan finds other bytes at f: a new revision and what it claims.
Rescan(f, o) ==
    /\ f \in present
    /\ revision' = [revision EXCEPT ![f] = @ + 1]
    /\ seen' = [seen EXCEPT ![f] = o]
    /\ Event /\ UNCHANGED <<present, own, directory>>

\* The metadata of the same bytes are extracted again.
Reextract(f, o) ==
    /\ f \in present /\ o # seen[f]
    /\ seen' = [seen EXCEPT ![f] = o]
    /\ Event /\ UNCHANGED <<present, revision, own, directory>>

\* A scan finds f gone, or back.
Appear(f) ==
    /\ present' = IF f \in present THEN present \ {f} ELSE present \cup {f}
    /\ Event /\ UNCHANGED <<revision, seen, own, directory>>

Change ==
    \/ \E f \in Files :
          \/ \E a \in FileAnchors : AddFileAnchor(f, a)
          \/ \E o \in Observations : Rescan(f, o) \/ Reextract(f, o)
          \/ Appear(f)
    \/ \E a \in DirectoryAnchors : AddDirectoryAnchor(a)

-----------------------------------------------------------------------------
(* store_reconstructions.                                                  *)

Quiet == UNCHANGED <<strong, present, revision, seen, own, directory, events>>

Begin(p, j) ==
    /\ job[p] = Idle /\ jobs < MaxJobs
    /\ jobs' = jobs + 1
    /\ job' = [job EXCEPT ![p] = j]
    /\ UNCHANGED <<rows, plan>> /\ Quiet

Step(p, j) ==
    /\ job' = [job EXCEPT ![p] = j]
    /\ UNCHANGED <<rows, plan, jobs>> /\ Quiet

End(p) == job' = [job EXCEPT ![p] = Idle] /\ UNCHANGED jobs /\ Quiet

\* Every read is a statement of its own: the dates, the evidence they are
\* bound to, the revisions, the decisions.
StoreDates(p, floor) ==
    Begin(p, [at |-> "prints", floor |-> floor, whole |-> TRUE,
              dates |-> Reconstruct(Evidence(floor))])

StorePrints(p) ==
    /\ job[p].at = "prints"
    /\ Step(p, [at |-> "revisions", whole |-> job[p].whole, dates |-> job[p].dates,
                prints |-> Prints(Evidence(job[p].floor))])

StoreRevisions(p) ==
    /\ job[p].at = "revisions"
    /\ Step(p, [at |-> "decided", whole |-> job[p].whole, dates |-> job[p].dates,
                prints |-> job[p].prints, revs |-> revision])

StoreDecided(p) ==
    /\ job[p].at = "decided"
    /\ Step(p, [at |-> "upsert", whole |-> job[p].whole, dates |-> job[p].dates,
                prints |-> job[p].prints, revs |-> job[p].revs,
                decided |-> {f \in Files : rows[f] # None /\ rows[f].status \in Verdicts}])

Proposed(row) == row # None /\ row.status = "proposed"

\* Fault: the upsert has no WHERE clause.
UpsertAnyway(row, new) == new

\* The upsert refreshes proposed rows only, whatever was read as decided.
Upsert(row, new) == IF row = None \/ Proposed(row) THEN new ELSE row

StoreCommit(p) ==
    LET j == job[p]
        Dates == {f \in DOMAIN j.dates : j.dates[f] # None}
    IN
    /\ j.at = "upsert"
    /\ rows' = [f \in Files |->
          IF f \in Dates
          THEN IF f \in j.decided THEN rows[f]
               ELSE Upsert(rows[f], Row(j.dates[f], j.revs[f], Get(j.prints, f), j.whole))
          ELSE IF Proposed(rows[f]) THEN None ELSE rows[f]]
    /\ UNCHANGED plan /\ End(p)

-----------------------------------------------------------------------------
(* _decide, reopen_reconstruction.                                         *)

DecideSelect(p, f) ==
    /\ Proposed(rows[f])
    /\ Begin(p, [at |-> "freshness", file |-> f])

DecideFresh(p) ==
    /\ job[p].at = "freshness"
    /\ rows[job[p].file] # None /\ Fresh(job[p].file, Today)
    /\ Step(p, [job[p] EXCEPT !.at = "decide"])

\* The UPDATE names the file only; it may find nothing.  Nothing before it
\* depends on the verdict.
DecideCommit(p, verdict) ==
    LET f == job[p].file IN
    /\ job[p].at = "decide"
    /\ rows' = IF rows[f] = None THEN rows
               ELSE [rows EXCEPT ![f].status = verdict]
    /\ UNCHANGED plan /\ End(p)

\* One conditional UPDATE.
Reopen(f) ==
    /\ jobs < MaxJobs /\ jobs' = jobs + 1
    /\ rows[f] # None /\ rows[f].status \in Verdicts
    /\ rows' = [rows EXCEPT ![f].status = "proposed"]
    /\ UNCHANGED <<job, plan>> /\ Quiet

-----------------------------------------------------------------------------
(* plan_batch_confirmation, confirm_batch.                                 *)

Direct(G) == {f \in G : rows[f].date.method = "direct"}

\* A whole run of one device, fresh proposals of point dates that follow from
\* one exact anchor.
Eligible(G, ev) ==
    /\ strong /\ Cardinality(G) >= MinBatch
    /\ \A f \in G : /\ Proposed(rows[f]) /\ Fresh(f, ev)
                    /\ rows[f].date.end = None
                    /\ rows[f].date.method \in {"direct", "offset"}
    /\ Cardinality(Direct(G)) = 1
    /\ \A f \in Direct(G) : KnownTrue(ev, f) \notin {None, Day(Claim(ev, f))}

Plan(f) ==
    LET G == Group(Today, f)
    IN IF Eligible(G, Today) THEN [g \in G |-> rows[g]] ELSE None

\* The batch is shown to the reviewer.
PlanBatch(f) ==
    /\ f \in present /\ Proposed(rows[f])
    /\ plan' = Plan(f) /\ plan' # None
    /\ UNCHANGED <<rows, job, jobs>> /\ Quiet

\* What the batch id is a digest of.
Token(b) == [f \in DOMAIN b |-> <<b[f].date.start, b[f].rev, b[f].print>>]

\* confirm_batch builds the plan again before its transaction.
BatchRebuild(p) ==
    /\ plan # None
    /\ job[p] = Idle /\ jobs < MaxJobs
    /\ \E f \in DOMAIN plan : /\ f \in present /\ Plan(f) # None
                              /\ Token(Plan(f)) = Token(plan)
    /\ job' = [job EXCEPT ![p] = [at |-> "batch", batch |-> plan]]
    /\ plan' = None /\ jobs' = jobs + 1
    /\ UNCHANGED rows /\ Quiet

\* Fault: the UPDATE names the file only.
UnchangedId(f, member) == rows[f] # None

\* What the UPDATE of a member is conditional on.
Unchanged(f, member) ==
    /\ Proposed(rows[f])
    /\ rows[f].rev = member.rev /\ rows[f].print = member.print

\* One member that is not updated rolls all of them back.
BatchCommit(p) ==
    LET batch == job[p].batch IN
    /\ job[p].at = "batch"
    /\ \A f \in DOMAIN batch : Unchanged(f, batch[f])
    /\ rows' = [f \in Files |-> IF f \in DOMAIN batch
                                THEN [rows[f] EXCEPT !.status = "confirmed"] ELSE rows[f]]
    /\ UNCHANGED plan /\ End(p)

-----------------------------------------------------------------------------
\* An error, a refusal, a rollback or the death of the process: nothing is left
\* of the operation, and the bound on operations does not count it.
Fail(p) ==
    /\ job[p] # Idle
    /\ job' = [job EXCEPT ![p] = Idle] /\ jobs' = jobs - 1
    /\ UNCHANGED <<rows, plan>> /\ Quiet

Next ==
    \/ Change
    \/ \E p \in Procs :
          \/ \E x \in Floors : StoreDates(p, x)
          \/ StorePrints(p) \/ StoreRevisions(p) \/ StoreDecided(p) \/ StoreCommit(p)
          \/ \E f \in Files : DecideSelect(p, f)
          \/ DecideFresh(p)
          \/ \E v \in Verdicts : DecideCommit(p, v)
          \/ BatchRebuild(p) \/ BatchCommit(p) \/ Fail(p)
    \/ \E f \in Files : Reopen(f) \/ PlanBatch(f)

Spec == Init /\ [][Next]_vars

-----------------------------------------------------------------------------
(* Properties.                                                             *)

Statuses == {"proposed"} \cup Verdicts

\* Types: the shape of the evidence, the rows, the operations and the plan; a
\* row's range of dates never ends before it starts.
TypeOK ==
    /\ strong \in BOOLEAN /\ present \subseteq Files
    /\ revision \in [Files -> Nat] /\ DOMAIN seen = Files
    /\ DOMAIN own = Files /\ DOMAIN rows = Files /\ DOMAIN job = Procs
    /\ \A f \in Files : rows[f] # None =>
          /\ rows[f].status \in Statuses /\ rows[f].whole \in BOOLEAN
          /\ rows[f].date.end = None \/ rows[f].date.start <= rows[f].date.end
    /\ \A p \in Procs : job[p].at \in {"idle", "prints", "revisions", "decided",
                                       "upsert", "freshness", "decide", "batch"}
    /\ plan # None => DOMAIN plan \subseteq Files
    /\ events \in 0 .. MaxEvents /\ jobs \in 0 .. MaxJobs

Decided(row) == row # None /\ row.status \in Verdicts

\* What a human decided stays what it was about: no recomputation, however
\* its reads and its commit fall around the decision, deletes a decided row or
\* gives it another date, revision or fingerprint (store_reconstructions).
StickyToEngine ==
    [][\A f \in Files : Decided(rows[f]) =>
          \E s \in Statuses : rows'[f] = [rows[f] EXCEPT !.status = s]]_vars

\* A row whose date and fingerprint come from one state of the evidence, and
\* which evaluate_staleness calls fresh, has the date that today's evidence
\* gives: the fingerprint leaves out nothing a reconstruction depends on.
FreshMeansDerived ==
    \A f \in Files :
        rows[f] # None /\ rows[f].whole /\ Fresh(f, Today)
            => rows[f].date = Reconstruct(Today)[f]

\* The same of every row, as StoredReconstruction has it: a row that is not
\* evidence_stale was produced by today's evidence (reconstruct_catalogue.py:51).
FreshIsTrue ==
    \A f \in Files :
        rows[f] # None /\ Fresh(f, Today) => rows[f].date = Reconstruct(Today)[f]

\* Decisions are terminal (_decide's docstring, reconstruct_catalogue.py:302): a
\* verdict is never replaced by the other one, but by reopening the row first.
VerdictsTerminal ==
    [][\A f \in Files : Decided(rows[f]) /\ Decided(rows'[f]) =>
          rows'[f].status = rows[f].status]_vars

\* The rows a batch confirms are those its reviewer saw: bound to the same
\* revision and evidence and, unless evidence changed during the computation
\* of one of them, with the same date (confirm_batch).
BatchConfirmsReviewed ==
    [][\A p \in Procs : job[p].at = "batch" /\ job'[p] # job[p] /\ rows' # rows =>
          \A f \in DOMAIN job[p].batch :
              LET member == job[p].batch[f] IN
              /\ Proposed(rows[f]) /\ rows'[f].status = "confirmed"
              /\ rows[f].rev = member.rev /\ rows[f].print = member.print
              /\ rows[f].whole /\ member.whole => rows[f].date = member.date]_vars

Whole(batch) == \A f \in DOMAIN batch : batch[f].whole

\* A batch put before a reviewer is one clock correction, unless evidence
\* changed during the computation of a row of it: the exact dates of the run
\* give one offset, never zero, and every member's date is the day its camera
\* recorded moved by it (plan_batch_confirmation).
BatchOneClock ==
    [][plan' # plan /\ plan' # None /\ Whole(plan') =>
          \A f \in DOMAIN plan' :
              /\ seen[f].claim # None
              /\ Offsets(Today, f) = {plan'[f].date.start - Day(seen[f].claim)}
              /\ 0 \notin Offsets(Today, f)]_vars

\* What a batch shows its reviewer, and what it then confirms.
BatchActsOnReview == BatchConfirmsReviewed /\ BatchOneClock

WithoutGps(ev) == [ev EXCEPT !.seen = [f \in Files |-> [@[f] EXCEPT !.gps = None]]]

\* A reconstruction is no more precise than its evidence: the day of a fresh
\* point date never rests on a GPS date, which is a day off at either side.
PointsRestOnHumans ==
    Today # WithoutGps(Today) =>
        \A f \in Files :
            rows[f] # None /\ rows[f].whole /\ rows[f].date.end = None /\ Fresh(f, Today)
                => Reconstruct(WithoutGps(Today))[f] = rows[f].date

=============================================================================
