------------------------------- MODULE Desktop -------------------------------
(* The main window of the desktop program (ui/main_window.py): one flag,      *)
(* `_busy`, is the gate that lets one archive operation run at a time. An     *)
(* operation is a request of the person, a worker on a thread of its own      *)
(* (ui/workers.py), and the handler of the worker's one terminal signal,      *)
(* which the GUI thread runs when it gets to it.                              *)
(*                                                                           *)
(* Handlers are atomic: the GUI thread runs one at a time. But a question is  *)
(* asked inside a handler, and while it stands other handlers run.            *)
EXTENDS Naturals, Sequences, FiniteSets

CONSTANTS
    Threads,        \* bound: workers at once
    Offered,        \* the operations people ask for
    LegacyCache,    \* a thumbnail folder is there that was never enrolled
    None

(***************************************************************************)
(* Workers: the terminal signals of each family, of which one is emitted    *)
(***************************************************************************)
\* Scans, metadata, verification: the error is the only other end.
ArchiveWorker == {"finished", "failed"}

\* They analyse for long, and look at a flag now and then.
CancellableWorker == {"finished", "failed", "cancelled"}

\* Projections of albums and tags for the screen: short, nothing to cancel.
HomeWorker == {"finished", "failed"}

\* The steps of recovery revalidate and then write, or fail closed.
RecoveryWorker == {"finished", "failed"}

\* Reviews, suggestions, health: they read.
ReviewWorker == {"finished", "failed"}

(***************************************************************************)
(* Operations                                                               *)
(*   place    where it is asked for: the window, a dialog that does not     *)
(*            block, or only another handler                                *)
(*   gate     "checked": refused while busy; "unchecked": it sets the flag  *)
(*            without looking; "own": it leaves the flag alone              *)
(*   logged   an activity run is opened and ended with it                   *)
(*   dialog   a progress dialog; cancelling it asks the worker to stop      *)
(*            ("asks") or abandons the result and frees the gate ("drops")  *)
(*   chains   the operation that a success starts without freeing the gate  *)
(*   offers   the operation that a success offers in a question             *)
(***************************************************************************)
Plain == [place |-> "window", gate |-> "checked", ends |-> ArchiveWorker,
          logged |-> FALSE, dialog |-> "none", chains |-> None, offers |-> None]

Scan == [Plain EXCEPT !.logged = TRUE, !.chains = "metadata"]
Metadata == Plain
Verify == Plain
ArchiveHealth == [Plain EXCEPT !.ends = ReviewWorker]
Suggestions == [Plain EXCEPT !.ends = ReviewWorker]
OrganizationHealth == [Plain EXCEPT !.ends = ReviewWorker]
OrganizationActivity == [Plain EXCEPT !.ends = ReviewWorker]
OrganizationReport == [Plain EXCEPT !.ends = ReviewWorker]
Investigate == [Plain EXCEPT !.ends = ReviewWorker]
Resolve == [Plain EXCEPT !.place = "dialog", !.ends = RecoveryWorker]

\* Opened by nothing that looks at the flag.
Duplicates == [Plain EXCEPT !.gate = "unchecked", !.ends = ReviewWorker]

Cooperative == [Plain EXCEPT !.ends = CancellableWorker, !.logged = TRUE,
                             !.dialog = "asks"]
Timeline == Cooperative
FamilyHistory == Cooperative
PilotAudit == Cooperative
\* The pilot dashboard asks for these two also.
DateReview == [Cooperative EXCEPT !.place = "dialog"]
UnresolvedMemories == [Cooperative EXCEPT !.place = "dialog"]

Abandonable == [Plain EXCEPT !.ends = HomeWorker, !.dialog = "drops"]
Albums == Abandonable
Tags == Abandonable
Discovery == Abandonable

\* A pilot session runs from its dashboard, which locks its own buttons.
PilotSession == [Cooperative EXCEPT !.place = "dialog", !.gate = "own",
                                    !.logged = FALSE, !.dialog = "none"]

Rung == [Plain EXCEPT !.place = "handler", !.ends = RecoveryWorker]
PlanRecovery == [Rung EXCEPT !.place = "dialog"]
Propose == [Rung EXCEPT !.place = "dialog", !.offers = "preserve"]
Preserve == [Rung EXCEPT !.offers = "materialize"]
Materialize == [Rung EXCEPT !.offers = "assess"]
Assess == [Rung EXCEPT !.offers = "record"]
RecordReadiness == [Rung EXCEPT !.offers = "preview"]
Preview == Rung
Execute == [Rung EXCEPT !.place = "dialog"]
\* What became of a failed attempt is always looked up.
Status == [Rung EXCEPT !.gate = "unchecked"]

Op == [scan |-> Scan, metadata |-> Metadata, verify |-> Verify,
       archiveHealth |-> ArchiveHealth, suggestions |-> Suggestions,
       orgHealth |-> OrganizationHealth, orgActivity |-> OrganizationActivity,
       orgReport |-> OrganizationReport, investigate |-> Investigate,
       resolve |-> Resolve, duplicates |-> Duplicates, timeline |-> Timeline,
       familyHistory |-> FamilyHistory, pilotAudit |-> PilotAudit,
       dateReview |-> DateReview, unresolved |-> UnresolvedMemories,
       albums |-> Albums, tags |-> Tags, discovery |-> Discovery,
       pilotSession |-> PilotSession, plan |-> PlanRecovery, propose |-> Propose,
       preserve |-> Preserve, materialize |-> Materialize, assess |-> Assess,
       record |-> RecordReadiness, preview |-> Preview, execute |-> Execute,
       status |-> Status]

Names == DOMAIN Op

ASSUME DesktopAssumption ==
    /\ Offered \subseteq {o \in Names : Op[o].place # "handler"}
    /\ LegacyCache \in BOOLEAN
    /\ None \notin Names \cup Threads

VARIABLES
    busy,       \* the gate
    jobs,       \* what each thread does, until its signal is handled
    shown,      \* whose progress dialog each operation shows
    asking,     \* the questions that stand, the latest last
    runs,       \* _activity_runs: whose run of each operation is open
    slipped,    \* history: the gate was passed or given up with work in flight
    armed,      \* thumbnails are written
    window

vars == <<busy, jobs, shown, asking, runs, slipped, armed, window>>

Free == [op |-> None, at |-> "none", asked |-> FALSE, end |-> None]
Job(o) == [op |-> o, at |-> "running", asked |-> FALSE, end |-> None]

TypeOK ==
    /\ busy \in BOOLEAN /\ slipped \in BOOLEAN /\ armed \in BOOLEAN
    /\ jobs \in [Threads -> [op : Names \cup {None}, at : {"none", "running", "posted"},
                             asked : BOOLEAN,
                             end : {None, "finished", "failed", "cancelled"}]]
    /\ shown \in [Names -> Threads \cup {None}]
    /\ runs \in [Names -> Threads \cup {None}]
    /\ asking \in Seq(Names)
    /\ window \in {"open", "closing", "closed"}

\* With an old cache the window can only have opened before a complete scan.
Init ==
    /\ busy = FALSE /\ slipped = FALSE
    /\ jobs = [t \in Threads |-> Free]
    /\ shown = [o \in Names |-> None] /\ runs = [o \in Names |-> None]
    /\ asking = <<>>
    /\ armed \in (IF LegacyCache THEN {FALSE} ELSE BOOLEAN)
    /\ window = "open"

(***************************************************************************)
(* Requests                                                                 *)
(***************************************************************************)
Launch(o, t) ==
    /\ jobs' = [jobs EXCEPT ![t] = Job(o)]
    /\ busy' = (busy \/ Op[o].gate # "own")
    /\ runs' = IF Op[o].logged THEN [runs EXCEPT ![o] = t] ELSE runs
    /\ shown' = IF Op[o].dialog # "none" THEN [shown EXCEPT ![o] = t] ELSE shown

\* A question blocks every window, a progress dialog the main one.
Reachable(o) ==
    /\ window = "open" /\ asking = <<>>
    /\ Op[o].place = "window" => \A p \in Names : shown[p] = None

\* Mutant: the window is trusted to have greyed out what may not be asked.
RequestUnchecked(o, t) ==
    /\ Reachable(o) /\ jobs[t] = Free
    /\ Launch(o, t)
    /\ slipped' = (slipped \/ (Op[o].gate = "unchecked" /\ busy))
    /\ UNCHANGED <<asking, armed, window>>

Request(o, t) ==
    /\ Reachable(o) /\ jobs[t] = Free
    /\ Op[o].gate = "checked" => ~busy
    /\ Launch(o, t)
    /\ slipped' = (slipped \/ (Op[o].gate = "unchecked" /\ busy))
    /\ UNCHANGED <<asking, armed, window>>

\* The dialog goes; the worker may look at its flag in time, or not.
AskToStop(o) ==
    /\ window = "open" /\ asking = <<>>
    /\ shown[o] # None /\ Op[o].dialog = "asks"
    /\ jobs' = [jobs EXCEPT ![shown[o]].asked = TRUE]
    /\ shown' = [shown EXCEPT ![o] = None]
    /\ UNCHANGED <<busy, asking, runs, slipped, armed, window>>

\* The gate is free at once, and the worker goes on.
Abandon(o) ==
    /\ window = "open" /\ asking = <<>>
    /\ shown[o] # None /\ Op[o].dialog = "drops"
    /\ shown' = [shown EXCEPT ![o] = None]
    /\ busy' = FALSE /\ slipped' = TRUE
    /\ UNCHANGED <<jobs, asking, runs, armed, window>>

(***************************************************************************)
(* Workers                                                                  *)
(***************************************************************************)
Work(t) ==
    /\ jobs[t].at = "running"
    /\ \E e \in Op[jobs[t].op].ends :
         /\ e = "cancelled" => jobs[t].asked
         /\ jobs' = [jobs EXCEPT ![t].at = "posted", ![t].end = e]
    /\ UNCHANGED <<busy, shown, asking, runs, slipped, armed, window>>

(***************************************************************************)
(* Handlers of terminal signals                                             *)
(***************************************************************************)
\* Every handler ends the run of its operation and closes its dialog.
Handling(t, e) ==
    LET o == jobs[t].op IN
    /\ window = "open" /\ jobs[t].at = "posted" /\ jobs[t].end = e
    /\ runs' = [runs EXCEPT ![o] = None]
    /\ shown' = [shown EXCEPT ![o] = None]
    /\ UNCHANGED <<slipped, window>>

\* The work is over, and what holds the gate frees it.
Release(t) ==
    /\ jobs' = [jobs EXCEPT ![t] = Free]
    /\ busy' = (busy /\ Op[jobs[t].op].gate = "own")

Succeed(t) ==
    LET o == jobs[t].op IN
    /\ Handling(t, "finished") /\ Op[o].chains = None
    /\ Release(t)
    /\ asking' = IF Op[o].offers # None THEN Append(asking, Op[o].offers) ELSE asking
    /\ UNCHANGED armed

Continue(t, o) == jobs' = [jobs EXCEPT ![t] = Job(o)] /\ busy' = TRUE

\* A complete scan arms the thumbnails; then the metadata is read. An old
\* cache folder makes the arming raise: the handler ends there.
ScanSucceeds(t) ==
    LET o == jobs[t].op IN
    /\ Handling(t, "finished") /\ Op[o].chains # None
    /\ \/ Continue(t, Op[o].chains) /\ UNCHANGED armed
       \/ /\ ~armed /\ ~LegacyCache /\ armed' = TRUE
          /\ Continue(t, Op[o].chains)
       \/ /\ ~armed /\ LegacyCache
          /\ jobs' = [jobs EXCEPT ![t] = Free]
          /\ UNCHANGED <<busy, armed>>
    /\ UNCHANGED asking

\* Mutant: the handler of an error reports it and forgets the gate.
FailKeepingGate(t, e) ==
    /\ Handling(t, e)
    /\ ~(jobs[t].op = "execute" /\ e = "failed")
    /\ jobs' = [jobs EXCEPT ![t] = Free]
    /\ UNCHANGED <<busy, asking, armed>>

\* Mutant: the handler of an error leaves the run of its operation open.
FailKeepingRun(t, e) ==
    LET o == jobs[t].op IN
    /\ window = "open" /\ jobs[t].at = "posted" /\ jobs[t].end = e
    /\ shown' = [shown EXCEPT ![o] = None]
    /\ ~(o = "execute" /\ e = "failed")
    /\ Release(t)
    /\ UNCHANGED <<runs, slipped, window, asking, armed>>

Fail(t, e) ==
    /\ Handling(t, e)
    /\ ~(jobs[t].op = "execute" /\ e = "failed")
    /\ Release(t)
    /\ UNCHANGED <<asking, armed>>

ExecutionFails(t) ==
    /\ Handling(t, "failed") /\ jobs[t].op = "execute"
    /\ Continue(t, "status")
    /\ UNCHANGED <<asking, armed>>

Deliver(t) == Succeed(t) \/ ScanSucceeds(t) \/ ExecutionFails(t)
              \/ \E e \in {"failed", "cancelled"} : Fail(t, e)

(***************************************************************************)
(* Questions, and the end                                                   *)
(***************************************************************************)
Latest == asking[Len(asking)]
Answered == asking # <<>> /\ asking' = SubSeq(asking, 1, Len(asking) - 1)

Decline ==
    /\ window = "open" /\ Answered
    /\ UNCHANGED <<busy, jobs, shown, runs, slipped, armed, window>>

\* The handler of the next step refuses in silence while the gate is held.
Accept(t) ==
    /\ window = "open" /\ Answered /\ jobs[t] = Free
    /\ \/ busy /\ UNCHANGED <<busy, jobs, shown, runs>>
       \/ ~busy /\ Launch(Latest, t)
    /\ UNCHANGED <<slipped, armed, window>>

\* closeEvent waits for the threads; no handler runs any more.
Close ==
    /\ window = "open" /\ asking = <<>>
    /\ \A o \in Names : shown[o] = None
    /\ window' = "closing"
    /\ UNCHANGED <<busy, jobs, shown, asking, runs, slipped, armed>>

Shutdown ==
    /\ window = "closing" /\ \A t \in Threads : jobs[t].at # "running"
    /\ window' = "closed"
    /\ UNCHANGED <<busy, jobs, shown, asking, runs, slipped, armed>>

Person ==
    \/ \E o \in Offered, t \in Threads : Request(o, t)
    \/ \E o \in Names : AskToStop(o) \/ Abandon(o)
    \/ \E t \in Threads : Accept(t)
    \/ Decline \/ Close

Next == Person \/ Shutdown \/ \E t \in Threads : Work(t) \/ Deliver(t)

\* Threads run and the GUI thread serves its queue. Nobody has to answer.
Fairness ==
    /\ WF_vars(Shutdown)
    /\ \A t \in Threads : WF_vars(Work(t)) /\ WF_vars(Deliver(t))

Spec == Init /\ [][Next]_vars /\ Fairness

-----------------------------------------------------------------------------
(* Properties                                                                *)

InFlight == {t \in Threads : jobs[t].at # "none" /\ Op[jobs[t].op].gate # "own"}

\* Unless the person abandoned Albums, Tags or Discovery, or opened Duplicates
\* & Lineage over another operation: at most one operation is in flight, the
\* gate is held exactly as long, and while the next step of a recovery is
\* offered the gate is free, so that a Yes is never dropped in silence.
GateHolds ==
    ~slipped /\ window = "open" =>
        /\ \A t, u \in InFlight : t = u
        /\ InFlight # {} => busy
        /\ asking # <<>> => ~busy

\* The gate does not stay shut: whatever holds it ends, in success, in error
\* or in cancellation, and its handler frees it. Otherwise only closing the
\* program would help, every operation being refused.
GateReleased == busy ~> (~busy \/ window # "open")

\* An open activity run is ended by the handler of the operation that opened
\* it and by nothing else; no later operation takes its place in the log.
RunEndsWithItsOperation ==
    [][\A o \in Names : runs[o] # None /\ runs'[o] # runs[o] /\ ~slipped =>
        jobs[runs[o]].op = o /\ jobs[runs[o]].at = "posted"
        /\ jobs'[runs[o]] # jobs[runs[o]]]_vars
=============================================================================
