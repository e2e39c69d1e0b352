---------------------------- MODULE DesktopProofs ----------------------------
(***************************************************************************)
(* The gate of the main window lets one operation run at a time, however   *)
(* many threads and operations there are.                                  *)
(*                                                                         *)
(* The argument: a question stands only while the gate is free and no two  *)
(* stand at once, so that the operation a Yes starts finds nothing in      *)
(* flight; and what goes on without freeing the gate stays on its thread.  *)
(***************************************************************************)
EXTENDS Desktop, TLAPS

USE DesktopAssumption

Gated(o) == Op[o].gate # "own"

LEMMA NamesAre ==
    Names = {"scan", "metadata", "verify", "archiveHealth", "suggestions", "orgHealth",
             "orgActivity", "orgReport", "investigate", "resolve", "duplicates",
             "timeline", "familyHistory", "pilotAudit", "dateReview", "unresolved",
             "albums", "tags", "discovery", "pilotSession", "plan", "propose",
             "preserve", "materialize", "assess", "record", "preview", "execute",
             "status"}
BY DEF Names, Op

Ends == {"finished", "failed", "cancelled"}

Row(r) ==
    /\ r.logged \in BOOLEAN /\ r.ends \subseteq Ends
    /\ r.logged => r.gate = "checked"
    /\ r.gate \in {"checked", "unchecked", "own"}
    /\ r.offers # None => r.gate # "own" /\ r.offers \in Names
    /\ r.chains # None => r.gate # "own" /\ r.chains = "metadata"

\* What the table of operations says about the gate.
LEMMA Rows ==
    ASSUME NEW o \in Names PROVE Row(Op[o])
<1>1. Row(Plain)
  BY DEF Row, Ends, ArchiveWorker, Plain
<1>2. Row(Metadata) /\ Row(Verify)
  BY <1>1 DEF Metadata, Verify
<1>3. Row(Scan)
  BY DEF Row, Ends, ArchiveWorker, Plain, Scan
<1>4. Row(ArchiveHealth) /\ Row(Suggestions) /\ Row(OrganizationHealth)
  BY DEF Row, Ends, ReviewWorker, Plain, ArchiveHealth, Suggestions, OrganizationHealth
<1>5. Row(OrganizationActivity) /\ Row(OrganizationReport) /\ Row(Investigate)
  BY DEF Row, Ends, ReviewWorker, Plain, OrganizationActivity, OrganizationReport, Investigate
<1>6. Row(Resolve) /\ Row(Duplicates)
  BY DEF Row, Ends, ReviewWorker, RecoveryWorker, Plain, Resolve, Duplicates
<1>7. Row(Cooperative)
  BY DEF Row, Ends, CancellableWorker, Plain, Cooperative
<1>8. Row(Timeline) /\ Row(FamilyHistory) /\ Row(PilotAudit)
  BY <1>7 DEF Timeline, FamilyHistory, PilotAudit
<1>9. Row(DateReview) /\ Row(UnresolvedMemories)
  BY DEF Row, Ends, CancellableWorker, Plain, Cooperative, DateReview, UnresolvedMemories
<1>10. Row(Abandonable)
  BY DEF Row, Ends, HomeWorker, Plain, Abandonable
<1>11. Row(Albums) /\ Row(Tags) /\ Row(Discovery)
  BY <1>10 DEF Albums, Tags, Discovery
<1>12. Row(PilotSession)
  BY DEF Row, Ends, CancellableWorker, Plain, Cooperative, PilotSession
<1>13. Row(Rung)
  BY DEF Row, Ends, RecoveryWorker, Plain, Rung
<1>14. Row(Preview)
  BY <1>13 DEF Preview
<1>15. Row(PlanRecovery) /\ Row(Execute) /\ Row(Status)
  BY DEF Row, Ends, RecoveryWorker, Plain, Rung, PlanRecovery, Execute, Status
<1>16. {"preserve", "materialize", "assess", "record", "preview"} \subseteq Names
  BY NamesAre
<1>17. Row(Propose) /\ Row(Preserve)
  BY <1>16 DEF Row, Ends, RecoveryWorker, Plain, Rung, Propose, Preserve
<1>18. Row(Materialize) /\ Row(Assess)
  BY <1>16 DEF Row, Ends, RecoveryWorker, Plain, Rung, Materialize, Assess
<1>19. Row(RecordReadiness)
  BY <1>16 DEF Row, Ends, RecoveryWorker, Plain, Rung, RecordReadiness
<1> QED
  BY <1>2, <1>3, <1>4, <1>5, <1>6, <1>8, <1>9, <1>11, <1>12, <1>14, <1>15, <1>17,
     <1>18, <1>19, NamesAre DEF Op

LEMMA Gates == Gated("metadata") /\ Gated("execute") /\ Gated("status")
<1>1. Metadata.gate # "own"
  BY DEF Metadata, Plain
<1>2. Execute.gate # "own" /\ Status.gate # "own"
  BY DEF Execute, Status, Rung, Plain
<1> QED BY <1>1, <1>2 DEF Gated, Op

LEMMA Table ==
    ASSUME NEW o \in Names
    PROVE  /\ Op[o].logged \in BOOLEAN /\ Op[o].ends \subseteq Ends
           /\ Op[o].logged => Gated(o) /\ Op[o].gate = "checked"
           /\ Gated(o) => Op[o].gate \in {"checked", "unchecked"}
           /\ Op[o].offers # None => Gated(o) /\ Op[o].offers \in Names
           /\ Op[o].chains # None => Gated(o) /\ Op[o].chains \in Names
                                     /\ Gated(Op[o].chains)
BY Rows, Gates, NamesAre DEF Row, Gated

-----------------------------------------------------------------------------
(* The invariant.                                                            *)

Jobs == [op : Names \cup {None}, at : {"none", "running", "posted"},
         asked : BOOLEAN, end : {None} \cup Ends]

\* A thread that works does so for an operation.
Working == \A t \in Threads : jobs[t].at # "none" => jobs[t].op \in Names

OneQuestion == ~slipped /\ window = "open" => Len(asking) =< 1

RunsFit == ~slipped => \A o \in Names : runs[o] # None =>
    Op[o].logged /\ jobs[runs[o]].op = o /\ jobs[runs[o]].at # "none"

Inv == TypeOK /\ Working /\ GateHolds /\ OneQuestion /\ RunsFit

LEMMA JobTypes ==
    /\ Free \in Jobs /\ Free.at = "none"
    /\ \A o \in Names : /\ Job(o) \in Jobs
                         /\ Job(o).op = o /\ Job(o).at = "running"
    /\ [Threads -> Jobs] =
         [Threads -> [op : Names \cup {None}, at : {"none", "running", "posted"},
                      asked : BOOLEAN,
                      end : {None, "finished", "failed", "cancelled"}]]
BY DEF Jobs, Free, Job, Ends

LEMMA InitInv == Init => Inv
<1> SUFFICES ASSUME Init PROVE Inv
  OBVIOUS
<1>1. TypeOK
  <2>1. jobs \in [Threads -> Jobs]
    BY JobTypes DEF Init
  <2>2. asking \in Seq(Names)
    BY DEF Init
  <2>3. jobs \in [Threads -> [op : Names \cup {None}, at : {"none", "running", "posted"},
                             asked : BOOLEAN,
                             end : {None, "finished", "failed", "cancelled"}]]
    BY <2>1, JobTypes
  <2> QED BY <2>2, <2>3 DEF Init, TypeOK
<1>2. \A t \in Threads : jobs[t].at = "none"
  BY JobTypes DEF Init
<1>3. Working /\ GateHolds
  BY <1>2 DEF Init, Working, GateHolds, InFlight
<1>4. OneQuestion /\ RunsFit
  BY DEF Init, OneQuestion, RunsFit
<1> QED BY <1>1, <1>3, <1>4 DEF Inv

\* What is in flight is working for an operation that holds the gate.
LEMMA Flight ==
    ASSUME Inv, NEW t \in Threads
    PROVE  /\ t \in InFlight <=> jobs[t].at # "none" /\ Gated(jobs[t].op)
           /\ jobs[t] = Free => t \notin InFlight
BY JobTypes DEF InFlight, Gated

LEMMA Types ==
    ASSUME Inv
    PROVE  /\ jobs \in [Threads -> Jobs] /\ asking \in Seq(Names)
           /\ busy \in BOOLEAN /\ slipped \in BOOLEAN /\ armed \in BOOLEAN
           /\ shown \in [Names -> Threads \cup {None}]
           /\ runs \in [Names -> Threads \cup {None}]
           /\ window \in {"open", "closing", "closed"}
           /\ None \notin Names \cup Threads
BY JobTypes DEF Inv, TypeOK

LEMMA TypesNext ==
    ASSUME jobs' \in [Threads -> Jobs], asking' \in Seq(Names),
           busy' \in BOOLEAN, slipped' \in BOOLEAN, armed' \in BOOLEAN,
           shown' \in [Names -> Threads \cup {None}],
           runs' \in [Names -> Threads \cup {None}],
           window' \in {"open", "closing", "closed"}
    PROVE  TypeOK'
BY JobTypes DEF TypeOK

-----------------------------------------------------------------------------
(* Steps.                                                                    *)

\* An operation starts on a free thread.
LEMMA LaunchInv ==
    ASSUME Inv, NEW o \in Names, NEW t \in Threads, jobs[t] = Free, Launch(o, t),
           window = "open", UNCHANGED <<armed, window>>, slipped' \in BOOLEAN,
           ~slipped' => ~slipped /\ (Gated(o) => ~busy) /\ asking' = <<>>,
           asking' \in Seq(Names)
    PROVE  Inv'
<1>1. /\ jobs' = [jobs EXCEPT ![t] = Job(o)] /\ busy' = (busy \/ Gated(o))
      /\ runs' = (IF Op[o].logged THEN [runs EXCEPT ![o] = t] ELSE runs)
      /\ shown' = (IF Op[o].dialog # "none" THEN [shown EXCEPT ![o] = t] ELSE shown)
  BY DEF Launch, Gated
<1>2. /\ jobs'[t].op = o /\ jobs'[t].at = "running"
      /\ \A u \in Threads : u # t => jobs'[u] = jobs[u]
      /\ jobs' \in [Threads -> Jobs] /\ jobs[t].at = "none"
  BY <1>1, Types, JobTypes
<1>3. TypeOK'
  <2>1. /\ busy' \in BOOLEAN /\ runs' \in [Names -> Threads \cup {None}]
        /\ shown' \in [Names -> Threads \cup {None}]
    BY <1>1, Types
  <2> QED BY <1>2, <2>1, Types, TypesNext
<1>4. Working'
  BY <1>2 DEF Inv, Working
<1>5. ASSUME ~slipped' PROVE /\ \A u, v \in InFlight' : u = v
                             /\ InFlight' # {} => busy'
  <2>1. ~slipped /\ (Gated(o) => ~busy)
    BY <1>5
  <2>2. \A u \in InFlight' : u # t => u \in InFlight
    BY <1>2 DEF InFlight
  <2>3. t \in InFlight' => Gated(o)
    BY <1>2 DEF InFlight, Gated
  <2>4. /\ \A u, v \in InFlight : u = v
        /\ InFlight # {} => busy
    BY <2>1 DEF Inv, GateHolds
  <2> QED BY <1>1, <2>1, <2>2, <2>3, <2>4
<1>6. GateHolds' /\ OneQuestion'
  BY <1>5 DEF GateHolds, OneQuestion
<1>7. RunsFit'
  <2> SUFFICES ASSUME ~slipped', NEW p \in Names, runs'[p] # None
               PROVE  Op[p].logged /\ jobs'[runs'[p]].op = p /\ jobs'[runs'[p]].at # "none"
    BY DEF RunsFit
  <2>1. CASE p = o /\ Op[o].logged
    BY <1>1, <1>2, <2>1, Types
  <2>2. CASE ~(p = o /\ Op[o].logged)
    <3>1. runs'[p] = runs[p] /\ runs[p] \in Threads
      BY <1>1, <2>2, Types
    <3>2. Op[p].logged /\ jobs[runs[p]].op = p /\ jobs[runs[p]].at # "none"
      BY <3>1 DEF Inv, RunsFit
    <3> QED BY <1>2, <3>1, <3>2
  <2> QED BY <2>1, <2>2
<1> QED BY <1>3, <1>4, <1>6, <1>7 DEF Inv

\* A handler ends the job of its thread, or gives it the next operation.
LEMMA HandleInv ==
    ASSUME Inv, NEW t \in Threads, NEW e, Handling(t, e),
           \/ /\ jobs' = [jobs EXCEPT ![t] = Free]
              /\ busy' = busy \/ busy' = (busy /\ ~Gated(jobs[t].op))
              /\ \/ UNCHANGED asking
                 \/ /\ Gated(jobs[t].op) /\ busy' = FALSE
                    /\ \E o \in Names : asking' = Append(asking, o)
           \/ /\ \E o \in Names : jobs' = [jobs EXCEPT ![t] = Job(o)]
              /\ Gated(jobs[t].op) /\ busy' = TRUE /\ UNCHANGED asking,
           armed' \in BOOLEAN
    PROVE  Inv'
<1> DEFINE q == jobs[t].op
<1>1. /\ window = "open" /\ jobs[t].at = "posted" /\ UNCHANGED <<slipped, window>>
      /\ runs' = [runs EXCEPT ![q] = None] /\ shown' = [shown EXCEPT ![q] = None]
  BY DEF Handling
<1>2. q \in Names
  BY <1>1 DEF Inv, Working
<1>3. /\ \A u \in Threads : u # t => jobs'[u] = jobs[u]
      /\ jobs' \in [Threads -> Jobs]
      /\ jobs'[t].at # "none" => jobs'[t].op \in Names /\ Gated(q) /\ busy' = TRUE
  <2>1. CASE jobs' = [jobs EXCEPT ![t] = Free]
    BY <2>1, Types, JobTypes
  <2>2. CASE (\E o \in Names : jobs' = [jobs EXCEPT ![t] = Job(o)]) /\ Gated(q) /\ busy' = TRUE
    <3>1. PICK o \in Names : jobs' = [jobs EXCEPT ![t] = Job(o)]
      BY <2>2
    <3>2. Job(o) \in Jobs /\ Job(o).op = o
      BY JobTypes
    <3> QED BY <2>2, <3>1, <3>2, Types
  <2> QED BY <2>1, <2>2
<1>4. busy' \in BOOLEAN
  BY Types
<1>5. asking' \in Seq(Names)
  BY Types
<1>6. TypeOK'
  <2>1. /\ runs' \in [Names -> Threads \cup {None}]
        /\ shown' \in [Names -> Threads \cup {None}]
    BY <1>1, Types
  <2> QED BY <1>1, <1>3, <1>4, <1>5, <2>1, Types, TypesNext
<1>7. Working'
  BY <1>3 DEF Inv, Working
<1>8. RunsFit'
  <2> SUFFICES ASSUME ~slipped', NEW p \in Names, runs'[p] # None
               PROVE  Op[p].logged /\ jobs'[runs'[p]].op = p /\ jobs'[runs'[p]].at # "none"
    BY DEF RunsFit
  <2>1. p # q /\ runs'[p] = runs[p] /\ runs[p] \in Threads
    BY <1>1, <1>2, Types
  <2>2. Op[p].logged /\ jobs[runs[p]].op = p /\ jobs[runs[p]].at # "none"
    BY <1>1, <2>1 DEF Inv, RunsFit
  <2> QED BY <1>3, <2>1, <2>2
<1>9. ASSUME ~slipped PROVE GateHolds' /\ OneQuestion'
  <2>1. /\ \A u, v \in InFlight : u = v
        /\ InFlight # {} => busy
        /\ asking # <<>> => ~busy
        /\ Len(asking) =< 1
    BY <1>1, <1>9 DEF Inv, GateHolds, OneQuestion
  <2>2. Gated(q) => t \in InFlight
    BY <1>1 DEF InFlight, Gated
  <2>3. \A u \in InFlight' : u # t => u \in InFlight
    BY <1>3 DEF InFlight
  <2>4. t \in InFlight' => Gated(q) /\ busy' = TRUE
    BY <1>3 DEF InFlight
  <2>5. \A u, v \in InFlight' : u = v
    BY <2>1, <2>2, <2>3, <2>4
  <2>6. InFlight' # {} => busy'
    BY <2>1, <2>2, <2>3, <2>4, Types
  <2>7. Gated(q) => asking = <<>>
    BY <2>1, <2>2
  <2>8. (asking' # <<>> => ~busy') /\ Len(asking') =< 1
    <3>1. CASE UNCHANGED asking
      <4>1. ~Gated(q) => busy' = busy \/ busy' = (busy /\ TRUE)
        OBVIOUS
      <4>2. ~Gated(q) /\ ~busy => ~busy'
        BY <4>1
      <4> QED BY <2>1, <2>7, <3>1, <4>2
    <3>2. CASE Gated(q) /\ busy' = FALSE /\ \E o \in Names : asking' = Append(asking, o)
      BY <2>7, <3>2
    <3> QED BY <3>1, <3>2
  <2> QED BY <2>5, <2>6, <2>8 DEF GateHolds, OneQuestion
<1>10. GateHolds' /\ OneQuestion'
  BY <1>1, <1>9 DEF GateHolds, OneQuestion
<1> QED BY <1>6, <1>7, <1>8, <1>10 DEF Inv

LEMMA AnswerTakes ==
    ASSUME asking \in Seq(Names), Answered
    PROVE  /\ asking' \in Seq(Names) /\ Latest \in Names
           /\ Len(asking') =< Len(asking)
           /\ Len(asking) =< 1 => asking' = <<>>
BY DEF Answered, Latest

LEMMA PersonInv == ASSUME Inv, Person PROVE Inv'
<1>1. ASSUME NEW o \in Offered, NEW t \in Threads, Request(o, t) PROVE Inv'
  <2>1. /\ o \in Names /\ jobs[t] = Free /\ Launch(o, t) /\ window = "open"
        /\ asking = <<>> /\ UNCHANGED <<asking, armed, window>>
        /\ Op[o].gate = "checked" => ~busy
        /\ slipped' = (slipped \/ (Op[o].gate = "unchecked" /\ busy))
    BY <1>1 DEF Request, Reachable
  <2>2. Gated(o) => Op[o].gate \in {"checked", "unchecked"}
    BY <2>1, Table
  <2>3. slipped' \in BOOLEAN /\ (~slipped' => ~slipped /\ (Gated(o) => ~busy))
    BY <2>1, <2>2, Types
  <2> QED BY <2>1, <2>3, Types, LaunchInv
<1>2. ASSUME NEW t \in Threads, Accept(t) PROVE Inv'
  <2>1. /\ window = "open" /\ jobs[t] = Free /\ Answered
        /\ UNCHANGED <<slipped, armed, window>>
    BY <1>2 DEF Accept
  <2>2. /\ asking' \in Seq(Names) /\ Latest \in Names
        /\ Len(asking') =< Len(asking)
        /\ Len(asking) =< 1 => asking' = <<>>
    BY <2>1, Types, AnswerTakes
  <2>3. ~slipped => asking' = <<>> /\ ~busy
    BY <2>1, <2>2 DEF Inv, GateHolds, OneQuestion, Answered
  <2>4. CASE ~busy /\ Launch(Latest, t)
    BY <2>1, <2>2, <2>3, <2>4, Types, LaunchInv
  <2>5. CASE busy /\ UNCHANGED <<busy, jobs, shown, runs>>
    <3>1. slipped
      BY <2>3, <2>5, Types
    <3>2. TypeOK'
      BY <2>1, <2>2, <2>5, Types, TypesNext
    <3> QED BY <2>1, <2>5, <3>1, <3>2
            DEF Inv, Working, GateHolds, OneQuestion, RunsFit
  <2> QED BY <1>2, <2>4, <2>5 DEF Accept
<1>3. CASE Decline
  <2>1. Answered /\ UNCHANGED <<busy, jobs, shown, runs, slipped, armed, window>>
    BY <1>3 DEF Decline
  <2>2. /\ asking' \in Seq(Names) /\ Len(asking') =< Len(asking)
        /\ Len(asking) =< 1 => asking' = <<>>
    BY <2>1, Types, AnswerTakes
  <2>3. TypeOK'
    BY <2>1, <2>2, Types, TypesNext
  <2>4. GateHolds' /\ OneQuestion'
    BY <2>1, <2>2 DEF Inv, GateHolds, OneQuestion, InFlight
  <2> QED BY <2>1, <2>3, <2>4 DEF Inv, Working, RunsFit
<1>4. ASSUME NEW o \in Names, AskToStop(o) PROVE Inv'
  <2>1. /\ shown[o] \in Threads
        /\ jobs' = [jobs EXCEPT ![shown[o]].asked = TRUE]
        /\ shown' = [shown EXCEPT ![o] = None]
        /\ UNCHANGED <<busy, asking, runs, slipped, armed, window>>
    BY <1>4, Types DEF AskToStop
  <2>2. /\ jobs' \in [Threads -> Jobs]
        /\ \A t \in Threads : jobs'[t].at = jobs[t].at /\ jobs'[t].op = jobs[t].op
    <3> DEFINE u == shown[o]
               j == [jobs[u] EXCEPT !.asked = TRUE]
    <3>0. u \in Threads /\ jobs[u] \in Jobs
      BY <2>1, Types
    <3>1. j \in Jobs /\ j.at = jobs[u].at /\ j.op = jobs[u].op
      BY <3>0 DEF Jobs
    <3>2. jobs' = [jobs EXCEPT ![u] = j]
      BY <2>1, Types
    <3> HIDE DEF j
    <3> QED BY <2>1, <3>1, <3>2, Types
  <2>3. TypeOK'
    BY <2>1, <2>2, Types, TypesNext
  <2>4. InFlight' = InFlight
    BY <2>2 DEF InFlight
  <2>5. Working' /\ RunsFit'
    BY <2>1, <2>2, Types DEF Inv, Working, RunsFit
  <2> QED BY <2>1, <2>3, <2>4, <2>5 DEF Inv, GateHolds, OneQuestion
<1>5. ASSUME NEW o \in Names, Abandon(o) PROVE Inv'
  <2>1. /\ busy' = FALSE /\ slipped' = TRUE
        /\ shown' = [shown EXCEPT ![o] = None]
        /\ UNCHANGED <<jobs, asking, runs, armed, window>>
    BY <1>5 DEF Abandon
  <2>2. TypeOK'
    BY <2>1, Types, TypesNext
  <2> QED BY <2>1, <2>2 DEF Inv, Working, GateHolds, OneQuestion, RunsFit
<1>6. CASE Close
  <2>1. /\ window' = "closing" /\ UNCHANGED <<busy, jobs, shown, asking, runs, slipped, armed>>
    BY <1>6 DEF Close
  <2>2. TypeOK'
    BY <2>1, Types, TypesNext
  <2> QED BY <2>1, <2>2 DEF Inv, Working, GateHolds, OneQuestion, RunsFit
<1> QED BY <1>1, <1>2, <1>3, <1>4, <1>5, <1>6 DEF Person

LEMMA WorkInv == ASSUME Inv, NEW t \in Threads, Work(t) PROVE Inv'
<1>1. /\ jobs[t].at = "running" /\ UNCHANGED <<busy, shown, asking, runs, slipped, armed, window>>
  BY DEF Work
<1>2. PICK e \in Op[jobs[t].op].ends :
        jobs' = [jobs EXCEPT ![t].at = "posted", ![t].end = e]
  BY DEF Work
<1>3. jobs[t].op \in Names
  BY <1>1 DEF Inv, Working
<1>4. e \in Ends
  BY <1>2, <1>3, Table
<1>5. /\ jobs' \in [Threads -> Jobs]
      /\ \A u \in Threads : jobs'[u].op = jobs[u].op
      /\ \A u \in Threads : jobs'[u].at # "none" <=> jobs[u].at # "none"
  BY <1>1, <1>2, <1>4, Types DEF Jobs
<1>6. TypeOK'
  BY <1>1, <1>5, Types, TypesNext
<1>7. InFlight' = InFlight
  BY <1>5 DEF InFlight
<1>8. Working' /\ RunsFit'
  BY <1>1, <1>5, Types DEF Inv, Working, RunsFit
<1> QED BY <1>1, <1>6, <1>7, <1>8 DEF Inv, GateHolds, OneQuestion

LEMMA DeliverInv == ASSUME Inv, NEW t \in Threads, Deliver(t) PROVE Inv'
<1>1. jobs[t].at = "posted" => jobs[t].op \in Names
  BY DEF Inv, Working
<1>2. CASE Succeed(t)
  <2>1. /\ Handling(t, "finished") /\ jobs[t].op \in Names
        /\ jobs' = [jobs EXCEPT ![t] = Free]
        /\ busy' = (busy /\ ~Gated(jobs[t].op)) /\ UNCHANGED armed
        /\ asking' = IF Op[jobs[t].op].offers # None
                     THEN Append(asking, Op[jobs[t].op].offers) ELSE asking
    BY <1>1, <1>2 DEF Succeed, Release, Handling, Gated
  <2>2. \/ UNCHANGED asking
        \/ /\ Gated(jobs[t].op) /\ busy' = FALSE
           /\ \E o \in Names : asking' = Append(asking, o)
    BY <2>1, Table
  <2> QED BY <2>1, <2>2, Types, HandleInv
<1>3. CASE ScanSucceeds(t)
  <2>1. /\ Handling(t, "finished") /\ jobs[t].op \in Names /\ UNCHANGED asking
        /\ Op[jobs[t].op].chains # None /\ armed' \in BOOLEAN
        /\ \/ Continue(t, Op[jobs[t].op].chains)
           \/ jobs' = [jobs EXCEPT ![t] = Free] /\ busy' = busy
    BY <1>1, <1>3, Types DEF ScanSucceeds, Handling
  <2>2. Gated(jobs[t].op) /\ Op[jobs[t].op].chains \in Names
    BY <2>1, Table
  <2> QED BY <2>1, <2>2, HandleInv DEF Continue
<1>4. CASE ExecutionFails(t)
  <2>1. /\ Handling(t, "failed") /\ jobs[t].op = "execute" /\ UNCHANGED <<asking, armed>>
        /\ jobs' = [jobs EXCEPT ![t] = Job("status")] /\ busy' = TRUE
    BY <1>4 DEF ExecutionFails, Continue
  <2>2. Gated("execute") /\ "status" \in Names
    BY Gates, NamesAre
  <2> QED BY <2>1, <2>2, Types, HandleInv
<1>5. ASSUME NEW e \in {"failed", "cancelled"}, Fail(t, e) PROVE Inv'
  <2>1. /\ Handling(t, e) /\ jobs' = [jobs EXCEPT ![t] = Free]
        /\ busy' = (busy /\ ~Gated(jobs[t].op)) /\ UNCHANGED <<asking, armed>>
    BY <1>5 DEF Fail, Release, Gated
  <2> QED BY <2>1, Types, HandleInv
<1> QED BY <1>2, <1>3, <1>4, <1>5 DEF Deliver

LEMMA NextInv == Inv /\ [Next]_vars => Inv'
<1> SUFFICES ASSUME Inv, [Next]_vars PROVE Inv'
  OBVIOUS
<1>1. CASE UNCHANGED vars
  BY <1>1 DEF vars, Inv, TypeOK, Working, GateHolds, InFlight, OneQuestion, RunsFit
<1>2. CASE Shutdown
  <2>1. /\ window' = "closed" /\ UNCHANGED <<busy, jobs, shown, asking, runs, slipped, armed>>
    BY <1>2 DEF Shutdown
  <2>2. TypeOK'
    BY <2>1, Types, TypesNext
  <2> QED BY <2>1, <2>2 DEF Inv, Working, GateHolds, OneQuestion, RunsFit
<1> QED BY <1>1, <1>2, PersonInv, WorkInv, DeliverInv DEF Next

\* The invariant holds in every state.
THEOREM AlwaysInv == Spec => []Inv
BY InitInv, NextInv, PTL DEF Spec

-----------------------------------------------------------------------------
(* Results.                                                                  *)

\* At most one operation is in flight, the gate is held exactly as long, and
\* it is free while the next step of a recovery is offered.
THEOREM GateAlwaysHolds == Spec => []GateHolds
<1>1. Inv => GateHolds
  BY DEF Inv
<1> QED BY <1>1, AlwaysInv, PTL

\* Nobody but the handler of its operation ends an activity run.
THEOREM RunsEndWithTheirOperation == Spec => RunEndsWithItsOperation
<1> DEFINE Ended(o) == /\ jobs[runs[o]].op = o /\ jobs[runs[o]].at = "posted"
                       /\ jobs'[runs[o]] # jobs[runs[o]]
<1>1. ASSUME Inv, [Next]_vars, NEW o \in Names,
             runs[o] # None, runs'[o] # runs[o], ~slipped
      PROVE  Ended(o)
  <2>1. /\ runs[o] \in Threads /\ Op[o].logged /\ jobs[runs[o]].op = o
        /\ jobs[runs[o]].at # "none"
    BY <1>1, Types DEF Inv, RunsFit
  <2>2. Gated(o) /\ Op[o].gate = "checked" /\ runs[o] \in InFlight
    BY <2>1, Table DEF InFlight, Gated
  <2>3. window = "open" => busy /\ \A t \in InFlight : t = runs[o]
    BY <1>1, <2>2 DEF Inv, GateHolds
  <2>4. ASSUME NEW t \in Threads, NEW p \in Names, Launch(p, t), window = "open",
               Op[p].gate = "checked" => ~busy
        PROVE  FALSE
    <3>1. runs' = (IF Op[p].logged THEN [runs EXCEPT ![p] = t] ELSE runs)
      BY <2>4 DEF Launch
    <3>2. p = o
      BY <1>1, <3>1, Types
    <3> QED BY <2>2, <2>3, <2>4, <3>2
  <2>5. ASSUME NEW t \in Threads, NEW p \in Offered, Request(p, t) PROVE FALSE
    BY <2>4, <2>5 DEF Request, Reachable
  <2>6. ASSUME NEW t \in Threads, Accept(t) PROVE FALSE
    <3>1. Latest \in Names /\ window = "open"
      BY <1>1, <2>6, Types, AnswerTakes DEF Accept
    <3>2. ~busy /\ Launch(Latest, t)
      BY <1>1, <2>6 DEF Accept
    <3> QED BY <2>4, <3>1, <3>2
  <2>7. ASSUME NEW t \in Threads, NEW e, Handling(t, e),
               jobs' = [jobs EXCEPT ![t] = Free]
                 \/ \E p \in Names : jobs' = [jobs EXCEPT ![t] = Job(p)]
        PROVE  Ended(o)
    <3>1. /\ window = "open" /\ jobs[t].at = "posted"
          /\ runs' = [runs EXCEPT ![jobs[t].op] = None]
      BY <2>7 DEF Handling
    <3>2. jobs[t].op = o
      BY <1>1, <3>1, Types
    <3>3. t = runs[o]
      BY <2>2, <2>3, <3>1, <3>2 DEF InFlight, Gated
    <3>4. jobs'[t].at # "posted"
      BY <1>1, <2>7, Types, JobTypes
    <3> QED BY <3>1, <3>2, <3>3, <3>4
  <2>8. ASSUME NEW t \in Threads, Deliver(t) PROVE Ended(o)
    <3>1. jobs[t].at = "posted" => jobs[t].op \in Names
      BY <1>1 DEF Inv, Working
    <3>2. \E e : /\ Handling(t, e)
                 /\ \/ jobs' = [jobs EXCEPT ![t] = Free]
                    \/ \E p \in Names : jobs' = [jobs EXCEPT ![t] = Job(p)]
      <4>1. Succeed(t) => Handling(t, "finished") /\ jobs' = [jobs EXCEPT ![t] = Free]
        BY DEF Succeed, Release
      <4>2. ExecutionFails(t) =>
              Handling(t, "failed") /\ "status" \in Names
              /\ jobs' = [jobs EXCEPT ![t] = Job("status")]
        BY NamesAre DEF ExecutionFails, Continue
      <4>3. ASSUME NEW e, Fail(t, e)
            PROVE  Handling(t, e) /\ jobs' = [jobs EXCEPT ![t] = Free]
        BY <4>3 DEF Fail, Release
      <4>4. ASSUME ScanSucceeds(t)
            PROVE  /\ Handling(t, "finished")
                   /\ \/ jobs' = [jobs EXCEPT ![t] = Free]
                      \/ \E p \in Names : jobs' = [jobs EXCEPT ![t] = Job(p)]
        <5>1. /\ Handling(t, "finished") /\ Op[jobs[t].op].chains # None
              /\ \/ jobs' = [jobs EXCEPT ![t] = Free]
                 \/ jobs' = [jobs EXCEPT ![t] = Job(Op[jobs[t].op].chains)]
          BY <4>4 DEF ScanSucceeds, Continue
        <5>2. Op[jobs[t].op].chains \in Names
          BY <3>1, <5>1, Table DEF Handling
        <5> QED BY <5>1, <5>2
      <4> QED BY <2>8, <4>1, <4>2, <4>3, <4>4 DEF Deliver
    <3> QED BY <2>7, <3>2
  <2>9. \/ \E t \in Threads : Deliver(t) \/ Accept(t) \/ \E p \in Offered : Request(p, t)
        \/ UNCHANGED runs
    BY <1>1 DEF Next, Person, vars, AskToStop, Abandon, Decline, Close, Shutdown, Work
  <2> QED BY <1>1, <2>5, <2>6, <2>8, <2>9
<1>2. Inv /\ [Next]_vars =>
        [\A o \in Names : runs[o] # None /\ runs'[o] # runs[o] /\ ~slipped =>
            jobs[runs[o]].op = o /\ jobs[runs[o]].at = "posted"
            /\ jobs'[runs[o]] # jobs[runs[o]]]_vars
  BY <1>1
<1> QED BY <1>2, AlwaysInv, PTL DEF Spec, RunEndsWithItsOperation
=============================================================================
