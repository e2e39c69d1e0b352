----------------------- MODULE RecoveryPipelineProofs -----------------------
(***************************************************************************)
(* Safety of the recovery pipeline for any number of proposals, stages,    *)
(* materializations, donors, files and steps of other programs.            *)
(*                                                                         *)
(* The argument: an operation inside its transaction keeps the write lock, *)
(* so what it found in the catalogue when it began (the decision, the      *)
(* rows it hangs from, the rows that must not be there yet) is still so    *)
(* when it commits; what it carries from one observation to the next is    *)
(* bound to the bytes the proposal recorded.                               *)
(***************************************************************************)
EXTENDS RecoveryPipeline, TLAPS

StageSteps == {"stage", "preserve", "install", "manifest", "reobserve", "attest"}
CopySteps == {"materialize", "copy", "place", "describe", "reprove", "recheck", "conclude"}
AdoptSteps == {"adopt", "verify", "settle"}
ReadySteps == {"ready", "confirm"}

\* Every row hangs from a row; one stage per proposal, one materialization per
\* stage; a stage records what its proposal saw.
RowsHang ==
    /\ \A s \in Stages : stage[s] # None =>
          /\ proposal[stage[s].proposal] # None
          /\ stage[s].sum = Sum(proposal[stage[s].proposal].target)
          /\ \A t \in Stages : stage[t] # None /\ stage[t].proposal = stage[s].proposal => t = s
    /\ \A m \in Materializations : materialization[m] # None =>
          /\ stage[materialization[m].stage] # None
          /\ \A n \in Materializations :
                materialization[n] # None /\ materialization[n].stage = materialization[m].stage
                    => n = m
    /\ \A m \in ready : materialization[m] # None

ProposeStands ==
    job.at = "propose" =>
        /\ job.proposal \in Proposals /\ job.donor \in Donors
        /\ proposal[job.proposal] = None /\ Asked(intent)

StageStands ==
    job.at \in StageSteps =>
        /\ job.proposal \in Proposals /\ job.stage \in Stages
        /\ proposal[job.proposal] # None
        /\ stage[job.stage] = None /\ Unstaged(job.proposal)
        /\ Asked(proposal[job.proposal].intent)

\* What is carried from the copy to the row is what the proposal saw.
SumReviewed ==
    /\ job.at \in {"stage", "preserve"} => job.sum = None
    /\ job.at \in {"install", "manifest", "reobserve", "attest"} =>
          job.sum = Sum(proposal[job.proposal].target)
    /\ job.at \in {"reobserve", "attest"} /\ job.sum # None => job.obj \in Objects
    /\ job.at = "install" => job.sum # None
    /\ job.at = "place" => job.sum = Expected
    /\ job.at \in {"reprove", "recheck", "conclude"} => job.obj \in Objects

CopyStands ==
    job.at \in CopySteps \cup AdoptSteps =>
        /\ job.stage \in Stages /\ job.materialization \in Materializations
        /\ stage[job.stage] # None
        /\ materialization[job.materialization] = None
        /\ \A m \in Materializations :
              materialization[m] # None => materialization[m].stage # job.stage
        /\ Asked(proposal[stage[job.stage].proposal].intent)

AdoptStands == job.at \in AdoptSteps => job.obj \in Objects /\ job.obj \notin known

ReadyStands ==
    job.at \in ReadySteps =>
        /\ job.materialization \in Materializations
        /\ materialization[job.materialization] # None
        /\ job.materialization \notin ready
        /\ Asked(proposal[Root(job.materialization)].intent)

\* What was attested is still so unless others acted.
ConfirmStands ==
    job.at = "confirm" /\ calm =>
        LET s == materialization[job.materialization].stage IN
        /\ Sum(Look(Copy(s))) = Expected
        /\ stage[s].sum # None => Sum(Look(Suspect(s))) = stage[s].sum

Stands == /\ RowsHang /\ ProposeStands /\ StageStands /\ SumReviewed /\ CopyStands
          /\ AdoptStands /\ ReadyStands /\ ConfirmStands

Inv == TypeOK /\ Stands

USE NameAssumption, ContentAssumption, NoneIsNew

-----------------------------------------------------------------------------
LEMMA LookType == ASSUME TypeOK, NEW n \in Names
                  PROVE  /\ Look(n) \in Seen \cup {None}
                         /\ Sum(Look(n)) \in Contents \cup {None}
                         /\ at[n] # None => Look(n) # None /\ Sum(Look(n)) = bytes[at[n]]
                         /\ at[n] = None => Look(n) = None /\ Sum(Look(n)) = None
BY DEF TypeOK, Look, Sum, Seen

LEMMA NamesOf == /\ Target \in Names /\ Donors \subseteq Names
                 /\ \A s \in Stages : Suspect(s) \in Names /\ Copy(s) \in Names
BY DEF Names, Sources

DiskType == at \in [Names -> Objects \cup {None}] /\ bytes \in [Objects -> Contents]
StorageType == /\ dirs \subseteq Stages /\ pending \subseteq Stages
               /\ manifest \in [Stages -> Stages \cup {None, Spoiled}]
               /\ note \in [Stages -> Materializations \cup {None, Spoiled}]
VerdictType == /\ flagged \in BOOLEAN /\ retained \in BOOLEAN /\ intent \in Nat
               /\ eligible \subseteq Donors /\ known \subseteq Objects
TableType == /\ proposal \in [Proposals -> ProposalRows \cup {None}]
             /\ stage \in [Stages -> StageRows \cup {None}]
             /\ materialization \in [Materializations -> MaterializationRows \cup {None}]
             /\ ready \subseteq Materializations

\* A step is well typed if the parts it moves are.
LEMMA TypeParts ==
    ASSUME TypeOK,
           UNCHANGED disk \/ DiskType', UNCHANGED storage \/ StorageType',
           UNCHANGED verdicts \/ VerdictType', UNCHANGED tables \/ TableType',
           UNCHANGED job \/ job' \in Jobs,
           UNCHANGED calm \/ calm' = FALSE \/ calm' = TRUE,
           UNCHANGED envs \/ envs' = envs + 1
    PROVE  TypeOK'
<1>1. DiskType'
  BY DEF TypeOK, DiskType, disk
<1>2. StorageType'
  BY DEF TypeOK, StorageType, storage
<1>3. VerdictType'
  <2>1. VerdictType
    BY Zenon DEF TypeOK, VerdictType
  <2>2. UNCHANGED verdicts => VerdictType'
    <3> HAVE UNCHANGED verdicts
    <3>1. /\ flagged' = flagged /\ retained' = retained /\ intent' = intent
          /\ eligible' = eligible /\ known' = known
      BY DEF verdicts
    <3> QED
      BY <2>1, <3>1, Zenon DEF VerdictType
  <2> QED
    BY <2>2
<1>4. TableType'
  BY DEF TypeOK, TableType, tables
<1>5. job' \in Jobs /\ envs' \in Nat
  BY DEF TypeOK
<1>6. calm' \in BOOLEAN
  BY Zenon DEF TypeOK
<1> QED
  BY <1>1, <1>2, <1>3, <1>4, <1>5, <1>6 DEF TypeOK, DiskType, StorageType, VerdictType, TableType

LEMMA InvInit == Init => Inv
<1> SUFFICES ASSUME Init PROVE Inv
  OBVIOUS
<1>1. TypeOK
  <2>1. at \in [Names -> Objects \cup {None}] /\ bytes \in [Objects -> Contents]
        /\ known \subseteq Objects
    BY DEF Init
  <2>2. job \in Jobs
    BY DEF Init, Idle, Jobs, Steps
  <2> QED
    BY <2>1, <2>2 DEF Init, TypeOK
<1>2. Stands
  BY DEF Init, Idle, Stands, RowsHang, ProposeStands, StageStands, SumReviewed, CopyStands,
         AdoptStands, ReadyStands, ConfirmStands, StageSteps, CopySteps, AdoptSteps, ReadySteps
<1> QED
  BY <1>1, <1>2 DEF Inv

-----------------------------------------------------------------------------
(* What the rows of a job look like.                                       *)

LEMMA RowTypes ==
    ASSUME TypeOK
    PROVE  /\ \A p \in Proposals : proposal[p] # None =>
                 /\ proposal[p].donor \in Donors /\ proposal[p].intent \in Nat
                 /\ proposal[p].target \in Seen \cup {None} /\ proposal[p].source \in Seen
                 /\ Sum(proposal[p].target) \in Contents \cup {None}
           /\ \A s \in Stages : stage[s] # None =>
                 stage[s].proposal \in Proposals /\ stage[s].sum \in Contents \cup {None}
           /\ \A m \in Materializations : materialization[m] # None =>
                 /\ materialization[m].stage \in Stages
                 /\ materialization[m].storage \in {"filesystem", "embedded"}
BY DEF TypeOK, ProposalRows, StageRows, MaterializationRows, Sum, Seen

-----------------------------------------------------------------------------
(* Other programs, reviewers and scans: they touch no row and no job, and  *)
(* move no verdict while an operation holds the write lock.                *)

LEMMA InterfereFrame ==
    ASSUME Interfere
    PROVE  /\ UNCHANGED <<proposal, stage, materialization, ready, job>> /\ ~calm'
           /\ job # Idle => UNCHANGED <<flagged, retained, intent, known, eligible>>
<1>1. ASSUME NEW n \in Names, NEW x \in Names, NEW o \in Objects, NEW c \in Contents,
             Remove(n) \/ Overwrite(n, c) \/ Arrive(n, o, c) \/ Rename(n, x)
      PROVE  Elsewhere /\ UNCHANGED verdicts
  BY <1>1, Zenon DEF Remove, Overwrite, Arrive, Rename
<1>2. ASSUME NEW s \in Stages, SpoilManifest(s) \/ Tidy(s)
      PROVE  Elsewhere /\ UNCHANGED verdicts
  BY <1>2, Zenon DEF SpoilManifest, Tidy
<1>3. Verify \/ Reconsider \/ Scan => Elsewhere /\ job = Idle
  BY Zenon DEF Verify, Reconsider, Scan
<1>4. Elsewhere /\ (UNCHANGED verdicts \/ job = Idle)
  <2>1. ASSUME NEW n \in Names,
               \/ Remove(n)
               \/ \E c \in Contents : Overwrite(n, c) \/ \E o \in Objects : Arrive(n, o, c)
               \/ \E x \in Names : Rename(n, x)
        PROVE  Elsewhere /\ UNCHANGED verdicts
    BY <2>1, Zenon DEF Remove, Overwrite, Arrive, Rename
  <2> QED
    BY <1>2, <1>3, <2>1, Zenon DEF Interfere
<1> QED
  BY <1>4 DEF Elsewhere, tables, verdicts

LEMMA InterfereType == ASSUME TypeOK, Interfere PROVE TypeOK'
<1>1. Elsewhere
  BY InterfereFrame, Zenon DEF Interfere, Remove, Overwrite, Arrive, Rename, SpoilManifest, Tidy,
     Verify, Reconsider, Scan
<1>2. CASE \E n \in Names :
             \/ Remove(n)
             \/ \E c \in Contents : Overwrite(n, c) \/ \E o \in Objects : Arrive(n, o, c)
             \/ \E x \in Names : Rename(n, x)
  <2>1. DiskType'
    BY <1>2 DEF TypeOK, DiskType, Remove, Overwrite, Arrive, Rename
  <2>2. UNCHANGED <<storage, verdicts>>
    BY <1>2, Zenon DEF Remove, Overwrite, Arrive, Rename
  <2> QED
    BY <1>1, <2>1, <2>2, TypeParts DEF Elsewhere
<1>3. CASE \E s \in Stages : SpoilManifest(s) \/ Tidy(s)
  <2>1. DiskType' /\ StorageType'
    BY <1>3, NamesOf DEF TypeOK, DiskType, StorageType, SpoilManifest, Tidy, disk
  <2>2. UNCHANGED verdicts
    BY <1>3, Zenon DEF SpoilManifest, Tidy
  <2> QED
    BY <1>1, <2>1, <2>2, TypeParts DEF Elsewhere
<1>4. CASE Verify \/ Reconsider \/ Scan
  <2>1. UNCHANGED <<disk, storage>>
    BY <1>4, Zenon DEF Verify, Reconsider, Scan
  <2>2. VerdictType'
    <3>1. Verify => VerdictType'
      BY DEF Verify, TypeOK, VerdictType
    <3>2. Reconsider => VerdictType'
      BY DEF Reconsider, TypeOK, VerdictType
    <3>3. Scan => VerdictType'
      BY NamesOf DEF Scan, TypeOK, VerdictType, Sources
    <3> QED
      BY <1>4, <3>1, <3>2, <3>3
  <2> QED
    BY <1>1, <2>1, <2>2, TypeParts DEF Elsewhere
<1> QED
  BY <1>2, <1>3, <1>4, Zenon DEF Interfere

LEMMA InterfereInv == ASSUME Inv, Interfere PROVE Inv'
<1>1. TypeOK'
  BY InterfereType DEF Inv
<1>2. CASE job = Idle
  <2>1. job'.at = "idle"
    BY <1>2, InterfereFrame DEF Idle
  <2>2. RowsHang'
    BY InterfereFrame DEF Inv, Stands, RowsHang
  <2> QED
    BY <1>1, <2>1, <2>2 DEF Inv, Stands, ProposeStands, StageStands, SumReviewed, CopyStands,
       AdoptStands, ReadyStands, ConfirmStands, StageSteps, CopySteps, AdoptSteps, ReadySteps
<1>3. CASE job # Idle
  <2>1. UNCHANGED <<proposal, stage, materialization, ready, job, flagged, retained, intent, known>>
        /\ ~calm'
    BY <1>3, InterfereFrame
  <2> QED
    BY <1>1, <2>1 DEF Inv, Stands, RowsHang, ProposeStands, StageStands, SumReviewed, CopyStands,
       AdoptStands, ReadyStands, ConfirmStands, Unstaged, Asked, Root
<1> QED
  BY <1>2, <1>3

-----------------------------------------------------------------------------
(* Three ways an operation goes on: it walks within its transaction, it    *)
(* commits a row, or it is abandoned.                                      *)

Parts(x) == /\ x.at \in Steps /\ x.proposal \in Proposals \cup {None}
            /\ x.stage \in Stages \cup {None}
            /\ x.materialization \in Materializations \cup {None}
            /\ x.donor \in Donors \cup {None} /\ x.target \in Seen \cup {None}
            /\ x.source \in Seen \cup {None} /\ x.sum \in Contents \cup {None}
            /\ x.obj \in Objects \cup {None} /\ x.note \in Materializations \cup {None}

LEMMA IdleStands ==
    ASSUME TypeOK', RowsHang', job'.at = "idle"
    PROVE  Inv'
BY DEF Inv, Stands, ProposeStands, StageStands, SumReviewed, CopyStands,
   AdoptStands, ReadyStands, ConfirmStands, StageSteps, CopySteps, AdoptSteps, ReadySteps

LEMMA RowsStay == ASSUME RowsHang, UNCHANGED tables PROVE RowsHang'
BY DEF RowsHang, tables

\* A preservation walks on.
LEMMA StageWalk ==
    ASSUME Inv, TypeOK', UNCHANGED tables, UNCHANGED verdicts,
           job.at \in StageSteps, job'.at \in StageSteps,
           job'.proposal = job.proposal, job'.stage = job.stage, SumReviewed'
    PROVE  Inv'
<1>1. RowsHang'
  BY RowsStay DEF Inv, Stands
<1>2. StageStands'
  BY DEF Inv, Stands, StageStands, Unstaged, Asked, tables, verdicts
<1> QED
  BY <1>1, <1>2 DEF Inv, Stands, ProposeStands, CopyStands, AdoptStands, ReadyStands,
     ConfirmStands, StageSteps, CopySteps, AdoptSteps, ReadySteps

\* A materialization or an adoption walks on.
LEMMA CopyWalk ==
    ASSUME Inv, TypeOK', UNCHANGED tables, UNCHANGED verdicts,
           \/ job.at \in CopySteps /\ job'.at \in CopySteps
           \/ job.at \in AdoptSteps /\ job'.at \in AdoptSteps /\ job'.obj = job.obj,
           job'.stage = job.stage, job'.materialization = job.materialization, SumReviewed'
    PROVE  Inv'
<1>1. RowsHang'
  BY RowsStay DEF Inv, Stands
<1>2. CopyStands'
  BY DEF Inv, Stands, CopyStands, Asked, tables, verdicts
<1>3. AdoptStands'
  BY DEF Inv, Stands, AdoptStands, verdicts, CopySteps, AdoptSteps
<1> QED
  BY <1>1, <1>2, <1>3 DEF Inv, Stands, ProposeStands, StageStands, ReadyStands,
     ConfirmStands, StageSteps, CopySteps, AdoptSteps, ReadySteps

LEMMA IdleFacts == /\ Idle.at = "idle" /\ Idle.sum = None /\ Idle \in Jobs
                   /\ Idle.obj = None /\ Idle.note = None
BY DEF Idle, Jobs, Steps

\* One more step of the same job.
LEMMA JobType ==
    ASSUME TypeOK, NEW a \in Steps, NEW t \in Seen \cup {None}, NEW r \in Seen \cup {None},
           NEW c \in Contents \cup {None}, NEW o \in Objects \cup {None}
    PROVE  /\ [job EXCEPT !.at = a] \in Jobs
           /\ [job EXCEPT !.at = a, !.target = t] \in Jobs
           /\ [job EXCEPT !.at = a, !.source = r] \in Jobs
           /\ [job EXCEPT !.at = a, !.sum = c] \in Jobs
           /\ [job EXCEPT !.at = a, !.obj = o] \in Jobs
<1>0. job \in Jobs
  BY DEF TypeOK
<1>1. [job EXCEPT !.at = a] \in Jobs
  BY <1>0 DEF Jobs
<1>2. [job EXCEPT !.at = a, !.target = t] \in Jobs
  BY <1>0 DEF Jobs
<1>3. [job EXCEPT !.at = a, !.source = r] \in Jobs
  BY <1>0 DEF Jobs
<1>4. [job EXCEPT !.at = a, !.sum = c] \in Jobs
  BY <1>0 DEF Jobs
<1>5. [job EXCEPT !.at = a, !.obj = o] \in Jobs
  BY <1>0 DEF Jobs
<1> QED
  BY <1>1, <1>2, <1>3, <1>4, <1>5

-----------------------------------------------------------------------------
LEMMA ProposeInv ==
    ASSUME Inv,
           \/ \E p \in Proposals, d \in Donors : ProposeBegin(p, d)
           \/ ProposeCommit
    PROVE  Inv'
<1>1. ASSUME NEW p \in Proposals, NEW d \in Donors, ProposeBegin(p, d) PROVE Inv'
  <2> Look(Target) \in Seen \cup {None}
    BY LookType, NamesOf DEF Inv
  <2>1. job' \in Jobs
    BY <1>1, IdleFacts DEF ProposeBegin, Jobs, Steps
  <2>2. TypeOK'
    BY <1>1, <2>1, TypeParts, Zenon DEF ProposeBegin, Own, Inv
  <2>3. RowsHang'
    BY <1>1, RowsStay DEF ProposeBegin, Inv, Stands
  <2>4. job'.at = "propose" /\ job'.proposal = p /\ job'.donor = d
    BY <1>1 DEF ProposeBegin, Idle
  <2>5. ProposeStands'
    BY <1>1, <2>4 DEF ProposeBegin, ProposeStands, Asked, Own, verdicts, tables
  <2> QED
    BY <2>2, <2>3, <2>4, <2>5 DEF Inv, Stands, StageStands, SumReviewed, CopyStands,
       AdoptStands, ReadyStands, ConfirmStands, StageSteps, CopySteps, AdoptSteps, ReadySteps
<1>2. CASE ProposeCommit
  <2> DEFINE row == [intent |-> intent, donor |-> job.donor, target |-> job.target,
                     source |-> Look(job.donor)]
  <2>1. job.proposal \in Proposals /\ job.donor \in Donors /\ proposal[job.proposal] = None
    BY <1>2 DEF ProposeCommit, Inv, Stands, ProposeStands
  <2>2. row \in ProposalRows
    <3>1. Look(job.donor) \in Seen
      <4>1. Sum(Look(job.donor)) = Expected
        BY <1>2 DEF ProposeCommit
      <4> QED
        BY <2>1, <4>1, LookType, NamesOf DEF Inv, Sum
    <3>2. job.target \in Seen \cup {None} /\ intent \in Nat
      BY DEF Inv, TypeOK, Jobs
    <3> QED
      BY <2>1, <3>1, <3>2 DEF ProposalRows
  <2>3. /\ proposal' = [proposal EXCEPT ![job.proposal] = row]
        /\ UNCHANGED <<stage, materialization, ready>>
    BY <1>2 DEF ProposeCommit
  <2>4. TableType'
    BY <2>2, <2>3 DEF Inv, TypeOK, TableType
  <2>5. TypeOK'
    BY <1>2, <2>4, TypeParts, IdleFacts, Zenon DEF ProposeCommit, Own, Inv
  <2>6. row # None
    BY <2>2
  <2>7. RowsHang'
    <3>1. \A p \in Proposals : proposal[p] # None => proposal'[p] = proposal[p]
      BY <2>1, <2>3 DEF Inv, TypeOK
    <3> QED
      BY <2>3, <3>1, RowTypes DEF Inv, Stands, RowsHang
  <2> QED
    BY <1>2, <2>5, <2>7, IdleStands, IdleFacts DEF ProposeCommit
<1> QED
  BY <1>1, <1>2

-----------------------------------------------------------------------------
LEMMA InstallType ==
    ASSUME TypeOK, NEW n \in Names, NEW o \in Objects, NEW c \in Contents, Install(n, o, c)
    PROVE  DiskType'
BY DEF TypeOK, DiskType, Install

LEMMA StageStepType ==
    ASSUME Inv,
           \/ \E p \in Proposals, s \in Stages : StageBegin(p, s)
           \/ StageLook \/ Preserve \/ WriteManifest \/ StageReobserve
           \/ \E o \in Objects : InstallSuspect(o)
    PROVE  TypeOK'
<1> USE DEF Own, Inv
<1>1. ASSUME NEW p \in Proposals, NEW s \in Stages, StageBegin(p, s) PROVE TypeOK'
  <2>1. job' \in Jobs
    BY <1>1, IdleFacts DEF StageBegin, Jobs, Steps
  <2>2. StorageType'
    BY <1>1 DEF StageBegin, TypeOK, StorageType
  <2> QED
    BY <1>1, <2>1, <2>2, TypeParts, Zenon DEF StageBegin
<1>2. CASE StageLook
  <2>1. job.at = "stage" /\ job.proposal \in Proposals /\ proposal[job.proposal] # None
    BY <1>2 DEF StageLook, Stands, StageStands, StageSteps
  <2>2. Look(Target) \in Seen \cup {None} /\ Look(proposal[job.proposal].donor) \in Seen \cup {None}
    BY <2>1, LookType, NamesOf, RowTypes
  <2> DEFINE a == IF proposal[job.proposal].target = None THEN "manifest" ELSE "preserve"
  <2>3. job' \in Jobs
    <3>1. job \in Jobs /\ a \in Steps
      BY DEF TypeOK, Steps
    <3>2. job' = [job EXCEPT !.target = Look(Target),
                             !.source = Look(proposal[job.proposal].donor), !.at = a]
      BY <1>2 DEF StageLook
    <3> HIDE DEF a
    <3> QED
      BY <2>2, <3>1, <3>2 DEF Jobs
  <2> QED
    BY <1>2, <2>3, TypeParts, Zenon DEF StageLook
<1>3. CASE Preserve
  <2>1. Sum(Look(Target)) \in Contents \cup {None} /\ "install" \in Steps
    BY LookType, NamesOf DEF Steps
  <2>2. job' \in Jobs
    BY <1>3, <2>1 DEF Preserve, TypeOK, Jobs
  <2> QED
    BY <1>3, <2>2, TypeParts, Zenon DEF Preserve
<1>4. CASE WriteManifest
  <2>1. job.stage \in Stages
    BY <1>4 DEF WriteManifest, Stands, StageStands, StageSteps
  <2>2. Suspect(job.stage) \in Names
    BY <2>1, NamesOf
  <2> DEFINE o == IF job.sum = None THEN None ELSE at[Suspect(job.stage)]
  <2>3. job' \in Jobs
    <3>1. o \in Objects \cup {None}
      BY <2>2 DEF TypeOK
    <3>2. job' = [job EXCEPT !.at = "reobserve", !.obj = o]
      BY <1>4 DEF WriteManifest
    <3> HIDE DEF o
    <3> QED
      BY <3>1, <3>2, JobType DEF Steps
  <2>4. StorageType'
    BY <1>4, <2>1 DEF WriteManifest, TypeOK, StorageType
  <2> QED
    BY <1>4, <2>3, <2>4, TypeParts, Zenon DEF WriteManifest
<1>5. CASE StageReobserve
  <2>1. job' \in Jobs
    BY <1>5, JobType DEF StageReobserve, Steps
  <2> QED
    BY <1>5, <2>1, TypeParts, Zenon DEF StageReobserve
<1>6. ASSUME NEW o \in Objects, InstallSuspect(o) PROVE TypeOK'
  <2>1. job' \in Jobs
    BY <1>6, JobType DEF InstallSuspect, Steps
  <2>2. job.stage \in Stages /\ job.sum # None
    BY <1>6 DEF InstallSuspect, Stands, StageStands, SumReviewed, StageSteps
  <2>3. Suspect(job.stage) \in Names /\ job.sum \in Contents
    BY <2>2, NamesOf DEF TypeOK, Jobs
  <2>4. DiskType'
    BY <1>6, <2>3, InstallType DEF InstallSuspect
  <2> QED
    BY <1>6, <2>1, <2>4, TypeParts, Zenon DEF InstallSuspect
<1> QED
  BY <1>1, <1>2, <1>3, <1>4, <1>5, <1>6

LEMMA StageStepInv ==
    ASSUME Inv,
           \/ \E p \in Proposals, s \in Stages : StageBegin(p, s)
           \/ StageLook \/ Preserve \/ WriteManifest \/ StageReobserve
           \/ \E o \in Objects : InstallSuspect(o)
    PROVE  Inv'
<1>0. TypeOK'
  BY StageStepType
<1>1. ASSUME NEW p \in Proposals, NEW s \in Stages, StageBegin(p, s) PROVE Inv'
  <2>1. job'.at = "stage" /\ job'.proposal = p /\ job'.stage = s /\ job'.sum = None
    BY <1>1 DEF StageBegin, Idle
  <2>2. RowsHang'
    BY <1>1, RowsStay DEF StageBegin, Inv, Stands
  <2>3. StageStands'
    BY <1>1, <2>1 DEF StageBegin, StageStands, PlanHolds, Unstaged, Asked, Own, verdicts, tables
  <2> QED
    BY <1>0, <2>1, <2>2, <2>3 DEF Inv, Stands, ProposeStands, SumReviewed, CopyStands,
       AdoptStands, ReadyStands, ConfirmStands, StageSteps, CopySteps, AdoptSteps, ReadySteps
<1>2. CASE StageLook \/ Preserve \/ WriteManifest \/ StageReobserve
            \/ \E o \in Objects : InstallSuspect(o)
  <2>1. UNCHANGED tables /\ UNCHANGED verdicts
    BY <1>2, Zenon DEF StageLook, Preserve, WriteManifest, StageReobserve, InstallSuspect, Own
  <2>2. job \in Jobs /\ proposal' = proposal
    BY <2>1 DEF Inv, TypeOK, tables
  <2>3. /\ job.at \in StageSteps /\ job'.at \in StageSteps
        /\ job'.proposal = job.proposal /\ job'.stage = job.stage /\ SumReviewed'
    <3>1. CASE StageLook
      BY <2>2, <3>1 DEF StageLook, StageSteps, Jobs, SumReviewed, Inv, Stands, Sum
    <3>2. CASE Preserve
      <4>1. Sum(Look(Target)) # None
        BY <3>2, LookType, NamesOf DEF Preserve, Inv, TypeOK
      <4> QED
        BY <2>2, <3>2, <4>1 DEF Preserve, StageSteps, Jobs, SumReviewed
    <3>3. CASE WriteManifest
      <4>1. job.stage \in Stages
        BY <3>3 DEF WriteManifest, Inv, Stands, StageStands, StageSteps
      <4>2. at[Suspect(job.stage)] \in Objects \cup {None}
        BY <4>1, NamesOf DEF Inv, TypeOK
      <4> QED
        BY <2>2, <3>3, <4>2 DEF WriteManifest, StageSteps, Jobs, SumReviewed, Inv, Stands
    <3>4. CASE StageReobserve
      BY <2>2, <3>4 DEF StageReobserve, StageSteps, Jobs, SumReviewed, Inv, Stands
    <3>5. CASE \E o \in Objects : InstallSuspect(o)
      BY <2>2, <3>5 DEF InstallSuspect, StageSteps, Jobs, SumReviewed, Inv, Stands
    <3> QED
      BY <1>2, <3>1, <3>2, <3>3, <3>4, <3>5
  <2> QED
    BY <1>0, <2>1, <2>3, StageWalk
<1> QED
  BY <1>1, <1>2

\* What a committed stage is.
LEMMA StageCommitFacts ==
    ASSUME Inv, StageCommit
    PROVE  /\ job.stage \in Stages /\ stage[job.stage] = None
           /\ job.proposal \in Proposals /\ proposal[job.proposal] # None
           /\ Unstaged(job.proposal) /\ Asked(proposal[job.proposal].intent)
           /\ job.sum = Sum(proposal[job.proposal].target)
           /\ [proposal |-> job.proposal, sum |-> job.sum] \in StageRows
           /\ stage' = [stage EXCEPT ![job.stage] =
                           [proposal |-> job.proposal, sum |-> job.sum]]
           /\ UNCHANGED <<proposal, materialization, ready>>
           /\ job' = Idle
<1>1. /\ job.stage \in Stages /\ stage[job.stage] = None
      /\ job.proposal \in Proposals /\ proposal[job.proposal] # None
      /\ Unstaged(job.proposal) /\ Asked(proposal[job.proposal].intent)
      /\ job.sum = Sum(proposal[job.proposal].target)
  BY DEF StageCommit, Inv, Stands, StageStands, SumReviewed, StageSteps
<1>2. [proposal |-> job.proposal, sum |-> job.sum] \in StageRows
  BY <1>1, RowTypes DEF Inv, StageRows
<1> QED
  BY <1>1, <1>2 DEF StageCommit

LEMMA StageCommitInv == ASSUME Inv, StageCommit PROVE Inv'
<1> DEFINE row == [proposal |-> job.proposal, sum |-> job.sum]
<1>1. /\ job.stage \in Stages /\ stage[job.stage] = None
      /\ proposal[job.proposal] # None /\ Unstaged(job.proposal)
      /\ job.sum = Sum(proposal[job.proposal].target)
      /\ row \in StageRows /\ row # None
      /\ stage' = [stage EXCEPT ![job.stage] = row]
      /\ UNCHANGED <<proposal, materialization, ready>>
  BY StageCommitFacts
<1>2. row.proposal = job.proposal /\ row.sum = job.sum
  OBVIOUS
<1> HIDE DEF row
<1>3. TableType'
  BY <1>1 DEF Inv, TypeOK, TableType
<1>4. TypeOK'
  BY <1>3, TypeParts, IdleFacts, Zenon DEF StageCommit, Own, Inv
<1>5. stage'[job.stage] = row /\ \A s \in Stages : s # job.stage => stage'[s] = stage[s]
  BY <1>1 DEF Inv, TypeOK
<1>6. RowsHang'
  <2>1. \A s \in Stages : stage'[s] # None =>
          /\ proposal[stage'[s].proposal] # None
          /\ stage'[s].sum = Sum(proposal[stage'[s].proposal].target)
          /\ \A t \in Stages : stage'[t] # None /\ stage'[t].proposal = stage'[s].proposal => t = s
    BY <1>1, <1>2, <1>5 DEF Inv, Stands, RowsHang, Unstaged
  <2>2. \A m \in Materializations : materialization[m] # None =>
          stage'[materialization[m].stage] # None
    BY <1>1, <1>5, RowTypes DEF Inv, Stands, RowsHang
  <2> QED
    BY <1>1, <2>1, <2>2 DEF Inv, Stands, RowsHang
<1> QED
  BY <1>4, <1>6, IdleStands, IdleFacts, StageCommitFacts

-----------------------------------------------------------------------------
CopyStep ==
    \/ MaterializeLook \/ CopyDonor \/ WriteDonorManifest \/ MaterializeReprove
    \/ MaterializeRecheck \/ AdoptLook \/ AdoptReprove
    \/ \E o \in Objects : InstallCopy(o)

\* What a materialization or an adoption begins from.
LEMMA CopyBegins ==
    ASSUME Inv, NEW s \in Stages, NEW m \in Materializations,
           MaterializeBegin(s, m) \/ AdoptBegin(s, m)
    PROVE  Inv'
<1>1. MaterializationPlanHolds(s, m)
  BY DEF MaterializeBegin, AdoptBegin
<1>2. UNCHANGED <<disk, storage, tables, calm>> /\ Own
  BY DEF MaterializeBegin, AdoptBegin
<1>3. /\ job'.stage = s /\ job'.materialization = m /\ job'.sum = None
      /\ \/ MaterializeBegin(s, m) /\ job'.at = "materialize"
         \/ AdoptBegin(s, m) /\ job'.at = "adopt" /\ job'.obj = at[Copy(s)]
  BY DEF MaterializeBegin, AdoptBegin, Idle
<1>4. job' \in Jobs
  <2>1. CASE MaterializeBegin(s, m)
    BY <2>1, IdleFacts DEF MaterializeBegin, Jobs, Steps
  <2>2. CASE AdoptBegin(s, m)
    <3>1. at[Copy(s)] \in Objects \cup {None} /\ note[s] \in Materializations \cup {None}
      BY <2>2, NamesOf DEF AdoptBegin, Inv, TypeOK
    <3> QED
      BY <2>2, <3>1, IdleFacts DEF AdoptBegin, Jobs, Steps
  <2> QED
    BY <2>1, <2>2
<1>5. TypeOK'
  BY <1>2, <1>4, TypeParts, Zenon DEF Own, Inv
<1>6. RowsHang'
  BY <1>2, RowsStay DEF Inv, Stands
<1>7. CopyStands'
  BY <1>1, <1>2, <1>3 DEF MaterializationPlanHolds, PlanHolds, CopyStands, Asked, Own,
     verdicts, tables
<1>8. AdoptStands'
  <2>1. CASE AdoptBegin(s, m)
    <3>1. at[Copy(s)] \in Objects /\ at[Copy(s)] \notin known
      BY <2>1, NamesOf DEF AdoptBegin, Operational, Inv, TypeOK
    <3> QED
      BY <1>2, <1>3, <3>1 DEF AdoptStands, AdoptSteps, Own, verdicts
  <2>2. CASE job'.at = "materialize"
    BY <2>2 DEF AdoptStands, AdoptSteps
  <2> QED
    BY <1>3, <2>1, <2>2
<1> QED
  BY <1>3, <1>5, <1>6, <1>7, <1>8 DEF Inv, Stands, ProposeStands, StageStands, SumReviewed,
     ReadyStands, ConfirmStands, StageSteps, ReadySteps

LEMMA CopyStepFacts ==
    ASSUME Inv, CopyStep
    PROVE  /\ job.stage \in Stages /\ job.materialization \in Materializations
           /\ proposal[stage[job.stage].proposal] # None
           /\ Donor(job.stage) \in Names /\ Copy(job.stage) \in Names
           /\ stage[job.stage] # None /\ materialization[job.materialization] = None
<1>1. job.at \in CopySteps \cup AdoptSteps
  BY DEF CopyStep, MaterializeLook, CopyDonor, WriteDonorManifest, MaterializeReprove,
     MaterializeRecheck, AdoptLook, AdoptReprove, InstallCopy, CopySteps, AdoptSteps
<1>2. /\ job.stage \in Stages /\ job.materialization \in Materializations
      /\ stage[job.stage] # None /\ materialization[job.materialization] = None
  BY <1>1 DEF Inv, Stands, CopyStands
<1>3. stage[job.stage].proposal \in Proposals /\ proposal[stage[job.stage].proposal] # None
  BY <1>2, RowTypes DEF Inv, Stands, RowsHang
<1>4. Donor(job.stage) \in Names
  BY <1>3, RowTypes, NamesOf DEF Inv, Donor
<1> QED
  BY <1>2, <1>3, <1>4, NamesOf

LEMMA CopyStepType == ASSUME Inv, CopyStep PROVE TypeOK'
<1> USE DEF Own, Inv
<1>0. /\ job.stage \in Stages /\ job.materialization \in Materializations
      /\ Look(Donor(job.stage)) \in Seen \cup {None} /\ at[Copy(job.stage)] \in Objects \cup {None}
      /\ Copy(job.stage) \in Names
  BY CopyStepFacts, LookType DEF TypeOK
<1>1. CASE MaterializeLook \/ AdoptLook
  <2>1. job' \in Jobs
    <3>1. CASE MaterializeLook
      BY <1>0, <3>1, JobType DEF MaterializeLook, Steps
    <3>2. CASE AdoptLook
      BY <1>0, <3>2, JobType DEF AdoptLook, Steps
    <3> QED
      BY <1>1, <3>1, <3>2
  <2> QED
    BY <1>1, <2>1, TypeParts, Zenon DEF MaterializeLook, AdoptLook
<1>2. CASE CopyDonor
  <2>1. job' \in Jobs
    BY <1>2, JobType DEF CopyDonor, Steps
  <2> QED
    BY <1>2, <2>1, TypeParts, Zenon DEF CopyDonor
<1>3. CASE WriteDonorManifest
  <2>1. job' \in Jobs
    BY <1>0, <1>3, JobType DEF WriteDonorManifest, Steps
  <2>2. StorageType'
    BY <1>0, <1>3 DEF WriteDonorManifest, TypeOK, StorageType
  <2> QED
    BY <1>3, <2>1, <2>2, TypeParts, Zenon DEF WriteDonorManifest
<1>4. CASE MaterializeReprove \/ MaterializeRecheck \/ AdoptReprove
  <2>1. job' \in Jobs
    BY <1>4, JobType DEF MaterializeReprove, MaterializeRecheck, AdoptReprove, Steps
  <2> QED
    BY <1>4, <2>1, TypeParts, Zenon DEF MaterializeReprove, MaterializeRecheck, AdoptReprove
<1>5. ASSUME NEW o \in Objects, InstallCopy(o) PROVE TypeOK'
  <2>1. job' \in Jobs
    BY <1>5, JobType DEF InstallCopy, Steps
  <2>2. job.sum \in Contents
    BY <1>5 DEF InstallCopy, Stands, SumReviewed
  <2>3. DiskType'
    BY <1>0, <1>5, <2>2, InstallType DEF InstallCopy
  <2> QED
    BY <1>5, <2>1, <2>3, TypeParts, Zenon DEF InstallCopy
<1> QED
  BY <1>1, <1>2, <1>3, <1>4, <1>5 DEF CopyStep

LEMMA CopyStepInv == ASSUME Inv, CopyStep PROVE Inv'
<1>1. UNCHANGED tables /\ UNCHANGED verdicts
  BY Zenon DEF CopyStep, MaterializeLook, CopyDonor, WriteDonorManifest, MaterializeReprove,
     MaterializeRecheck, AdoptLook, AdoptReprove, InstallCopy, Own
<1>2. job \in Jobs
  BY DEF Inv, TypeOK
<1>3. /\ \/ job.at \in CopySteps /\ job'.at \in CopySteps
         \/ job.at \in AdoptSteps /\ job'.at \in AdoptSteps /\ job'.obj = job.obj
      /\ job'.stage = job.stage /\ job'.materialization = job.materialization /\ SumReviewed'
  <2> USE DEF Jobs, SumReviewed, CopySteps, AdoptSteps
  <2>1. CASE MaterializeLook
    BY <1>2, <2>1 DEF MaterializeLook
  <2>2. CASE CopyDonor
    BY <1>2, <2>2 DEF CopyDonor
  <2>3. CASE MaterializeReprove
    BY <1>2, <2>3 DEF MaterializeReprove, Inv, Stands
  <2>4. CASE MaterializeRecheck
    BY <1>2, <2>4 DEF MaterializeRecheck, Inv, Stands
  <2>5. CASE AdoptLook
    BY <1>2, <2>5 DEF AdoptLook
  <2>6. CASE AdoptReprove
    BY <1>2, <2>6 DEF AdoptReprove
  <2>7. CASE WriteDonorManifest
    <3>1. at[Copy(job.stage)] \in Objects
      BY <2>7, CopyStepFacts DEF WriteDonorManifest, Inv, TypeOK
    <3> QED
      BY <1>2, <2>7, <3>1 DEF WriteDonorManifest
  <2>8. CASE \E o \in Objects : InstallCopy(o)
    BY <1>2, <2>8 DEF InstallCopy
  <2> QED
    BY <2>1, <2>2, <2>3, <2>4, <2>5, <2>6, <2>7, <2>8 DEF CopyStep
<1> QED
  BY <1>1, <1>3, CopyStepType, CopyWalk

\* What a committed donor copy is.
LEMMA CopyCommitFacts ==
    ASSUME Inv, MaterializeCommit \/ AdoptCommit
    PROVE  /\ job.stage \in Stages /\ job.materialization \in Materializations
           /\ stage[job.stage] # None /\ materialization[job.materialization] = None
           /\ \A m \in Materializations :
                 materialization[m] # None => materialization[m].stage # job.stage
           /\ Asked(proposal[stage[job.stage].proposal].intent)
           /\ job.obj \in Objects /\ (job.at = "settle" => job.obj \notin known)
           /\ Attested(Copy(job.stage), job.obj, Expected)
           /\ \E row \in MaterializationRows :
                 /\ row.stage = job.stage
                 /\ materialization' = [materialization EXCEPT ![job.materialization] = row]
           /\ UNCHANGED <<disk, storage, verdicts, proposal, stage, ready>>
           /\ job' = Idle
<1>1. job.at \in {"conclude", "settle"} /\ Attested(Copy(job.stage), job.obj, Expected)
  BY DEF MaterializeCommit, AdoptCommit
<1>2. /\ job.stage \in Stages /\ job.materialization \in Materializations
      /\ stage[job.stage] # None /\ materialization[job.materialization] = None
      /\ \A m \in Materializations :
            materialization[m] # None => materialization[m].stage # job.stage
      /\ Asked(proposal[stage[job.stage].proposal].intent)
  BY <1>1 DEF Inv, Stands, CopyStands, CopySteps, AdoptSteps
<1>3. job.obj \in Objects /\ (job.at = "settle" => job.obj \notin known)
  BY <1>1 DEF Inv, Stands, SumReviewed, AdoptStands, AdoptSteps
<1>4. \E row \in MaterializationRows :
         /\ row.stage = job.stage
         /\ materialization' = [materialization EXCEPT ![job.materialization] = row]
  <2>1. CASE MaterializeCommit
    <3>1. [stage |-> job.stage, storage |-> "filesystem"] \in MaterializationRows
      BY <1>2 DEF MaterializationRows
    <3> QED
      BY <2>1, <3>1 DEF MaterializeCommit
  <2>2. CASE AdoptCommit
    <3> DEFINE r == [stage |-> job.stage,
                     storage |-> IF job.note = None THEN "embedded" ELSE "filesystem"]
    <3>1. r \in MaterializationRows /\ r.stage = job.stage
      BY <1>2 DEF MaterializationRows
    <3>2. materialization' = [materialization EXCEPT ![job.materialization] = r]
      BY <2>2 DEF AdoptCommit
    <3> HIDE DEF r
    <3> QED
      BY <3>1, <3>2
  <2> QED
    BY <2>1, <2>2
<1>5. UNCHANGED <<disk, storage, verdicts, proposal, stage, ready>> /\ job' = Idle
  BY DEF MaterializeCommit, AdoptCommit, Own
<1> QED
  BY <1>1, <1>2, <1>3, <1>4, <1>5

LEMMA CopyCommitInv == ASSUME Inv, MaterializeCommit \/ AdoptCommit PROVE Inv'
<1>1. PICK row \in MaterializationRows :
         /\ row.stage = job.stage
         /\ materialization' = [materialization EXCEPT ![job.materialization] = row]
  BY CopyCommitFacts
<1>2. /\ job.materialization \in Materializations /\ stage[job.stage] # None
      /\ materialization[job.materialization] = None
      /\ \A m \in Materializations :
            materialization[m] # None => materialization[m].stage # job.stage
      /\ UNCHANGED <<disk, storage, verdicts, proposal, stage, ready>> /\ job' = Idle
  BY CopyCommitFacts
<1>3. TableType'
  BY <1>1, <1>2 DEF Inv, TypeOK, TableType
<1>4. calm' = FALSE /\ envs' = envs
  BY DEF MaterializeCommit, AdoptCommit, Own
<1>5. TypeOK'
  BY <1>2, <1>3, <1>4, TypeParts, IdleFacts, Zenon DEF Inv
<1>6. /\ materialization'[job.materialization] = row
      /\ \A m \in Materializations : m # job.materialization =>
            materialization'[m] = materialization[m]
  BY <1>1, <1>2 DEF Inv, TypeOK
<1>7. RowsHang'
  BY <1>1, <1>2, <1>6 DEF Inv, Stands, RowsHang
<1> QED
  BY <1>2, <1>5, <1>7, IdleStands, IdleFacts

-----------------------------------------------------------------------------
LEMMA ReadyInv ==
    ASSUME Inv,
           \/ \E m \in Materializations : ReadyBegin(m)
           \/ ReadyAttest \/ ReadyCommit
    PROVE  Inv'
<1>1. ASSUME NEW m \in Materializations, ReadyBegin(m) PROVE Inv'
  <2>1. job' \in Jobs
    BY <1>1, IdleFacts DEF ReadyBegin, Jobs, Steps
  <2>2. TypeOK'
    BY <1>1, <2>1, TypeParts, Zenon DEF ReadyBegin, Own, Inv
  <2>3. RowsHang'
    BY <1>1, RowsStay DEF ReadyBegin, Inv, Stands
  <2>4. job'.at = "ready" /\ job'.materialization = m
    BY <1>1 DEF ReadyBegin, Idle
  <2>5. ReadyStands'
    <3>1. /\ materialization[m] # None /\ m \notin ready
          /\ Asked(proposal[stage[materialization[m].stage].proposal].intent)
      BY <1>1 DEF ReadyBegin, Root
    <3>2. UNCHANGED <<proposal, stage, materialization, ready, flagged, retained, intent>>
      BY <1>1 DEF ReadyBegin, Own, verdicts, tables
    <3> QED
      BY <2>4, <3>1, <3>2 DEF ReadyStands, Root, Asked
  <2> QED
    BY <2>2, <2>3, <2>4, <2>5 DEF Inv, Stands, ProposeStands, StageStands, SumReviewed,
       CopyStands, AdoptStands, ConfirmStands, StageSteps, CopySteps, AdoptSteps, ReadySteps
<1>2. CASE ReadyAttest
  <2>1. job' \in Jobs /\ job'.at = "confirm" /\ job'.materialization = job.materialization
    <3>1. job' = [job EXCEPT !.at = "confirm"]
      BY <1>2 DEF ReadyAttest
    <3>2. job' \in Jobs
      BY <3>1, JobType DEF Inv, Steps
    <3> QED
      BY <3>1, <3>2 DEF Inv, TypeOK, Jobs
  <2>2. TypeOK'
    BY <1>2, <2>1, TypeParts, Zenon DEF ReadyAttest, Own, Inv
  <2>3. RowsHang'
    BY <1>2, RowsStay DEF ReadyAttest, Inv, Stands
  <2>4. ReadyStands'
    <3>1. ReadyStands /\ job.at = "ready"
      BY <1>2 DEF ReadyAttest, Inv, Stands
    <3>2. UNCHANGED <<proposal, stage, materialization, ready, flagged, retained, intent>>
      BY <1>2 DEF ReadyAttest, Own, verdicts, tables
    <3> QED
      BY <2>1, <3>1, <3>2 DEF ReadyStands, ReadySteps, Root, Asked
  <2>5. ConfirmStands'
    BY <1>2, <2>1 DEF ReadyAttest, ConfirmStands, ChainHolds, EvidenceHolds, Look, Sum, disk,
       tables
  <2> QED
    BY <2>1, <2>2, <2>3, <2>4, <2>5 DEF Inv, Stands, ProposeStands, StageStands, SumReviewed,
       CopyStands, AdoptStands, StageSteps, CopySteps, AdoptSteps, ReadySteps
<1>3. CASE ReadyCommit
  <2>1. /\ job.materialization \in Materializations
        /\ materialization[job.materialization] # None
    BY <1>3 DEF ReadyCommit, Inv, Stands, ReadyStands, ReadySteps
  <2>2. TableType'
    BY <1>3, <2>1 DEF ReadyCommit, Inv, TypeOK, TableType
  <2>3. TypeOK'
    BY <1>3, <2>2, TypeParts, IdleFacts, Zenon DEF ReadyCommit, Own, Inv
  <2>4. RowsHang'
    BY <1>3, <2>1 DEF ReadyCommit, Inv, Stands, RowsHang
  <2> QED
    BY <1>3, <2>3, <2>4, IdleStands, IdleFacts DEF ReadyCommit
<1> QED
  BY <1>1, <1>2, <1>3

LEMMA AbandonInv == ASSUME Inv, Abandon PROVE Inv'
<1>1. StorageType'
  <2>1. job.at \in {"manifest", "copy", "place", "describe"} => job.stage \in Stages
    BY DEF Inv, Stands, StageStands, StageSteps, CopyStands, CopySteps
  <2> QED
    BY <2>1 DEF Abandon, Inv, TypeOK, StorageType
<1>2. TypeOK'
  BY <1>1, TypeParts, IdleFacts, Zenon DEF Abandon, Own, Inv
<1>3. RowsHang'
  BY RowsStay DEF Abandon, Inv, Stands
<1> QED
  BY <1>2, <1>3, IdleStands, IdleFacts DEF Abandon

LEMMA StutterInv == ASSUME Inv, UNCHANGED vars PROVE Inv'
<1>1. TypeOK'
  BY TypeParts, Zenon DEF vars, disk, storage, verdicts, tables, Inv
<1>2. UNCHANGED <<proposal, stage, materialization, ready, job, flagged, retained, intent,
                  known, at, bytes, calm>>
  BY DEF vars
<1> QED
  BY <1>1, <1>2 DEF Inv, Stands, RowsHang, ProposeStands, StageStands, SumReviewed, CopyStands,
     AdoptStands, ReadyStands, ConfirmStands, Unstaged, Asked, Root, Look, Sum

LEMMA StepInv == ASSUME Inv, [Next]_vars PROVE Inv'
<1>1. CASE Recover
  <2>1. ASSUME NEW p \in Proposals,
               \/ \E d \in Donors : ProposeBegin(p, d)
               \/ \E s \in Stages : StageBegin(p, s)
        PROVE  Inv'
    BY <2>1, ProposeInv, StageStepInv, Zenon
  <2>2. ASSUME NEW o \in Objects, InstallSuspect(o) \/ InstallCopy(o) PROVE Inv'
    BY <2>2, StageStepInv, CopyStepInv, Zenon DEF CopyStep
  <2>3. ASSUME NEW s \in Stages, NEW m \in Materializations,
               MaterializeBegin(s, m) \/ AdoptBegin(s, m)
        PROVE  Inv'
    BY <2>3, CopyBegins
  <2>4. ASSUME NEW m \in Materializations, ReadyBegin(m) PROVE Inv'
    BY <2>4, ReadyInv
  <2>5. ProposeCommit \/ StageLook \/ Preserve \/ WriteManifest \/ StageReobserve \/ StageCommit
          => Inv'
    BY ProposeInv, StageStepInv, StageCommitInv
  <2>6. MaterializeLook \/ CopyDonor \/ WriteDonorManifest \/ MaterializeReprove
          \/ MaterializeRecheck \/ AdoptLook \/ AdoptReprove => Inv'
    BY CopyStepInv, Zenon DEF CopyStep
  <2>7. MaterializeCommit \/ AdoptCommit \/ ReadyAttest \/ ReadyCommit \/ Abandon => Inv'
    BY CopyCommitInv, ReadyInv, AbandonInv
  <2> QED
    BY <1>1, <2>1, <2>2, <2>3, <2>4, <2>5, <2>6, <2>7, Zenon DEF Recover
<1> QED
  BY <1>1, InterfereInv, StutterInv DEF Next

\* The inductive invariant holds in every reachable state.
THEOREM PipelineInvariance == Spec => []Inv
BY InvInit, StepInv, PTL DEF Spec

\* Every reachable state is well typed.
THEOREM PipelineTypeCorrect == Spec => []TypeOK
<1>1. Inv => TypeOK
  BY DEF Inv
<1> QED
  BY <1>1, PipelineInvariance, PTL

-----------------------------------------------------------------------------
(* Only a commit moves a row.                                              *)

Commit == ProposeCommit \/ StageCommit \/ MaterializeCommit \/ AdoptCommit \/ ReadyCommit

LEMMA RecoverFrame ==
    ASSUME Recover
    PROVE  /\ UNCHANGED verdicts /\ envs' = envs
           /\ Commit \/ UNCHANGED tables
<1>1. Own
  BY Zenon DEF Recover, ProposeBegin, StageBegin, ProposeCommit, StageLook, Preserve, WriteManifest,
     StageReobserve, StageCommit, InstallSuspect, InstallCopy, MaterializeBegin, AdoptBegin,
     MaterializeLook, CopyDonor, WriteDonorManifest, MaterializeReprove, MaterializeRecheck,
     MaterializeCommit, AdoptLook, AdoptReprove, AdoptCommit, ReadyBegin, ReadyAttest,
     ReadyCommit, Abandon
<1>2. Commit \/ UNCHANGED tables
  BY Zenon DEF Commit, Recover, ProposeBegin, StageBegin, StageLook, Preserve, WriteManifest,
     StageReobserve, InstallSuspect, InstallCopy, MaterializeBegin, AdoptBegin,
     MaterializeLook, CopyDonor, WriteDonorManifest, MaterializeReprove, MaterializeRecheck,
     AdoptLook, AdoptReprove, ReadyBegin, ReadyAttest, Abandon
<1> QED
  BY <1>1, <1>2 DEF Own

LEMMA TablesMove ==
    ASSUME [Next]_vars
    PROVE  Commit \/ UNCHANGED <<proposal, stage, materialization, ready>>
<1>1. Recover => Commit \/ UNCHANGED <<proposal, stage, materialization, ready>>
  BY RecoverFrame DEF tables
<1>2. Interfere => UNCHANGED <<proposal, stage, materialization, ready>>
  BY InterfereFrame
<1>3. UNCHANGED vars => UNCHANGED <<proposal, stage, materialization, ready>>
  BY DEF vars
<1> QED
  BY <1>1, <1>2, <1>3 DEF Next

LEMMA StageMoves ==
    ASSUME [Next]_vars, stage' # stage
    PROVE  StageCommit
BY TablesMove DEF Commit, ProposeCommit, MaterializeCommit, AdoptCommit, ReadyCommit

LEMMA MaterializationMoves ==
    ASSUME [Next]_vars, materialization' # materialization
    PROVE  MaterializeCommit \/ AdoptCommit
BY TablesMove DEF Commit, ProposeCommit, StageCommit, ReadyCommit

LEMMA ReadyMoves ==
    ASSUME [Next]_vars, ready' # ready
    PROVE  ReadyCommit
BY TablesMove DEF Commit, ProposeCommit, StageCommit, MaterializeCommit, AdoptCommit

LEMMA AttestedIsAlone ==
    ASSUME TypeOK, NEW n \in Names, NEW o \in Objects, NEW c, Attested(n, o, c)
    PROVE  Sum(Look(n)) = c /\ SingleLink(n) /\ at[n] = o
BY LookType DEF Attested, SingleLink

\* What is preserved is what was reviewed, whatever happened meanwhile.
THEOREM PipelinePreservesReviewed == Spec => PreservedIsReviewed
<1>1. ASSUME Inv, [Next]_vars, NEW s \in Stages, stage'[s] # stage[s]
      PROVE  /\ stage'[s].sum = Sum(proposal[stage'[s].proposal].target)
             /\ proposal[stage'[s].proposal].target # None =>
                   /\ Sum(Look(Suspect(s))) = Sum(proposal[stage'[s].proposal].target)
                   /\ SingleLink(Suspect(s))
  <2>1. StageCommit
    BY <1>1, StageMoves
  <2>2. s = job.stage /\ stage'[s].proposal = job.proposal /\ stage'[s].sum = job.sum
    BY <1>1, <2>1, StageCommitFacts DEF Inv, TypeOK
  <2>3. /\ job.sum = Sum(proposal[job.proposal].target) /\ job.proposal \in Proposals
        /\ proposal[job.proposal] # None
    BY <1>1, <2>1, StageCommitFacts
  <2>4. ASSUME proposal[job.proposal].target # None
        PROVE  Sum(Look(Suspect(s))) = job.sum /\ SingleLink(Suspect(s))
    <3>1. job.sum # None
      BY <1>1, <2>3, <2>4, RowTypes DEF Inv, Sum, Seen
    <3>2. job.obj \in Objects /\ Attested(Suspect(s), job.obj, job.sum)
      BY <1>1, <2>1, <2>2, <3>1 DEF StageCommit, Inv, Stands, SumReviewed
    <3> QED
      BY <1>1, <3>2, NamesOf, AttestedIsAlone DEF Inv
  <2> QED
    BY <2>2, <2>3, <2>4
<1>2. Inv /\ [Next]_vars =>
        [\A s \in Stages : stage'[s] # stage[s] =>
            LET seen == proposal[stage'[s].proposal].target IN
            /\ stage'[s].sum = Sum(seen)
            /\ seen # None => Sum(Look(Suspect(s))) = Sum(seen) /\ SingleLink(Suspect(s))]_vars
  BY <1>1
<1> QED
  BY <1>2, PipelineInvariance, PTL DEF Spec, PreservedIsReviewed

\* A donor copy is entered with the expected bytes and one name, and never as a
\* source File's own object.
THEOREM PipelineCopiesOperational == Spec => CopyIsOperational
<1>1. ASSUME Inv, [Next]_vars, NEW m \in Materializations, materialization'[m] # materialization[m]
      PROVE  LET s == materialization'[m].stage IN
             /\ Sum(Look(Copy(s))) = Expected /\ SingleLink(Copy(s))
             /\ job.at = "settle" => at[Copy(s)] \notin known
  <2>1. MaterializeCommit \/ AdoptCommit
    BY <1>1, MaterializationMoves
  <2>2. materialization'[m].stage = job.stage
    BY <1>1, <2>1, CopyCommitFacts DEF Inv, TypeOK
  <2>3. /\ job.stage \in Stages /\ job.obj \in Objects
        /\ job.at = "settle" => job.obj \notin known
        /\ Attested(Copy(job.stage), job.obj, Expected)
    BY <1>1, <2>1, CopyCommitFacts
  <2> QED
    BY <1>1, <2>2, <2>3, NamesOf, AttestedIsAlone DEF Inv
<1>2. Inv /\ [Next]_vars =>
        [\A m \in Materializations : materialization'[m] # materialization[m] =>
            LET s == materialization'[m].stage IN
            /\ Sum(Look(Copy(s))) = Expected /\ SingleLink(Copy(s))
            /\ job.at = "settle" => at[Copy(s)] \notin known]_vars
  BY <1>1
<1> QED
  BY <1>2, PipelineInvariance, PTL DEF Spec, CopyIsOperational

-----------------------------------------------------------------------------
LEMMA DiskMoves ==
    ASSUME [Next]_vars, envs' = envs, TypeOK
    PROVE  \/ UNCHANGED <<at, bytes, manifest, note>>
           \/ \E o \in Objects : InstallSuspect(o) \/ InstallCopy(o)
           \/ WriteManifest \/ WriteDonorManifest \/ Abandon
<1>1. CASE Recover
  BY <1>1, Zenon DEF Recover, ProposeBegin, StageBegin, ProposeCommit, StageLook, Preserve,
     StageReobserve, StageCommit, MaterializeBegin, AdoptBegin, MaterializeLook, CopyDonor,
     MaterializeReprove, MaterializeRecheck, MaterializeCommit, AdoptLook, AdoptReprove,
     AdoptCommit, ReadyBegin, ReadyAttest, ReadyCommit, disk, storage
<1>2. CASE Interfere
  <2>1. Elsewhere
    BY <1>2, Zenon DEF Interfere, Remove, Overwrite, Arrive, Rename, SpoilManifest, Tidy,
       Verify, Reconsider, Scan
  <2> QED
    BY <2>1 DEF Elsewhere, TypeOK
<1> QED
  BY <1>1, <1>2 DEF Next, vars

\* What an operation does to a manifest it does before its row is committed.
LEMMA ManifestsStay ==
    ASSUME Inv, WriteManifest \/ WriteDonorManifest \/ Abandon
    PROVE  /\ UNCHANGED <<at, bytes>>
           /\ \A s \in Stages : stage[s] # None => manifest'[s] = manifest[s]
           /\ \A m \in Materializations : materialization[m] # None =>
                 note'[materialization[m].stage] = note[materialization[m].stage]
<1>1. UNCHANGED <<at, bytes>>
  BY DEF WriteManifest, WriteDonorManifest, Abandon, disk
<1>2. \/ UNCHANGED manifest
      \/ /\ job.at = "manifest"
         /\ \E x \in {None, job.stage} : manifest' = [manifest EXCEPT ![job.stage] = x]
  BY DEF WriteManifest, WriteDonorManifest, Abandon
<1>3. \/ UNCHANGED note
      \/ /\ job.at = "describe"
         /\ \E x \in {None, job.materialization} : note' = [note EXCEPT ![job.stage] = x]
  BY DEF WriteManifest, WriteDonorManifest, Abandon
<1>4. ASSUME NEW s \in Stages, stage[s] # None PROVE manifest'[s] = manifest[s]
  <2>1. job.at = "manifest" => s # job.stage
    BY <1>4 DEF Inv, Stands, StageStands, StageSteps
  <2> QED
    BY <1>2, <2>1 DEF Inv, TypeOK
<1>5. ASSUME NEW m \in Materializations, materialization[m] # None
      PROVE  note'[materialization[m].stage] = note[materialization[m].stage]
  <2>1. job.at = "describe" => materialization[m].stage # job.stage
    BY <1>5 DEF Inv, Stands, CopyStands, CopySteps
  <2>2. materialization[m].stage \in Stages
    BY <1>5, RowTypes DEF Inv
  <2> QED
    BY <1>3, <2>1, <2>2 DEF Inv, TypeOK
<1> QED
  BY <1>1, <1>4, <1>5

\* No step of PPA takes away or rewrites a photograph, a preserved suspect or a
\* donor copy, nor the manifest of a committed stage or materialization.
THEOREM PipelineDisturbsNothing == Spec => NothingDisturbed
<1>1. ASSUME Inv, [Next]_vars, envs' = envs
      PROVE  /\ \A n \in Names : at[n] # None =>
                   at'[n] = at[n] /\ bytes'[at[n]] = bytes[at[n]]
             /\ \A s \in Stages : stage[s] # None => manifest'[s] = manifest[s]
             /\ \A m \in Materializations : materialization[m] # None =>
                   note'[materialization[m].stage] = note[materialization[m].stage]
  <2>1. CASE UNCHANGED <<at, bytes, manifest, note>>
    BY <2>1
  <2>2. ASSUME NEW n \in Names, NEW o \in Objects, NEW c, Install(n, o, c)
        PROVE  \A x \in Names : at[x] # None =>
                   at'[x] = at[x] /\ bytes'[at[x]] = bytes[at[x]]
    BY <1>1, <2>2 DEF Install, Inv, TypeOK
  <2>3. ASSUME NEW o \in Objects, InstallSuspect(o) \/ InstallCopy(o)
        PROVE  /\ UNCHANGED <<manifest, note>>
               /\ \E n \in Names, c \in Contents \cup {None} : Install(n, o, c)
    <3>1. job.stage \in Stages /\ job.sum \in Contents \cup {None}
      BY <1>1, <2>3 DEF InstallSuspect, InstallCopy, Inv, TypeOK, Jobs, Stands, StageStands, CopyStands,
         StageSteps, CopySteps
    <3> QED
      BY <2>3, <3>1, NamesOf DEF InstallSuspect, InstallCopy, storage
  <2>4. CASE WriteManifest \/ WriteDonorManifest \/ Abandon
    BY <1>1, <2>4, ManifestsStay
  <2> QED
    BY <1>1, <2>1, <2>2, <2>3, <2>4, DiskMoves DEF Inv
<1>2. Inv /\ [Next]_vars =>
        [envs' = envs =>
          /\ \A n \in Names : at[n] # None =>
                at'[n] = at[n] /\ bytes'[at[n]] = bytes[at[n]]
          /\ \A s \in Stages : stage[s] # None => manifest'[s] = manifest[s]
          /\ \A m \in Materializations : materialization[m] # None =>
                note'[materialization[m].stage] = note[materialization[m].stage]]_vars
  BY <1>1
<1> QED
  BY <1>2, PipelineInvariance, PTL DEF Spec, NothingDisturbed

\* A readiness rests on the reviewed target, alone under its name, and unless
\* others acted while it was confirmed on the evidence of the whole chain.
THEOREM PipelineReadinessRests == Spec => ReadyRestsOnChain
<1>1. ASSUME Inv, [Next]_vars, NEW m \in ready' \ ready
      PROVE  LET s == materialization[m].stage
                 row == proposal[Root(m)] IN
             /\ Look(Target) = row.target
             /\ at[Target] # None => SingleLink(Target)
             /\ calm => /\ Sum(Look(Copy(s))) = Expected
                        /\ row.target # None => Sum(Look(Suspect(s))) = Sum(row.target)
  <2>1. ReadyCommit
    BY <1>1, ReadyMoves
  <2>2. m = job.materialization
    BY <1>1, <2>1 DEF ReadyCommit
  <2>3. /\ job.at = "confirm" /\ TargetAsReviewed(m)
    BY <2>1, <2>2 DEF ReadyCommit
  <2>4. m \in Materializations /\ materialization[m] # None
    BY <1>1, <2>2, <2>3 DEF Inv, Stands, ReadyStands, ReadySteps
  <2> DEFINE s == materialization[m].stage
             p == stage[s].proposal
  <2>5. /\ s \in Stages /\ stage[s] # None /\ p \in Proposals /\ proposal[p] # None
        /\ stage[s].sum = Sum(proposal[p].target)
    BY <1>1, <2>4, RowTypes DEF Inv, Stands, RowsHang
  <2>6. ASSUME calm
        PROVE  /\ Sum(Look(Copy(s))) = Expected
               /\ stage[s].sum # None => Sum(Look(Suspect(s))) = stage[s].sum
    BY <1>1, <2>2, <2>3, <2>6 DEF Inv, Stands, ConfirmStands
  <2>7. proposal[p].target # None => stage[s].sum # None
    BY <1>1, <2>5, RowTypes DEF Inv, Sum, Seen
  <2> QED
    BY <2>3, <2>5, <2>6, <2>7 DEF TargetAsReviewed, Root
<1>2. Inv /\ [Next]_vars =>
        [\A m \in ready' \ ready :
          LET s == materialization[m].stage
              row == proposal[Root(m)] IN
          /\ Look(Target) = row.target
          /\ at[Target] # None => SingleLink(Target)
          /\ calm => /\ Sum(Look(Copy(s))) = Expected
                     /\ row.target # None => Sum(Look(Suspect(s))) = Sum(row.target)]_vars
  BY <1>1
<1> QED
  BY <1>2, PipelineInvariance, PTL DEF Spec, ReadyRestsOnChain

-----------------------------------------------------------------------------
(* The pipeline climbs the ladder: a commit is one rung, a decision or a   *)
(* Verify moves the standing, everything else is a stutter.                *)

StagedOf(p) == {s \in Stages : stage[s] # None /\ stage[s].proposal = p}
MadeOf(p) == {m \in Materializations :
                 materialization[m] # None /\ materialization[m].stage \in StagedOf(p)}
NamedBy(p) == IF proposal[p] = None THEN None ELSE proposal[p].intent

LEMMA ChainIs ==
    Chain = [p \in Proposals |-> [intent |-> NamedBy(p), staged |-> StagedOf(p),
                                  materialized |-> MadeOf(p), ready |-> MadeOf(p) \cap ready]]
BY Zenon DEF Chain, StagedOf, MadeOf, NamedBy

LEMMA ChainIsNext ==
    Chain' = [p \in Proposals |-> [intent |-> NamedBy(p)', staged |-> StagedOf(p)',
                                   materialized |-> MadeOf(p)',
                                   ready |-> MadeOf(p)' \cap ready']]
BY Zenon DEF Chain, StagedOf, MadeOf, NamedBy

\* How one cell of the chain moves when one of its fields does.
LEMMA ChainMoves ==
    ASSUME NEW p \in Proposals,
           \A q \in Proposals : q # p =>
              /\ NamedBy(q)' = NamedBy(q) /\ StagedOf(q)' = StagedOf(q)
              /\ MadeOf(q)' = MadeOf(q) /\ MadeOf(q)' \cap ready' = MadeOf(q) \cap ready
    PROVE  Chain' = [Chain EXCEPT ![p] =
              [intent |-> NamedBy(p)', staged |-> StagedOf(p)',
               materialized |-> MadeOf(p)', ready |-> MadeOf(p)' \cap ready']]
BY ChainIs, ChainIsNext

LEMMA ChainAt ==
    ASSUME NEW p \in Proposals
    PROVE  /\ Chain[p].intent = NamedBy(p) /\ Chain[p].staged = StagedOf(p)
           /\ Chain[p].materialized = MadeOf(p) /\ Chain[p].ready = MadeOf(p) \cap ready
BY ChainIs

LEMMA ChainInit == Init => Ladder!Init
<1> SUFFICES ASSUME Init PROVE Ladder!Init
  OBVIOUS
<1>1. intent = 0 /\ (flagged /\ retained) = TRUE
  BY DEF Init
<1>2. \A p \in Proposals : NamedBy(p) = None /\ StagedOf(p) = {} /\ MadeOf(p) = {}
  BY DEF Init, NamedBy, StagedOf, MadeOf
<1>3. Chain = [p \in Proposals |->
                 [intent |-> None, staged |-> {}, materialized |-> {}, ready |-> {}]]
  BY <1>2, ChainIs
<1> QED
  BY <1>1, <1>3 DEF Ladder!Init

LEMMA ChainStays == ASSUME UNCHANGED tables PROVE Chain' = Chain
<1>1. UNCHANGED <<proposal, stage, materialization, ready>>
  BY DEF tables
<1> QED
  BY <1>1 DEF Chain

\* One rung of one proposal.
LEMMA ProposeClimbs ==
    ASSUME Inv, ProposeCommit
    PROVE  \E p \in Proposals : Ladder!Climb(p)
<1>0. PICK p \in Proposals : p = job.proposal
  BY DEF ProposeCommit, Inv, Stands, ProposeStands
<1>1. proposal[p] = None /\ flagged /\ retained
  BY <1>0 DEF ProposeCommit, Inv, Stands, ProposeStands, Asked
<1>2. PICK row : row \in ProposalRows /\ row.intent = intent
                 /\ proposal' = [proposal EXCEPT ![p] = row]
  <2> DEFINE r == [intent |-> intent, donor |-> job.donor, target |-> job.target,
                   source |-> Look(job.donor)]
  <2>1. job.donor \in Donors /\ Sum(Look(job.donor)) = Expected
    BY DEF ProposeCommit, Inv, Stands, ProposeStands
  <2>2. Look(job.donor) \in Seen
    BY <2>1, LookType, NamesOf DEF Inv, Sum
  <2>3. r \in ProposalRows /\ r.intent = intent
    BY <2>1, <2>2 DEF ProposalRows, Inv, TypeOK, Jobs
  <2>4. proposal' = [proposal EXCEPT ![p] = r]
    BY <1>0 DEF ProposeCommit
  <2> HIDE DEF r
  <2> QED
    BY <2>3, <2>4
<1>3. UNCHANGED <<stage, materialization, ready>>
  BY DEF ProposeCommit
<1>4. /\ NamedBy(p)' = intent /\ \A q \in Proposals : q # p => NamedBy(q)' = NamedBy(q)
      /\ \A q \in Proposals : StagedOf(q)' = StagedOf(q) /\ MadeOf(q)' = MadeOf(q)
  BY <1>1, <1>2, <1>3 DEF Inv, TypeOK, NamedBy, StagedOf, MadeOf
<1>5. Chain' = [Chain EXCEPT ![p].intent = intent]
  <2>1. Chain' = [Chain EXCEPT ![p] =
                    [intent |-> intent, staged |-> StagedOf(p), materialized |-> MadeOf(p),
                     ready |-> MadeOf(p) \cap ready]]
    BY <1>3, <1>4, ChainMoves
  <2>2. Chain[p] = [intent |-> NamedBy(p), staged |-> StagedOf(p), materialized |-> MadeOf(p),
                    ready |-> MadeOf(p) \cap ready]
    BY ChainIs
  <2>3. [Chain[p] EXCEPT !.intent = intent] =
           [intent |-> intent, staged |-> StagedOf(p), materialized |-> MadeOf(p),
                     ready |-> MadeOf(p) \cap ready]
    BY <2>2
  <2>4. [Chain EXCEPT ![p].intent = intent] = [Chain EXCEPT ![p] = [Chain[p] EXCEPT !.intent = intent]]
    BY Zenon
  <2> QED
    BY <2>1, <2>3, <2>4, Zenon
<1>6. Chain[p].intent = None
  BY <1>1, ChainAt DEF NamedBy
<1> QED
  BY <1>1, <1>5, <1>6 DEF Ladder!Climb, Ladder!Propose

LEMMA StageClimbs ==
    ASSUME Inv, StageCommit
    PROVE  \E p \in Proposals : Ladder!Climb(p)
<1>0. PICK p \in Proposals, s \in Stages : p = job.proposal /\ s = job.stage
  BY StageCommitFacts
<1>1. PICK row :
      /\ stage[s] = None /\ proposal[p] # None
      /\ Unstaged(p) /\ Asked(proposal[p].intent)
      /\ row \in StageRows /\ row # None /\ row.proposal = p
      /\ stage' = [stage EXCEPT ![s] = row]
      /\ UNCHANGED <<proposal, materialization, ready>>
  BY <1>0, StageCommitFacts
<1>2. stage'[s] = row /\ \A t \in Stages : t # s => stage'[t] = stage[t]
  BY <1>1 DEF Inv, TypeOK
<1>3. StagedOf(p) = {} /\ \A q \in Proposals : s \notin StagedOf(q)
  BY <1>1 DEF StagedOf, Unstaged
<1>4. StagedOf(p)' = {s} /\ \A q \in Proposals : q # p => StagedOf(q)' = StagedOf(q)
  BY <1>1, <1>2, <1>3 DEF StagedOf
<1>5. \A m \in Materializations : materialization[m] # None => materialization[m].stage # s
  BY <1>1 DEF Inv, Stands, RowsHang
<1>6. \A q \in Proposals : MadeOf(q)' = MadeOf(q)
  BY <1>1, <1>3, <1>4, <1>5 DEF MadeOf
<1>7. \A q \in Proposals : NamedBy(q)' = NamedBy(q)
  BY <1>1 DEF NamedBy
<1>8. Chain' = [Chain EXCEPT ![p].staged = {s}]
  <2>1. Chain' = [Chain EXCEPT ![p] =
                    [intent |-> NamedBy(p), staged |-> {s}, materialized |-> MadeOf(p),
                     ready |-> MadeOf(p) \cap ready]]
    BY <1>1, <1>4, <1>6, <1>7, ChainMoves
  <2>2. Chain[p] = [intent |-> NamedBy(p), staged |-> StagedOf(p), materialized |-> MadeOf(p),
                    ready |-> MadeOf(p) \cap ready]
    BY ChainIs
  <2>3. [Chain[p] EXCEPT !.staged = {s}] =
           [intent |-> NamedBy(p), staged |-> {s}, materialized |-> MadeOf(p),
                     ready |-> MadeOf(p) \cap ready]
    <3> HIDE NameAssumption, ContentAssumption, NoneIsNew
    <3> QED
      BY <2>2
  <2>4. [Chain EXCEPT ![p].staged = {s}] = [Chain EXCEPT ![p] = [Chain[p] EXCEPT !.staged = {s}]]
    BY Zenon
  <2> QED
    BY <2>1, <2>3, <2>4, Zenon
<1>9. Ladder!Stage(p, s)
  BY <1>1, <1>3, <1>8, ChainAt DEF Ladder!Stage, Ladder!Stands, NamedBy, Asked
<1> QED
  BY <1>1, <1>9 DEF Ladder!Climb

LEMMA CopyClimbs ==
    ASSUME Inv, MaterializeCommit \/ AdoptCommit
    PROVE  \E p \in Proposals : Ladder!Climb(p)
<1>0. PICK s \in Stages, m \in Materializations :
         s = job.stage /\ m = job.materialization /\ stage[s] # None
  BY CopyCommitFacts
<1>p. PICK p \in Proposals : p = stage[s].proposal
  BY <1>0, RowTypes DEF Inv
<1>1. /\ stage[s] # None
      /\ materialization[m] = None
      /\ \A n \in Materializations :
            materialization[n] # None => materialization[n].stage # s
      /\ Asked(proposal[p].intent)
      /\ UNCHANGED <<proposal, stage, ready>>
  BY <1>0, <1>p, CopyCommitFacts
<1>2. PICK row \in MaterializationRows :
         /\ row.stage = s
         /\ materialization' = [materialization EXCEPT ![m] = row]
  BY <1>0, CopyCommitFacts
<1>3. proposal[p] # None
  BY <1>1, <1>p DEF Inv, Stands, RowsHang
<1>4. materialization'[m] = row /\ row # None
      /\ \A n \in Materializations : n # m => materialization'[n] = materialization[n]
  BY <1>1, <1>2 DEF Inv, TypeOK
<1>5. \A q \in Proposals : StagedOf(q)' = StagedOf(q) /\ NamedBy(q)' = NamedBy(q)
  BY <1>1 DEF StagedOf, NamedBy
<1>6. s \in StagedOf(p) /\ \A q \in Proposals : s \in StagedOf(q) => q = p
  BY <1>1, <1>p DEF StagedOf
<1>7. \A t \in StagedOf(p) : t = s
  BY <1>0, <1>p DEF StagedOf, Inv, Stands, RowsHang
<1>8. MadeOf(p) = {} /\ \A q \in Proposals : m \notin MadeOf(q)
  BY <1>1, <1>7 DEF MadeOf
<1>9. MadeOf(p)' = {m} /\ \A q \in Proposals : q # p => MadeOf(q)' = MadeOf(q)
  BY <1>1, <1>2, <1>3, <1>4, <1>5, <1>6, <1>8 DEF MadeOf
<1>10. m \notin ready
  BY <1>1 DEF Inv, Stands, RowsHang
<1>11. Chain' = [Chain EXCEPT ![p].materialized = {m}]
  <2>1. \A q \in Proposals : (MadeOf(q) \cap ready)' = MadeOf(q) \cap ready
    BY <1>1, <1>8, <1>9, <1>10
  <2>2. Chain' = [Chain EXCEPT ![p] =
           [intent |-> NamedBy(p)', staged |-> StagedOf(p)',
            materialized |-> MadeOf(p)', ready |-> MadeOf(p)' \cap ready']]
    BY <1>5, <1>9, <2>1, ChainMoves
  <2>3. MadeOf(p)' \cap ready' = MadeOf(p) \cap ready
    BY <2>1
  <2>4. Chain[p] = [intent |-> NamedBy(p), staged |-> StagedOf(p),
                    materialized |-> MadeOf(p), ready |-> MadeOf(p) \cap ready]
    BY ChainIs
  <2>5. [Chain[p] EXCEPT !.materialized = {m}] =
           [intent |-> NamedBy(p)', staged |-> StagedOf(p)',
            materialized |-> MadeOf(p)', ready |-> MadeOf(p)' \cap ready']
    BY <1>5, <1>9, <2>3, <2>4
  <2> QED
    BY <2>2, <2>5
<1>12. Ladder!Materialize(p, m)
  BY <1>1, <1>3, <1>6, <1>8, <1>11, ChainAt DEF Ladder!Materialize, Ladder!Stands, NamedBy, Asked
<1> QED
  BY <1>1, <1>3, <1>12 DEF Ladder!Climb

LEMMA ReadyClimbs ==
    ASSUME Inv, ReadyCommit
    PROVE  \E p \in Proposals : Ladder!Climb(p)
<1>0. PICK m \in Materializations : m = job.materialization /\ materialization[m] # None
  BY DEF ReadyCommit, Inv, Stands, ReadyStands, ReadySteps
<1>s. PICK s \in Stages : s = materialization[m].stage /\ stage[s] # None
  BY <1>0, RowTypes DEF Inv, Stands, RowsHang
<1>p. PICK p \in Proposals : p = stage[s].proposal /\ proposal[p] # None
  BY <1>s, RowTypes DEF Inv, Stands, RowsHang
<1>1. m \notin ready /\ Asked(proposal[p].intent)
  BY <1>0, <1>s, <1>p DEF ReadyCommit, Inv, Stands, ReadyStands, ReadySteps, Root
<1>3. ready' = ready \cup {m} /\ UNCHANGED <<proposal, stage, materialization>>
  BY <1>0 DEF ReadyCommit
<1>4. MadeOf(p) = {m}
  BY <1>0, <1>s, <1>p DEF MadeOf, StagedOf, Inv, Stands, RowsHang
<1>5. \A q \in Proposals : q # p => m \notin MadeOf(q)
  BY <1>0, <1>s, <1>p DEF MadeOf, StagedOf
<1>6. \A q \in Proposals : StagedOf(q)' = StagedOf(q) /\ NamedBy(q)' = NamedBy(q)
                            /\ MadeOf(q)' = MadeOf(q)
  BY <1>3 DEF StagedOf, NamedBy, MadeOf
<1>7. /\ MadeOf(p) \cap ready = {} /\ (MadeOf(p) \cap ready)' = {m}
      /\ \A q \in Proposals : q # p => (MadeOf(q) \cap ready)' = MadeOf(q) \cap ready
  BY <1>1, <1>3, <1>4, <1>5, <1>6
<1>8. Chain' = [Chain EXCEPT ![p].ready = {m}]
  BY <1>6, <1>7, ChainIs, ChainMoves
<1>9. Ladder!Ready(p, m)
  BY <1>1, <1>p, <1>4, <1>7, <1>8, ChainAt DEF Ladder!Ready, Ladder!Stands, NamedBy, Asked
<1> QED
  BY <1>9 DEF Ladder!Climb

LEMMA ClimbStep ==
    ASSUME Inv, [Next]_vars
    PROVE  [Ladder!Next]_<<intent, flagged /\ retained, Chain>>
<1>1. CASE Commit
  <2>1. \E p \in Proposals : Ladder!Climb(p)
    BY <1>1, ProposeClimbs, StageClimbs, CopyClimbs, ReadyClimbs DEF Commit
  <2>2. UNCHANGED <<intent, flagged, retained>>
    BY <1>1 DEF Commit, ProposeCommit, StageCommit, MaterializeCommit, AdoptCommit, ReadyCommit,
       Own, verdicts
  <2>3. UNCHANGED <<intent, flagged /\ retained>>
    BY <2>2
  <2> QED
    BY <2>1, <2>3, Zenon DEF Ladder!Next
<1>2. CASE Recover /\ UNCHANGED tables
  <2>1. UNCHANGED <<intent, flagged, retained>>
    BY <1>2, RecoverFrame DEF verdicts
  <2> QED
    BY <1>2, <2>1, ChainStays
<1>3. CASE Interfere
  <2>1. Chain' = Chain
    BY <1>3, InterfereFrame, ChainStays DEF tables
  <2>2. intent' = intent \/ intent' = intent + 1
    BY <1>3, Zenon DEF Interfere, Remove, Overwrite, Arrive, Rename, SpoilManifest, Tidy,
       Verify, Reconsider, Scan, verdicts
  <2>3. (flagged /\ retained)' \in BOOLEAN
    OBVIOUS
  <2> QED
    BY <2>1, <2>2, <2>3, Zenon DEF Ladder!Next
<1>4. CASE UNCHANGED vars
  <2>1. UNCHANGED <<intent, flagged, retained>> /\ UNCHANGED tables
    BY <1>4 DEF vars, tables
  <2> QED
    BY <2>1, ChainStays
<1> QED
  BY <1>1, <1>2, <1>3, <1>4, RecoverFrame DEF Next

\* The pipeline implements the ladder.
THEOREM PipelineClimbsLadder == Spec => ClimbsLadder
<1>1. Init => Ladder!Init
  BY ChainInit
<1>2. Inv /\ [Next]_vars => [Ladder!Next]_<<intent, flagged /\ retained, Chain>>
  BY ClimbStep
<1> QED
  BY <1>1, <1>2, PipelineInvariance, PTL DEF Spec, ClimbsLadder, Ladder!Spec

=============================================================================
