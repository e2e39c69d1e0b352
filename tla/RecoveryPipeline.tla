-------------------------- MODULE RecoveryPipeline --------------------------
(***************************************************************************)
(* From a human decision to recover a File to evidence that it can be      *)
(* done: a proposal names a donor, a stage preserves the suspect bytes, a  *)
(* materialization copies the donor's bytes beside them, a readiness       *)
(* records that the target still is what was reviewed.  Each runs under    *)
(* one SQLite write transaction and in many moments on disk; it may raise  *)
(* or die between any two of them and leaves its debris in operational     *)
(* storage, and other programs write everywhere meanwhile.                 *)
(*                                                                         *)
(* A name points at a file-system object; several names of one object are  *)
(* hard links.  An identity freed on disk may be used again.               *)
(***************************************************************************)
EXTENDS Naturals

CONSTANTS
    Proposals,         \* proposal ids
    Stages,            \* stage ids, which also name their directories
    Materializations,  \* materialization ids
    Target,            \* the pathname of the File to recover
    Donors,            \* the pathnames of the Files with its expected bytes
    Objects,           \* file-system identities
    Contents,          \* byte strings
    Expected,          \* the bytes of the expected revision
    None,
    Spoiled,           \* at a manifest's name: a file that is not what PPA wrote
    MaxEnv,            \* bound: steps of other programs
    MaxIntent          \* bound: decisions after the first

Sources == Donors \cup {Target}
Suspect(s) == <<s, "suspect-source">>
Copy(s) == <<s, "expected-donor">>
Names == Sources \cup {Suspect(s) : s \in Stages} \cup {Copy(s) : s \in Stages}

ASSUME NameAssumption ==
    /\ Target \notin Donors
    /\ \A s \in Stages : Suspect(s) \notin Sources /\ Copy(s) \notin Sources

ASSUME ContentAssumption == Expected \in Contents

\* An observation: the identity and the bytes of the file at a name.
Seen == Objects \X Contents

ProposalRows == [intent : Nat, donor : Donors, target : Seen \cup {None}, source : Seen]
StageRows == [proposal : Proposals, sum : Contents \cup {None}]
MaterializationRows == [stage : Stages, storage : {"filesystem", "embedded"}]

\* None and Spoiled are ordinary values.
ASSUME NoneIsNew ==
    /\ None \notin Objects \cup Contents \cup Proposals \cup Stages \cup Materializations
    /\ None \notin Seen /\ None \notin Nat
    /\ None \notin ProposalRows /\ None \notin StageRows /\ None \notin MaterializationRows
    /\ None # Spoiled /\ Spoiled \notin Stages \cup Materializations

VARIABLES
    at,            \* [Names -> Objects or None]
    bytes,         \* [Objects -> Contents]
    dirs,          \* the stage directories that exist
    manifest,      \* [Stages -> the stage its preservation manifest describes,
                   \*            Spoiled or None]
    note,          \* [Stages -> the materialization its donor manifest names,
                   \*            Spoiled or None]
    pending,       \* the stages with a stranded temporary of a donor copy
    flagged,       \* the File's health is hash_mismatch
    retained,      \* the latest decision is to retain the expected bytes
    intent,        \* the latest decision
    eligible,      \* the Donors the catalogue vouches for
    known,         \* the identities the catalogue has seen on source Files
    proposal, stage, materialization, ready,    \* the four tables
    job,           \* the operation inside its write transaction, if any
    calm,          \* history: nobody else did anything since ReadyAttest
    envs

disk == <<at, bytes>>
storage == <<dirs, manifest, note, pending>>
verdicts == <<flagged, retained, intent, eligible, known>>
tables == <<proposal, stage, materialization, ready>>
vars == <<at, bytes, dirs, manifest, note, pending, flagged, retained, intent,
          eligible, known, proposal, stage, materialization, ready, job, calm, envs>>

\* What observe_stable_image says of a pathname, and the bytes of that.
Look(n) == IF at[n] = None THEN None ELSE <<at[n], bytes[at[n]]>>
Sum(seen) == IF seen = None THEN None ELSE seen[2]

Steps == {"idle", "propose", "stage", "preserve", "install", "manifest",
          "reobserve", "attest", "materialize", "copy", "place", "describe",
          "reprove", "recheck", "conclude", "adopt", "verify", "settle",
          "ready", "confirm"}

Jobs == [at : Steps,
         proposal : Proposals \cup {None},
         stage : Stages \cup {None},
         materialization : Materializations \cup {None},
         donor : Donors \cup {None},
         target : Seen \cup {None},
         source : Seen \cup {None},
         sum : Contents \cup {None},
         obj : Objects \cup {None},
         note : Materializations \cup {None}]

Idle == [at |-> "idle", proposal |-> None, stage |-> None, materialization |-> None,
         donor |-> None, target |-> None, source |-> None, sum |-> None,
         obj |-> None, note |-> None]

Init ==
    /\ \E t \in Objects \cup {None}, d \in [Donors -> Objects] :
        /\ at = [n \in Names |-> IF n = Target THEN t
                                 ELSE IF n \in Donors THEN d[n] ELSE None]
        /\ \E c \in Contents :
              bytes = [o \in Objects |-> IF o = t THEN c ELSE Expected]
        /\ \E K \in SUBSET ({t} \cup {d[n] : n \in Donors}) : known = K \ {None}
    /\ dirs = {} /\ pending = {}
    /\ manifest = [s \in Stages |-> None]
    /\ note = [s \in Stages |-> None]
    /\ flagged = TRUE /\ retained = TRUE /\ intent = 0
    /\ eligible = Donors
    /\ proposal = [p \in Proposals |-> None]
    /\ stage = [s \in Stages |-> None]
    /\ materialization = [m \in Materializations |-> None]
    /\ ready = {}
    /\ job = Idle
    /\ calm = FALSE
    /\ envs = 0

-----------------------------------------------------------------------------
(* Everybody else.                                                         *)

Elsewhere ==
    /\ envs < MaxEnv /\ envs' = envs + 1
    /\ calm' = FALSE
    /\ UNCHANGED <<tables, job>>

\* A file is written in place, under all of its names.
Overwrite(n, c) ==
    /\ at[n] # None /\ c # bytes[at[n]]
    /\ bytes' = [bytes EXCEPT ![at[n]] = c]
    /\ Elsewhere /\ UNCHANGED <<at, storage, verdicts>>

\* A file is deleted.
Remove(n) ==
    /\ at[n] # None
    /\ at' = [at EXCEPT ![n] = None]
    /\ Elsewhere /\ UNCHANGED <<bytes, storage, verdicts>>

\* A new file appears, in place of the old one if there is one.
Arrive(n, o, c) ==
    /\ \A x \in Names : at[x] # o
    /\ at' = [at EXCEPT ![n] = o]
    /\ bytes' = [bytes EXCEPT ![o] = c]
    /\ Elsewhere /\ UNCHANGED <<storage, verdicts>>

\* A file is renamed, or given a second name.
Rename(n, x) ==
    /\ at[n] # None /\ n # x
    /\ \/ at' = [at EXCEPT ![x] = at[n], ![n] = None]
       \/ at[x] = None /\ at' = [at EXCEPT ![x] = at[n]]
    /\ Elsewhere /\ UNCHANGED <<bytes, storage, verdicts>>

\* A manifest is damaged, replaced or removed, or a file appears where one
\* will be.
SpoilManifest(s) ==
    /\ s \in dirs
    /\ \E x \in {None, Spoiled} :
          \/ manifest[s] # x /\ manifest' = [manifest EXCEPT ![s] = x] /\ UNCHANGED note
          \/ note[s] # x /\ note' = [note EXCEPT ![s] = x] /\ UNCHANGED manifest
    /\ Elsewhere /\ UNCHANGED <<disk, dirs, pending, verdicts>>

\* Somebody clears the debris of a donor copy away by hand.
Tidy(s) ==
    /\ s \in pending \/ note[s] # None \/ at[Copy(s)] # None
    /\ pending' = pending \ {s}
    /\ note' = [note EXCEPT ![s] = None]
    /\ at' = [at EXCEPT ![Copy(s)] = None]
    /\ Elsewhere /\ UNCHANGED <<bytes, dirs, manifest, verdicts>>

\* Verify reconciles the File's health with what is at the target; what does
\* not decode is unreadable, which is not flagged.
Verify ==
    /\ job = Idle
    /\ at[Target] # None
    /\ \/ flagged' = (bytes[at[Target]] # Expected)
       \/ flagged' = FALSE
    /\ Elsewhere /\ UNCHANGED <<disk, storage, retained, intent, eligible, known>>

\* Another decision on the same mismatch supersedes the latest one.
Reconsider ==
    /\ job = Idle /\ flagged
    /\ intent < MaxIntent /\ intent' = intent + 1
    /\ retained' \in BOOLEAN
    /\ Elsewhere /\ UNCHANGED <<disk, storage, flagged, eligible, known>>

\* A scan: it records the identities of the source Files, and may find that a
\* donor is missing, unreadable, changed, or itself again.
Scan ==
    /\ job = Idle
    /\ known' = known \cup ({at[n] : n \in Sources} \ {None})
    /\ eligible' \in SUBSET Donors
    /\ Elsewhere /\ UNCHANGED <<disk, storage, flagged, retained, intent>>

Interfere ==
    \/ \E n \in Names :
          \/ Remove(n)
          \/ \E c \in Contents : Overwrite(n, c) \/ \E o \in Objects : Arrive(n, o, c)
          \/ \E x \in Names : Rename(n, x)
    \/ \E s \in Stages : SpoilManifest(s) \/ Tidy(s)
    \/ Verify \/ Reconsider \/ Scan

-----------------------------------------------------------------------------
(* Proposal.  The plan a reviewer saw is built without the lock and built  *)
(* again under it; what is recorded is what the second one saw.            *)

Own == UNCHANGED <<verdicts, envs>>

\* The human still asks for this recovery.
Asked(n) == flagged /\ retained /\ intent = n

ProposeBegin(p, d) ==
    /\ job = Idle /\ proposal[p] = None
    /\ Asked(intent)
    /\ d \in eligible
    /\ Sum(Look(Target)) # Expected
    /\ job' = [Idle EXCEPT !.at = "propose", !.proposal = p, !.donor = d,
                           !.target = Look(Target)]
    /\ UNCHANGED <<disk, storage, tables, calm>> /\ Own

\* A donor is observed after the target, and is not the target's own object.
ProposeCommit ==
    LET d == job.donor IN
    /\ job.at = "propose"
    /\ Sum(Look(d)) = Expected
    /\ job.target # None => at[d] # job.target[1]
    /\ proposal' = [proposal EXCEPT ![job.proposal] =
                      [intent |-> intent, donor |-> d,
                       target |-> job.target, source |-> Look(d)]]
    /\ job' = Idle /\ calm' = FALSE
    /\ UNCHANGED <<disk, storage, stage, materialization, ready>> /\ Own

\* Fault: the evidence is observed again, the human decision is not.
PlanSeen(p) ==
    /\ proposal[p].donor \in eligible
    /\ Look(Target) = proposal[p].target
    /\ Look(proposal[p].donor) = proposal[p].source

\* build_recovery_plan succeeds and sees what proposal p recorded.
PlanHolds(p) ==
    /\ Asked(proposal[p].intent)
    /\ proposal[p].donor \in eligible
    /\ Look(Target) = proposal[p].target
    /\ Look(proposal[p].donor) = proposal[p].source

-----------------------------------------------------------------------------
(* Preservation of the suspect bytes.                                      *)

Unstaged(p) == \A s \in Stages : stage[s] # None => stage[s].proposal # p

\* A file alone under its name, the same object with the same bytes.
Attested(n, o, c) ==
    /\ at[n] = o /\ bytes[o] = c
    /\ \A x \in Names \ {n} : at[x] # o

\* Fault: the installation replaces what has the name.
InstallOver(n, o, c) ==
    /\ \A x \in Names : at[x] # o
    /\ at' = [at EXCEPT ![n] = o]
    /\ bytes' = [bytes EXCEPT ![o] = c]

\* A new file, under a name nothing has yet.
Install(n, o, c) ==
    /\ at[n] = None /\ \A x \in Names : at[x] # o
    /\ at' = [at EXCEPT ![n] = o]
    /\ bytes' = [bytes EXCEPT ![o] = c]

StageBegin(p, s) ==
    /\ job = Idle
    /\ proposal[p] # None /\ stage[s] = None /\ Unstaged(p)
    /\ PlanHolds(p)
    /\ s \notin dirs /\ dirs' = dirs \cup {s}
    /\ job' = [Idle EXCEPT !.at = "stage", !.proposal = p, !.stage = s]
    /\ UNCHANGED <<disk, manifest, note, pending, tables, calm>> /\ Own

\* Both sides observed again before the copy.
StageLook ==
    LET row == proposal[job.proposal] IN
    /\ job.at = "stage"
    /\ Sum(Look(row.donor)) = Expected
    /\ Sum(Look(Target)) = Sum(row.target)
    /\ job' = [job EXCEPT !.target = Look(Target), !.source = Look(row.donor),
                          !.at = IF row.target = None THEN "manifest" ELSE "preserve"]
    /\ UNCHANGED <<disk, storage, tables, calm>> /\ Own

\* Fault: what was copied is not compared with what was reviewed.
PreserveAnything ==
    /\ job.at = "preserve"
    /\ at[Target] # None
    /\ job' = [job EXCEPT !.at = "install", !.sum = Sum(Look(Target))]
    /\ UNCHANGED <<disk, storage, tables, calm>> /\ Own

\* The suspect is copied to a bound temporary and read back.
Preserve ==
    /\ job.at = "preserve"
    /\ at[Target] # None
    /\ Sum(Look(Target)) = Sum(proposal[job.proposal].target)
    /\ job' = [job EXCEPT !.at = "install", !.sum = Sum(Look(Target))]
    /\ UNCHANGED <<disk, storage, tables, calm>> /\ Own

InstallSuspect(o) ==
    /\ job.at = "install"
    /\ Look(Target) = job.target
    /\ Install(Suspect(job.stage), o, job.sum)
    /\ job' = [job EXCEPT !.at = "manifest"]
    /\ UNCHANGED <<storage, tables, calm>> /\ Own

\* The identity of the copy is taken, and the manifest written.  Unlike the
\* copy it replaces what has its name: that is renamed aside, and on Windows
\* deleted after.
WriteManifest ==
    LET s == job.stage IN
    /\ job.at = "manifest"
    /\ job.sum # None => at[Suspect(s)] # None
    /\ manifest' = [manifest EXCEPT ![s] = s]
    /\ job' = [job EXCEPT !.at = "reobserve",
                          !.obj = IF job.sum = None THEN None ELSE at[Suspect(s)]]
    /\ UNCHANGED <<disk, dirs, note, pending, tables, calm>> /\ Own

StageReobserve ==
    /\ job.at = "reobserve"
    /\ Look(Target) = job.target
    /\ Look(proposal[job.proposal].donor) = job.source
    /\ job' = [job EXCEPT !.at = "attest"]
    /\ UNCHANGED <<disk, storage, tables, calm>> /\ Own

\* The copy and the manifest are attested last, and the row committed.  The
\* commit reads no disk: what happens in between might as well happen after.
StageCommit ==
    LET s == job.stage IN
    /\ job.at = "attest"
    /\ job.sum # None => Attested(Suspect(s), job.obj, job.sum)
    /\ manifest[s] = s
    /\ stage' = [stage EXCEPT ![s] = [proposal |-> job.proposal, sum |-> job.sum]]
    /\ job' = Idle /\ calm' = FALSE
    /\ UNCHANGED <<disk, storage, proposal, materialization, ready>> /\ Own

-----------------------------------------------------------------------------
(* Materialization of the donor's bytes beside the suspect.                *)

\* The preserved evidence of a committed stage is as it was committed.
EvidenceHolds(s) ==
    /\ manifest[s] = s
    /\ stage[s].sum # None => Sum(Look(Suspect(s))) = stage[s].sum

\* The stage has no checkpoint yet, its evidence holds, its plan as well.
MaterializationPlanHolds(s, m) ==
    /\ stage[s] # None /\ materialization[m] = None
    /\ \A x \in Materializations :
          materialization[x] # None => materialization[x].stage # s
    /\ EvidenceHolds(s)
    /\ PlanHolds(stage[s].proposal)

\* The target has the bytes that were reviewed, under whatever identity.
TargetUnchanged(s) == Sum(Look(Target)) = Sum(proposal[stage[s].proposal].target)

Donor(s) == proposal[stage[s].proposal].donor

MaterializeBegin(s, m) ==
    /\ job = Idle
    /\ MaterializationPlanHolds(s, m)
    /\ at[Copy(s)] = None /\ note[s] = None /\ s \notin pending
    /\ job' = [Idle EXCEPT !.at = "materialize", !.stage = s, !.materialization = m]
    /\ UNCHANGED <<disk, storage, tables, calm>> /\ Own

MaterializeLook ==
    LET s == job.stage IN
    /\ job.at = "materialize"
    /\ Sum(Look(Donor(s))) = Expected
    /\ at[Copy(s)] = None /\ note[s] = None
    /\ job' = [job EXCEPT !.at = "copy", !.source = Look(Donor(s))]
    /\ UNCHANGED <<disk, storage, tables, calm>> /\ Own

CopyDonor ==
    /\ job.at = "copy"
    /\ Sum(Look(Donor(job.stage))) = Expected
    /\ job' = [job EXCEPT !.at = "place", !.sum = Expected]
    /\ UNCHANGED <<disk, storage, tables, calm>> /\ Own

InstallCopy(o) ==
    /\ job.at = "place"
    /\ Look(Donor(job.stage)) = job.source
    /\ Install(Copy(job.stage), o, job.sum)
    /\ job' = [job EXCEPT !.at = "describe"]
    /\ UNCHANGED <<storage, tables, calm>> /\ Own

\* The donor manifest replaces what has its name as well.
WriteDonorManifest ==
    LET s == job.stage IN
    /\ job.at = "describe"
    /\ at[Copy(s)] # None
    /\ note' = [note EXCEPT ![s] = job.materialization]
    /\ job' = [job EXCEPT !.at = "reprove", !.obj = at[Copy(s)]]
    /\ UNCHANGED <<disk, dirs, manifest, pending, tables, calm>> /\ Own

MaterializeReprove ==
    LET s == job.stage IN
    /\ job.at = "reprove"
    /\ EvidenceHolds(s)
    /\ Sum(Look(Copy(s))) = Expected
    /\ note[s] = job.materialization
    /\ job' = [job EXCEPT !.at = "recheck"]
    /\ UNCHANGED <<disk, storage, tables, calm>> /\ Own

MaterializeRecheck ==
    /\ job.at = "recheck"
    /\ Look(Donor(job.stage)) = job.source
    /\ TargetUnchanged(job.stage)
    /\ job' = [job EXCEPT !.at = "conclude"]
    /\ UNCHANGED <<disk, storage, tables, calm>> /\ Own

MaterializeCommit ==
    LET s == job.stage IN
    /\ job.at = "conclude"
    /\ Attested(Copy(s), job.obj, Expected)
    /\ note[s] = job.materialization
    /\ materialization' = [materialization EXCEPT ![job.materialization] =
                              [stage |-> s, storage |-> "filesystem"]]
    /\ job' = Idle /\ calm' = FALSE
    /\ UNCHANGED <<disk, storage, proposal, stage, ready>> /\ Own

-----------------------------------------------------------------------------
(* Adoption of a donor copy an interrupted materialization left behind.    *)

\* The object was never seen on a source File, nor is it at one now.
Operational(o) == o \notin known /\ \A n \in Sources : at[n] # o

\* Fault: the orphan's identity is not compared with those of source Files.
AdoptAnything(s, m) ==
    /\ job = Idle
    /\ MaterializationPlanHolds(s, m)
    /\ s \notin pending
    /\ at[Copy(s)] # None
    /\ note[s] \in {None, m}
    /\ job' = [Idle EXCEPT !.at = "adopt", !.stage = s, !.materialization = m,
                           !.obj = at[Copy(s)], !.note = note[s]]
    /\ UNCHANGED <<disk, storage, tables, calm>> /\ Own

\* The manifest gives the materialization its id; if there is none, m is new.
AdoptBegin(s, m) ==
    /\ job = Idle
    /\ MaterializationPlanHolds(s, m)
    /\ s \notin pending
    /\ at[Copy(s)] # None
    /\ \A x \in Names \ {Copy(s)} : at[x] # at[Copy(s)]
    /\ Operational(at[Copy(s)])
    /\ note[s] \in {None, m}
    /\ job' = [Idle EXCEPT !.at = "adopt", !.stage = s, !.materialization = m,
                           !.obj = at[Copy(s)], !.note = note[s]]
    /\ UNCHANGED <<disk, storage, tables, calm>> /\ Own

AdoptLook ==
    LET s == job.stage IN
    /\ job.at = "adopt"
    /\ Look(Copy(s)) = <<job.obj, Expected>>
    /\ Sum(Look(Donor(s))) = Expected
    /\ TargetUnchanged(s)
    /\ job' = [job EXCEPT !.at = "verify", !.source = Look(Donor(s))]
    /\ UNCHANGED <<disk, storage, tables, calm>> /\ Own

AdoptReprove ==
    LET s == job.stage IN
    /\ job.at = "verify"
    /\ Look(Copy(s)) = <<job.obj, Expected>>
    /\ note[s] = job.note
    /\ Look(Donor(s)) = job.source
    /\ TargetUnchanged(s)
    /\ job' = [job EXCEPT !.at = "settle"]
    /\ UNCHANGED <<disk, storage, tables, calm>> /\ Own

\* Without a manifest on disk its bytes are kept in the catalogue.
AdoptCommit ==
    LET s == job.stage IN
    /\ job.at = "settle"
    /\ Attested(Copy(s), job.obj, Expected)
    /\ job.note # None => note[s] = job.note
    /\ materialization' = [materialization EXCEPT ![job.materialization] =
          [stage |-> s,
           storage |-> IF job.note = None THEN "embedded" ELSE "filesystem"]]
    /\ job' = Idle /\ calm' = FALSE
    /\ UNCHANGED <<disk, storage, proposal, stage, ready>> /\ Own

-----------------------------------------------------------------------------
(* Readiness of the target.                                                *)

Root(m) == stage[materialization[m].stage].proposal

\* The file at n is the only name of its object.
SingleLink(n) == \A x \in Names \ {n} : at[x] # at[n]

\* The target as reviewed, a file of one name or no file at all.
TargetAsReviewed(m) ==
    /\ Look(Target) = proposal[Root(m)].target
    /\ at[Target] # None => SingleLink(Target)

ReadyBegin(m) ==
    /\ job = Idle
    /\ materialization[m] # None /\ m \notin ready
    /\ Asked(proposal[Root(m)].intent)
    /\ TargetAsReviewed(m)
    /\ job' = [Idle EXCEPT !.at = "ready", !.materialization = m]
    /\ UNCHANGED <<disk, storage, tables, calm>> /\ Own

\* Every piece of operational evidence is a file of one name with its bytes.
ChainHolds(m) ==
    LET s == materialization[m].stage IN
    /\ EvidenceHolds(s)
    /\ stage[s].sum # None => SingleLink(Suspect(s))
    /\ Sum(Look(Copy(s))) = Expected /\ SingleLink(Copy(s))
    /\ materialization[m].storage = "filesystem" => note[s] = m

ReadyAttest ==
    /\ job.at = "ready"
    /\ ChainHolds(job.materialization)
    /\ job' = [job EXCEPT !.at = "confirm"]
    /\ calm' = TRUE
    /\ UNCHANGED <<disk, storage, tables>> /\ Own

\* Fault: the target is not observed again after the evidence was hashed.
ReadyCommitBlind ==
    /\ job.at = "confirm"
    /\ ready' = ready \cup {job.materialization}
    /\ job' = Idle /\ calm' = FALSE
    /\ UNCHANGED <<disk, storage, proposal, stage, materialization>> /\ Own

ReadyCommit ==
    /\ job.at = "confirm"
    /\ TargetAsReviewed(job.materialization)
    /\ ready' = ready \cup {job.materialization}
    /\ job' = Idle /\ calm' = FALSE
    /\ UNCHANGED <<disk, storage, proposal, stage, materialization>> /\ Own

-----------------------------------------------------------------------------
\* An error, or the death of the process: the transaction rolls back, and
\* whatever is on disk stays.  The temporary of a donor copy or its manifest is
\* deleted on Windows and retained elsewhere, or if the process died; what had
\* the manifest's name may have been renamed aside.
Abandon ==
    /\ job # Idle
    /\ \/ job.at \in {"copy", "place", "describe"} /\ pending' = pending \cup {job.stage}
       \/ UNCHANGED pending
    /\ \/ job.at = "manifest" /\ manifest' = [manifest EXCEPT ![job.stage] = None]
       \/ UNCHANGED manifest
    /\ \/ job.at = "describe" /\ note' = [note EXCEPT ![job.stage] = None]
       \/ UNCHANGED note
    /\ job' = Idle /\ calm' = FALSE
    /\ UNCHANGED <<disk, dirs, tables>> /\ Own

Recover ==
    \/ \E p \in Proposals : \/ \E d \in Donors : ProposeBegin(p, d)
                            \/ \E s \in Stages : StageBegin(p, s)
    \/ ProposeCommit
    \/ StageLook \/ Preserve \/ WriteManifest \/ StageReobserve \/ StageCommit
    \/ \E o \in Objects : InstallSuspect(o) \/ InstallCopy(o)
    \/ \E s \in Stages, m \in Materializations : MaterializeBegin(s, m) \/ AdoptBegin(s, m)
    \/ MaterializeLook \/ CopyDonor \/ WriteDonorManifest
    \/ MaterializeReprove \/ MaterializeRecheck \/ MaterializeCommit
    \/ AdoptLook \/ AdoptReprove \/ AdoptCommit
    \/ \E m \in Materializations : ReadyBegin(m)
    \/ ReadyAttest \/ ReadyCommit
    \/ Abandon

Next == Recover \/ Interfere

Spec == Init /\ [][Next]_vars

-----------------------------------------------------------------------------
TypeOK ==
    /\ at \in [Names -> Objects \cup {None}] /\ bytes \in [Objects -> Contents]
    /\ dirs \subseteq Stages /\ pending \subseteq Stages
    /\ manifest \in [Stages -> Stages \cup {None, Spoiled}]
    /\ note \in [Stages -> Materializations \cup {None, Spoiled}]
    /\ flagged \in BOOLEAN /\ retained \in BOOLEAN /\ intent \in Nat
    /\ eligible \subseteq Donors /\ known \subseteq Objects
    /\ proposal \in [Proposals -> ProposalRows \cup {None}]
    /\ stage \in [Stages -> StageRows \cup {None}]
    /\ materialization \in [Materializations -> MaterializationRows \cup {None}]
    /\ ready \subseteq Materializations
    /\ job \in Jobs
    /\ calm \in BOOLEAN /\ envs \in Nat

\* The checkpoints of each proposal, as the tables hold them.
Chain == [p \in Proposals |->
    LET S == {s \in Stages : stage[s] # None /\ stage[s].proposal = p}
        M == {m \in Materializations :
                 materialization[m] # None /\ materialization[m].stage \in S}
    IN [intent |-> IF proposal[p] = None THEN None ELSE proposal[p].intent,
        staged |-> S, materialized |-> M, ready |-> M \cap ready]]

Ladder == INSTANCE RecoveryLadder WITH standing <- flagged /\ retained, chain <- Chain

\* Whatever is interrupted, retried or prepared twice, a proposal gains its
\* checkpoints in order, one of each, for good, and only while the decision
\* it was reviewed under is the latest one and the File is still flagged.
ClimbsLadder == Ladder!Spec

\* A stage that is committed holds the bytes the reviewer saw at the target,
\* in a file nothing else names: no step of copying, installing and observing
\* leaves room for bytes that came later.
PreservedIsReviewed ==
    [][\A s \in Stages : stage'[s] # stage[s] =>
          LET seen == proposal[stage'[s].proposal].target IN
          /\ stage'[s].sum = Sum(seen)
          /\ seen # None => Sum(Look(Suspect(s))) = Sum(seen) /\ SingleLink(Suspect(s))]_vars

\* A donor copy enters the catalogue with the expected bytes and one name; if
\* it was found rather than made, it is not a source File's own object.
CopyIsOperational ==
    [][\A m \in Materializations : materialization'[m] # materialization[m] =>
          LET s == materialization'[m].stage IN
          /\ Sum(Look(Copy(s))) = Expected /\ SingleLink(Copy(s))
          /\ job.at = "settle" => at[Copy(s)] \notin known]_vars

\* No step of PPA renames, removes or rewrites a file at the name of a source,
\* of a preserved suspect or of a donor copy, nor the manifest of a stage or a
\* materialization that is committed.  (A file somebody puts at a manifest's
\* name before that is displaced: NewNamesOnly below does not hold.)
NothingDisturbed ==
    [][envs' = envs =>
          /\ \A n \in Names : at[n] # None =>
                at'[n] = at[n] /\ bytes'[at[n]] = bytes[at[n]]
          /\ \A s \in Stages : stage[s] # None => manifest'[s] = manifest[s]
          /\ \A m \in Materializations : materialization[m] # None =>
                note'[materialization[m].stage] = note[materialization[m].stage]]_vars

\* "A newly appearing destination is never replaced under 'new file' semantics"
\* (PHASE14_1_15_POSITIVE_OWNERSHIP_PROOF_BINDING.md:67): a file
\* of somebody else stays at the name of a manifest.
NewNamesOnly ==
    [][envs' = envs => \A s \in Stages :
          /\ manifest[s] = Spoiled => manifest'[s] = Spoiled
          /\ note[s] = Spoiled => note'[s] = Spoiled]_vars

\* A recorded readiness rests on the whole chain: the target is the very file
\* the proposal reviewed, under its own name only, and unless others acted
\* while it was confirmed the suspect and the expected bytes are both in store.
ReadyRestsOnChain ==
    [][\A m \in ready' \ ready :
          LET s == materialization[m].stage
              row == proposal[Root(m)] IN
          /\ Look(Target) = row.target
          /\ at[Target] # None => SingleLink(Target)
          /\ calm => /\ Sum(Look(Copy(s))) = Expected
                     /\ row.target # None => Sum(Look(Suspect(s))) = Sum(row.target)]_vars

=============================================================================
