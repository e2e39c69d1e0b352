---------------------------- MODULE CurationProofs ---------------------------
(***************************************************************************)
(* Identity is changed by review only, and leaves no Photo without a File, *)
(* for every number of Files, Photos, libraries, collections and sessions. *)
(*                                                                         *)
(* The argument: while a session holds the write lock nothing that a plan  *)
(* is made from changes, so the plan of its Begin is still one at its      *)
(* commit. And what forget_library read before its transaction is stale    *)
(* only through a split or a merge, whose audit row refuses the deletion.  *)
(***************************************************************************)
EXTENDS Curation, SequenceTheorems, TLAPS

USE IdentityAssumption

Locking == {"begun", "attested"}

\* A session between Begin and commit still executes the reviewed plan.
PlanStands(s) == task[s].at \in Locking =>
    /\ lock = s
    /\ task[s].plan \in Plans /\ Fingerprint(task[s].plan) = task[s].print

\* The Files of an attested plan held their bytes when they were last read.
Attests(s) == task[s].at = "attested" =>
    /\ task[s] \in [at : {"attested"}, plan : {task[s].plan}, print : {task[s].print},
                    now : {task[s].now}, late : SUBSET Files]
    /\ \A g \in Concerned(task[s].plan) :
          g \in task[s].late \/ disk[g] = Verified(g)

Decided(l) == \E r \in splits \cup merges : r.lib = l

\* What forget_library read is there, or an audit row or its absence speaks.
ForgetStands(s) == task[s].at = "curating" /\ task[s].op = "forget" =>
    \A f \in task[s].items :
        /\ LibOf[f] = task[s].of
        /\ f \in Rows \/ LibOf[f] \notin libs
        /\ f \in Rows => photoOf[f] \in task[s].photos \/ Decided(task[s].of)

Shape ==
    /\ photoOf \in [Files -> Photos \cup {None}]
    /\ photos \subseteq issued /\ issued \subseteq Photos
    /\ task = [s \in Sessions |-> task[s]] /\ disk = [f \in Files |-> disk[f]]
    /\ lock \in Sessions \cup {None}
    /\ \A r \in splits : r.src # r.new

Inv ==
    /\ Shape /\ NoGhostPhoto
    /\ \A s \in Sessions : PlanStands(s) /\ Attests(s) /\ ForgetStands(s)

-----------------------------------------------------------------------------
LEMMA InitInv == Init => Inv
<1> SUFFICES ASSUME Init PROVE Inv
  OBVIOUS
<1> USE CurationAssumption
<1>1. PICK h \in Assigned :
        photoOf = [f \in Files |-> IF f \in Catalogued THEN h[f] ELSE None]
  BY DEF Init
<1>2. h \in [Catalogued -> Photos]
  OBVIOUS
<1>3. Rows = Catalogued
  BY <1>1, <1>2 DEF Rows
<1>4. NoGhostPhoto
  BY <1>3 DEF NoGhostPhoto, Init
<1>5. Shape
  BY <1>1, <1>2 DEF Shape, Init
<1>6. \A s \in Sessions : task[s].at = "idle"
  BY DEF Init, Idle
<1> QED BY <1>4, <1>5, <1>6 DEF Inv, PlanStands, Attests, ForgetStands, Locking

\* Only the holder of the lock writes, and only when it commits.
LEMMA UnderLock ==
    ASSUME Inv, [Next]_vars, lock # None, lock' = lock
    PROVE  UNCHANGED <<identity, evidence, curated>>
<1>1. ASSUME NEW s \in Sessions, SplitCommit(s) \/ RecoveryCommit(s) \/ MergeCommit(s)
      PROVE  lock' = None
  BY <1>1 DEF SplitCommit, RecoveryCommit, MergeCommit
<1>2. ASSUME NEW s \in Sessions,
             Review(s) \/ Begin(s) \/ Reattest(s) \/ Abandon(s)
      PROVE  UNCHANGED <<identity, evidence, curated>>
  BY <1>2 DEF Review, Begin, Reattest, Abandon
<1>3. ASSUME NEW s \in Sessions, NEW r, Start(s, r)
      PROVE  UNCHANGED <<identity, evidence, curated>>
  BY <1>3 DEF Start
<1>4. ASSUME NEW s \in Sessions, Curate(s)
      PROVE  UNCHANGED <<identity, evidence, curated>>
  <2>1. \A op : ~Writing(s, op)
    BY DEF Writing
  <2>2. ~ApplySuggestion(s) /\ ~DismissSuggestion(s)
    BY DEF ApplySuggestion, DismissSuggestion
  <2>3. ReviewSuggestion(s) => UNCHANGED <<identity, evidence, curated>>
    BY DEF ReviewSuggestion
  <2> QED
    BY <1>3, <1>4, <2>1, <2>2, <2>3 DEF Curate, StartCreate, CommitCreate, StartAdd,
       CommitAdd, StartRemove, CommitRemove, StartLabel, CommitLabel, StartCover,
       CommitCover, StartArrange, CommitArrange, StartReset, CommitReset, StartRestore,
       CommitRestore, StartRelate, CommitRelate, StartUnrelate, CommitUnrelate,
       StartForget, CommitForget
<1>5. CASE Elsewhere
  BY <1>5 DEF Elsewhere, Edit, Verify, Adopt, Appear, Propose
<1>6. CASE UNCHANGED vars
  BY <1>6 DEF vars
<1> QED BY <1>1, <1>2, <1>4, <1>5, <1>6 DEF Next, Identify

\* A plan is made from the catalogue alone.
LEMMA SamePlans ==
    ASSUME UNCHANGED <<identity, evidence, curated>>
    PROVE  /\ Plans' = Plans
           /\ \A x : Fingerprint(x)' = Fingerprint(x) /\ Concerned(x)' = Concerned(x)
           /\ \A f : Verified(f)' = Verified(f)
<1>1. UNCHANGED <<libs, photos, issued, photoOf, splits, recovered, merges, current,
                  sound, proposed, members, shown, label, history, lineage,
                  lineageLog, verdicts>>
  BY DEF identity, evidence, curated, kinship
<1>2. \A f : Verified(f)' = Verified(f)
  BY <1>1 DEF Verified
<1>3. \A p : FilesOf(p)' = FilesOf(p)
  BY <1>1 DEF FilesOf
<1>4. \A x : Fingerprint(x)' = Fingerprint(x) /\ Concerned(x)' = Concerned(x)
  BY <1>1, <1>3 DEF Fingerprint, Concerned
<1>5. \A c : Holding(c)' = Holding(c)
  BY <1>2 DEF Holding
<1>6. \A S : AllVerified(S)' = AllVerified(S)
  BY <1>2 DEF AllVerified
<1>7. \A p : ShelvesWith(p)' = ShelvesWith(p)
  BY <1>1 DEF ShelvesWith
<1>8. \A x : Splittable(x)' <=> Splittable(x)
  BY <1>3, <1>5, <1>6, <1>7 DEF Splittable
<1>9. \A p : /\ Curated(p)' <=> Curated(p)
             /\ Related(p)' <=> Related(p)
             /\ Resolved(p)' <=> Resolved(p)
  BY <1>1, <1>7 DEF Curated, Related, Resolved
<1>10. \A x : Mergeable(x)' <=> Mergeable(x)
  BY <1>1, <1>2, <1>3, <1>5, <1>9 DEF Mergeable
<1>11. \A r : Recoverable(r)' <=> Recoverable(r)
  BY <1>1, <1>2, <1>3, <1>5, <1>6 DEF Recoverable, LaterChange
<1>12. SplitPlans' = SplitPlans
  <2>1. \A x : x \in SplitPlans' <=>
          /\ \E l \in libs', p \in photos', c \in Contents :
                x = Plan("split", l, p, None, c, FilesOf(p)' \cap Holding(c)')
          /\ Splittable(x)'
    BY DEF SplitPlans
  <2>2. \A x : x \in SplitPlans <=>
          /\ \E l \in libs, p \in photos, c \in Contents :
                x = Plan("split", l, p, None, c, FilesOf(p) \cap Holding(c))
          /\ Splittable(x)
    BY DEF SplitPlans
  <2>3. \A p, c : FilesOf(p)' \cap Holding(c)' = FilesOf(p) \cap Holding(c)
    BY <1>3, <1>5
  <2>4. libs' = libs /\ photos' = photos
    BY <1>1
  <2>5. \A x : x \in SplitPlans' <=> x \in SplitPlans
    <3>1. ASSUME NEW x, x \in SplitPlans' PROVE x \in SplitPlans
      <4>1. PICK l \in libs', p \in photos', c \in Contents :
              x = Plan("split", l, p, None, c, FilesOf(p)' \cap Holding(c)')
        BY <2>1, <3>1
      <4>2. Splittable(x)
        BY <1>8, <2>1, <3>1
      <4> QED BY <2>2, <2>3, <2>4, <4>1, <4>2
    <3>2. ASSUME NEW x, x \in SplitPlans PROVE x \in SplitPlans'
      <4>1. PICK l \in libs, p \in photos, c \in Contents :
              x = Plan("split", l, p, None, c, FilesOf(p) \cap Holding(c))
        BY <2>2, <3>2
      <4>2. Splittable(x)'
        BY <1>8, <2>2, <3>2
      <4>3. /\ l \in libs' /\ p \in photos'
            /\ x = Plan("split", l, p, None, c, FilesOf(p)' \cap Holding(c)')
        BY <2>3, <2>4, <4>1
      <4> QED BY <2>1, <4>2, <4>3
    <3> QED BY <3>1, <3>2
  <2> QED BY <2>5
<1>13. MergePlans' = MergePlans
  <2>1. \A x : x \in MergePlans' <=>
          /\ \E l \in libs', p \in photos', q \in photos', c \in Contents :
                x = Plan("merge", l, p, q, c, FilesOf(p)')
          /\ Mergeable(x)'
    BY DEF MergePlans
  <2>2. \A x : x \in MergePlans <=>
          /\ \E l \in libs, p \in photos, q \in photos, c \in Contents :
                x = Plan("merge", l, p, q, c, FilesOf(p))
          /\ Mergeable(x)
    BY DEF MergePlans
  <2>3. libs' = libs /\ photos' = photos
    BY <1>1
  <2>4. ASSUME NEW x, x \in MergePlans' PROVE x \in MergePlans
    <3>1. PICK l \in libs', p \in photos', q \in photos', c \in Contents :
            x = Plan("merge", l, p, q, c, FilesOf(p)')
      BY <2>1, <2>4
    <3>2. Mergeable(x)
      BY <1>10, <2>1, <2>4
    <3> QED BY <1>3, <2>2, <2>3, <3>1, <3>2
  <2>5. ASSUME NEW x, x \in MergePlans PROVE x \in MergePlans'
    <3>1. PICK l \in libs, p \in photos, q \in photos, c \in Contents :
            x = Plan("merge", l, p, q, c, FilesOf(p))
      BY <2>2, <2>5
    <3>2. Mergeable(x)'
      BY <1>10, <2>2, <2>5
    <3>3. /\ l \in libs' /\ p \in photos' /\ q \in photos'
          /\ x = Plan("merge", l, p, q, c, FilesOf(p)')
      BY <1>3, <2>3, <3>1
    <3> QED BY <2>1, <3>2, <3>3
  <2> QED BY <2>4, <2>5
<1>14. RecoveryPlans' = RecoveryPlans
  BY <1>1, <1>11 DEF RecoveryPlans
<1> QED BY <1>2, <1>4, <1>12, <1>13, <1>14 DEF Plans

\* Without a lock nobody is between Begin and commit.
LEMMA Unlocked == ASSUME Inv, lock = None PROVE \A s \in Sessions : task[s].at \notin Locking
BY DEF Inv, PlanStands

\* What a session read for forget_library stays as true as it was.
LEMMA ForgetKept ==
    ASSUME Inv, NEW s \in Sessions, task'[s] = task[s], libs' \subseteq libs,
           splits \subseteq splits', merges \subseteq merges',
           \A f \in Files :
              \/ photoOf'[f] = photoOf[f]
              \/ photoOf'[f] = None /\ LibOf[f] \notin libs'
              \/ /\ photoOf[f] # None /\ photoOf'[f] # None
                 /\ \E r \in splits' \cup merges' : r.lib = LibOf[f]
              \/ photoOf[f] = None /\ LibOf[f] \in libs
    PROVE  ForgetStands(s)'
<1>1. ForgetStands(s)
  BY DEF Inv
<1>2. \A l : Decided(l) => Decided(l)'
  BY DEF Decided
<1> SUFFICES ASSUME task[s].at = "curating", task[s].op = "forget", NEW f \in task[s].items
             PROVE  /\ LibOf[f] = task[s].of
                    /\ f \in Rows' \/ LibOf[f] \notin libs'
                    /\ f \in Rows' => photoOf'[f] \in task[s].photos \/ Decided(task[s].of)'
  BY DEF ForgetStands
<1>3. /\ LibOf[f] = task[s].of
      /\ f \in Rows \/ LibOf[f] \notin libs
      /\ f \in Rows => photoOf[f] \in task[s].photos \/ Decided(task[s].of)
  BY <1>1 DEF ForgetStands
<1>4. CASE f \notin Files
  BY <1>3, <1>4 DEF Rows
<1>5. CASE f \in Files
  <2>1. f \in Rows <=> photoOf[f] # None
    BY <1>5 DEF Rows
  <2>2. f \in Rows' <=> photoOf'[f] # None
    BY <1>5 DEF Rows
  <2>3. CASE photoOf'[f] = photoOf[f]
    BY <1>2, <1>3, <2>1, <2>2, <2>3
  <2>4. CASE photoOf'[f] = None /\ LibOf[f] \notin libs'
    BY <1>3, <2>2, <2>4
  <2>5. CASE photoOf'[f] # None /\ \E r \in splits' \cup merges' : r.lib = LibOf[f]
    <3>1. Decided(task[s].of)'
      BY <1>3, <2>5 DEF Decided
    <3>2. f \in Rows' \/ LibOf[f] \notin libs'
      BY <1>5, <2>2, <2>5
    <3> QED BY <1>3, <3>1, <3>2
  <2>6. CASE photoOf[f] = None /\ LibOf[f] \in libs
    BY <1>3, <2>1, <2>6
  <2> QED BY <1>5, <2>3, <2>4, <2>5, <2>6
<1> QED BY <1>4, <1>5

-----------------------------------------------------------------------------
(* Steps that only read.                                                     *)

Holds(s) == PlanStands(s) /\ Attests(s) /\ ForgetStands(s)

LEMMA Waiting ==
    ASSUME Inv, NEW u \in Sessions, task'[u] = task[u],
           UNCHANGED <<identity, evidence, curated, disk>>, lock = u => lock' = u
    PROVE  Holds(u)'
<1>1. PlanStands(u) /\ Attests(u)
  BY DEF Inv
<1>2. /\ UNCHANGED <<identity, evidence, curated>>
      /\ libs' = libs /\ splits' = splits /\ merges' = merges
      /\ photoOf' = photoOf /\ disk' = disk
  BY DEF identity
<1>3. /\ Plans' = Plans
      /\ \A x : Fingerprint(x)' = Fingerprint(x) /\ Concerned(x)' = Concerned(x)
      /\ \A f : Verified(f)' = Verified(f)
  BY <1>2, SamePlans
<1>4. PlanStands(u)'
  BY <1>1, <1>3 DEF PlanStands
<1>5. Attests(u)'
  BY <1>1, <1>2, <1>3 DEF Attests
<1>6. ForgetStands(u)'
  BY <1>2, ForgetKept
<1> QED BY <1>4, <1>5, <1>6 DEF Holds

\* Who neither holds a lock nor forgets a library rests on nothing.
LEMMA Resting ==
    ASSUME NEW u \in Sessions, task'[u].at \notin Locking,
           task'[u].at = "curating" => task'[u].op # "forget"
    PROVE  Holds(u)'
BY DEF Holds, PlanStands, Attests, ForgetStands, Locking

LEMMA ReadInv ==
    ASSUME Inv, NEW s \in Sessions, NEW r, task' = [task EXCEPT ![s] = r],
           UNCHANGED <<identity, evidence, curated, disk>>,
           lock' = lock \/ lock \in {None, s}, lock' \in Sessions \cup {None},
           Holds(s)'
    PROVE  Inv'
<1>1. UNCHANGED <<photoOf, photos, issued, splits>>
  BY DEF identity
<1>2. Shape'
  BY <1>1 DEF Inv, Shape
<1>3. NoGhostPhoto'
  BY <1>1 DEF Inv, NoGhostPhoto, Rows
<1>4. ASSUME NEW u \in Sessions, u # s PROVE Holds(u)'
  <2>1. task'[u] = task[u]
    BY <1>4 DEF Inv, Shape
  <2>2. lock = u => lock' = u
    BY <1>4
  <2> QED BY <2>1, <2>2, Waiting
<1> QED BY <1>2, <1>3, <1>4 DEF Inv, Holds

LEMMA TaskAt ==
    ASSUME Inv, NEW s \in Sessions, NEW r, task' = [task EXCEPT ![s] = r]
    PROVE  task'[s] = r
BY DEF Inv, Shape

LEMMA ReviewInv ==
    ASSUME Inv, NEW s \in Sessions, Review(s) \/ ReviewSuggestion(s) \/ Abandon(s)
    PROVE  Inv'
<1>1. CASE Review(s)
  <2>1. PICK x \in Plans :
          task' = [task EXCEPT ![s] = [at |-> "reviewed", plan |-> x, print |-> Fingerprint(x)]]
    BY <1>1 DEF Review
  <2>2. UNCHANGED <<identity, evidence, disk, curated, lock>>
    BY <1>1 DEF Review
  <2>3. task'[s].at = "reviewed"
    <3>1. task'[s] = [at |-> "reviewed", plan |-> x, print |-> Fingerprint(x)]
      BY <2>1, TaskAt, Zenon
    <3> QED BY <3>1
  <2>4. Holds(s)'
    BY <2>3, Resting DEF Locking
  <2> QED BY <2>1, <2>2, <2>4, ReadInv DEF Inv, Shape
<1>2. CASE ReviewSuggestion(s)
  <2>1. PICK x : task' = [task EXCEPT ![s] = [at |-> "suggested", plan |-> x]]
    BY <1>2 DEF ReviewSuggestion
  <2>2. UNCHANGED <<identity, evidence, disk, curated, lock>>
    BY <1>2 DEF ReviewSuggestion
  <2>3. task'[s].at = "suggested"
    <3>1. task'[s] = [at |-> "suggested", plan |-> x]
      BY <2>1, TaskAt, Zenon
    <3> QED BY <3>1
  <2>4. Holds(s)'
    BY <2>3, Resting DEF Locking
  <2> QED BY <2>1, <2>2, <2>4, ReadInv DEF Inv, Shape
<1>3. CASE Abandon(s)
  <2>1. /\ task' = [task EXCEPT ![s] = Idle] /\ UNCHANGED <<identity, evidence, disk, curated>>
        /\ lock' = IF lock = s THEN None ELSE lock
    BY <1>3 DEF Abandon
  <2>2. task'[s] = Idle
    BY <2>1, TaskAt
  <2>3. Holds(s)'
    BY <2>2, Resting DEF Locking, Idle
  <2> QED BY <2>1, <2>3, ReadInv DEF Inv, Shape
<1> QED BY <1>1, <1>2, <1>3

LEMMA BeginInv == ASSUME Inv, NEW s \in Sessions, Begin(s) PROVE Inv'
<1> DEFINE x == task[s].plan
           r == [at |-> "begun", plan |-> x, print |-> task[s].print, now |-> clock]
<1>1. /\ x \in Plans /\ Fingerprint(x) = task[s].print
      /\ task' = [task EXCEPT ![s] = r] /\ lock = None /\ lock' = s
      /\ UNCHANGED <<identity, evidence, disk, curated>>
  BY DEF Begin
<1>2. /\ Plans' = Plans
      /\ \A y : Fingerprint(y)' = Fingerprint(y)
  BY <1>1, SamePlans
<1>3. task'[s].at = "begun" /\ task'[s].plan = x /\ task'[s].print = task[s].print
  <2>1. task'[s] = r
    BY <1>1, TaskAt, Zenon
  <2> QED BY <2>1
<1>4. Holds(s)'
  BY <1>1, <1>2, <1>3 DEF Holds, PlanStands, Attests, ForgetStands
<1> QED BY <1>1, <1>4, ReadInv

LEMMA ReattestInv == ASSUME Inv, NEW s \in Sessions, Reattest(s) PROVE Inv'
<1> DEFINE x == task[s].plan
           r == [at |-> "attested", plan |-> x, print |-> task[s].print,
                 now |-> task[s].now, late |-> {}]
<1>1. /\ task[s].at = "begun" /\ Attested(Concerned(x))
      /\ task' = [task EXCEPT ![s] = r]
      /\ UNCHANGED <<identity, evidence, disk, curated, lock>>
  BY DEF Reattest
<1>2. /\ Plans' = Plans
      /\ \A y : Fingerprint(y)' = Fingerprint(y) /\ Concerned(y)' = Concerned(y)
      /\ \A f : Verified(f)' = Verified(f)
  BY <1>1, SamePlans
<1>3. /\ task'[s] = r
      /\ task'[s].at = "attested" /\ task'[s].plan = x /\ task'[s].print = task[s].print
      /\ task'[s].now = task[s].now /\ task'[s].late = {}
  <2>1. task'[s] = r
    BY <1>1, TaskAt, Zenon
  <2> QED BY <2>1
<1>4. lock = s /\ x \in Plans /\ Fingerprint(x) = task[s].print
  BY <1>1 DEF Inv, PlanStands, Locking
<1>5. PlanStands(s)'
  BY <1>1, <1>2, <1>3, <1>4 DEF PlanStands
<1>6. Attests(s)'
  BY <1>1, <1>2, <1>3 DEF Attests, Attested
<1>7. ForgetStands(s)'
  BY <1>3 DEF ForgetStands
<1> QED BY <1>1, <1>5, <1>6, <1>7, ReadInv DEF Holds, Inv, Shape

LEMMA StartInv ==
    ASSUME Inv, NEW s \in Sessions, NEW op, NEW c, NEW items, op # "forget",
           Start(s, Curating(op, c, items))
    PROVE  Inv'
<1> DEFINE r == Curating(op, c, items)
<1>1. task' = [task EXCEPT ![s] = r] /\ UNCHANGED <<identity, evidence, disk, curated, lock>>
  BY DEF Start
<1>2. r.at = "curating" /\ r.op = op
  BY DEF Curating
<1> HIDE DEF r
<1>3. task'[s] = r
  BY <1>1, TaskAt
<1>4. Holds(s)'
  BY <1>2, <1>3, Resting DEF Locking
<1> QED BY <1>1, <1>4, ReadInv DEF Inv, Shape

LEMMA StartForgetInv == ASSUME Inv, NEW s \in Sessions, StartForget(s) PROVE Inv'
<1>1. PICK l \in libs :
        LET files == {f \in Rows : LibOf[f] = l} IN
        Start(s, [at |-> "curating", op |-> "forget", of |-> l, items |-> files,
                  photos |-> {photoOf[f] : f \in files}, now |-> clock])
  BY DEF StartForget
<1> DEFINE files == {f \in Rows : LibOf[f] = l}
           r == [at |-> "curating", op |-> "forget", of |-> l, items |-> files,
                 photos |-> {photoOf[f] : f \in files}, now |-> clock]
<1>2. task' = [task EXCEPT ![s] = r] /\ UNCHANGED <<identity, evidence, disk, curated, lock>>
  BY <1>1 DEF Start
<1>3. /\ r.at = "curating" /\ r.of = l /\ r.items = files
      /\ r.photos = {photoOf[f] : f \in files}
  OBVIOUS
<1> HIDE DEF r
<1>4. task'[s] = r
  BY <1>2, TaskAt
<1>5. UNCHANGED photoOf
  BY <1>2 DEF identity
<1>6. ForgetStands(s)'
  BY <1>3, <1>4, <1>5 DEF ForgetStands, Rows
<1>7. PlanStands(s)' /\ Attests(s)'
  BY <1>3, <1>4 DEF PlanStands, Attests, Locking
<1> QED BY <1>2, <1>6, <1>7, ReadInv DEF Holds, Inv, Shape

LEMMA EditInv == ASSUME Inv, Edit PROVE Inv'
<1>1. PICK f \in Files, c \in Contents \cup {None} :
        /\ disk' = [disk EXCEPT ![f] = c]
        /\ task' = [s \in Sessions |->
              IF task[s].at = "attested" THEN [task[s] EXCEPT !.late = @ \cup {f}] ELSE task[s]]
  BY DEF Edit
<1>2. UNCHANGED <<identity, evidence, curated, lock>>
  BY DEF Edit
<1>3. UNCHANGED <<libs, photoOf, photos, issued, splits, merges>>
  BY <1>2 DEF identity
<1>4. disk' = [g \in Files |-> disk'[g]] /\ \A g \in Files : g # f => disk'[g] = disk[g]
  BY <1>1 DEF Inv, Shape
<1>5. Shape' /\ NoGhostPhoto'
  BY <1>1, <1>2, <1>3, <1>4 DEF Inv, Shape, NoGhostPhoto, Rows
<1>6. /\ Plans' = Plans
      /\ \A x : Fingerprint(x)' = Fingerprint(x) /\ Concerned(x)' = Concerned(x)
      /\ \A g : Verified(g)' = Verified(g)
  BY <1>2, SamePlans
<1>7. ASSUME NEW s \in Sessions PROVE Holds(s)'
  <2>1. CASE task[s].at # "attested"
    <3>1. task'[s] = task[s]
      BY <1>1, <2>1
    <3>2. PlanStands(s)' /\ Attests(s)'
      BY <1>2, <1>6, <2>1, <3>1 DEF Inv, PlanStands, Attests
    <3>3. ForgetStands(s)'
      BY <1>3, <3>1, ForgetKept
    <3> QED BY <3>2, <3>3 DEF Holds
  <2>2. CASE task[s].at = "attested"
    <3> DEFINE p == task[s].plan
               q == task[s].print
               n == task[s].now
               e == task[s].late
    <3>1. /\ task[s] \in [at : {"attested"}, plan : {p}, print : {q}, now : {n},
                          late : SUBSET Files]
          /\ \A g \in Concerned(p) : g \in e \/ disk[g] = Verified(g)
          /\ lock = s /\ p \in Plans /\ Fingerprint(p) = q /\ e = task[s].late
      BY <2>2 DEF Inv, Attests, PlanStands, Locking
    <3> HIDE DEF p, q, n, e
    <3>2. task'[s] = [task[s] EXCEPT !.late = e \cup {f}]
      BY <1>1, <2>2, <3>1
    <3>3. task'[s] \in [at : {"attested"}, plan : {p}, print : {q}, now : {n},
                       late : SUBSET Files]
      BY <3>1, <3>2
    <3>4. /\ task'[s].at = "attested" /\ task'[s].plan = p /\ task'[s].print = q
          /\ task'[s].now = n /\ task'[s].late = e \cup {f}
      BY <3>1, <3>2, <3>3
    <3>5. Concerned(p) \subseteq Files
      BY DEF Concerned, FilesOf
    <3>6. PlanStands(s)'
      BY <1>2, <1>6, <3>1, <3>4 DEF PlanStands
    <3>7. Attests(s)'
      BY <1>4, <1>6, <3>1, <3>3, <3>4, <3>5 DEF Attests
    <3>8. ForgetStands(s)'
      BY <3>4 DEF ForgetStands
    <3> QED BY <3>6, <3>7, <3>8 DEF Holds
  <2> QED BY <2>1, <2>2
<1> QED BY <1>5, <1>7 DEF Inv, Holds

-----------------------------------------------------------------------------
(* Steps that write, and leave nobody with the lock.                         *)

LEMMA WriteInv ==
    ASSUME Inv, lock' = None, Shape', NoGhostPhoto',
           \A u \in Sessions :
              task'[u] = Idle \/ (task'[u] = task[u] /\ task[u].at \notin Locking),
           libs' \subseteq libs, splits \subseteq splits', merges \subseteq merges',
           \A f \in Files :
              \/ photoOf'[f] = photoOf[f]
              \/ photoOf'[f] = None /\ LibOf[f] \notin libs'
              \/ /\ photoOf[f] # None /\ photoOf'[f] # None
                 /\ \E r \in splits' \cup merges' : r.lib = LibOf[f]
              \/ photoOf[f] = None /\ LibOf[f] \in libs
    PROVE  Inv'
<1>1. ASSUME NEW u \in Sessions PROVE Holds(u)'
  <2>1. CASE task'[u] = Idle
    BY <2>1, Resting DEF Idle, Locking
  <2>2. CASE task'[u] = task[u] /\ task[u].at \notin Locking
    <3>1. ForgetStands(u)'
      BY <2>2, ForgetKept
    <3> QED BY <2>2, <3>1 DEF Holds, PlanStands, Attests, Locking
  <2> QED BY <2>1, <2>2
<1> QED BY <1>1 DEF Inv, Holds

\* Writes that leave identity alone.
LEMMA CuratedInv ==
    ASSUME Inv, lock = None, UNCHANGED <<identity, disk, lock>>,
           task' = task \/ \E s \in Sessions : task' = [task EXCEPT ![s] = Idle]
    PROVE  Inv'
<1>1. UNCHANGED <<libs, photoOf, photos, issued, splits, merges>>
  BY DEF identity
<1>2. Shape' /\ NoGhostPhoto'
  BY <1>1 DEF Inv, Shape, NoGhostPhoto, Rows
<1>3. \A u \in Sessions :
        task'[u] = Idle \/ (task'[u] = task[u] /\ task[u].at \notin Locking)
  <2>1. \A u \in Sessions : task[u].at \notin Locking
    BY Unlocked
  <2> QED BY <2>1 DEF Inv, Shape
<1> QED BY <1>1, <1>2, <1>3, WriteInv

LEMMA CommitsInv ==
    ASSUME Inv, NEW s \in Sessions,
           \/ CommitCreate(s) \/ CommitAdd(s) \/ CommitRemove(s) \/ CommitLabel(s)
           \/ CommitCover(s) \/ CommitArrange(s) \/ CommitReset(s) \/ CommitRestore(s)
           \/ CommitRelate(s) \/ CommitUnrelate(s)
           \/ ApplySuggestion(s) \/ DismissSuggestion(s)
    PROVE  Inv'
<1>1. lock = None
  BY DEF CommitCreate, CommitAdd, CommitRemove, CommitLabel, CommitCover, CommitArrange,
     CommitReset, CommitRestore, CommitRelate, CommitUnrelate, ApplySuggestion,
     DismissSuggestion, Writing
<1>2. UNCHANGED <<identity, disk, lock>> /\ task' = [task EXCEPT ![s] = Idle]
  BY DEF CommitCreate, CommitAdd, CommitRemove, CommitLabel, CommitCover, CommitArrange,
     CommitReset, CommitRestore, CommitRelate, CommitUnrelate, ApplySuggestion,
     DismissSuggestion, Finish
<1> QED BY <1>1, <1>2, CuratedInv

LEMMA RowsInv ==
    ASSUME Inv, NEW f \in Files, Verify(f) \/ Adopt(f) \/ Propose(f)
    PROVE  Inv'
BY CuratedInv DEF Verify, Adopt, Propose

LEMMA AppearInv == ASSUME Inv, NEW f \in Files, Appear(f) PROVE Inv'
<1> DEFINE twins == {g \in Holding(disk[f]) : LibOf[g] = LibOf[f]}
<1>1. /\ lock = None /\ photoOf[f] = None /\ LibOf[f] \in libs
      /\ UNCHANGED <<libs, splits, merges, disk, lock, task>>
  BY DEF Appear, Rows
<1>2. PICK p \in IF twins = {} THEN Fresh ELSE {photoOf[g] : g \in twins} :
        /\ photoOf' = [photoOf EXCEPT ![f] = p]
        /\ photos' = photos \cup {p} /\ issued' = issued \cup {p}
  BY DEF Appear
<1>3. p \in Photos /\ (p \in Fresh \/ p \in photos)
  <2>1. \A g \in twins : photoOf[g] \in photos
    <3>1. \A c : c # None => \A g \in Holding(c) : g \in Rows
      BY DEF Holding, Verified, Rows
    <3>2. disk[f] # None
      BY DEF Appear
    <3> QED BY <3>1, <3>2 DEF Inv, NoGhostPhoto
  <2> QED BY <1>2, <2>1 DEF Fresh, Inv, Shape
<1> HIDE DEF twins
<1>4. Rows' = Rows \cup {f} /\ \A g \in Rows : photoOf'[g] = photoOf[g]
  BY <1>1, <1>2, <1>3 DEF Rows, Inv, Shape
<1>5. photoOf'[f] = p /\ f \notin Rows
  BY <1>1, <1>2 DEF Inv, Shape, Rows
<1>6. NoGhostPhoto'
  BY <1>2, <1>4, <1>5 DEF Inv, NoGhostPhoto
<1>7. Shape'
  BY <1>1, <1>2, <1>3 DEF Inv, Shape
<1>8. \A u \in Sessions : task[u].at \notin Locking
  BY <1>1, Unlocked
<1>9. \A g \in Files : photoOf'[g] = photoOf[g] \/ (photoOf[g] = None /\ LibOf[g] \in libs)
  BY <1>1, <1>2 DEF Inv, Shape
<1> QED BY <1>1, <1>6, <1>7, <1>8, <1>9, WriteInv

LEMMA CommitForgetInv == ASSUME Inv, NEW s \in Sessions, CommitForget(s) PROVE Inv'
<1> DEFINE l == task[s].of
           gone == {f \in Rows : LibOf[f] = l}
           bare == {p \in task[s].photos : FilesOf(p) \subseteq gone}
<1>1. /\ task[s].at = "curating" /\ task[s].op = "forget" /\ lock = None
      /\ gone \subseteq task[s].items /\ ~Decided(l)
      /\ libs' = libs \ {l} /\ photos' = photos \ bare
      /\ photoOf' = [f \in Files |-> IF f \in gone THEN None ELSE photoOf[f]]
      /\ task' = [task EXCEPT ![s] = Idle]
      /\ UNCHANGED <<issued, splits, merges, disk, lock>>
  BY DEF CommitForget, Writing, ForgetBlocked, Finish, Decided
<1>2. \A f \in gone : photoOf[f] \in task[s].photos
  BY <1>1 DEF Inv, ForgetStands
<1>3. Rows' = Rows \ gone /\ \A f \in Rows' : photoOf'[f] = photoOf[f]
  BY <1>1 DEF Rows
<1>4. NoGhostPhoto'
  <2>1. ASSUME NEW p \in photos \ bare PROVE \E f \in Rows' : photoOf[f] = p
    <3>1. PICK f \in Rows : photoOf[f] = p
      BY DEF Inv, NoGhostPhoto
    <3>2. CASE f \in gone
      <4>1. PICK g \in FilesOf(p) : g \notin gone
        BY <1>2, <2>1, <3>1, <3>2
      <4>2. g \in Rows
        BY <2>1 DEF FilesOf, Rows, Inv, Shape
      <4> QED BY <1>3, <4>1, <4>2 DEF FilesOf
    <3>3. CASE f \notin gone
      BY <1>3, <3>1, <3>3
    <3> QED BY <3>2, <3>3
  <2>2. ASSUME NEW f \in Rows' PROVE photoOf[f] \in photos \ bare
    <3>1. photoOf[f] \in photos /\ f \in FilesOf(photoOf[f]) /\ f \notin gone
      BY <1>3 DEF Inv, NoGhostPhoto, FilesOf, Rows
    <3> QED BY <3>1
  <2>3. photos' = photos \ bare /\ \A f \in Rows' : photoOf'[f] = photoOf[f]
    BY <1>1, <1>3
  <2> HIDE DEF bare, gone
  <2>4. \A p : p \in photos' <=> \E f \in Rows' : photoOf'[f] = p
    BY <2>1, <2>2, <2>3
  <2> QED BY <2>4 DEF NoGhostPhoto
<1>5. Shape'
  BY <1>1 DEF Inv, Shape
<1>6. \A u \in Sessions :
        task'[u] = Idle \/ (task'[u] = task[u] /\ task[u].at \notin Locking)
  BY <1>1, Unlocked DEF Inv, Shape
<1>7. \A f \in Files :
        photoOf'[f] = photoOf[f] \/ (photoOf'[f] = None /\ LibOf[f] \notin libs')
  BY <1>1
<1> QED BY <1>1, <1>4, <1>5, <1>6, <1>7, WriteInv

-----------------------------------------------------------------------------
(* The three commits that change identity.                                   *)

LEMMA PlansAre ==
    ASSUME Inv, NEW x \in Plans
    PROVE  /\ x.from \in photos /\ x.files \subseteq FilesOf(x.from)
           /\ \A f \in x.files : LibOf[f] = x.lib
           /\ x.op = "split" => x.files # {} /\ x.files # FilesOf(x.from)
           /\ x.op \in {"recover", "merge"} =>
                 x.files = FilesOf(x.from) /\ x.to \in photos /\ x.to # x.from
           /\ x.op = "recover" => Decided(x.lib)
<1>1. CASE x \in SplitPlans
  <2>1. PICK l \in libs, p \in photos, c \in Contents :
          x = Plan("split", l, p, None, c, FilesOf(p) \cap Holding(c))
    BY <1>1 DEF SplitPlans
  <2>2. Splittable(x)
    BY <1>1 DEF SplitPlans
  <2>3. x.op = "split" /\ x.from = p /\ x.files = FilesOf(p) \cap Holding(c)
    BY <2>1 DEF Plan
  <2> QED BY <2>2, <2>3 DEF Splittable
<1>2. CASE x \in MergePlans
  <2>1. PICK l \in libs, p \in photos, q \in photos, c \in Contents :
          x = Plan("merge", l, p, q, c, FilesOf(p))
    BY <1>2 DEF MergePlans
  <2>2. Mergeable(x)
    BY <1>2 DEF MergePlans
  <2>3. x.op = "merge" /\ x.from = p /\ x.to = q /\ x.files = FilesOf(p)
    BY <2>1 DEF Plan
  <2> QED BY <2>2, <2>3 DEF Mergeable
<1>3. CASE x \in RecoveryPlans
  <2>1. PICK r \in splits :
          /\ Recoverable(r)
          /\ x = Plan("recover", r.lib, r.new, r.src, r.sha, r.files)
    BY <1>3 DEF RecoveryPlans
  <2>2. /\ x.op = "recover" /\ x.from = r.new /\ x.to = r.src /\ x.files = r.files
        /\ x.lib = r.lib
    BY <2>1 DEF Plan
  <2> QED BY <2>1, <2>2 DEF Recoverable, Inv, Shape, Decided
<1> QED BY <1>1, <1>2, <1>3 DEF Plans

\* Who commits holds the lock, and no one else is executing.
LEMMA Committing ==
    ASSUME Inv, NEW s \in Sessions, task[s].at = "attested", task' = [task EXCEPT ![s] = Idle]
    PROVE  /\ task[s].plan \in Plans
           /\ \A u \in Sessions :
                  task'[u] = Idle \/ (task'[u] = task[u] /\ task[u].at \notin Locking)
BY DEF Inv, PlanStands, Shape, Locking

LEMMA SplitInv == ASSUME Inv, NEW s \in Sessions, SplitCommit(s) PROVE Inv'
<1> DEFINE x == task[s].plan
<1>1. PICK p \in Fresh :
        /\ photos' = photos \cup {p} /\ issued' = issued \cup {p}
        /\ photoOf' = Reassigned(x, p)
        /\ splits' = splits \cup
              {[at |-> task[s].now, lib |-> x.lib, src |-> x.from, new |-> p, sha |-> x.sha,
                files |-> x.files, kin |-> FilesOf(x.from) \ x.files, before |-> Len(history)]}
  BY DEF SplitCommit
<1>2. /\ task[s].at = "attested" /\ x.op = "split" /\ lock' = None
      /\ task' = [task EXCEPT ![s] = Idle] /\ UNCHANGED <<libs, merges, disk>>
  BY DEF SplitCommit
<1>3. /\ x \in Plans
      /\ \A u \in Sessions :
            task'[u] = Idle \/ (task'[u] = task[u] /\ task[u].at \notin Locking)
  BY <1>2, Committing
<1> HIDE DEF x
<1>4. /\ x.from \in photos /\ x.files \subseteq FilesOf(x.from)
      /\ \A f \in x.files : LibOf[f] = x.lib
      /\ x.files # {} /\ x.files # FilesOf(x.from)
  BY <1>2, <1>3, PlansAre
<1>5. p \in Photos /\ p \notin issued /\ p # x.from /\ p # None /\ x.from # None
  BY <1>4 DEF Fresh, Inv, Shape
<1>6. \A f \in Files : photoOf'[f] = IF f \in x.files THEN p ELSE photoOf[f]
  BY <1>1 DEF Reassigned
<1>7. Rows' = Rows /\ \A f \in x.files : f \in Rows /\ photoOf[f] = x.from
  BY <1>4, <1>5, <1>6 DEF Rows, FilesOf
<1>8. NoGhostPhoto'
  <2>1. photos = {photoOf[f] : f \in Rows}
    BY DEF Inv, NoGhostPhoto
  <2>2. PICK g \in FilesOf(x.from) : g \notin x.files
    BY <1>4
  <2>3. g \in Rows /\ photoOf[g] = x.from
    BY <1>5, <2>2 DEF FilesOf, Rows
  <2>4. Rows \subseteq Files
    BY DEF Rows
  <2>5. \A q : q \in photos \cup {p} <=> \E f \in Rows : photoOf'[f] = q
    BY <1>4, <1>6, <1>7, <2>1, <2>2, <2>3, <2>4
  <2> QED BY <1>1, <1>7, <2>5 DEF NoGhostPhoto
<1>9. Shape'
  <2>1. photoOf' \in [Files -> Photos \cup {None}]
    BY <1>1, <1>5 DEF Reassigned, Inv, Shape
  <2>2. \A r \in splits' : r.src # r.new
    BY <1>1, <1>5 DEF Inv, Shape
  <2> QED BY <1>1, <1>2, <1>5, <2>1, <2>2 DEF Inv, Shape
<1>10. \A f \in Files : f \in x.files => \E r \in splits' : r.lib = LibOf[f]
  <2> DEFINE row == [at |-> task[s].now, lib |-> x.lib, src |-> x.from, new |-> p,
                     sha |-> x.sha, files |-> x.files,
                     kin |-> FilesOf(x.from) \ x.files, before |-> Len(history)]
  <2>1. row \in splits' /\ row.lib = x.lib
    BY <1>1
  <2> HIDE DEF row
  <2> QED BY <1>4, <2>1
<1>11. \A f \in Files :
         \/ photoOf'[f] = photoOf[f]
         \/ /\ photoOf[f] # None /\ photoOf'[f] # None
            /\ \E r \in splits' \cup merges' : r.lib = LibOf[f]
  BY <1>5, <1>6, <1>7, <1>10
<1> QED BY <1>1, <1>2, <1>3, <1>8, <1>9, <1>11, WriteInv

\* A merge and a recovery empty a Photo into another and delete its row.
LEMMA EmptiedInv ==
    ASSUME Inv, NEW s \in Sessions, RecoveryCommit(s) \/ MergeCommit(s) PROVE Inv'
<1> DEFINE x == task[s].plan
<1>1. /\ photoOf' = Reassigned(x, x.to) /\ photos' = photos \ {x.from}
      /\ task[s].at = "attested" /\ x.op \in {"recover", "merge"} /\ lock' = None
      /\ task' = [task EXCEPT ![s] = Idle] /\ UNCHANGED <<libs, issued, splits, disk>>
      /\ merges \subseteq merges'
      /\ x.op = "merge" => \E r \in merges' : r.lib = x.lib
  <2>1. CASE RecoveryCommit(s)
    BY <2>1 DEF RecoveryCommit, Retire
  <2>2. CASE MergeCommit(s)
    <3> DEFINE row == [lib |-> x.lib, survivor |-> x.to, retired |-> x.from]
    <3>1. merges' = merges \cup {row} /\ row.lib = x.lib
      BY <2>2 DEF MergeCommit
    <3>2. /\ photoOf' = Reassigned(x, x.to) /\ photos' = photos \ {x.from}
          /\ task[s].at = "attested" /\ x.op = "merge" /\ lock' = None
          /\ task' = [task EXCEPT ![s] = Idle] /\ UNCHANGED <<libs, issued, splits, disk>>
      BY <2>2 DEF MergeCommit, Retire
    <3> HIDE DEF row, x
    <3> QED BY <3>1, <3>2
  <2> QED BY <2>1, <2>2
<1>2. /\ x \in Plans
      /\ \A u \in Sessions :
            task'[u] = Idle \/ (task'[u] = task[u] /\ task[u].at \notin Locking)
  BY <1>1, Committing
<1> HIDE DEF x
<1>3. /\ x.from \in photos /\ \A f \in x.files : LibOf[f] = x.lib
      /\ x.files = FilesOf(x.from) /\ x.to \in photos /\ x.to # x.from
      /\ x.op = "recover" => Decided(x.lib)
  BY <1>1, <1>2, PlansAre
<1>4. photos \subseteq Photos /\ x.to # None /\ x.from # None
  BY <1>3 DEF Inv, Shape
<1>5. \A f \in Files : photoOf'[f] = IF photoOf[f] = x.from THEN x.to ELSE photoOf[f]
  BY <1>1, <1>3 DEF Reassigned, FilesOf
<1>6. Rows' = Rows /\ Rows \subseteq Files
  BY <1>4, <1>5 DEF Rows
<1>7. NoGhostPhoto'
  <2>1. photos = {photoOf[f] : f \in Rows}
    BY DEF Inv, NoGhostPhoto
  <2>2. \A q : q \in photos \ {x.from} <=> \E f \in Rows : photoOf'[f] = q
    BY <1>3, <1>5, <1>6, <2>1
  <2> QED BY <1>1, <1>6, <2>2 DEF NoGhostPhoto
<1>8. Shape'
  <2>1. photoOf' \in [Files -> Photos \cup {None}]
    BY <1>1, <1>3, <1>4 DEF Reassigned, Inv, Shape
  <2> QED BY <1>1, <2>1 DEF Inv, Shape
<1>9. \E r \in splits' \cup merges' : r.lib = x.lib
  BY <1>1, <1>3 DEF Decided
<1>10. \A f \in Files :
         \/ photoOf'[f] = photoOf[f]
         \/ /\ photoOf[f] # None /\ photoOf'[f] # None
            /\ \E r \in splits' \cup merges' : r.lib = LibOf[f]
  <2>1. \A f \in Files : photoOf[f] = x.from => LibOf[f] = x.lib
    BY <1>3 DEF FilesOf
  <2> QED BY <1>4, <1>5, <1>9, <2>1
<1> QED BY <1>1, <1>2, <1>7, <1>8, <1>10, WriteInv

-----------------------------------------------------------------------------
(* Every step.                                                               *)

LEMMA StartsInv ==
    ASSUME Inv, NEW s \in Sessions,
           \/ StartCreate(s) \/ StartAdd(s) \/ StartRemove(s) \/ StartLabel(s)
           \/ StartCover(s) \/ StartArrange(s) \/ StartReset(s) \/ StartRestore(s)
           \/ StartRelate(s) \/ StartUnrelate(s)
    PROVE  Inv'
<1>1. \E op, c, items : op # "forget" /\ Start(s, Curating(op, c, items))
  <2>1. CASE StartCreate(s)
    BY <2>1, "create" # "forget", Zenon DEF StartCreate
  <2>2. CASE StartAdd(s)
    BY <2>2, "add" # "forget", Zenon DEF StartAdd
  <2>3. CASE StartRemove(s)
    BY <2>3, "remove" # "forget", Zenon DEF StartRemove
  <2>4. CASE StartLabel(s)
    BY <2>4, "label" # "forget", Zenon DEF StartLabel
  <2>5. CASE StartCover(s)
    BY <2>5, "cover" # "forget", Zenon DEF StartCover
  <2>6. CASE StartArrange(s)
    BY <2>6, "arrange" # "forget", Zenon DEF StartArrange
  <2>7. CASE StartReset(s)
    BY <2>7, "reset" # "forget", Zenon DEF StartReset
  <2>8. CASE StartRestore(s)
    BY <2>8, "restore" # "forget", Zenon DEF StartRestore
  <2>9. CASE StartRelate(s)
    BY <2>9, "relate" # "forget", Zenon DEF StartRelate
  <2>10. CASE StartUnrelate(s)
    BY <2>10, "unrelate" # "forget", Zenon DEF StartUnrelate
  <2> QED BY <2>1, <2>2, <2>3, <2>4, <2>5, <2>6, <2>7, <2>8, <2>9, <2>10
<1> QED BY <1>1, StartInv

LEMMA NextInv == Inv /\ [Next]_vars => Inv'
<1> SUFFICES ASSUME Inv, [Next]_vars PROVE Inv'
  OBVIOUS
<1>1. ASSUME NEW s \in Sessions, Identify(s) PROVE Inv'
  BY <1>1, ReviewInv, BeginInv, ReattestInv, SplitInv, EmptiedInv DEF Identify
<1>2. ASSUME NEW s \in Sessions, Curate(s) PROVE Inv'
  BY <1>2, StartsInv, StartForgetInv, CommitsInv, CommitForgetInv, ReviewInv DEF Curate
<1>3. ASSUME NEW s \in Sessions, Abandon(s) PROVE Inv'
  BY <1>3, ReviewInv
<1>4. CASE Elsewhere
  BY <1>4, EditInv, RowsInv, AppearInv DEF Elsewhere
<1>5. CASE UNCHANGED vars
  <2>1. UNCHANGED <<identity, evidence, curated, disk, lock, task>>
    BY <1>5 DEF vars
  <2>2. UNCHANGED <<photoOf, photos, issued, splits>>
    BY <2>1 DEF identity
  <2>3. Shape' /\ NoGhostPhoto'
    BY <2>1, <2>2 DEF Inv, Shape, NoGhostPhoto, Rows
  <2>4. \A u \in Sessions : Holds(u)'
    BY <2>1, Waiting
  <2> QED BY <2>3, <2>4 DEF Inv, Holds
<1> QED BY <1>1, <1>2, <1>3, <1>4, <1>5 DEF Next

\* The invariant holds throughout.
THEOREM AlwaysInv == Spec => []Inv
<1> QED BY InitInv, NextInv, PTL DEF Spec

\* Every Photo has a File and every File a Photo, although forget_library
\* lists what it deletes before its transaction begins.
THEOREM NoPhotoIsGhost == Spec => []NoGhostPhoto
<1>1. Inv => NoGhostPhoto
  BY DEF Inv
<1> QED BY <1>1, AlwaysInv, PTL

-----------------------------------------------------------------------------
(* A File changes Photo by a reviewed plan only.                             *)

\* Who writes identity.
LEMMA IdentityStep ==
    ASSUME [Next]_vars
    PROVE  \/ UNCHANGED identity
           \/ \E s \in Sessions : \/ SplitCommit(s) \/ RecoveryCommit(s) \/ MergeCommit(s)
                                  \/ CommitForget(s)
           \/ \E f \in Files : Appear(f)
<1>1. ASSUME NEW s \in Sessions, Review(s) \/ Begin(s) \/ Reattest(s) \/ Abandon(s)
      PROVE  UNCHANGED identity
  BY <1>1 DEF Review, Begin, Reattest, Abandon
<1>2. ASSUME NEW s \in Sessions, Curate(s) PROVE UNCHANGED identity \/ CommitForget(s)
  <2>1. \A r : Start(s, r) => UNCHANGED identity
    BY DEF Start
  <2> QED
    BY <1>2, <2>1 DEF Curate, StartCreate, CommitCreate, StartAdd, CommitAdd, StartRemove,
       CommitRemove, StartLabel, CommitLabel, StartCover, CommitCover, StartArrange,
       CommitArrange, StartReset, CommitReset, ReviewSuggestion, ApplySuggestion,
       DismissSuggestion, StartRestore, CommitRestore, StartRelate, CommitRelate,
       StartUnrelate, CommitUnrelate, StartForget
<1>3. ASSUME NEW f \in Files, Verify(f) \/ Adopt(f) \/ Propose(f) PROVE UNCHANGED identity
  BY <1>3 DEF Verify, Adopt, Propose
<1>4. Edit \/ UNCHANGED vars => UNCHANGED identity
  BY DEF Edit, vars
<1> QED BY <1>1, <1>2, <1>3, <1>4 DEF Next, Identify, Elsewhere

LEMMA OnlyByPlan ==
    ASSUME Inv, [Next]_vars, NEW f \in Rows, photoOf'[f] \notin {None, photoOf[f]}
    PROVE  \E s \in Sessions : task[s].at = "attested" /\ f \in task[s].plan.files
<1>1. f \in Files /\ photoOf[f] # None
  BY DEF Rows
<1>2. ASSUME NEW s \in Sessions, SplitCommit(s) \/ RecoveryCommit(s) \/ MergeCommit(s)
      PROVE  task[s].at = "attested" /\ f \in task[s].plan.files
  BY <1>1, <1>2 DEF SplitCommit, RecoveryCommit, MergeCommit, Reassigned
<1>3. ASSUME NEW s \in Sessions, CommitForget(s) PROVE photoOf'[f] \in {None, photoOf[f]}
  BY <1>1, <1>3 DEF CommitForget
<1>4. ASSUME NEW g \in Files, Appear(g) PROVE photoOf'[f] = photoOf[f]
  <2>1. g # f
    BY <1>4 DEF Appear
  <2> QED BY <1>1, <1>4, <2>1 DEF Appear, Inv, Shape
<1>5. ~UNCHANGED identity
  BY DEF identity
<1> QED BY <1>2, <1>3, <1>4, <1>5, IdentityStep

\* A split, a merge or a recovery moves only the Files of its reviewed plan,
\* on the state that was reviewed and on bytes read inside its transaction.
THEOREM ReassignmentIsReviewed == Spec => ReassignedOnReviewedBytes
<1>1. ASSUME Inv, [Next]_vars
      PROVE  [\A f \in Rows : photoOf'[f] \notin {None, photoOf[f]} =>
                \E s \in Sessions :
                    /\ task[s].at = "attested" /\ f \in task[s].plan.files
                    /\ Fingerprint(task[s].plan) = task[s].print
                    /\ \A g \in Concerned(task[s].plan) :
                          g \in task[s].late \/ disk[g] = Verified(g)]_vars
  <2>1. \A s \in Sessions : task[s].at = "attested" =>
          /\ Fingerprint(task[s].plan) = task[s].print
          /\ \A g \in Concerned(task[s].plan) :
                g \in task[s].late \/ disk[g] = Verified(g)
    BY <1>1 DEF Inv, PlanStands, Attests, Locking
  <2> QED BY <1>1, <2>1, OnlyByPlan
<1> QED BY <1>1, AlwaysInv, PTL DEF Spec, ReassignedOnReviewedBytes

-----------------------------------------------------------------------------
(***************************************************************************)
(* What people curated stays backed by Files and told by the audit, and a  *)
(* Photo that is retired leaves none of it behind.                         *)
(*                                                                         *)
(* The argument: a split's new Photo is unknown to every audit row, every  *)
(* lineage row and every waiting session that carries an earlier time, so  *)
(* "no later change" by the times recorded means that nobody ever curated  *)
(* it. A merge wants Photos nobody curated. So what either retires was on  *)
(* no shelf, and the audit, which no identity operation writes, goes on    *)
(* telling what is.                                                        *)
(***************************************************************************)
Membership == {"create", "add", "remove"}
Kinship == {"relate", "unrelate"}

Journal == [of : Collections \cup {None}, act : {"add", "remove", "label", "erased"},
            items : SUBSET (Files \cup Photos \cup Labels), at : Nat]

\* By the audit rows h, x was added to c last, and v is the last label of c.
Told(h, c, x) == \E i \in DOMAIN h :
    /\ h[i].of = c /\ h[i].act = "add" /\ x \in h[i].items
    /\ \A j \in (i + 1) .. Len(h) :
          h[j].of = c /\ h[j].act \in {"add", "remove"} => x \notin h[j].items
Named(h, c, v) == \A i \in DOMAIN h :
    /\ h[i].of = c /\ h[i].act = "label"
    /\ \A j \in (i + 1) .. Len(h) : h[j].of = c => h[j].act # "label"
    => v \in h[i].items

\* An audit row names Photos that were there, and a split's Photo only later.
RowStands(e) == e.of \in Shelves =>
    /\ e.items \cap Photos \subseteq issued
    /\ \A r \in splits : r.new \in e.items => e.at > r.at

CollectionStands(c) ==
    /\ Home(c) \in libs
    /\ members[c] \subseteq IF c \in Events THEN Files ELSE Photos
    /\ \A x \in members[c] : Belongs(x, c)
    /\ shown[c] = [cover |-> shown[c].cover, order |-> shown[c].order]
    /\ shown[c].cover \in members[c] \cup {None}
    /\ \A x \in Files \cup Photos : x \in members[c] <=> Told(history, c, x)
    /\ Named(history, c, label[c])

\* What the split left behind stays there, unless the Photo was divided again.
KinStays(r) ==
    \/ r \in recovered
    \/ \E o \in splits : o.at > r.at /\ r.src \in {o.src, o.new}
    \/ \A f \in r.kin :
          photoOf[f] = r.src \/ (photoOf[f] = None /\ LibOf[f] \notin libs)

SplitStands(r) ==
    /\ r.at \in Nat /\ r.at < clock /\ {r.src, r.new} \subseteq issued
    /\ r.kin \subseteq Files
    /\ \A e \in lineageLog : r.new \in {e.parent, e.child} => e.at > r.at
    /\ \A o \in splits : (o.new = r.new => o = r) /\ (o.src = r.new => o.at > r.at)
    /\ KinStays(r)

\* What a session is about to write, checked when it began.
Intends(s) == task[s].at = "curating" =>
    /\ task[s].now \in Nat /\ task[s].now < clock
    /\ task[s].op \in Membership \cup {"label"} => task[s].of \in Collections
    /\ task[s].op \in Membership =>
          /\ task[s].items \subseteq IF task[s].of \in Events THEN Files ELSE issued
          /\ \A r \in splits : task[s].of \notin Events /\ r.new \in task[s].items =>
                task[s].now > r.at
    /\ task[s].op = "label" => \E v \in Labels : task[s].items = {v}
    /\ task[s].op = "forget" => task[s].photos \subseteq Photos
    /\ task[s].op \in Kinship => \E p, q \in issued :
          /\ task[s].of = <<p, q>>
          /\ \A r \in splits : r.new \in {p, q} => task[s].now > r.at

\* A session that holds the lock began after every split there is.
Follows(s) == task[s].at \in Locking =>
    task[s].now \in Nat /\ task[s].now < clock /\ \A r \in splits : r.at < task[s].now

\* The audit rows h are of collections in D.
Stand(h, D) ==
    /\ h \in Seq(Journal)
    /\ \A i \in DOMAIN h : RowStands(h[i]) /\ h[i].of \in D \cup {None}

Journaled == Stand(history, DOMAIN members)

Kindred ==
    /\ lineage \subseteq issued \X issued
    /\ \A e \in lineage : \E g \in lineageLog : g.parent = e[1] /\ g.child = e[2]
    /\ \A g \in lineageLog : {g.parent, g.child} \subseteq issued

Collected ==
    /\ DOMAIN members \subseteq Collections
    /\ DOMAIN shown = DOMAIN members /\ DOMAIN label = DOMAIN members
    /\ \A c \in DOMAIN members : CollectionStands(c)

Divided == recovered \subseteq splits /\ \A r \in splits : SplitStands(r)

CurationInv ==
    /\ clock \in Nat /\ Journaled /\ Collected /\ Kindred /\ Divided
    /\ \A s \in Sessions : Intends(s) /\ Follows(s)

-----------------------------------------------------------------------------
(* The audit.                                                                *)

LEMMA Appended ==
    ASSUME NEW h \in Seq(Journal), NEW e \in Journal
    PROVE  LET g == Append(h, e) IN
           /\ g \in Seq(Journal) /\ Len(h) \in Nat /\ Len(g) = Len(h) + 1
           /\ DOMAIN h = 1 .. Len(h) /\ DOMAIN g = 1 .. (Len(h) + 1)
           /\ \A i \in DOMAIN h : g[i] = h[i]
           /\ g[Len(h) + 1] = e
<1>1. /\ Append(h, e) \in Seq(Journal) /\ Len(Append(h, e)) = Len(h) + 1
      /\ \A i \in 1 .. Len(h) : Append(h, e)[i] = h[i]
      /\ Append(h, e)[Len(h) + 1] = e
  BY AppendProperties
<1>2. Len(h) \in Nat /\ DOMAIN h = 1 .. Len(h)
  BY LenProperties
<1>3. DOMAIN Append(h, e) = 1 .. Len(Append(h, e))
  BY <1>1, LenProperties
<1> QED BY <1>1, <1>2, <1>3

\* A new row of the collection decides for its items, any other row for nothing.
LEMMA ToldAppended ==
    ASSUME NEW h \in Seq(Journal), NEW e \in Journal, NEW c, NEW x
    PROVE  Told(Append(h, e), c, x) <=>
              IF e.of = c /\ e.act \in {"add", "remove"} /\ x \in e.items
              THEN e.act = "add" ELSE Told(h, c, x)
<1> DEFINE g == Append(h, e)
           n == Len(h)
           Deciding(r) == r.of = c /\ r.act \in {"add", "remove"} /\ x \in r.items
<1>1. /\ n \in Nat /\ Len(g) = n + 1 /\ DOMAIN h = 1 .. n /\ DOMAIN g = 1 .. (n + 1)
      /\ \A i \in 1 .. n : g[i] = h[i]
      /\ g[n + 1] = e
  BY Appended
<1> HIDE DEF g, n
<1>2. Told(g, c, x) <=>
        \E i \in 1 .. (n + 1) : Deciding(g[i]) /\ g[i].act = "add"
            /\ \A j \in (i + 1) .. (n + 1) : ~Deciding(g[j])
  BY <1>1 DEF Told
<1>3. Told(h, c, x) <=>
        \E i \in 1 .. n : Deciding(h[i]) /\ h[i].act = "add"
            /\ \A j \in (i + 1) .. n : ~Deciding(h[j])
  BY <1>1 DEF Told, n
<1> HIDE DEF Deciding
<1>4. CASE Deciding(e)
  <2>1. Told(g, c, x) => e.act = "add"
    <3>1. ASSUME NEW i \in 1 .. (n + 1), Deciding(g[i]), g[i].act = "add",
                 \A j \in (i + 1) .. (n + 1) : ~Deciding(g[j])
          PROVE  e.act = "add"
      <4>1. i = n + 1
        BY <1>1, <1>4, <3>1
      <4> QED BY <1>1, <3>1, <4>1
    <3> QED BY <1>2, <3>1
  <2>2. e.act = "add" => Told(g, c, x)
    <3>1. n + 1 \in 1 .. (n + 1) /\ \A j \in (n + 2) .. (n + 1) : FALSE
      BY <1>1
    <3>2. (n + 1) + 1 = n + 2
      BY <1>1
    <3> QED BY <1>1, <1>2, <1>4, <3>1, <3>2
  <2> QED BY <1>4, <2>1, <2>2 DEF Deciding, g
<1>5. CASE ~Deciding(e)
  <2>1. Told(g, c, x) => Told(h, c, x)
    <3>1. ASSUME NEW i \in 1 .. (n + 1), Deciding(g[i]), g[i].act = "add",
                 \A j \in (i + 1) .. (n + 1) : ~Deciding(g[j])
          PROVE  Told(h, c, x)
      <4>1. i \in 1 .. n
        BY <1>1, <1>5, <3>1
      <4>2. \A j \in (i + 1) .. n : j \in 1 .. n /\ j \in (i + 1) .. (n + 1)
        BY <1>1, <4>1
      <4>3. \A j \in (i + 1) .. n : ~Deciding(h[j])
        BY <1>1, <3>1, <4>2
      <4> QED BY <1>1, <1>3, <3>1, <4>1, <4>3
    <3> QED BY <1>2, <3>1
  <2>2. Told(h, c, x) => Told(g, c, x)
    <3>1. ASSUME NEW i \in 1 .. n, Deciding(h[i]), h[i].act = "add",
                 \A j \in (i + 1) .. n : ~Deciding(h[j])
          PROVE  Told(g, c, x)
      <4>1. \A j \in (i + 1) .. (n + 1) : j = n + 1 \/ (j \in (i + 1) .. n /\ j \in 1 .. n)
        BY <1>1
      <4>2. \A j \in (i + 1) .. (n + 1) : ~Deciding(g[j])
        BY <1>1, <1>5, <3>1, <4>1
      <4>3. i \in 1 .. (n + 1)
        BY <1>1
      <4> QED BY <1>1, <1>2, <3>1, <4>2, <4>3
    <3> QED BY <1>3, <3>1
  <2> QED BY <1>5, <2>1, <2>2 DEF Deciding, g
<1> QED BY <1>4, <1>5

LEMMA NamedAppended ==
    ASSUME NEW h \in Seq(Journal), NEW e \in Journal, NEW c, NEW v
    PROVE  Named(Append(h, e), c, v) <=>
              IF e.of = c /\ e.act = "label" THEN v \in e.items ELSE Named(h, c, v)
<1> DEFINE g == Append(h, e)
           n == Len(h)
           Naming(r) == r.of = c /\ r.act = "label"
<1>1. /\ n \in Nat /\ Len(g) = n + 1 /\ DOMAIN h = 1 .. n /\ DOMAIN g = 1 .. (n + 1)
      /\ \A i \in 1 .. n : g[i] = h[i]
      /\ g[n + 1] = e
  BY Appended
<1> HIDE DEF g, n
<1>2. Named(g, c, v) <=>
        \A i \in 1 .. (n + 1) :
            Naming(g[i]) /\ (\A j \in (i + 1) .. (n + 1) : ~Naming(g[j])) => v \in g[i].items
  BY <1>1 DEF Named
<1>3. Named(h, c, v) <=>
        \A i \in 1 .. n :
            Naming(h[i]) /\ (\A j \in (i + 1) .. n : ~Naming(h[j])) => v \in h[i].items
  BY <1>1 DEF Named, n
<1> HIDE DEF Naming
<1>4. CASE Naming(e)
  <2>1. Named(g, c, v) => v \in e.items
    <3>1. n + 1 \in 1 .. (n + 1) /\ \A j \in (n + 2) .. (n + 1) : FALSE
      BY <1>1
    <3>2. (n + 1) + 1 = n + 2
      BY <1>1
    <3> QED BY <1>1, <1>2, <1>4, <3>1, <3>2
  <2>2. ASSUME v \in e.items, NEW i \in 1 .. (n + 1), Naming(g[i]),
               \A j \in (i + 1) .. (n + 1) : ~Naming(g[j])
        PROVE  v \in g[i].items
    <3>1. i = n + 1
      BY <1>1, <1>4, <2>2
    <3> QED BY <1>1, <2>2, <3>1
  <2>3. v \in e.items => Named(g, c, v)
    BY <1>2, <2>2
  <2> QED BY <1>4, <2>1, <2>3 DEF Naming, g
<1>5. CASE ~Naming(e)
  <2>1. ASSUME Named(g, c, v), NEW i \in 1 .. n, Naming(h[i]),
               \A j \in (i + 1) .. n : ~Naming(h[j])
        PROVE  v \in h[i].items
    <3>1. \A j \in (i + 1) .. (n + 1) : j = n + 1 \/ (j \in (i + 1) .. n /\ j \in 1 .. n)
      BY <1>1
    <3>2. \A j \in (i + 1) .. (n + 1) : ~Naming(g[j])
      BY <1>1, <1>5, <2>1, <3>1
    <3>3. i \in 1 .. (n + 1)
      BY <1>1
    <3> QED BY <1>1, <1>2, <2>1, <3>2, <3>3
  <2>2. ASSUME Named(h, c, v), NEW i \in 1 .. (n + 1), Naming(g[i]),
               \A j \in (i + 1) .. (n + 1) : ~Naming(g[j])
        PROVE  v \in g[i].items
    <3>1. i \in 1 .. n
      BY <1>1, <1>5, <2>2
    <3>2. \A j \in (i + 1) .. n : j \in 1 .. n /\ j \in (i + 1) .. (n + 1)
      BY <1>1, <3>1
    <3>3. \A j \in (i + 1) .. n : ~Naming(h[j])
      BY <1>1, <2>2, <3>2
    <3> QED BY <1>1, <1>3, <2>2, <3>1, <3>3
  <2> QED BY <1>2, <1>3, <1>5, <2>1, <2>2 DEF Naming, g
<1> QED BY <1>4, <1>5

\* Erasing the rows of other collections changes nothing that a row tells.
LEMMA ErasedTells ==
    ASSUME NEW h \in Seq(Journal), NEW kept, None \notin kept
    PROVE  LET g == [i \in DOMAIN h |-> IF h[i].of \in kept THEN h[i] ELSE Erased] IN
           /\ g \in Seq(Journal)
           /\ \A c \in kept : \A x : Told(g, c, x) <=> Told(h, c, x)
           /\ \A c \in kept : \A v : Named(g, c, v) <=> Named(h, c, v)
<1> DEFINE g == [i \in DOMAIN h |-> IF h[i].of \in kept THEN h[i] ELSE Erased]
           n == Len(h)
<1>1. n \in Nat /\ DOMAIN h = 1 .. n /\ \A i \in 1 .. n : h[i] \in Journal
  BY LenProperties, ElementOfSeq
<1>2. Erased \in Journal /\ Erased.of = None
  BY DEF Erased, Journal
<1>3. g \in [1 .. n -> Journal]
  BY <1>1, <1>2
<1>4. g \in Seq(Journal)
  BY <1>1, <1>3, SeqDef
<1>5. DOMAIN g = 1 .. n /\ Len(g) = n
  BY <1>1, <1>3, <1>4, LenProperties
<1>6. \A i \in 1 .. n : g[i] = IF h[i].of \in kept THEN h[i] ELSE Erased
  BY <1>1
<1> HIDE DEF g, n
<1>7. \A c \in kept : \A i \in 1 .. n :
         /\ g[i].of = c <=> h[i].of = c
         /\ h[i].of = c => g[i] = h[i]
  BY <1>2, <1>6
<1>8. ASSUME NEW c \in kept, NEW x PROVE Told(g, c, x) <=> Told(h, c, x)
  <2>1. \A i \in 1 .. n : \A j \in (i + 1) .. n : j \in 1 .. n
    BY <1>1
  <2>2. Len(h) = n /\ DOMAIN h = 1 .. n
    BY <1>1 DEF n
  <2> QED BY <1>5, <1>7, <2>1, <2>2 DEF Told
<1>9. ASSUME NEW c \in kept, NEW v PROVE Named(g, c, v) <=> Named(h, c, v)
  <2>1. \A i \in 1 .. n : \A j \in (i + 1) .. n : j \in 1 .. n
    BY <1>1
  <2>2. Len(h) = n /\ DOMAIN h = 1 .. n
    BY <1>1 DEF n
  <2> QED BY <1>5, <1>7, <2>1, <2>2 DEF Named
<1> QED BY <1>4, <1>8, <1>9 DEF g

-----------------------------------------------------------------------------
(* Who waits stays right about what it read; who begins is right.            *)

LEMMA SessionKept ==
    ASSUME CurationInv, NEW s \in Sessions, clock' \in Nat, clock <= clock',
           \/ task'[s] = task[s]
           \/ /\ task'[s].at = "attested" /\ task[s].at \in Locking
              /\ task'[s].now = task[s].now
           \/ task'[s].at \notin {"curating"} \cup Locking,
           task'[s].at \in Locking => splits' = splits,
           issued \subseteq issued', \A r \in splits' \ splits : r.new \notin issued
    PROVE  Intends(s)' /\ Follows(s)'
<1>1. /\ Intends(s) /\ Follows(s) /\ clock \in Nat
      /\ \A r \in splits : r.at \in Nat
  BY DEF CurationInv, Divided, SplitStands
<1>2. Follows(s)'
  BY <1>1 DEF Follows, Locking
<1>3. CASE task'[s].at = "curating"
  <2>1. task'[s] = task[s]
    BY <1>3 DEF Locking
  <2>2. \A r \in splits' : r \in splits \/ r.new \notin issued
    OBVIOUS
  <2>3. task[s].now \in Nat /\ task[s].now < clock /\ task[s].now < clock'
    BY <1>1, <1>3, <2>1 DEF Intends
  <2>4. ASSUME task[s].op \in Kinship
        PROVE  \E p, q \in issued' :
                  /\ task[s].of = <<p, q>>
                  /\ \A r \in splits' : r.new \in {p, q} => task[s].now > r.at
    <3>1. PICK p \in issued, q \in issued :
            /\ task[s].of = <<p, q>>
            /\ \A r \in splits : r.new \in {p, q} => task[s].now > r.at
      BY <1>1, <1>3, <2>1, <2>4 DEF Intends
    <3> QED BY <2>2, <3>1
  <2>5. ASSUME task[s].op \in Membership
        PROVE  /\ task[s].items \subseteq IF task[s].of \in Events THEN Files ELSE issued'
               /\ \A r \in splits' : task[s].of \notin Events /\ r.new \in task[s].items =>
                     task[s].now > r.at
    BY <1>1, <1>3, <2>1, <2>2, <2>5 DEF Intends
  <2>6. /\ task[s].op \in Membership \cup {"label"} => task[s].of \in Collections
        /\ task[s].op = "label" => \E v \in Labels : task[s].items = {v}
        /\ task[s].op = "forget" => task[s].photos \subseteq Photos
    BY <1>1, <1>3, <2>1 DEF Intends
  <2> QED BY <1>2, <2>1, <2>3, <2>4, <2>5, <2>6 DEF Intends
<1>4. CASE task'[s].at # "curating"
  BY <1>2, <1>4 DEF Intends
<1> QED BY <1>2, <1>3, <1>4

\* What is checked now is later than every split there is.
LEMMA SessionStarts ==
    ASSUME CurationInv, NEW s \in Sessions, clock' = clock + 1,
           task'[s].at = "curating" /\ task'[s].now = clock,
           UNCHANGED <<splits, issued>>,
           task'[s].op \in Membership \cup {"label"} => task'[s].of \in Collections,
           task'[s].op \in Membership =>
              task'[s].items \subseteq IF task'[s].of \in Events THEN Files ELSE issued,
           task'[s].op = "label" => \E v \in Labels : task'[s].items = {v},
           task'[s].op = "forget" => task'[s].photos \subseteq Photos,
           task'[s].op \in Kinship => \E p, q \in issued : task'[s].of = <<p, q>>
    PROVE  Intends(s)' /\ Follows(s)'
<1>1. clock \in Nat /\ clock' \in Nat /\ clock < clock' /\ \A r \in splits' : clock > r.at
  BY DEF CurationInv, Divided, SplitStands
<1>2. Follows(s)'
  BY DEF Follows, Locking
<1> QED BY <1>1, <1>2 DEF Intends

-----------------------------------------------------------------------------
(* Steps that write nothing of what people curated.                          *)

\* A collection nobody wrote stands while its members have their Files.
LEMMA CollectionKept ==
    ASSUME NEW c, CollectionStands(c), Home(c) \in libs',
           members'[c] = members[c], shown'[c] = shown[c], label'[c] = label[c],
           \A x : Told(history', c, x) <=> Told(history, c, x),
           \A v : Named(history', c, v) <=> Named(history, c, v),
           \A x \in members[c] : Belongs(x, c)'
    PROVE  CollectionStands(c)'
BY DEF CollectionStands

\* A split stands while its Photos and their kin stay, and later rows are later.
LEMMA SplitKept ==
    ASSUME NEW r \in splits, SplitStands(r), clock' \in Nat, clock \in Nat, clock <= clock',
           UNCHANGED splits, recovered \subseteq recovered', issued \subseteq issued',
           \A e \in lineageLog' \ lineageLog : r.new \in {e.parent, e.child} => e.at > r.at,
           KinStays(r) => KinStays(r)'
    PROVE  SplitStands(r)'
BY DEF SplitStands

LEMMA NothingCurated ==
    ASSUME CurationInv, clock' \in Nat, clock <= clock',
           UNCHANGED <<identity, members, shown, label, history, kinship>>,
           \A s \in Sessions : Intends(s)' /\ Follows(s)'
    PROVE  CurationInv'
<1>1. UNCHANGED <<libs, photoOf, issued, splits, recovered, members, shown, label,
                  history, lineage, lineageLog>>
  BY DEF identity, kinship
<1>2. Journaled'
  BY <1>1 DEF CurationInv, Journaled, Stand, RowStands
<1>3. Collected'
  <2>1. \A x, c : Belongs(x, c) => Belongs(x, c)'
    BY <1>1 DEF Belongs, Represented, FilesOf, Rows
  <2>2. ASSUME NEW c \in DOMAIN members PROVE CollectionStands(c)'
    <3>1. CollectionStands(c)
      BY DEF CurationInv, Collected
    <3>2. Home(c) \in libs' /\ \A x \in members[c] : Belongs(x, c)'
      BY <1>1, <2>1, <3>1 DEF CollectionStands
    <3> QED BY <1>1, <3>1, <3>2, CollectionKept
  <2> QED BY <1>1, <2>2 DEF CurationInv, Collected
<1>4. Kindred'
  BY <1>1 DEF CurationInv, Kindred
<1>5. Divided'
  <2>1. \A r : KinStays(r) => KinStays(r)'
    BY <1>1 DEF KinStays
  <2>2. ASSUME NEW r \in splits PROVE SplitStands(r)'
    BY <1>1, <2>1, SplitKept DEF CurationInv, Divided
  <2> QED BY <1>1, <2>2 DEF CurationInv, Divided
<1> QED BY <1>2, <1>3, <1>4, <1>5 DEF CurationInv

\* One session moves on and the others wait.
LEMMA OneSession ==
    ASSUME Inv, CurationInv, NEW s \in Sessions, NEW t, task' = [task EXCEPT ![s] = t],
           clock' \in Nat, clock <= clock',
           issued \subseteq issued', \A r \in splits' \ splits : r.new \notin issued,
           splits' # splits => \A u \in Sessions \ {s} : task[u].at \notin Locking,
           Intends(s)' /\ Follows(s)'
    PROVE  \A u \in Sessions : Intends(u)' /\ Follows(u)'
<1> SUFFICES ASSUME NEW u \in Sessions, u # s PROVE Intends(u)' /\ Follows(u)'
  OBVIOUS
<1>1. task'[u] = task[u]
  BY DEF Inv, Shape
<1> QED BY <1>1, SessionKept

\* Who is neither curating nor executing intends nothing.
LEMMA Unbound ==
    ASSUME NEW s \in Sessions, task'[s].at \notin {"curating"} \cup Locking
    PROVE  Intends(s)' /\ Follows(s)'
BY DEF Intends, Follows

LEMMA ReadingCur ==
    ASSUME Inv, CurationInv, NEW s \in Sessions,
           Review(s) \/ ReviewSuggestion(s) \/ Abandon(s)
    PROVE  CurationInv'
<1>1. PICK t : task' = [task EXCEPT ![s] = t] /\ t.at \in {"reviewed", "suggested", "idle"}
  <2>1. CASE Review(s)
    <3>1. PICK x \in Plans : task' = [task EXCEPT ![s] =
            [at |-> "reviewed", plan |-> x, print |-> Fingerprint(x)]]
      BY <2>1 DEF Review
    <3>2. [at |-> "reviewed", plan |-> x, print |-> Fingerprint(x)].at = "reviewed"
      OBVIOUS
    <3> QED BY <3>1, <3>2, Zenon
  <2>2. CASE ReviewSuggestion(s)
    <3>1. PICK x : task' = [task EXCEPT ![s] = [at |-> "suggested", plan |-> x]]
      BY <2>2 DEF ReviewSuggestion
    <3>2. [at |-> "suggested", plan |-> x].at = "suggested"
      OBVIOUS
    <3> QED BY <3>1, <3>2, Zenon
  <2>3. CASE Abandon(s)
    <3>1. Idle.at = "idle"
      BY DEF Idle
    <3> QED BY <2>3, <3>1, Zenon DEF Abandon
  <2> QED BY <2>1, <2>2, <2>3
<1>2. UNCHANGED <<identity, curated, clock>>
  BY DEF Review, ReviewSuggestion, Abandon
<1>3. task'[s] = t
  BY <1>1, TaskAt
<1>4. Intends(s)' /\ Follows(s)'
  BY <1>1, <1>3, Unbound DEF Locking
<1>5. UNCHANGED <<issued, splits>> /\ clock' \in Nat /\ clock <= clock'
  BY <1>2 DEF identity, CurationInv
<1>6. \A u \in Sessions : Intends(u)' /\ Follows(u)'
  BY <1>1, <1>4, <1>5, OneSession
<1> QED BY <1>2, <1>5, <1>6, NothingCurated DEF curated

LEMMA BeginCur == ASSUME Inv, CurationInv, NEW s \in Sessions, Begin(s) PROVE CurationInv'
<1> DEFINE t == [at |-> "begun", plan |-> task[s].plan, print |-> task[s].print, now |-> clock]
<1>1. /\ task' = [task EXCEPT ![s] = t] /\ clock' = clock + 1
      /\ UNCHANGED <<identity, curated>>
  BY DEF Begin
<1>2. task'[s].at = "begun" /\ task'[s].now = clock
  <2>1. task'[s] = t
    BY <1>1, TaskAt, Zenon
  <2> QED BY <2>1
<1>3. /\ UNCHANGED <<issued, splits>> /\ clock \in Nat /\ clock' \in Nat /\ clock < clock'
      /\ clock <= clock' /\ \A r \in splits' : r.at < clock
  BY <1>1 DEF identity, CurationInv, Divided, SplitStands
<1>4. Intends(s)' /\ Follows(s)'
  BY <1>2, <1>3 DEF Intends, Follows
<1>5. \A u \in Sessions : Intends(u)' /\ Follows(u)'
  BY <1>1, <1>3, <1>4, OneSession
<1> QED BY <1>1, <1>3, <1>5, NothingCurated DEF curated

LEMMA ReattestCur == ASSUME Inv, CurationInv, NEW s \in Sessions, Reattest(s) PROVE CurationInv'
<1> DEFINE t == [at |-> "attested", plan |-> task[s].plan, print |-> task[s].print,
                 now |-> task[s].now, late |-> {}]
<1>1. /\ task[s].at = "begun" /\ task' = [task EXCEPT ![s] = t]
      /\ UNCHANGED <<identity, curated, clock>>
  BY DEF Reattest
<1>2. task'[s].at = "attested" /\ task'[s].now = task[s].now
  <2>1. task'[s] = t
    BY <1>1, TaskAt, Zenon
  <2> QED BY <2>1
<1>3. UNCHANGED <<issued, splits>> /\ clock' \in Nat /\ clock <= clock'
  BY <1>1 DEF identity, CurationInv
<1>4. Intends(s)' /\ Follows(s)'
  BY <1>1, <1>2, <1>3, SessionKept DEF Locking
<1>5. \A u \in Sessions : Intends(u)' /\ Follows(u)'
  BY <1>1, <1>3, <1>4, OneSession
<1> QED BY <1>1, <1>3, <1>5, NothingCurated DEF curated

\* Other programs, Verify, adoption, proposals.
LEMMA ElsewhereCur ==
    ASSUME Inv, CurationInv,
           Edit \/ UNCHANGED vars \/ \E f \in Files : Verify(f) \/ Adopt(f) \/ Propose(f)
    PROVE  CurationInv'
<1>1. UNCHANGED <<identity, curated, clock>>
  BY DEF Edit, Verify, Adopt, Propose, vars
<1>2. UNCHANGED <<issued, splits>> /\ clock' \in Nat /\ clock <= clock'
  BY <1>1 DEF identity, CurationInv
<1>3. ASSUME NEW u \in Sessions
      PROVE  \/ task'[u] = task[u]
             \/ /\ task'[u].at = "attested" /\ task[u].at \in Locking
                /\ task'[u].now = task[u].now
  <2>1. CASE Edit
    <3>1. PICK g \in Files : task' = [s \in Sessions |->
             IF task[s].at = "attested" THEN [task[s] EXCEPT !.late = @ \cup {g}] ELSE task[s]]
      BY <2>1 DEF Edit
    <3>2. CASE task[u].at = "attested"
      <4>1. task[u] \in [at : {"attested"}, plan : {task[u].plan}, print : {task[u].print},
                         now : {task[u].now}, late : SUBSET Files]
        BY <3>2 DEF Inv, Attests
      <4>2. task'[u] = [task[u] EXCEPT !.late = @ \cup {g}]
        BY <3>1, <3>2
      <4> QED BY <3>2, <4>1, <4>2 DEF Locking
    <3>3. CASE task[u].at # "attested"
      BY <3>1, <3>3
    <3> QED BY <3>2, <3>3
  <2>2. CASE ~Edit
    BY <2>2 DEF Verify, Adopt, Propose, vars
  <2> QED BY <2>1, <2>2
<1>4. \A u \in Sessions : Intends(u)' /\ Follows(u)'
  BY <1>2, <1>3, SessionKept
<1> QED BY <1>1, <1>2, <1>4, NothingCurated DEF curated

\* A member of a shelf is a Photo that is there.
LEMMA ShelvedIsThere ==
    ASSUME Inv, CurationInv, NEW c \in DOMAIN members, c \notin Events, NEW x \in members[c]
    PROVE  x \in photos /\ x \in issued
<1>1. x \in Photos /\ \E f \in Files : photoOf[f] = x
  BY DEF CurationInv, Collected, CollectionStands, Belongs, Represented, FilesOf
<1>2. x # None
  BY <1>1
<1> QED BY <1>1, <1>2 DEF Inv, Shape, NoGhostPhoto, Rows

LEMMA BackedIsThere ==
    ASSUME Inv, NEW c, c \notin Events, NEW x \in Photos, Belongs(x, c)
    PROVE  x \in photos
BY DEF Belongs, Represented, FilesOf, Inv, Shape, NoGhostPhoto, Rows

LEMMA StartCur ==
    ASSUME Inv, CurationInv, NEW s \in Sessions, NEW t, Start(s, t),
           t.at = "curating" /\ t.now = clock,
           t.op \in Membership \cup {"label"} => t.of \in Collections,
           t.op \in Membership => t.items \subseteq IF t.of \in Events THEN Files ELSE issued,
           t.op = "label" => \E v \in Labels : t.items = {v},
           t.op = "forget" => t.photos \subseteq Photos,
           t.op \in Kinship => \E p, q \in issued : t.of = <<p, q>>
    PROVE  CurationInv'
<1>1. task' = [task EXCEPT ![s] = t] /\ clock' = clock + 1 /\ UNCHANGED <<identity, curated>>
  BY DEF Start
<1>2. task'[s] = t
  BY <1>1, TaskAt
<1>3. /\ UNCHANGED <<issued, splits>> /\ clock' \in Nat /\ clock <= clock'
  BY <1>1 DEF identity, CurationInv
<1>4. Intends(s)' /\ Follows(s)'
  BY <1>1, <1>2, <1>3, SessionStarts
<1>5. \A u \in Sessions : Intends(u)' /\ Follows(u)'
  BY <1>1, <1>3, <1>4, OneSession
<1> QED BY <1>1, <1>3, <1>5, NothingCurated DEF curated

LEMMA StartsCur ==
    ASSUME Inv, CurationInv, NEW s \in Sessions,
           \/ StartCreate(s) \/ StartAdd(s) \/ StartRemove(s) \/ StartLabel(s)
           \/ StartCover(s) \/ StartArrange(s) \/ StartReset(s) \/ StartRestore(s)
           \/ StartRelate(s) \/ StartUnrelate(s) \/ StartForget(s)
    PROVE  CurationInv'
<1>1. photos \subseteq issued /\ DOMAIN members \subseteq Collections
  BY DEF Inv, Shape, CurationInv, Collected
<1>2. \A op, c, items :
        LET t == Curating(op, c, items) IN
        t.at = "curating" /\ t.op = op /\ t.of = c /\ t.items = items /\ t.now = clock
  BY DEF Curating
<1>3. ASSUME NEW op, NEW c, NEW items, Start(s, Curating(op, c, items)),
             op # "forget", op \in Membership \cup {"label"} => c \in Collections,
             op \in Membership => items \subseteq IF c \in Events THEN Files ELSE issued,
             op = "label" => \E v \in Labels : items = {v},
             op \in Kinship => \E p, q \in issued : c = <<p, q>>
      PROVE  CurationInv'
  <2> DEFINE t == Curating(op, c, items)
  <2>1. t.at = "curating" /\ t.op = op /\ t.of = c /\ t.items = items /\ t.now = clock
    BY <1>2
  <2> HIDE DEF t
  <2>2. Start(s, t)
    BY <1>3 DEF t
  <2> QED BY <1>3, <2>1, <2>2, StartCur
<1>4. \A c : Candidates(c) \subseteq IF c \in Events THEN Files ELSE issued
  BY <1>1 DEF Candidates
<1>5. \A c \in DOMAIN members : members[c] \subseteq IF c \in Events THEN Files ELSE issued
  BY ShelvedIsThere DEF CurationInv, Collected, CollectionStands
<1>6. CASE StartCreate(s)
  <2>1. PICK c, seeds : /\ c \in Collections /\ seeds \subseteq Candidates(c)
                        /\ Start(s, Curating("create", c, seeds))
    <3>1. PICK c \in Collections :
            \E seeds \in IF c \in Events THEN SUBSET Candidates(c) \ {{}} ELSE {{}} :
                Start(s, Curating("create", c, seeds))
      BY <1>6 DEF StartCreate
    <3>2. PICK seeds \in IF c \in Events THEN SUBSET Candidates(c) \ {{}} ELSE {{}} :
            Start(s, Curating("create", c, seeds))
      BY <3>1
    <3>3. seeds \subseteq Candidates(c)
      BY <3>2
    <3> QED BY <3>2, <3>3
  <2>2. seeds \subseteq Candidates(c)
    BY <2>1
  <2>3. seeds \subseteq IF c \in Events THEN Files ELSE issued
    BY <1>4, <2>2
  <2> QED BY <1>3, <2>1, <2>3 DEF Membership, Kinship
<1>7. CASE StartAdd(s)
  <2>1. PICK c \in DOMAIN members : \E items \in SUBSET Candidates(c) :
          Start(s, Curating("add", c, items))
    BY <1>7 DEF StartAdd
  <2>2. PICK items \in SUBSET Candidates(c) : Start(s, Curating("add", c, items))
    BY <2>1
  <2>3. items \subseteq IF c \in Events THEN Files ELSE issued
    BY <1>4
  <2> QED BY <1>1, <1>3, <2>2, <2>3 DEF Membership, Kinship
<1>8. CASE StartRemove(s)
  <2>1. PICK c \in DOMAIN members : \E items \in SUBSET members[c] :
          Start(s, Curating("remove", c, items))
    BY <1>8 DEF StartRemove
  <2>2. PICK items \in SUBSET members[c] : Start(s, Curating("remove", c, items))
    BY <2>1
  <2>3. items \subseteq IF c \in Events THEN Files ELSE issued
    BY <1>5
  <2> QED BY <1>1, <1>3, <2>2, <2>3 DEF Membership, Kinship
<1>9. CASE StartLabel(s)
  <2>1. PICK c \in DOMAIN members, v \in Labels : Start(s, Curating("label", c, {v}))
    BY <1>9 DEF StartLabel
  <2> QED BY <1>1, <1>3, <2>1 DEF Membership, Kinship
<1>10. CASE StartRelate(s)
  <2>1. PICK p \in photos, q \in photos : Start(s, Curating("relate", <<p, q>>, {}))
    BY <1>10 DEF StartRelate
  <2>2. "relate" \notin Membership \cup {"label"}
    BY DEF Membership
  <2>3. \E i, j \in issued : <<p, q>> = <<i, j>>
    BY <1>1
  <2> QED BY <1>3, <2>1, <2>2, <2>3
<1>11. CASE StartUnrelate(s)
  <2>1. PICK e \in lineage : Start(s, Curating("unrelate", e, {}))
    BY <1>11 DEF StartUnrelate
  <2>2. \E p, q \in issued : e = <<p, q>>
    BY <2>1 DEF CurationInv, Kindred
  <2>3. "unrelate" \notin Membership \cup {"label"}
    BY DEF Membership
  <2> QED BY <1>3, <2>1, <2>2, <2>3
<1>12. CASE StartCover(s) \/ StartArrange(s) \/ StartReset(s) \/ StartRestore(s)
  <2>1. \E op \in {"cover", "arrange", "reset", "restore"} : \E c, items :
          Start(s, Curating(op, c, items))
    BY <1>12, Zenon DEF StartCover, StartArrange, StartReset, StartRestore
  <2>2. {"cover", "arrange", "reset", "restore"} \cap
           (Membership \cup Kinship \cup {"label"}) = {}
    BY DEF Membership, Kinship
  <2>3. PICK op, c, items : /\ op \in {"cover", "arrange", "reset", "restore"}
                            /\ Start(s, Curating(op, c, items))
    BY <2>1
  <2>4. op \notin Membership /\ op \notin Kinship /\ op # "label"
    BY <2>2, <2>3
  <2> QED BY <1>3, <2>3, <2>4
<1>13. CASE StartForget(s)
  <2>1. PICK t : /\ Start(s, t) /\ t.at = "curating" /\ t.op = "forget" /\ t.now = clock
                 /\ t.photos \subseteq Photos
    <3>1. PICK l \in libs :
            LET files == {f \in Rows : LibOf[f] = l}
            IN  Start(s, [at |-> "curating", op |-> "forget", of |-> l, items |-> files,
                          photos |-> {photoOf[f] : f \in files}, now |-> clock])
      BY <1>13 DEF StartForget
    <3> DEFINE t == [at |-> "curating", op |-> "forget", of |-> l,
                     items |-> {f \in Rows : LibOf[f] = l},
                     photos |-> {photoOf[f] : f \in {g \in Rows : LibOf[g] = l}}, now |-> clock]
    <3>2. /\ Start(s, t) /\ t.at = "curating" /\ t.op = "forget" /\ t.now = clock
          /\ t.photos = {photoOf[f] : f \in {g \in Rows : LibOf[g] = l}}
      BY <3>1
    <3>3. \A f \in Rows : photoOf[f] \in Photos
      BY DEF Rows, Inv, Shape
    <3> HIDE DEF t
    <3> QED BY <3>2, <3>3
  <2> QED BY <2>1, StartCur DEF Membership, Kinship
<1> QED BY <1>6, <1>7, <1>8, <1>9, <1>10, <1>11, <1>12, <1>13

-----------------------------------------------------------------------------
(* What a curation commits.                                                  *)

LEMMA StandAppended ==
    ASSUME NEW h, NEW D, Stand(h, D), NEW e \in Journal, e.of \in D, RowStands(e)
    PROVE  Stand(Append(h, e), D)
<1>1. h \in Seq(Journal)
  BY DEF Stand
<1>2. LET g == Append(h, e) IN
      /\ g \in Seq(Journal) /\ Len(h) \in Nat /\ DOMAIN h = 1 .. Len(h)
      /\ DOMAIN g = 1 .. (Len(h) + 1)
      /\ \A i \in DOMAIN h : g[i] = h[i]
      /\ g[Len(h) + 1] = e
  BY <1>1, Appended
<1>3. \A i \in 1 .. (Len(h) + 1) : i \in 1 .. Len(h) \/ i = Len(h) + 1
  BY <1>2
<1> QED BY <1>2, <1>3 DEF Stand

\* What a session set out to write makes a row that stands.
LEMMA EntryStands ==
    ASSUME Inv, CurationInv, NEW s \in Sessions, task[s].at = "curating",
           NEW act \in {"add", "remove", "label"},
           act # "label" => task[s].op \in Membership,
           act = "label" => task[s].op = "label"
    PROVE  /\ Entry(s, act) \in Journal /\ RowStands(Entry(s, act))
           /\ Entry(s, act).of = task[s].of /\ task[s].of \in Collections
           /\ Entry(s, act).act = act /\ Entry(s, act).items = task[s].items
<1> DEFINE e == Entry(s, act)
<1>1. e = [of |-> task[s].of, act |-> act, items |-> task[s].items, at |-> task[s].now]
  BY DEF Entry
<1>2. e.of = task[s].of /\ e.act = act /\ e.items = task[s].items /\ e.at = task[s].now
  BY <1>1
<1>3. /\ Intends(s) /\ issued \subseteq Photos
      /\ \A r \in splits : r.new \in Photos
  BY DEF CurationInv, Divided, SplitStands, Inv, Shape
<1>4. /\ task[s].now \in Nat
      /\ task[s].of \in Collections
  BY <1>3 DEF Intends
<1>5. CASE act = "label"
  <2>1. PICK v \in Labels : task[s].items = {v}
    BY <1>3, <1>5 DEF Intends
  <2>2. v \notin Photos
    BY CurationAssumption
  <2>3. RowStands(e)
    BY <1>2, <1>3, <2>1, <2>2 DEF RowStands
  <2>4. e \in Journal
    BY <1>1, <1>4, <2>1 DEF Journal
  <2> QED BY <1>2, <1>4, <2>3, <2>4
<1>6. CASE act # "label"
  <2>1. /\ task[s].items \subseteq IF task[s].of \in Events THEN Files ELSE issued
        /\ \A r \in splits : task[s].of \notin Events /\ r.new \in task[s].items =>
              task[s].now > r.at
    BY <1>3, <1>6 DEF Intends
  <2>2. task[s].items \subseteq Files \cup Photos
    BY <1>3, <2>1
  <2>3. RowStands(e)
    BY <1>2, <2>1 DEF RowStands
  <2>4. e \in Journal
    BY <1>1, <1>4, <2>2 DEF Journal
  <2> QED BY <1>2, <1>4, <2>3, <2>4
<1> QED BY <1>5, <1>6

\* A commit that writes one collection, and says so.
LEMMA CollectionWritten ==
    ASSUME Inv, CurationInv, NEW s \in Sessions, NEW c \in Collections,
           UNCHANGED <<identity, kinship>>, clock' \in Nat, clock <= clock',
           task' = [task EXCEPT ![s] = Idle],
           DOMAIN members' = DOMAIN members \cup {c},
           DOMAIN shown' = DOMAIN members', DOMAIN label' = DOMAIN members',
           \A d \in DOMAIN members \ {c} :
              /\ members'[d] = members[d] /\ shown'[d] = shown[d] /\ label'[d] = label[d]
              /\ \A x : Told(history', d, x) <=> Told(history, d, x)
              /\ \A v : Named(history', d, v) <=> Named(history, d, v),
           CollectionStands(c)', Journaled'
    PROVE  CurationInv'
<1>1. UNCHANGED <<libs, photoOf, issued, splits, recovered, lineage, lineageLog>>
  BY DEF identity, kinship
<1>2. Collected'
  <2>1. \A x, d : Belongs(x, d) => Belongs(x, d)'
    BY <1>1 DEF Belongs, Represented, FilesOf, Rows
  <2>2. ASSUME NEW d \in DOMAIN members \ {c} PROVE CollectionStands(d)'
    <3>1. CollectionStands(d)
      BY DEF CurationInv, Collected
    <3>2. Home(d) \in libs' /\ \A x \in members[d] : Belongs(x, d)'
      BY <1>1, <2>1, <3>1 DEF CollectionStands
    <3> QED BY <1>1, <3>1, <3>2, CollectionKept
  <2> QED BY <2>2 DEF CurationInv, Collected
<1>3. Kindred'
  BY <1>1 DEF CurationInv, Kindred
<1>4. Divided'
  <2>1. \A r : KinStays(r) => KinStays(r)'
    BY <1>1 DEF KinStays
  <2>2. ASSUME NEW r \in splits PROVE SplitStands(r)'
    BY <1>1, <2>1, SplitKept DEF CurationInv, Divided
  <2> QED BY <1>1, <2>2 DEF CurationInv, Divided
<1>5. \A u \in Sessions : Intends(u)' /\ Follows(u)'
  <2>1. task'[s] = Idle
    BY TaskAt
  <2>2. Intends(s)' /\ Follows(s)'
    BY <2>1, Unbound DEF Idle, Locking
  <2> QED BY <1>1, <2>2, OneSession
<1> QED BY <1>2, <1>3, <1>4, <1>5 DEF CurationInv

\* One audit row more: what it tells of its collection and of the others.
LEMMA OneRowMore ==
    ASSUME CurationInv, NEW e \in Journal, e.of \in DOMAIN members, RowStands(e),
           history' = Append(history, e), DOMAIN members' = DOMAIN members,
           UNCHANGED <<issued, splits>>
    PROVE  /\ Journaled'
           /\ \A d, x : Told(history', d, x) <=>
                 IF e.of = d /\ e.act \in {"add", "remove"} /\ x \in e.items
                 THEN e.act = "add" ELSE Told(history, d, x)
           /\ \A d, v : Named(history', d, v) <=>
                 IF e.of = d /\ e.act = "label" THEN v \in e.items ELSE Named(history, d, v)
<1>1. Stand(history, DOMAIN members) /\ history \in Seq(Journal)
  BY DEF CurationInv, Journaled, Stand
<1>2. Stand(history', DOMAIN members)
  BY <1>1, StandAppended
<1>3. Journaled'
  BY <1>2 DEF Journaled, Stand, RowStands
<1> QED BY <1>1, <1>3, ToldAppended, NamedAppended

\* What a commit of a collection finds.
LEMMA Found ==
    ASSUME Inv, CurationInv, NEW c \in DOMAIN members
    PROVE  /\ c \in Collections /\ CollectionStands(c)
           /\ c \in DOMAIN shown /\ c \in DOMAIN label
           /\ clock \in Nat /\ history \in Seq(Journal) /\ issued \subseteq Photos
           /\ DOMAIN shown = DOMAIN members /\ DOMAIN label = DOMAIN members
BY DEF CurationInv, Collected, Journaled, Stand, Inv, Shape

LEMMA Finished ==
    ASSUME Inv, CurationInv, NEW s \in Sessions, Finish(s), UNCHANGED identity
    PROVE  /\ task' = [task EXCEPT ![s] = Idle] /\ clock' \in Nat /\ clock <= clock'
           /\ UNCHANGED <<libs, photoOf, issued, splits>>
BY DEF Finish, CurationInv, identity

\* A row about a collection, and the collection as the row tells.
LEMMA RowWritten ==
    ASSUME Inv, CurationInv, NEW s \in Sessions, NEW c \in DOMAIN members,
           NEW e \in Journal, e.of = c, RowStands(e), history' = Append(history, e),
           UNCHANGED <<identity, kinship>>, clock' \in Nat, clock <= clock',
           task' = [task EXCEPT ![s] = Idle],
           DOMAIN members' = DOMAIN members, DOMAIN shown' = DOMAIN shown,
           DOMAIN label' = DOMAIN label,
           \A d \in DOMAIN members \ {c} :
              members'[d] = members[d] /\ shown'[d] = shown[d] /\ label'[d] = label[d],
           members'[c] \subseteq IF c \in Events THEN Files ELSE Photos,
           \A x \in members'[c] : Belongs(x, c),
           shown'[c] = [cover |-> shown'[c].cover, order |-> shown'[c].order],
           shown'[c].cover \in members'[c] \cup {None},
           \A x \in Files \cup Photos : x \in members'[c] <=>
              IF e.act \in {"add", "remove"} /\ x \in e.items
              THEN e.act = "add" ELSE x \in members[c],
           IF e.act = "label" THEN label'[c] \in e.items ELSE label'[c] = label[c]
    PROVE  CurationInv'
<1>1. /\ c \in Collections /\ CollectionStands(c)
      /\ DOMAIN shown = DOMAIN members /\ DOMAIN label = DOMAIN members
      /\ UNCHANGED <<libs, photoOf, issued, splits>>
  BY Found DEF identity
<1>2. /\ Journaled'
      /\ \A d, x : Told(history', d, x) <=>
            IF e.of = d /\ e.act \in {"add", "remove"} /\ x \in e.items
            THEN e.act = "add" ELSE Told(history, d, x)
      /\ \A d, v : Named(history', d, v) <=>
            IF e.of = d /\ e.act = "label" THEN v \in e.items ELSE Named(history, d, v)
  BY <1>1, OneRowMore
<1>3. CollectionStands(c)'
  <2>1. \A x : Belongs(x, c) => Belongs(x, c)'
    BY <1>1 DEF Belongs, Represented, FilesOf, Rows
  <2>2. Home(c) \in libs'
    BY <1>1 DEF CollectionStands
  <2>3. \A x \in Files \cup Photos : x \in members'[c] <=> Told(history', c, x)
    BY <1>1, <1>2 DEF CollectionStands
  <2>4. Named(history', c, label'[c])
    BY <1>1, <1>2 DEF CollectionStands
  <2> QED BY <2>1, <2>2, <2>3, <2>4 DEF CollectionStands
<1>4. \A d \in DOMAIN members \ {c} :
         /\ \A x : Told(history', d, x) <=> Told(history, d, x)
         /\ \A v : Named(history', d, v) <=> Named(history, d, v)
  BY <1>2
<1>5. DOMAIN members' = DOMAIN members \cup {c}
  OBVIOUS
<1>6. DOMAIN shown' = DOMAIN members' /\ DOMAIN label' = DOMAIN members'
  BY <1>1
<1>7. \A d \in DOMAIN members \ {c} :
         /\ members'[d] = members[d] /\ shown'[d] = shown[d] /\ label'[d] = label[d]
         /\ \A x : Told(history', d, x) <=> Told(history, d, x)
         /\ \A v : Named(history', d, v) <=> Named(history, d, v)
  BY <1>4
<1>8. Journaled'
  BY <1>2
<1> QED BY <1>1, <1>3, <1>5, <1>6, <1>7, <1>8, CollectionWritten, ZenonT(40)

\* What is shown may change by itself.
LEMMA ShownWritten ==
    ASSUME Inv, CurationInv, NEW s \in Sessions, NEW c \in DOMAIN members,
           UNCHANGED <<identity, kinship, members, label, history>>, Finish(s),
           DOMAIN shown' = DOMAIN shown, \A d \in DOMAIN members \ {c} : shown'[d] = shown[d],
           shown'[c] = [cover |-> shown'[c].cover, order |-> shown'[c].order],
           shown'[c].cover \in members[c] \cup {None}
    PROVE  CurationInv'
<1>1. /\ c \in Collections /\ CollectionStands(c)
      /\ DOMAIN shown = DOMAIN members /\ DOMAIN label = DOMAIN members
      /\ UNCHANGED <<libs, photoOf, issued, splits>>
  BY Found DEF identity
<1>2. task' = [task EXCEPT ![s] = Idle] /\ clock' \in Nat /\ clock <= clock'
  BY Finished
<1>3. Journaled'
  BY <1>1 DEF CurationInv, Journaled, Stand, RowStands
<1>4. CollectionStands(c)'
  <2>1. \A x : Belongs(x, c) => Belongs(x, c)'
    BY <1>1 DEF Belongs, Represented, FilesOf, Rows
  <2> QED BY <1>1, <2>1 DEF CollectionStands
<1>5. DOMAIN members' = DOMAIN members \cup {c}
  OBVIOUS
<1> QED BY <1>1, <1>2, <1>3, <1>4, <1>5, CollectionWritten

\* A cover and an order are a record.
LEMMA PlainShown ==
    ASSUME NEW c, CollectionStands(c)
    PROVE  /\ \A v : [shown[c] EXCEPT !.order = v] = [cover |-> shown[c].cover, order |-> v]
           /\ \A v : [shown[c] EXCEPT !.cover = v] = [cover |-> v, order |-> shown[c].order]
           /\ \A gone : None \notin gone =>
                 LET t == ShownWithout(c, gone) IN
                 /\ t = [cover |-> t.cover, order |-> t.order]
                 /\ t.cover \in (members[c] \ gone) \cup {None}
<1>1. /\ shown[c] = [cover |-> shown[c].cover, order |-> shown[c].order]
      /\ shown[c].cover \in members[c] \cup {None}
  BY DEF CollectionStands
<1>2. \A a, b, v : /\ [[cover |-> a, order |-> b] EXCEPT !.order = v] = [cover |-> a, order |-> v]
                   /\ [[cover |-> a, order |-> b] EXCEPT !.cover = v] = [cover |-> v, order |-> b]
  OBVIOUS
<1>3. ASSUME NEW gone, None \notin gone
      PROVE  LET t == ShownWithout(c, gone) IN
             /\ t = [cover |-> t.cover, order |-> t.order]
             /\ t.cover \in (members[c] \ gone) \cup {None}
  <2>1. CASE members[c] \cap gone = {}
    BY <1>1, <2>1 DEF ShownWithout
  <2>2. CASE members[c] \cap gone # {}
    <3> DEFINE w == IF shown[c].cover \in gone THEN None ELSE shown[c].cover
    <3>1. w \in (members[c] \ gone) \cup {None}
      BY <1>1
    <3>2. ShownWithout(c, gone) = [cover |-> w, order |-> None]
      BY <1>2, <2>2 DEF ShownWithout, Plain
    <3> HIDE DEF w
    <3> QED BY <3>1, <3>2
  <2> QED BY <2>1, <2>2
<1> QED BY <1>1, <1>2, <1>3

LEMMA CommitAddCur ==
    ASSUME Inv, CurationInv, NEW s \in Sessions, CommitAdd(s) PROVE CurationInv'
<1>0. PICK c, items, e : c = task[s].of /\ items = task[s].items /\ e = Entry(s, "add")
  OBVIOUS
<1>1. /\ task[s].at = "curating" /\ task[s].op = "add" /\ c \in DOMAIN members
      /\ \A x \in items : Belongs(x, c)
      /\ members' = [members EXCEPT ![c] = @ \cup items]
      /\ shown' = [shown EXCEPT ![c].order = None]
      /\ history' = Append(history, e)
      /\ Finish(s) /\ UNCHANGED <<identity, label, kinship>>
  BY <1>0 DEF CommitAdd, Writing, Exists
<1>2. e \in Journal /\ RowStands(e) /\ e.of = c /\ e.act = "add" /\ e.items = items
  BY <1>0, <1>1, EntryStands DEF Membership
<1>3. /\ CollectionStands(c) /\ issued \subseteq Photos
      /\ DOMAIN shown = DOMAIN members
  BY <1>1, Found
<1>4. items \subseteq IF c \in Events THEN Files ELSE Photos
  BY <1>0, <1>1, <1>3 DEF CurationInv, Intends, Membership
<1>5. task' = [task EXCEPT ![s] = Idle] /\ clock' \in Nat /\ clock <= clock'
  BY <1>1, Finished
<1>6. /\ DOMAIN members' = DOMAIN members /\ DOMAIN shown' = DOMAIN shown
      /\ members'[c] = members[c] \cup items
      /\ \A d \in DOMAIN members \ {c} : members'[d] = members[d] /\ shown'[d] = shown[d]
  BY <1>1, <1>3
<1>7. shown'[c] = [cover |-> shown[c].cover, order |-> None]
  BY <1>1, <1>3, PlainShown
<1>8. /\ shown'[c] = [cover |-> shown'[c].cover, order |-> shown'[c].order]
      /\ shown'[c].cover \in members'[c] \cup {None}
  BY <1>3, <1>6, <1>7 DEF CollectionStands
<1>9. members'[c] \subseteq IF c \in Events THEN Files ELSE Photos
  BY <1>3, <1>4, <1>6 DEF CollectionStands
<1>10. \A x \in members'[c] : Belongs(x, c)
  BY <1>1, <1>3, <1>6 DEF CollectionStands
<1>11. /\ UNCHANGED <<identity, kinship>> /\ DOMAIN label' = DOMAIN label
       /\ c \in DOMAIN members /\ history' = Append(history, e)
       /\ \A d \in DOMAIN members \ {c} :
             members'[d] = members[d] /\ shown'[d] = shown[d] /\ label'[d] = label[d]
       /\ IF e.act = "label" THEN label'[c] \in e.items ELSE label'[c] = label[c]
       /\ \A x \in Files \cup Photos : x \in members'[c] <=>
             IF e.act \in {"add", "remove"} /\ x \in e.items
             THEN e.act = "add" ELSE x \in members[c]
  BY <1>1, <1>2, <1>6
<1>12. DOMAIN members' = DOMAIN members /\ DOMAIN shown' = DOMAIN shown
  BY <1>6
<1> QED BY <1>2, <1>5, <1>8, <1>9, <1>10, <1>11, <1>12, RowWritten

LEMMA CommitRemoveCur ==
    ASSUME Inv, CurationInv, NEW s \in Sessions, CommitRemove(s) PROVE CurationInv'
<1>0. PICK c, items, e : c = task[s].of /\ items = task[s].items /\ e = Entry(s, "remove")
  OBVIOUS
<1>1. /\ task[s].at = "curating" /\ task[s].op = "remove" /\ c \in DOMAIN members
      /\ members' = [members EXCEPT ![c] = @ \ items]
      /\ shown' = [shown EXCEPT ![c] = ShownWithout(c, items)]
      /\ history' = Append(history, e)
      /\ Finish(s) /\ UNCHANGED <<identity, label, kinship>>
  BY <1>0 DEF CommitRemove, Writing, Exists
<1>2. e \in Journal /\ RowStands(e) /\ e.of = c /\ e.act = "remove" /\ e.items = items
  BY <1>0, <1>1, EntryStands DEF Membership
<1>3. /\ CollectionStands(c) /\ issued \subseteq Photos
      /\ DOMAIN shown = DOMAIN members
  BY <1>1, Found
<1>4. None \notin items
  BY <1>0, <1>1, <1>3 DEF CurationInv, Intends, Membership
<1>5. task' = [task EXCEPT ![s] = Idle] /\ clock' \in Nat /\ clock <= clock'
  BY <1>1, Finished
<1>6. /\ DOMAIN members' = DOMAIN members /\ DOMAIN shown' = DOMAIN shown
      /\ members'[c] = members[c] \ items /\ shown'[c] = ShownWithout(c, items)
      /\ \A d \in DOMAIN members \ {c} : members'[d] = members[d] /\ shown'[d] = shown[d]
  BY <1>1, <1>3
<1>7. /\ shown'[c] = [cover |-> shown'[c].cover, order |-> shown'[c].order]
      /\ shown'[c].cover \in members'[c] \cup {None}
  BY <1>3, <1>4, <1>6, PlainShown
<1>8. /\ members'[c] \subseteq IF c \in Events THEN Files ELSE Photos
      /\ \A x \in members'[c] : Belongs(x, c)
  BY <1>3, <1>6 DEF CollectionStands
<1>9. /\ UNCHANGED <<identity, kinship>> /\ DOMAIN label' = DOMAIN label
      /\ c \in DOMAIN members /\ history' = Append(history, e)
      /\ \A d \in DOMAIN members \ {c} :
            members'[d] = members[d] /\ shown'[d] = shown[d] /\ label'[d] = label[d]
      /\ IF e.act = "label" THEN label'[c] \in e.items ELSE label'[c] = label[c]
      /\ \A x \in Files \cup Photos : x \in members'[c] <=>
            IF e.act \in {"add", "remove"} /\ x \in e.items
            THEN e.act = "add" ELSE x \in members[c]
  BY <1>1, <1>2, <1>6
<1>10. DOMAIN members' = DOMAIN members /\ DOMAIN shown' = DOMAIN shown
  BY <1>6
<1> QED BY <1>2, <1>5, <1>7, <1>8, <1>9, <1>10, RowWritten

LEMMA CommitLabelCur ==
    ASSUME Inv, CurationInv, NEW s \in Sessions, CommitLabel(s) PROVE CurationInv'
<1>0. PICK c, items, e : c = task[s].of /\ items = task[s].items /\ e = Entry(s, "label")
  OBVIOUS
<1>1. PICK v \in items :
        /\ task[s].at = "curating" /\ task[s].op = "label" /\ c \in DOMAIN members
        /\ label' = [label EXCEPT ![c] = v]
        /\ history' = Append(history, e)
        /\ Finish(s) /\ UNCHANGED <<identity, members, shown, kinship>>
  BY <1>0 DEF CommitLabel, Writing, Exists
<1>2. e \in Journal /\ RowStands(e) /\ e.of = c /\ e.act = "label" /\ e.items = items
  BY <1>0, <1>1, EntryStands
<1>3. CollectionStands(c) /\ DOMAIN label = DOMAIN members
  BY <1>1, Found
<1>4. task' = [task EXCEPT ![s] = Idle] /\ clock' \in Nat /\ clock <= clock'
  BY <1>1, Finished
<1>5. /\ DOMAIN label' = DOMAIN label /\ label'[c] = v
      /\ \A d \in DOMAIN members \ {c} : label'[d] = label[d]
  BY <1>1, <1>3
<1> QED BY <1>1, <1>2, <1>3, <1>4, <1>5, RowWritten DEF CollectionStands

LEMMA CommitShownCur ==
    ASSUME Inv, CurationInv, NEW s \in Sessions,
           CommitCover(s) \/ CommitArrange(s) \/ CommitReset(s)
    PROVE  CurationInv'
<1>0. PICK c : c = task[s].of
  OBVIOUS
<1>1. /\ c \in DOMAIN members /\ Finish(s)
      /\ UNCHANGED <<identity, members, label, history, kinship>>
  BY <1>0 DEF CommitCover, CommitArrange, CommitReset, Exists
<1>2. CollectionStands(c) /\ DOMAIN shown = DOMAIN members
  BY <1>1, Found
<1>3. PICK t : /\ shown' = [shown EXCEPT ![c] = t]
               /\ t = [cover |-> t.cover, order |-> t.order]
               /\ t.cover \in members[c] \cup {None}
  <2>1. CASE CommitCover(s)
    <3>1. PICK x \in members[c] \cup {None} : shown' = [shown EXCEPT ![c].cover = x]
      BY <1>0, <2>1 DEF CommitCover
    <3>2. shown' = [shown EXCEPT ![c] = [shown[c] EXCEPT !.cover = x]]
      BY <3>1
    <3>3. [shown[c] EXCEPT !.cover = x] = [cover |-> x, order |-> shown[c].order]
      BY <1>2, PlainShown
    <3> QED BY <3>1, <3>2, <3>3
  <2>2. CASE CommitArrange(s)
    <3>1. PICK x : shown' = [shown EXCEPT ![c].order = x]
      BY <1>0, <2>2 DEF CommitArrange
    <3>2. shown' = [shown EXCEPT ![c] = [shown[c] EXCEPT !.order = x]]
      BY <3>1
    <3>3. [shown[c] EXCEPT !.order = x] = [cover |-> shown[c].cover, order |-> x]
      BY <1>2, PlainShown
    <3> QED BY <1>2, <3>1, <3>2, <3>3 DEF CollectionStands
  <2>3. CASE CommitReset(s)
    <3>1. shown' = [shown EXCEPT ![c] = Plain]
      BY <1>0, <2>3 DEF CommitReset
    <3>2. Plain = [cover |-> Plain.cover, order |-> Plain.order] /\ Plain.cover = None
      BY DEF Plain
    <3> QED BY <3>1, <3>2
  <2> QED BY <2>1, <2>2, <2>3
<1>4. /\ DOMAIN shown' = DOMAIN shown /\ shown'[c] = t
      /\ \A d \in DOMAIN members \ {c} : shown'[d] = shown[d]
  BY <1>1, <1>2, <1>3
<1> QED BY <1>1, <1>3, <1>4, ShownWritten

LEMMA PeersArePhotos ==
    ASSUME Inv, CurationInv, NEW g \in (Albums \cup Events) \cap DOMAIN members
    PROVE  Peers(g) \subseteq Photos
<1>1. CollectionStands(g)
  BY Found
<1>2. CASE g \in Events
  <2>1. \A f \in members[g] : f \in Rows
    BY <1>1, <1>2 DEF CollectionStands, Belongs
  <2>2. \A f \in Rows : photoOf[f] \in Photos
    BY DEF Rows, Inv, Shape
  <2> QED BY <1>2, <2>1, <2>2 DEF Peers
<1>3. CASE g \notin Events
  BY <1>1, <1>3 DEF CollectionStands, Peers
<1> QED BY <1>2, <1>3

LEMMA ApplyCur ==
    ASSUME Inv, CurationInv, NEW s \in Sessions, ApplySuggestion(s) PROVE CurationInv'
<1>1. PICK x \in Suggested :
        /\ \A p \in x.targets : Belongs(p, x.tag)
        /\ members' = [members EXCEPT ![x.tag] = @ \cup x.targets]
        /\ history' = Append(history, [of |-> x.tag, act |-> "add", items |-> x.targets, at |-> clock])
        /\ task' = [task EXCEPT ![s] = Idle] /\ clock' = clock + 1
        /\ UNCHANGED <<identity, shown, label, kinship>>
  BY DEF ApplySuggestion
<1>2. PICK c \in Tags \cap DOMAIN members, g \in (Albums \cup Events) \cap DOMAIN members :
        x = [tag |-> c, group |-> g, peers |-> Peers(g), targets |-> Peers(g) \ members[c]]
  BY DEF Suggested
<1>3. PICK items : items = x.targets /\ items = Peers(g) \ members[c] /\ x.tag = c
  BY <1>2
<1>4. PICK e : e = [of |-> c, act |-> "add", items |-> items, at |-> clock]
  OBVIOUS
<1>5. e.of = c /\ e.act = "add" /\ e.items = items /\ e.at = clock
  BY <1>4
<1>6. /\ CollectionStands(c) /\ c \in Collections /\ c \notin Events /\ clock \in Nat
      /\ DOMAIN shown = DOMAIN members /\ photos \subseteq issued
  BY <1>2, Found DEF Shelves, Collections, Inv, Shape
<1>7. items \subseteq Photos
  BY <1>3, PeersArePhotos
<1>8. items \subseteq issued
  BY <1>1, <1>3, <1>6, <1>7, BackedIsThere
<1>9. e \in Journal
  BY <1>4, <1>6, <1>7 DEF Journal
<1>10. RowStands(e)
  BY <1>5, <1>8 DEF RowStands, CurationInv, Divided, SplitStands
<1>11. clock' \in Nat /\ clock <= clock' /\ task' = [task EXCEPT ![s] = Idle]
  BY <1>1, <1>6
<1>12. /\ DOMAIN members' = DOMAIN members /\ members'[c] = members[c] \cup items
       /\ \A d \in DOMAIN members \ {c} : members'[d] = members[d]
  BY <1>1, <1>2, <1>3
<1>13. /\ UNCHANGED <<identity, kinship>> /\ history' = Append(history, e)
       /\ DOMAIN shown' = DOMAIN shown /\ DOMAIN label' = DOMAIN label
       /\ \A d \in DOMAIN members \ {c} :
             members'[d] = members[d] /\ shown'[d] = shown[d] /\ label'[d] = label[d]
       /\ IF e.act = "label" THEN label'[c] \in e.items ELSE label'[c] = label[c]
       /\ \A y \in Files \cup Photos : y \in members'[c] <=>
             IF e.act \in {"add", "remove"} /\ y \in e.items
             THEN e.act = "add" ELSE y \in members[c]
  BY <1>1, <1>3, <1>4, <1>5, <1>12
<1>14. /\ members'[c] \subseteq IF c \in Events THEN Files ELSE Photos
       /\ \A y \in members'[c] : Belongs(y, c)
       /\ shown'[c] = [cover |-> shown'[c].cover, order |-> shown'[c].order]
       /\ shown'[c].cover \in members'[c] \cup {None}
  BY <1>1, <1>3, <1>6, <1>7, <1>12 DEF CollectionStands
<1> QED BY <1>2, <1>5, <1>9, <1>10, <1>11, <1>12, <1>13, <1>14, RowWritten

\* A dismissal and its restoring touch no collection.
LEMMA VerdictCur ==
    ASSUME Inv, CurationInv, NEW s \in Sessions, DismissSuggestion(s) \/ CommitRestore(s)
    PROVE  CurationInv'
<1>1. /\ task' = [task EXCEPT ![s] = Idle] /\ clock' \in {clock, clock + 1}
      /\ UNCHANGED <<identity, members, shown, label, history, kinship>>
  BY DEF DismissSuggestion, CommitRestore, Finish
<1>2. UNCHANGED <<issued, splits>> /\ clock' \in Nat /\ clock <= clock'
  BY <1>1 DEF identity, CurationInv
<1>3. task'[s] = Idle
  BY <1>1, TaskAt
<1>4. Intends(s)' /\ Follows(s)'
  BY <1>3, Unbound DEF Idle, Locking
<1>5. \A u \in Sessions : Intends(u)' /\ Follows(u)'
  BY <1>1, <1>2, <1>4, OneSession
<1> QED BY <1>1, <1>2, <1>5, NothingCurated

\* A lineage row is written with the pair it is about.
LEMMA KinshipCur ==
    ASSUME Inv, CurationInv, NEW s \in Sessions, CommitRelate(s) \/ CommitUnrelate(s)
    PROVE  CurationInv'
<1>1. /\ task[s].at = "curating" /\ task[s].op \in Kinship /\ Finish(s)
      /\ UNCHANGED <<identity, members, shown, label, history>>
  BY DEF CommitRelate, CommitUnrelate, Writing, Kinship
<1>2. Intends(s)
  BY DEF CurationInv
<1>3. PICK p \in issued, q \in issued :
        /\ task[s].of = <<p, q>>
        /\ \A r \in splits : r.new \in {p, q} => task[s].now > r.at
  BY <1>1, <1>2 DEF Intends
<1>4. PICK row : row = [parent |-> p, child |-> q, at |-> task[s].now]
  OBVIOUS
<1>5. /\ lineageLog' = lineageLog \cup {row}
      /\ lineage' \subseteq lineage \cup {<<p, q>>}
  BY <1>3, <1>4 DEF CommitRelate, CommitUnrelate
<1>6. row.parent = p /\ row.child = q /\ row.at = task[s].now
  BY <1>4
<1>7. /\ UNCHANGED <<libs, photoOf, issued, splits, recovered>>
      /\ task' = [task EXCEPT ![s] = Idle] /\ clock' \in Nat /\ clock <= clock'
  BY <1>1, Finished DEF identity
<1>8. Kindred'
  <2>1. lineage' \subseteq issued \X issued
    BY <1>5 DEF CurationInv, Kindred
  <2>2. ASSUME NEW d \in lineage' PROVE \E g \in lineageLog' : g.parent = d[1] /\ g.child = d[2]
    <3>1. CASE d \in lineage
      BY <1>5, <3>1 DEF CurationInv, Kindred
    <3>2. CASE d = <<p, q>>
      BY <1>5, <1>6, <3>2
    <3> QED BY <1>5, <3>1, <3>2
  <2> QED BY <1>5, <1>6, <1>7, <2>1, <2>2 DEF CurationInv, Kindred
<1>9. Divided'
  <2>1. \A r : KinStays(r) => KinStays(r)'
    BY <1>7 DEF KinStays
  <2>2. ASSUME NEW r \in splits PROVE SplitStands(r)'
    <3>1. \A d \in lineageLog' \ lineageLog : r.new \in {d.parent, d.child} => d.at > r.at
      BY <1>3, <1>5, <1>6
    <3> QED BY <1>7, <2>1, <3>1, SplitKept DEF CurationInv, Divided
  <2> QED BY <1>7, <2>2 DEF CurationInv, Divided
<1>10. Journaled'
  BY <1>1, <1>7 DEF CurationInv, Journaled, Stand, RowStands
<1>11. Collected'
  <2>1. \A x, c : Belongs(x, c) => Belongs(x, c)'
    BY <1>7 DEF Belongs, Represented, FilesOf, Rows
  <2>2. ASSUME NEW c \in DOMAIN members PROVE CollectionStands(c)'
    <3>1. CollectionStands(c)
      BY Found
    <3>2. Home(c) \in libs' /\ \A x \in members[c] : Belongs(x, c)'
      BY <1>7, <2>1, <3>1 DEF CollectionStands
    <3> QED BY <1>1, <3>1, <3>2, CollectionKept
  <2> QED BY <1>1, <2>2 DEF CurationInv, Collected
<1>12. \A u \in Sessions : Intends(u)' /\ Follows(u)'
  <2>1. task'[s] = Idle
    BY <1>7, TaskAt
  <2>2. Intends(s)' /\ Follows(s)'
    BY <2>1, Unbound DEF Idle, Locking
  <2> QED BY <1>7, <2>2, OneSession
<1> QED BY <1>7, <1>8, <1>9, <1>10, <1>11, <1>12 DEF CurationInv

LEMMA CommitCreateCur ==
    ASSUME Inv, CurationInv, NEW s \in Sessions, CommitCreate(s) PROVE CurationInv'
<1>0. PICK c, items, e : c = task[s].of /\ items = task[s].items /\ e = Entry(s, "add")
  OBVIOUS
<1>1. PICK v \in Labels :
        /\ task[s].at = "curating" /\ task[s].op = "create"
        /\ c \notin DOMAIN members /\ Home(c) \in libs
        /\ \A x \in items : Belongs(x, c)
        /\ members' = Extended(members, c, items)
        /\ shown' = Extended(shown, c, Plain)
        /\ label' = Extended(label, c, v)
        /\ history' = Append(Append(history, e), [Entry(s, "label") EXCEPT !.items = {v}])
        /\ Finish(s) /\ UNCHANGED <<identity, kinship>>
  BY <1>0 DEF CommitCreate, Writing, Exists
<1>2. /\ e \in Journal /\ RowStands(e) /\ e.of = c /\ c \in Collections
      /\ e.act = "add" /\ e.items = items
  BY <1>0, <1>1, EntryStands DEF Membership
<1>3. PICK g : g = [of |-> c, act |-> "label", items |-> {v}, at |-> task[s].now]
  OBVIOUS
<1>4. /\ history' = Append(Append(history, e), g)
      /\ g.of = c /\ g.act = "label" /\ g.items = {v}
  <2>1. Entry(s, "label") =
          [of |-> c, act |-> "label", items |-> items, at |-> task[s].now]
    BY <1>0 DEF Entry
  <2>2. [[of |-> c, act |-> "label", items |-> items, at |-> task[s].now] EXCEPT !.items = {v}]
          = [of |-> c, act |-> "label", items |-> {v}, at |-> task[s].now]
    OBVIOUS
  <2>3. [Entry(s, "label") EXCEPT !.items = {v}] = g
    BY <1>3, <2>1, <2>2
  <2> QED BY <1>1, <1>3, <2>3
<1>5. /\ Intends(s) /\ issued \subseteq Photos /\ Stand(history, DOMAIN members)
      /\ DOMAIN shown = DOMAIN members /\ DOMAIN label = DOMAIN members
      /\ \A r \in splits : r.new \in Photos
  BY DEF CurationInv, Inv, Shape, Journaled, Divided, SplitStands, Collected
<1>6. task[s].now \in Nat /\ items \subseteq IF c \in Events THEN Files ELSE Photos
  BY <1>0, <1>1, <1>5 DEF Intends, Membership
<1>7. g \in Journal
  BY <1>2, <1>3, <1>6 DEF Journal
<1>8. RowStands(g)
  <2>1. v \notin Photos
    BY CurationAssumption
  <2> QED BY <1>4, <1>5, <2>1 DEF RowStands
<1>9. /\ task' = [task EXCEPT ![s] = Idle] /\ clock' \in Nat /\ clock <= clock'
      /\ UNCHANGED <<libs, photoOf, issued, splits>>
  BY <1>1, Finished
<1>10. /\ DOMAIN members' = DOMAIN members \cup {c}
       /\ DOMAIN shown' = DOMAIN members' /\ DOMAIN label' = DOMAIN members'
       /\ members'[c] = items /\ shown'[c] = Plain /\ label'[c] = v
       /\ \A d \in DOMAIN members \ {c} :
             members'[d] = members[d] /\ shown'[d] = shown[d] /\ label'[d] = label[d]
  BY <1>1, <1>5 DEF Extended
<1>11. /\ Stand(history, DOMAIN members') /\ history \in Seq(Journal)
       /\ Append(history, e) \in Seq(Journal)
  BY <1>2, <1>5, <1>10, Appended DEF Stand
<1>12. Journaled'
  <2>1. Stand(Append(history, e), DOMAIN members')
    BY <1>2, <1>10, <1>11, StandAppended
  <2>2. Stand(history', DOMAIN members')
    BY <1>4, <1>7, <1>8, <1>10, <2>1, StandAppended
  <2> QED BY <1>9, <2>2 DEF Journaled, Stand, RowStands
<1>13. \A d, x : Told(history', d, x) <=>
          IF d = c /\ x \in items THEN TRUE ELSE Told(history, d, x)
  <2>1. \A d, x : Told(history', d, x) <=> Told(Append(history, e), d, x)
    BY <1>4, <1>7, <1>11, ToldAppended
  <2> QED BY <1>2, <1>11, <2>1, ToldAppended
<1>14. \A d, w : Named(history', d, w) <=> IF d = c THEN w = v ELSE Named(history, d, w)
  <2>1. \A d, w : Named(history', d, w) <=>
           IF d = c THEN w = v ELSE Named(Append(history, e), d, w)
    BY <1>4, <1>7, <1>11, NamedAppended
  <2> QED BY <1>2, <1>11, <2>1, NamedAppended
<1>15. CollectionStands(c)'
  <2>1. \A x : Belongs(x, c) => Belongs(x, c)'
    BY <1>9 DEF Belongs, Represented, FilesOf, Rows
  <2>2. \A x : ~Told(history, c, x)
    BY <1>1, <1>2, <1>5, CurationAssumption DEF Told, Stand
  <2>3. /\ shown'[c] = [cover |-> shown'[c].cover, order |-> shown'[c].order]
        /\ shown'[c].cover = None
    BY <1>10 DEF Plain
  <2>4. \A x : x \in members'[c] <=> Told(history', c, x)
    BY <1>10, <1>13, <2>2
  <2>5. Named(history', c, label'[c])
    BY <1>10, <1>14
  <2>6. /\ Home(c) \in libs' /\ members'[c] \subseteq IF c \in Events THEN Files ELSE Photos
        /\ \A x \in members'[c] : Belongs(x, c)'
    BY <1>1, <1>6, <1>9, <1>10, <2>1
  <2> QED BY <2>3, <2>4, <2>5, <2>6 DEF CollectionStands
<1>16. \A d \in DOMAIN members \ {c} :
          /\ \A x : Told(history', d, x) <=> Told(history, d, x)
          /\ \A w : Named(history', d, w) <=> Named(history, d, w)
  BY <1>13, <1>14
<1>17. UNCHANGED <<identity, kinship>>
  BY <1>1
<1> QED BY <1>2, <1>9, <1>10, <1>12, <1>15, <1>16, <1>17, CollectionWritten

-----------------------------------------------------------------------------
(* What identity commits.                                                    *)

\* The collections stand when nobody wrote them and members keep their Files.
LEMMA CollectedKept ==
    ASSUME CurationInv, UNCHANGED <<libs, members, shown, label, history>>,
           \A c \in DOMAIN members : \A x \in members[c] : Belongs(x, c)'
    PROVE  Collected'
<1>1. ASSUME NEW c \in DOMAIN members PROVE CollectionStands(c)'
  <2>1. CollectionStands(c)
    BY DEF CurationInv, Collected
  <2>2. Home(c) \in libs'
    BY <2>1 DEF CollectionStands
  <2> QED BY <2>1, <2>2, CollectionKept
<1> QED BY <1>1 DEF CurationInv, Collected

\* Audit rows stand when only Photos and splits are added that nobody knows.
LEMMA JournaledKept ==
    ASSUME Inv, CurationInv, UNCHANGED <<members, history>>, issued \subseteq issued',
           \A r \in splits' \ splits : r.new \in Photos \ issued
    PROVE  Journaled'
<1>1. Stand(history, DOMAIN members)
  BY DEF CurationInv, Journaled
<1>2. \A i \in DOMAIN history : RowStands(history[i])'
  BY <1>1 DEF Stand, RowStands
<1> QED BY <1>1, <1>2 DEF Journaled, Stand

LEMMA AppearCur == ASSUME Inv, CurationInv, NEW f \in Files, Appear(f) PROVE CurationInv'
<1>1. PICK p :
        /\ photoOf' = [photoOf EXCEPT ![f] = p] /\ issued' = issued \cup {p} /\ p # None
        /\ photoOf[f] = None /\ LibOf[f] \in libs
        /\ UNCHANGED <<libs, splits, recovered, members, shown, label, history, lineage,
                       lineageLog, task, clock>>
  <2> DEFINE twins == {g \in Holding(disk[f]) : LibOf[g] = LibOf[f]}
  <2>1. PICK p \in IF twins = {} THEN Fresh ELSE {photoOf[g] : g \in twins} :
          photoOf' = [photoOf EXCEPT ![f] = p] /\ issued' = issued \cup {p}
    BY DEF Appear
  <2>2. p # None
    <3>1. \A g \in Holding(disk[f]) : disk[f] # None => photoOf[g] # None
      BY DEF Holding, Verified
    <3>2. disk[f] # None
      BY DEF Appear
    <3>3. None \notin Fresh
      BY DEF Fresh
    <3> QED BY <2>1, <3>1, <3>2, <3>3
  <2>3. photoOf[f] = None /\ LibOf[f] \in libs
    BY DEF Appear, Rows
  <2>4. UNCHANGED <<libs, splits, recovered, members, shown, label, history, lineage,
                    lineageLog, task, clock>>
    BY DEF Appear, curated, kinship
  <2> QED BY <2>1, <2>2, <2>3, <2>4
<1>2. \A g \in Files : photoOf'[g] = IF g = f THEN p ELSE photoOf[g]
  BY <1>1 DEF Inv, Shape
<1>3. \A c \in DOMAIN members : \A x \in members[c] : Belongs(x, c)'
  <2>1. ASSUME NEW c \in DOMAIN members, NEW x \in members[c] PROVE Belongs(x, c)'
    <3>1. CollectionStands(c)
      BY Found
    <3>2. Belongs(x, c)
      BY <3>1 DEF CollectionStands
    <3>3. CASE c \in Events
      BY <1>1, <1>2, <3>2, <3>3 DEF Belongs, Rows
    <3>4. CASE c \notin Events
      <4>1. x # None
        BY <3>1, <3>4 DEF CollectionStands
      <4> QED BY <1>1, <1>2, <3>2, <3>4, <4>1 DEF Belongs, Represented, FilesOf
    <3> QED BY <3>3, <3>4
  <2> QED BY <2>1
<1>4. Collected'
  BY <1>1, <1>3, CollectedKept
<1>5. Journaled'
  BY <1>1, JournaledKept
<1>6. Kindred'
  BY <1>1 DEF CurationInv, Kindred
<1>7. clock' \in Nat /\ clock \in Nat /\ clock <= clock'
  BY <1>1 DEF CurationInv
<1>8. Divided'
  <2>1. ASSUME NEW r \in splits PROVE SplitStands(r)'
    <3>1. SplitStands(r)
      BY DEF CurationInv, Divided
    <3>2. r.src # None
      BY <3>1 DEF SplitStands, Inv, Shape
    <3>3. KinStays(r) => KinStays(r)'
      BY <1>1, <1>2, <3>1, <3>2 DEF KinStays, SplitStands
    <3> QED BY <1>1, <1>7, <3>1, <3>3, SplitKept
  <2> QED BY <1>1, <2>1 DEF CurationInv, Divided
<1>9. \A u \in Sessions : Intends(u)' /\ Follows(u)'
  BY <1>1, <1>7, SessionKept
<1> QED BY <1>4, <1>5, <1>6, <1>7, <1>8, <1>9 DEF CurationInv

\* The plan of a split is one that strands no membership.
LEMMA SplitIsSplittable ==
    ASSUME NEW x \in Plans, x.op = "split" PROVE Splittable(x)
<1>1. x \notin MergePlans
  BY DEF MergePlans, Plan
<1>2. x \notin RecoveryPlans
  BY DEF RecoveryPlans, Plan
<1> QED BY <1>1, <1>2 DEF Plans, SplitPlans

LEMMA SplitCur == ASSUME Inv, CurationInv, NEW s \in Sessions, SplitCommit(s) PROVE CurationInv'
<1>0. PICK x, now : x = task[s].plan /\ now = task[s].now
  OBVIOUS
<1>1. PICK p, row :
        /\ p \in Fresh /\ issued' = issued \cup {p}
        /\ photoOf' = Reassigned(x, p)
        /\ splits' = splits \cup {row}
        /\ row.at = now /\ row.src = x.from /\ row.new = p /\ row.kin = FilesOf(x.from) \ x.files
  <2>1. PICK p \in Fresh :
          /\ issued' = issued \cup {p}
          /\ photoOf' = Reassigned(x, p)
          /\ splits' = splits \cup
                {[at |-> now, lib |-> x.lib, src |-> x.from, new |-> p, sha |-> x.sha,
                  files |-> x.files, kin |-> FilesOf(x.from) \ x.files, before |-> Len(history)]}
    BY <1>0 DEF SplitCommit
  <2> DEFINE row == [at |-> now, lib |-> x.lib, src |-> x.from, new |-> p, sha |-> x.sha,
                     files |-> x.files, kin |-> FilesOf(x.from) \ x.files,
                     before |-> Len(history)]
  <2>2. row.at = now /\ row.src = x.from /\ row.new = p /\ row.kin = FilesOf(x.from) \ x.files
    OBVIOUS
  <2>3. splits' = splits \cup {row}
    BY <2>1
  <2> HIDE DEF row
  <2> QED BY <2>1, <2>2, <2>3
<1>2. /\ task[s].at = "attested" /\ x.op = "split"
      /\ task' = [task EXCEPT ![s] = Idle]
      /\ UNCHANGED <<libs, recovered, members, shown, label, history, lineage, lineageLog, clock>>
  BY <1>0 DEF SplitCommit, curated, kinship
<1>3. /\ x \in Plans
      /\ \A u \in Sessions \ {s} : task[u].at \notin Locking
  BY <1>0, <1>2 DEF Inv, PlanStands, Locking
<1>4. /\ x.from \in photos /\ x.files \subseteq FilesOf(x.from)
      /\ \A f \in x.files : LibOf[f] = x.lib
  BY <1>2, <1>3, PlansAre
<1>5. /\ p \in Photos /\ p \notin issued /\ p # None /\ x.from # None /\ x.from \in issued
      /\ x.from # p
  BY <1>1, <1>4 DEF Fresh, Inv, Shape
<1>6. \A f \in Files : photoOf'[f] = IF f \in x.files THEN p ELSE photoOf[f]
  BY <1>1 DEF Reassigned
<1>7. \A f \in x.files : f \in Files /\ photoOf[f] = x.from
  BY <1>4 DEF FilesOf
<1>8. \A c \in DOMAIN members : \A y \in members[c] : Belongs(y, c)'
  <2>1. ASSUME NEW c \in DOMAIN members, NEW y \in members[c] PROVE Belongs(y, c)'
    <3>1. CollectionStands(c) /\ c \in Collections
      BY Found
    <3>2. Belongs(y, c)
      BY <3>1 DEF CollectionStands
    <3>3. CASE c \in Events
      BY <1>5, <1>6, <1>7, <3>2, <3>3 DEF Belongs, Rows
    <3>4. CASE c \notin Events
      <4>1. PICK f \in Files : photoOf[f] = y /\ LibOf[f] = Home(c)
        BY <3>2, <3>4 DEF Belongs, Represented, FilesOf
      <4>2. \E g \in Files : photoOf[g] = y /\ LibOf[g] = Home(c) /\ g \notin x.files
        <5>1. CASE f \notin x.files
          BY <4>1, <5>1
        <5>2. CASE f \in x.files
          <6>1. y = x.from /\ LibOf[c] = x.lib
            BY <1>4, <1>7, <4>1, <5>2 DEF Home
          <6>2. c \in ShelvesWith(x.from)
            BY <3>1, <3>4, <6>1 DEF ShelvesWith, Collections
          <6>3. \E g \in FilesOf(x.from) \ x.files : LibOf[g] = x.lib
            BY <1>2, <1>3, <6>1, <6>2, SplitIsSplittable DEF Splittable
          <6> QED BY <6>1, <6>3 DEF FilesOf, Home
        <5> QED BY <5>1, <5>2
      <4> QED BY <1>6, <3>4, <4>2 DEF Belongs, Represented, FilesOf
    <3> QED BY <3>3, <3>4
  <2> QED BY <2>1
<1>9. Collected'
  BY <1>2, <1>8, CollectedKept
<1>10. Journaled'
  BY <1>1, <1>2, <1>5, JournaledKept
<1>11. Kindred'
  BY <1>1, <1>2 DEF CurationInv, Kindred
<1>12. /\ clock' = clock /\ clock \in Nat /\ now \in Nat /\ now < clock
       /\ \A r \in splits : r.at < now /\ SplitStands(r)
  BY <1>0, <1>2 DEF CurationInv, Follows, Locking, Divided
<1>13. ASSUME NEW r \in splits PROVE SplitStands(r)'
  <2>1. /\ r.at \in Nat /\ r.at < now /\ r.at < clock' /\ {r.src, r.new} \subseteq issued
        /\ r.kin \subseteq Files
    BY <1>12 DEF SplitStands
  <2>2. \A d \in lineageLog' : r.new \in {d.parent, d.child} => d.at > r.at
    BY <1>2, <1>12 DEF SplitStands
  <2>3. \A o \in splits' : (o.new = r.new => o = r) /\ (o.src = r.new => o.at > r.at)
    <3>1. row.new # r.new /\ row.at > r.at
      BY <1>1, <1>5, <1>12, <2>1
    <3> QED BY <1>1, <1>12, <3>1 DEF SplitStands
  <2>4. KinStays(r)'
    <3>1. KinStays(r)
      BY <1>12 DEF SplitStands
    <3>2. CASE x.from = r.src
      <4>1. row \in splits' /\ row.at > r.at /\ r.src \in {row.src, row.new}
        BY <1>1, <1>12, <2>1, <3>2
      <4> QED BY <4>1 DEF KinStays
    <3>3. CASE x.from # r.src
      <4>1. \A f \in r.kin :
              photoOf[f] \in {r.src, None} => photoOf'[f] = photoOf[f]
        BY <1>5, <1>6, <1>7, <2>1, <3>3
      <4> QED BY <1>1, <1>2, <3>1, <4>1 DEF KinStays
    <3> QED BY <3>2, <3>3
  <2> QED BY <1>1, <2>1, <2>2, <2>3, <2>4 DEF SplitStands
<1>14. SplitStands(row)'
  <2>1. /\ row.at \in Nat /\ row.at < clock' /\ {row.src, row.new} \subseteq issued'
        /\ row.kin \subseteq Files
    BY <1>1, <1>5, <1>12 DEF FilesOf
  <2>2. \A d \in lineageLog' : row.new \notin {d.parent, d.child}
    BY <1>1, <1>2, <1>5 DEF CurationInv, Kindred
  <2>3. \A o \in splits' : (o.new = row.new => o = row) /\ o.src # row.new
    BY <1>1, <1>5, <1>12 DEF SplitStands
  <2>4. \A f \in row.kin : photoOf'[f] = row.src
    BY <1>1, <1>6 DEF FilesOf
  <2>5. KinStays(row)'
    BY <2>4 DEF KinStays
  <2> QED BY <2>1, <2>2, <2>3, <2>5 DEF SplitStands
<1>15. Divided'
  BY <1>1, <1>2, <1>13, <1>14 DEF CurationInv, Divided
<1>16. \A u \in Sessions : Intends(u)' /\ Follows(u)'
  <2>1. task'[s] = Idle
    BY <1>2, TaskAt
  <2>2. Intends(s)' /\ Follows(s)'
    BY <2>1, Unbound DEF Idle, Locking
  <2>3. clock' \in Nat /\ clock <= clock'
    BY <1>12
  <2> QED BY <1>1, <1>2, <1>3, <1>5, <2>2, <2>3, OneSession
<1> QED BY <1>9, <1>10, <1>11, <1>12, <1>15, <1>16 DEF CurationInv

\* A Photo that a reviewed plan retires was curated by nobody.
LEMMA RetiredIs ==
    ASSUME NEW x \in Plans
    PROVE  /\ x.op = "merge" => Mergeable(x)
           /\ x.op = "recover" => \E q \in splits :
                 Recoverable(q) /\ x.from = q.new /\ x.to = q.src /\ x.files = q.files
<1>1. CASE x \in SplitPlans
  BY <1>1 DEF SplitPlans, Plan
<1>2. CASE x \in MergePlans
  BY <1>2 DEF MergePlans, Plan
<1>3. CASE x \in RecoveryPlans
  <2>1. PICK q \in splits :
          Recoverable(q) /\ x = Plan("recover", q.lib, q.new, q.src, q.sha, q.files)
    BY <1>3 DEF RecoveryPlans
  <2>2. x.op = "recover" /\ x.from = q.new /\ x.to = q.src /\ x.files = q.files
    BY <2>1 DEF Plan
  <2> QED BY <2>1, <2>2
<1> QED BY <1>1, <1>2, <1>3 DEF Plans

LEMMA BareBefore ==
    ASSUME Inv, CurationInv, NEW x \in Plans, x.op \in {"merge", "recover"}
    PROVE  /\ ShelvesWith(x.from) = {}
           /\ \A e \in lineage : x.from \notin {e[1], e[2]}
           /\ \A r \in splits : r.src # x.from
<1>1. ASSUME NEW c \in ShelvesWith(x.from)
      PROVE  \E i \in DOMAIN history : /\ history[i].of \in Shelves /\ x.from \in history[i].items
                                       /\ RowStands(history[i])
  <2>1. c \in Shelves /\ c \in DOMAIN members /\ x.from \in members[c]
    BY DEF ShelvesWith
  <2>2. CollectionStands(c)
    BY <2>1, Found
  <2>3. x.from \in Files \cup Photos
    BY <2>1, <2>2 DEF CollectionStands
  <2>4. Told(history, c, x.from)
    BY <2>1, <2>2, <2>3 DEF CollectionStands
  <2>5. \A i \in DOMAIN history : RowStands(history[i])
    BY DEF CurationInv, Journaled, Stand
  <2> QED BY <2>1, <2>4, <2>5 DEF Told
<1>2. ASSUME NEW e \in lineage, x.from \in {e[1], e[2]}
      PROVE  \E g \in lineageLog : x.from \in {g.parent, g.child}
  BY <1>2 DEF CurationInv, Kindred
<1>3. CASE x.op = "merge"
  <2>1. ~Curated(x.from) /\ ~Related(x.from) /\ ~Resolved(x.from)
    BY <1>3, RetiredIs DEF Mergeable
  <2> QED BY <1>1, <1>2, <2>1 DEF Curated, Related, Resolved
<1>4. CASE x.op = "recover"
  <2>1. PICK q \in splits : Recoverable(q) /\ x.from = q.new
    BY <1>4, RetiredIs
  <2>2. SplitStands(q) /\ ~LaterChange(q) /\ q.src # q.new
    BY <2>1 DEF CurationInv, Divided, Recoverable, Inv, Shape
  <2>3. ShelvesWith(x.from) = {}
    BY <1>1, <2>1, <2>2 DEF RowStands, LaterChange
  <2>4. \A e \in lineage : x.from \notin {e[1], e[2]}
    BY <1>2, <2>1, <2>2 DEF SplitStands, LaterChange
  <2>5. \A r \in splits : r.src # x.from
    BY <2>1, <2>2 DEF SplitStands, LaterChange
  <2> QED BY <2>3, <2>4, <2>5
<1> QED BY <1>3, <1>4

LEMMA EmptiedCur ==
    ASSUME Inv, CurationInv, NEW s \in Sessions, RecoveryCommit(s) \/ MergeCommit(s)
    PROVE  CurationInv'
<1>0. PICK x, from, to : x = task[s].plan /\ from = x.from /\ to = x.to
  OBVIOUS
<1>1. /\ task[s].at = "attested" /\ x.op \in {"merge", "recover"}
      /\ photoOf' = Reassigned(x, to) /\ Retire(from)
      /\ task' = [task EXCEPT ![s] = Idle]
      /\ recovered \subseteq recovered' /\ recovered' \subseteq splits \cup recovered
      /\ UNCHANGED <<libs, issued, splits, label, history, lineageLog, clock>>
  BY <1>0 DEF RecoveryCommit, MergeCommit
<1>2. x \in Plans
  BY <1>0, <1>1, Committing
<1>3. /\ from \in photos /\ to \in photos /\ from # None /\ to # None
      /\ x.files = FilesOf(from)
  BY <1>0, <1>1, <1>2, PlansAre DEF Inv, Shape
<1>4. /\ ShelvesWith(from) = {}
      /\ \A r \in splits : r.src # from
  BY <1>0, <1>1, <1>2, BareBefore
<1>5. \A f \in Files : photoOf'[f] = IF photoOf[f] = from THEN to ELSE photoOf[f]
  BY <1>1, <1>3 DEF Reassigned, FilesOf
<1>6. ASSUME NEW c \in DOMAIN members
      PROVE  members[c] \ {from} = members[c] /\ ShownWithout(c, {from}) = shown[c]
  <2>1. from \notin members[c]
    <3>1. c \in Collections /\ CollectionStands(c)
      BY Found
    <3>2. CASE c \in Events
      BY <1>3, <3>1, <3>2, CurationAssumption DEF CollectionStands, Inv, Shape
    <3>3. CASE c \notin Events
      BY <1>4, <3>1, <3>3 DEF ShelvesWith, Collections
    <3> QED BY <3>2, <3>3
  <2> QED BY <2>1 DEF ShownWithout
<1>7. /\ DOMAIN members' = DOMAIN members /\ DOMAIN shown' = DOMAIN members
      /\ \A c \in DOMAIN members : members'[c] = members[c] /\ shown'[c] = shown[c]
      /\ lineage' \subseteq lineage
  BY <1>1, <1>6 DEF Retire
<1>8. Journaled'
  BY <1>1, <1>7 DEF CurationInv, Journaled, Stand, RowStands
<1>9. Collected'
  <2>1. ASSUME NEW c \in DOMAIN members PROVE CollectionStands(c)'
    <3>1. CollectionStands(c) /\ c \in Collections
      BY Found
    <3>2. Home(c) \in libs'
      BY <1>1, <3>1 DEF CollectionStands
    <3>3. ASSUME NEW y \in members[c] PROVE Belongs(y, c)'
      <4>1. Belongs(y, c)
        BY <3>1 DEF CollectionStands
      <4>2. CASE c \in Events
        BY <1>3, <1>5, <4>1, <4>2 DEF Belongs, Rows
      <4>3. CASE c \notin Events
        <5>1. y # from
          BY <1>6
        <5> QED BY <1>5, <4>1, <4>3, <5>1 DEF Belongs, Represented, FilesOf
      <4> QED BY <4>2, <4>3
    <3> QED BY <1>1, <1>7, <3>1, <3>2, <3>3, CollectionKept
  <2> QED BY <1>1, <1>7, <2>1 DEF CurationInv, Collected
<1>10. Kindred'
  BY <1>1, <1>7 DEF CurationInv, Kindred
<1>11. clock' \in Nat /\ clock \in Nat /\ clock <= clock'
  BY <1>1 DEF CurationInv
<1>12. Divided'
  <2>1. ASSUME NEW r \in splits PROVE SplitStands(r)'
    <3>1. SplitStands(r) /\ r.src # from
      BY <1>4 DEF CurationInv, Divided
    <3>2. r.src # None
      BY <3>1 DEF SplitStands, Inv, Shape
    <3>3. KinStays(r) => KinStays(r)'
      BY <1>1, <1>3, <1>5, <3>1, <3>2 DEF KinStays, SplitStands
    <3> QED BY <1>1, <1>11, <3>1, <3>3, SplitKept
  <2> QED BY <1>1, <2>1 DEF CurationInv, Divided
<1>13. \A u \in Sessions : Intends(u)' /\ Follows(u)'
  <2>1. task'[s] = Idle
    BY <1>1, TaskAt
  <2>2. Intends(s)' /\ Follows(s)'
    BY <2>1, Unbound DEF Idle, Locking
  <2> QED BY <1>1, <1>11, <2>2, OneSession
<1> QED BY <1>8, <1>9, <1>10, <1>11, <1>12, <1>13 DEF CurationInv

\* What is forgotten with a library was curated in no other one.
LEMMA ForgetSpares ==
    ASSUME Inv, CurationInv, NEW c \in DOMAIN members, NEW gone, NEW bare,
           gone \subseteq Files /\ \A f \in gone : LibOf[f] # Home(c),
           \A p \in bare : p \in Photos /\ FilesOf(p) \subseteq gone
    PROVE  /\ members[c] \ (gone \cup bare) = members[c]
           /\ ShownWithout(c, gone \cup bare) = shown[c]
<1>1. CollectionStands(c)
  BY Found
<1>2. ASSUME NEW x \in members[c] PROVE x \notin gone \cup bare
  <2>1. Belongs(x, c)
    BY <1>1 DEF CollectionStands
  <2>2. CASE c \in Events
    <3>1. x \in Files /\ LibOf[x] = Home(c)
      BY <1>1, <2>1, <2>2 DEF CollectionStands, Belongs
    <3>2. x \notin Photos
      BY <3>1, CurationAssumption
    <3> QED BY <3>1, <3>2
  <2>3. CASE c \notin Events
    <3>1. x \in Photos /\ \E f \in FilesOf(x) : LibOf[f] = Home(c)
      BY <1>1, <2>1, <2>3 DEF CollectionStands, Belongs, Represented
    <3>2. x \notin Files
      BY <3>1, CurationAssumption
    <3> QED BY <3>1, <3>2
  <2> QED BY <2>2, <2>3
<1>3. members[c] \cap (gone \cup bare) = {}
  BY <1>2
<1> QED BY <1>3 DEF ShownWithout

LEMMA CommitForgetCur ==
    ASSUME Inv, CurationInv, NEW s \in Sessions, CommitForget(s) PROVE CurationInv'
<1>0. PICK l, gone, bare, kept :
        /\ l = task[s].of /\ gone = {f \in Rows : LibOf[f] = l}
        /\ bare = {p \in task[s].photos : FilesOf(p) \subseteq gone}
        /\ kept = {c \in DOMAIN members : Home(c) # l}
  OBVIOUS
<1>1. /\ task[s].at = "curating" /\ task[s].op = "forget"
      /\ libs' = libs \ {l}
      /\ photoOf' = [f \in Files |-> IF f \in gone THEN None ELSE photoOf[f]]
      /\ members' = [c \in kept |-> members[c] \ (gone \cup bare)]
      /\ shown' = [c \in kept |-> ShownWithout(c, gone \cup bare)]
      /\ label' = [c \in kept |-> label[c]]
      /\ history' = [i \in DOMAIN history |->
                       IF history[i].of \in kept THEN history[i] ELSE Erased]
      /\ lineage' \subseteq lineage
      /\ task' = [task EXCEPT ![s] = Idle]
      /\ UNCHANGED <<issued, splits, recovered, lineageLog, clock>>
  BY <1>0 DEF CommitForget, Writing, Finish
<1>2. task[s].photos \subseteq Photos
  BY <1>1 DEF CurationInv, Intends
<1>3. ASSUME NEW c \in kept
      PROVE  members'[c] = members[c] /\ shown'[c] = shown[c] /\ label'[c] = label[c]
  <2>1. /\ members[c] \ (gone \cup bare) = members[c]
        /\ ShownWithout(c, gone \cup bare) = shown[c]
    <3>1. c \in DOMAIN members /\ Home(c) # l
      BY <1>0
    <3>2. \A p \in bare : p \in Photos /\ FilesOf(p) \subseteq gone
      BY <1>0, <1>2
    <3>3. gone \subseteq Files /\ \A f \in gone : LibOf[f] # Home(c)
      BY <1>0, <3>1 DEF Rows
    <3> QED BY <3>1, <3>2, <3>3, ForgetSpares
  <2> QED BY <1>1, <2>1
<1>4. /\ DOMAIN members' = kept /\ DOMAIN shown' = kept /\ DOMAIN label' = kept
      /\ kept \subseteq DOMAIN members /\ \A c \in kept : Home(c) # l
  BY <1>0, <1>1
<1>5. \A f \in Files :
        /\ f \in gone => photoOf'[f] = None /\ LibOf[f] = l
        /\ f \notin gone => photoOf'[f] = photoOf[f]
        /\ LibOf[f] # l => f \notin gone
  BY <1>0, <1>1 DEF Rows
<1>6. DOMAIN members \subseteq Collections /\ history \in Seq(Journal)
  BY DEF CurationInv, Collected, Journaled, Stand
<1>7. None \notin kept
  BY <1>0, <1>6, CurationAssumption
<1>8. /\ history' \in Seq(Journal)
      /\ \A c \in kept : \A x : Told(history', c, x) <=> Told(history, c, x)
      /\ \A c \in kept : \A v : Named(history', c, v) <=> Named(history, c, v)
  BY <1>1, <1>6, <1>7, ErasedTells
<1>9. /\ DOMAIN history' = DOMAIN history
      /\ \A i \in DOMAIN history :
            history'[i] = IF history[i].of \in kept THEN history[i] ELSE Erased
  BY <1>1
<1>10. Journaled'
  <2>1. Erased.of = None /\ ~(Erased.of \in Shelves)
    BY CurationAssumption DEF Erased, Collections
  <2>2. ASSUME NEW i \in DOMAIN history
        PROVE  RowStands(history[i])' /\ history'[i].of \in kept \cup {None}
    <3>1. PICK row : row = history[i] /\ RowStands(row)
      BY DEF CurationInv, Journaled, Stand
    <3>2. RowStands(row)' /\ RowStands(Erased)'
      BY <1>1, <2>1, <3>1 DEF RowStands
    <3>3. history'[i] = IF row.of \in kept THEN row ELSE Erased
      BY <1>9, <3>1
    <3>4. CASE row.of \in kept
      BY <3>2, <3>3, <3>4 DEF RowStands
    <3>5. CASE row.of \notin kept
      BY <2>1, <3>2, <3>3, <3>5 DEF RowStands
    <3> QED BY <3>4, <3>5
  <2> QED BY <1>4, <1>8, <1>9, <2>2 DEF Journaled, Stand
<1>11. Collected'
  <2>1. ASSUME NEW c \in kept PROVE CollectionStands(c)'
    <3>1. CollectionStands(c) /\ c \in Collections /\ Home(c) # l
      BY <1>4, Found
    <3>2. Home(c) \in libs'
      BY <1>1, <3>1 DEF CollectionStands
    <3>3. ASSUME NEW y \in members[c] PROVE Belongs(y, c)'
      <4>1. Belongs(y, c)
        BY <3>1 DEF CollectionStands
      <4>2. CASE c \in Events
        BY <1>5, <3>1, <4>1, <4>2 DEF Belongs, Rows
      <4>3. CASE c \notin Events
        <5>1. PICK f \in Files : photoOf[f] = y /\ LibOf[f] = Home(c)
          BY <4>1, <4>3 DEF Belongs, Represented, FilesOf
        <5>2. photoOf'[f] = y
          BY <1>5, <3>1, <5>1
        <5> QED BY <4>3, <5>1, <5>2 DEF Belongs, Represented, FilesOf
      <4> QED BY <4>2, <4>3
    <3> QED BY <1>3, <1>8, <3>1, <3>2, <3>3, CollectionKept
  <2> QED BY <1>4, <1>6, <2>1 DEF Collected
<1>12. Kindred'
  BY <1>1 DEF CurationInv, Kindred
<1>13. clock' \in Nat /\ clock \in Nat /\ clock <= clock'
  BY <1>1 DEF CurationInv
<1>14. Divided'
  <2>1. ASSUME NEW r \in splits PROVE SplitStands(r)'
    <3>1. SplitStands(r)
      BY DEF CurationInv, Divided
    <3>2. KinStays(r) => KinStays(r)'
      BY <1>1, <1>5, <3>1 DEF KinStays, SplitStands
    <3> QED BY <1>1, <1>13, <3>1, <3>2, SplitKept
  <2> QED BY <1>1, <2>1 DEF CurationInv, Divided
<1>15. \A u \in Sessions : Intends(u)' /\ Follows(u)'
  <2>1. task'[s] = Idle
    BY <1>1, TaskAt
  <2>2. Intends(s)' /\ Follows(s)'
    BY <2>1, Unbound DEF Idle, Locking
  <2> QED BY <1>1, <1>13, <2>2, OneSession
<1> QED BY <1>10, <1>11, <1>12, <1>13, <1>14, <1>15 DEF CurationInv

-----------------------------------------------------------------------------
(* At first, and at every step.                                              *)

LEMMA InitCur == Init => CurationInv
<1> SUFFICES ASSUME Init PROVE CurationInv
  OBVIOUS
<1>1. PICK h \in Assigned :
        photoOf = [f \in Files |-> IF f \in Catalogued THEN h[f] ELSE None]
  BY DEF Init
<1>2. /\ h \in [Catalogued -> Photos] /\ Catalogued \subseteq Files
      /\ \A f \in Catalogued : photoOf[f] = h[f]
  BY <1>1, CurationAssumption
<1>3. \A f \in Catalogued : h[f] \in issued
  <2>1. issued = {photoOf[f] : f \in Catalogued}
    BY DEF Init
  <2> QED BY <1>2, <2>1
<1>4. PICK n \in Nat : DOMAIN Standing = 1 .. n
  BY StandingAssumption, LenProperties
<1>5. \A i \in 1 .. n : Standing[i] \in [of : Collections, items : SUBSET (Files \cup Photos)]
  <2>1. Standing \in Seq([of : Collections, items : SUBSET (Files \cup Photos)])
    BY StandingAssumption
  <2>2. Len(Standing) \in Nat /\ DOMAIN Standing = 1 .. Len(Standing)
    BY <2>1, LenProperties
  <2>3. \A i \in 1 .. Len(Standing) :
           Standing[i] \in [of : Collections, items : SUBSET (Files \cup Photos)]
    BY <2>1, ElementOfSeq
  <2>4. 1 .. n = 1 .. Len(Standing)
    BY <1>4, <2>2
  <2> HIDE DEF Collections
  <2> QED BY <2>3, <2>4
<1>6. \A i \in 1 .. n : \A x \in Standing[i].items :
         \E f \in Catalogued : /\ LibOf[f] = LibOf[Standing[i].of]
                               /\ x = IF Standing[i].of \in Events THEN f ELSE h[f]
  BY <1>4, StandingAssumption
<1>7. history = [i \in 1 .. n |->
         [of |-> Standing[i].of, act |-> "add", items |-> Standing[i].items, at |-> 0]]
  BY <1>4 DEF Init
<1>8. \A i \in 1 .. n : /\ history[i] \in Journal /\ history[i].of = Standing[i].of
                        /\ history[i].act = "add" /\ history[i].items = Standing[i].items
  BY <1>5, <1>7 DEF Journal
<1>9. history \in [1 .. n -> Journal]
  BY <1>7, <1>8
<1>10. history \in Seq(Journal) /\ DOMAIN history = 1 .. n /\ Len(history) = n
  <2>1. history \in Seq(Journal)
    BY <1>9, SeqDef
  <2> QED BY <1>9, <2>1, LenProperties
<1>11. Made = {Standing[i].of : i \in 1 .. n}
  BY <1>4 DEF Made
<1>12. /\ DOMAIN members = Made /\ DOMAIN shown = Made /\ DOMAIN label = Made
       /\ \A c \in Made : shown[c] = Plain
       /\ \A c \in Made, x \in Files \cup Photos : x \in members[c] <=>
             \E i \in 1 .. n : Standing[i].of = c /\ x \in Standing[i].items
       /\ \A c \in Made : members[c] \subseteq Files \cup Photos
       /\ libs = Libs /\ splits = {} /\ recovered = {} /\ lineage = {} /\ lineageLog = {}
       /\ clock = 1 /\ task = [s \in Sessions |-> Idle]
  BY <1>4 DEF Init
<1>13. Made \subseteq Collections
  BY <1>5, <1>11
<1>14. Journaled
  <2>1. ASSUME NEW i \in 1 .. n PROVE RowStands(history[i])
    <3> SUFFICES ASSUME Standing[i].of \in Shelves
                 PROVE  Standing[i].items \subseteq issued
      BY <1>8, <1>12 DEF RowStands
    <3>1. Standing[i].of \notin Events
      OBVIOUS
    <3> QED BY <1>3, <1>6, <3>1
  <2>2. \A i \in 1 .. n : history[i].of \in Made
    BY <1>8, <1>11
  <2> QED BY <1>10, <1>12, <2>1, <2>2 DEF Journaled, Stand
<1>15. ASSUME NEW c \in Made PROVE CollectionStands(c)
  <2>1. Home(c) \in libs
    BY <1>12, <1>13 DEF Home
  <2>2. ASSUME NEW x \in members[c]
        PROVE  (x \in IF c \in Events THEN Files ELSE Photos) /\ Belongs(x, c)
    <3>1. PICK i \in 1 .. n : Standing[i].of = c /\ x \in Standing[i].items
      BY <1>12
    <3>2. PICK f \in Catalogued :
            LibOf[f] = Home(c) /\ x = IF c \in Events THEN f ELSE h[f]
      BY <1>6, <3>1 DEF Home
    <3>3. f \in Files /\ photoOf[f] = h[f] /\ h[f] \in Photos /\ h[f] # None
      BY <1>2
    <3> QED BY <3>2, <3>3 DEF Belongs, Rows, Represented, FilesOf
  <2>3. /\ shown[c] = [cover |-> shown[c].cover, order |-> shown[c].order]
        /\ shown[c].cover = None
    BY <1>12 DEF Plain
  <2>4. ASSUME NEW x \in Files \cup Photos PROVE x \in members[c] <=> Told(history, c, x)
    <3>1. \A i \in 1 .. n : \A j \in (i + 1) .. n : j \in 1 .. n /\ j # i
      OBVIOUS
    <3>2. \A i \in 1 .. n : \A j \in (i + 1) .. n : Standing[j].of # Standing[i].of
      BY <1>4, <3>1, StandingAssumption
    <3> QED BY <1>8, <1>10, <1>12, <3>1, <3>2 DEF Told
  <2>5. Named(history, c, label[c])
    BY <1>8, <1>10 DEF Named
  <2>6. members[c] \subseteq IF c \in Events THEN Files ELSE Photos
    BY <2>2
  <2> QED BY <1>12, <2>1, <2>2, <2>3, <2>4, <2>5, <2>6 DEF CollectionStands
<1>16. Collected
  BY <1>12, <1>13, <1>15 DEF Collected
<1>17. \A s \in Sessions : Intends(s) /\ Follows(s)
  <2>1. \A s \in Sessions : task[s].at = "idle"
    BY <1>12 DEF Idle
  <2> QED BY <2>1 DEF Intends, Follows, Locking
<1>18. Kindred /\ Divided
  BY <1>12 DEF Kindred, Divided
<1> QED BY <1>12, <1>14, <1>16, <1>17, <1>18 DEF CurationInv

LEMMA NextCur == Inv /\ CurationInv /\ [Next]_vars => CurationInv'
<1> SUFFICES ASSUME Inv, CurationInv, [Next]_vars PROVE CurationInv'
  OBVIOUS
<1>1. ASSUME NEW s \in Sessions, Identify(s) PROVE CurationInv'
  BY <1>1, ReadingCur, BeginCur, ReattestCur, SplitCur, EmptiedCur DEF Identify
<1>2. ASSUME NEW s \in Sessions, Curate(s) PROVE CurationInv'
  BY <1>2, StartsCur, CommitCreateCur, CommitAddCur, CommitRemoveCur, CommitLabelCur,
     CommitShownCur, ReadingCur, ApplyCur, VerdictCur, KinshipCur, CommitForgetCur DEF Curate
<1>3. ASSUME NEW s \in Sessions, Abandon(s) PROVE CurationInv'
  BY <1>3, ReadingCur
<1>4. CASE Edit \/ UNCHANGED vars
  BY <1>4, ElsewhereCur
<1>5. ASSUME NEW f \in Files, Verify(f) \/ Adopt(f) \/ Appear(f) \/ Propose(f)
      PROVE  CurationInv'
  BY <1>5, ElsewhereCur, AppearCur
<1> QED BY <1>1, <1>2, <1>3, <1>4, <1>5 DEF Next, Elsewhere

\* What people curated stands throughout.
THEOREM AlwaysCurationInv == Spec => []CurationInv
<1> QED BY InitInv, NextInv, InitCur, NextCur, PTL DEF Spec

-----------------------------------------------------------------------------
(* What it means for a collection.                                           *)

\* A member of a collection has a File in the collection's library and a cover
\* is a member, although the checks are of what was read before the write.
THEOREM MembershipIsBacked == Spec => []MembershipBacked
<1>1. CurationInv => MembershipBacked
  BY DEF CurationInv, Collected, CollectionStands, MembershipBacked
<1> QED BY <1>1, AlwaysCurationInv, PTL

\* Whoever replays the audit of a collection gets its members and its label.
THEOREM AuditReplaysWhatIs == Spec => []AuditReplays
<1>1. ASSUME Inv, CurationInv PROVE AuditReplays
  <2>1. ASSUME NEW c \in DOMAIN members
        PROVE  /\ members[c] = {x \in Files \cup Photos : \E i \in DOMAIN history :
                          history[i].act = "add" /\ Latest(c, i, {"add", "remove"}, x)}
               /\ \A i \in DOMAIN history :
                     /\ history[i].of = c /\ history[i].act = "label"
                     /\ \A j \in (i + 1) .. Len(history) :
                           history[j].of = c => history[j].act # "label"
                     => label[c] \in history[i].items
    <3>1. CollectionStands(c)
      BY <1>1, Found
    <3>2. \A x : Told(history, c, x) <=> \E i \in DOMAIN history :
                    history[i].act = "add" /\ Latest(c, i, {"add", "remove"}, x)
      BY DEF Told, Latest
    <3>3. \A x \in Files \cup Photos : x \in members[c] <=> \E i \in DOMAIN history :
                    history[i].act = "add" /\ Latest(c, i, {"add", "remove"}, x)
      BY <3>1, <3>2 DEF CollectionStands
    <3>4. members[c] \subseteq Files \cup Photos /\ Named(history, c, label[c])
      BY <3>1 DEF CollectionStands
    <3> QED BY <3>3, <3>4 DEF Named
  <2> QED BY <2>1 DEF AuditReplays
<1> QED BY <1>1, AlwaysInv, AlwaysCurationInv, PTL

-----------------------------------------------------------------------------
(* What a merge and a recovery do.                                           *)

\* What a merge or a recovery writes of identity.
LEMMA Emptied ==
    ASSUME Inv, NEW s \in Sessions, RecoveryCommit(s) \/ MergeCommit(s)
    PROVE  \E x \in Plans :
              /\ x.op = (IF MergeCommit(s) THEN "merge" ELSE "recover")
              /\ photos' = photos \ {x.from} /\ x.to # x.from
              /\ \A f \in Files : photoOf'[f] = IF photoOf[f] = x.from THEN x.to ELSE photoOf[f]
              /\ recovered' \ recovered \subseteq {r \in splits : r.new = x.from}
              /\ MergeCommit(s) => recovered' = recovered
              /\ UNCHANGED libs
<1>0. PICK x : x = task[s].plan
  OBVIOUS
<1>1. /\ task[s].at = "attested" /\ photoOf' = Reassigned(x, x.to)
      /\ photos' = photos \ {x.from} /\ task' = [task EXCEPT ![s] = Idle]
      /\ x.op = (IF MergeCommit(s) THEN "merge" ELSE "recover")
      /\ recovered' \ recovered \subseteq {r \in splits : r.new = x.from}
      /\ MergeCommit(s) => recovered' = recovered
      /\ UNCHANGED libs
  BY <1>0 DEF RecoveryCommit, MergeCommit, Retire
<1>2. x \in Plans
  BY <1>0, <1>1, Committing
<1>3. x.files = FilesOf(x.from) /\ x.to # x.from
  BY <1>1, <1>2, PlansAre
<1>4. \A f \in Files : photoOf'[f] = IF photoOf[f] = x.from THEN x.to ELSE photoOf[f]
  BY <1>1, <1>3 DEF Reassigned, FilesOf
<1> QED BY <1>1, <1>2, <1>3, <1>4

\* A File that has a row has its library.
Housed == \A f \in Rows : LibOf[f] \in libs

LEMMA AlwaysHoused == Spec => []Housed
<1>1. Init => Housed
  BY DEF Init, Housed, Rows
<1>2. ASSUME Inv, Housed, [Next]_vars PROVE Housed'
  <2>1. CASE UNCHANGED identity
    BY <1>2, <2>1 DEF identity, Housed, Rows
  <2>2. ASSUME NEW s \in Sessions, SplitCommit(s) PROVE Housed'
    <3>1. PICK x : x \in Plans /\ UNCHANGED libs /\ \E p : photoOf' = Reassigned(x, p)
      <4>1. /\ task[s].at = "attested" /\ task' = [task EXCEPT ![s] = Idle] /\ UNCHANGED libs
            /\ \E p : photoOf' = Reassigned(task[s].plan, p)
        BY <2>2 DEF SplitCommit
      <4> QED BY <1>2, <4>1, Committing
    <3>2. \A f \in x.files : photoOf[f] = x.from /\ x.from # None
      BY <1>2, <3>1, PlansAre DEF FilesOf, Inv, Shape
    <3> QED BY <1>2, <3>1, <3>2 DEF Housed, Rows, Reassigned
  <2>3. ASSUME NEW s \in Sessions, RecoveryCommit(s) \/ MergeCommit(s) PROVE Housed'
    <3>1. PICK x \in Plans :
            /\ \A f \in Files : photoOf'[f] = IF photoOf[f] = x.from THEN x.to ELSE photoOf[f]
            /\ UNCHANGED libs
      BY <1>2, <2>3, Emptied
    <3>2. x.from # None
      BY <1>2, PlansAre DEF Inv, Shape
    <3> QED BY <1>2, <3>1, <3>2 DEF Housed, Rows
  <2>4. ASSUME NEW s \in Sessions, CommitForget(s) PROVE Housed'
    BY <1>2, <2>4 DEF CommitForget, Housed, Rows
  <2>5. ASSUME NEW f \in Files, Appear(f) PROVE Housed'
    BY <1>2, <2>5 DEF Appear, Housed, Rows, Inv, Shape
  <2> QED BY <1>2, <2>1, <2>2, <2>3, <2>4, <2>5, IdentityStep
<1> QED BY <1>1, <1>2, AlwaysInv, PTL DEF Spec

\* A Photo that goes while its library stays goes by a merge or a recovery.
LEMMA OnlyRetired ==
    ASSUME Inv, Housed, [Next]_vars, libs' = libs, NEW p \in photos, p \notin photos'
    PROVE  \E s \in Sessions : RecoveryCommit(s) \/ MergeCommit(s)
<1>1. ASSUME NEW s \in Sessions, CommitForget(s) PROVE FALSE
  <2>1. /\ libs' = libs \ {task[s].of}
        /\ photos' = photos \ {q \in task[s].photos :
              FilesOf(q) \subseteq {f \in Rows : LibOf[f] = task[s].of}}
    BY <1>1 DEF CommitForget
  <2>2. {f \in Rows : LibOf[f] = task[s].of} = {}
    BY <2>1 DEF Housed
  <2>3. FilesOf(p) = {}
    BY <2>1, <2>2
  <2> QED BY <2>3 DEF Inv, NoGhostPhoto, Rows, FilesOf
<1>2. ASSUME NEW s \in Sessions, SplitCommit(s) PROVE FALSE
  BY <1>2 DEF SplitCommit
<1>3. ASSUME NEW f \in Files, Appear(f) PROVE FALSE
  BY <1>3 DEF Appear
<1>4. ~UNCHANGED identity
  BY DEF identity
<1> QED BY <1>1, <1>2, <1>3, <1>4, IdentityStep

\* A merge and a recovery retire Photos that nobody has on a shelf, in a
\* lineage or by a File.
THEOREM RetiredPhotosAreBare == Spec => RetiredPhotoIsBare
<1>1. ASSUME Inv, CurationInv, Housed, [Next]_vars
      PROVE  [\A p \in photos \ photos' : libs' = libs =>
                /\ ShelvesWith(p) = {}
                /\ \A e \in lineage : p \notin {e[1], e[2]}
                /\ \A f \in Files : photoOf'[f] # p]_vars
  <2>1. ASSUME NEW p \in photos, p \notin photos', libs' = libs
        PROVE  /\ ShelvesWith(p) = {}
               /\ \A e \in lineage : p \notin {e[1], e[2]}
               /\ \A f \in Files : photoOf'[f] # p
    <3>1. PICK s \in Sessions : RecoveryCommit(s) \/ MergeCommit(s)
      BY <1>1, <2>1, OnlyRetired
    <3>2. PICK x \in Plans :
            /\ x.op \in {"merge", "recover"}
            /\ photos' = photos \ {x.from} /\ x.to # x.from
            /\ \A f \in Files : photoOf'[f] = IF photoOf[f] = x.from THEN x.to ELSE photoOf[f]
      BY <1>1, <3>1, Emptied
    <3>3. p = x.from
      BY <2>1, <3>2
    <3> QED BY <1>1, <3>2, <3>3, BareBefore
  <2> QED BY <2>1
<1> QED BY <1>1, AlwaysInv, AlwaysCurationInv, AlwaysHoused, PTL DEF Spec, RetiredPhotoIsBare

\* A recovery gives every File of the divided Photo its old Photo again.
THEOREM RecoveriesReunite == Spec => RecoveryReunites
<1>1. ASSUME Inv, CurationInv, [Next]_vars
      PROVE  [\A r \in recovered' \ recovered : \A f \in r.files \cup r.kin \cup FilesOf(r.new) :
                photoOf'[f] \in {r.src, None}]_vars
  <2>1. ASSUME NEW r \in recovered', r \notin recovered,
               NEW f \in r.files \cup r.kin \cup FilesOf(r.new)
        PROVE  photoOf'[f] \in {r.src, None}
    <3>1. PICK s \in Sessions : RecoveryCommit(s) \/ MergeCommit(s)
      <4>1. ASSUME NEW s \in Sessions, SplitCommit(s) \/ CommitForget(s) PROVE FALSE
        BY <2>1, <4>1 DEF SplitCommit, CommitForget
      <4>2. ASSUME NEW g \in Files, Appear(g) PROVE FALSE
        BY <2>1, <4>2 DEF Appear
      <4>3. ~UNCHANGED identity
        BY <2>1 DEF identity
      <4> QED BY <1>1, <4>1, <4>2, <4>3, IdentityStep
    <3>2. PICK x \in Plans :
            /\ x.op = "recover" /\ r \in splits /\ r.new = x.from
            /\ \A g \in Files : photoOf'[g] = IF photoOf[g] = x.from THEN x.to ELSE photoOf[g]
      BY <1>1, <2>1, <3>1, Emptied
    <3>3. PICK q \in splits :
            Recoverable(q) /\ x.from = q.new /\ x.to = q.src /\ x.files = q.files
      BY <3>2, RetiredIs
    <3>4. SplitStands(q) /\ r = q
      BY <1>1, <3>2, <3>3 DEF CurationInv, Divided, SplitStands
    <3>5. FilesOf(r.new) = r.files /\ r \notin recovered /\ ~LaterChange(r)
      BY <3>3, <3>4 DEF Recoverable
    <3>6. \A o \in splits : o.at > r.at => r.src \notin {o.src, o.new}
      <4>1. ASSUME NEW o \in splits, o.at > r.at, r.src \in {o.src, o.new} PROVE FALSE
        <5>1. o # r
          BY <3>4, <4>1 DEF SplitStands
        <5>2. r.src \in {o.src, o.new} \cap {r.src, r.new}
          BY <4>1
        <5> QED BY <3>5, <4>1, <5>1, <5>2 DEF LaterChange
      <4> QED BY <4>1
    <3>7. \A g \in r.kin : g \in Files /\ photoOf[g] \in {r.src, None}
      BY <3>4, <3>5, <3>6 DEF SplitStands, KinStays
    <3>8. r.src # None /\ r.new # None
      BY <1>1, <3>4 DEF SplitStands, Inv, Shape
    <3> QED BY <2>1, <3>2, <3>3, <3>4, <3>5, <3>7, <3>8 DEF FilesOf
  <2> QED BY <2>1
<1> QED BY <1>1, AlwaysInv, AlwaysCurationInv, PTL DEF Spec, RecoveryReunites

=============================================================================
