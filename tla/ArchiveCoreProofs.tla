-------------------------- MODULE ArchiveCoreProofs --------------------------
(***************************************************************************)
(* Theorems about scan, Verify and mismatch resolution for every set of    *)
(* paths, contents, Files and scanners, and with or without the busy gate. *)
(*                                                                         *)
(* The invariant IInv says, beyond the two properties it proves, why stale *)
(* rows do no structural harm: whatever catalogue a scan SELECTed, every   *)
(* File in it is still a File of the committed catalogue and of the open   *)
(* transaction, because no statement of the program ever deletes one.      *)
(*                                                                         *)
(* Observed adds what a scan and Verify know of the disk and have made of  *)
(* the rows: a walk is honest about every path nobody touched, pass 2 has  *)
(* settled each File it matched as its path asks and left the others as it *)
(* found them, and Verify has judged the Files it is done with.  A scan    *)
(* whose rows have become stale makes no such promise, which is why what   *)
(* its commit shows needs those rows to be the catalogue's.  Gated adds    *)
(* what the busy gate makes of it: no operation runs beside another, so    *)
(* they always are, and every transaction extends the committed ledger.    *)
(* Drafted, on top of it, says that the open transaction has taken each    *)
(* File one step of FileLedger at most, which gives the refinement.        *)
(***************************************************************************)
EXTENDS ArchiveCore, CatalogueProofs

-----------------------------------------------------------------------------
(* The invariant.                                                          *)

\* A scanner whose state is st, against the committed catalogue d, the open
\* transaction t and the holder w of the write lock.
Fits(s, st, d, t, w) ==
    /\ st.pc \in {"walk", "reconcile"} => w = s
    /\ st.pc \in {"selected", "walk", "reconcile"} =>
            st.snap \in Catalogue /\ Files(st.snap) \subseteq Files(d)
    /\ st.pc # "reconcile" => st.fresh = {}
    /\ st.fresh \subseteq Files(t)
    /\ st.pc = "reconcile" => \A p \in st.todo : st.inv[p] # None

ScannersFit == \A s \in Scanners : Fits(s, sc[s], db, tx, writer)

VerifierFits ==
    /\ vf.pc = "run" => writer = Verifier
    /\ vf.todo \subseteq Files(db)

PlanFits ==
    plan # None /\ plan.action = "adopt" => plan.evidence.bytes \in Contents

\* What is proved of a decision under the lock, pl, and stays so until the
\* commit: against the catalogue d nothing of it can change, on the disk k it
\* can, and then the decision remembers the path.
Proved(pl, d, k) ==
    LET f == pl.file
        e == pl.evidence
    IN  /\ pl \in PlanState
        /\ f \in Files(d) /\ d.row[f].lib /\ d.row[f].health = "hash_mismatch"
        /\ Current(d, f).sha \notin {None, e.bytes}
        /\ e.row = d.row[f] /\ e.expected = Current(d, f) /\ e.obs = d.obs[f]
        /\ pl.action = "adopt" =>
                k[d.row[f].path] = e.bytes \/ d.row[f].path \in pl.touched

DecisionFits == writer = Reviewer => Proved(plan, db, disk)

IInv ==
    /\ TypeOK
    /\ CurrentRevisionLive
    /\ Files(db) \subseteq Files(tx)
    /\ ScannersFit
    /\ VerifierFits
    /\ PlanFits
    /\ DecisionFits

-----------------------------------------------------------------------------
(* The catalogues of a state that satisfies it.                            *)

\* The committed catalogue and the open transaction's are sound.
LEMMA Catalogues == IInv => Sound(db) /\ Sound(tx)
  BY DEF IInv, TypeOK, CurrentRevisionLive, Sound

\* A program with only Phase-1 rows starts from a sound catalogue.
LEMMA LegacySound == Sound(LegacyCatalogue)
<1> DEFINE L == LegacyCatalogue
           q == <<[sha |-> None, superseded |-> FALSE]>>
<1>1. q \in Seq(Revision) /\ Len(q) = 1 /\ ~q[1].superseded
  BY DEF Revision
<1>2. UnbornRow \in Row
  BY DEF UnbornRow, Row, Healths
<1>3. ASSUME NEW f \in FileIds
      PROVE  /\ L.row[f] \in Row /\ L.rev[f] \in Seq(Revision)
             /\ L.row[f].presence # "none" =>
                    /\ L.row[f].path \in Paths /\ L.row[f].photo \in FileIds
                    /\ L.row[f].cur \in 1 .. Len(L.rev[f])
                    /\ ~L.rev[f][L.row[f].cur].superseded
  <2>1. CASE Legacy[f] = None
    BY <1>2, <2>1 DEF LegacyCatalogue, UnbornRow
  <2>2. CASE Legacy[f] # None
    <3>1. Legacy[f] \in Paths
      BY <2>2, LegacyAssumption
    <3>2. L.row[f] = [presence |-> "present", health |-> "ok", path |-> Legacy[f],
                      sha |-> None, photo |-> f, cur |-> 1, lib |-> FALSE]
      BY <2>2 DEF LegacyCatalogue
    <3>3. L.rev[f] = q
      BY <2>2 DEF LegacyCatalogue
    <3>4. L.row[f] \in Row
      BY <3>1, <3>2 DEF Row, Healths
    <3>5. /\ L.row[f].path = Legacy[f] /\ L.row[f].photo = f
          /\ L.row[f].cur = 1
      BY <3>2
    <3> HIDE DEF L, q
    <3>6. L.rev[f][L.row[f].cur] = q[1] /\ 1 .. Len(L.rev[f]) = 1 .. Len(q)
      BY <3>3, <3>5
    <3>7. L.row[f].cur \in 1 .. Len(L.rev[f])
      BY <1>1, <3>5, <3>6
    <3>8. ~L.rev[f][L.row[f].cur].superseded
      BY <1>1, <3>6
    <3> QED BY <1>1, <3>1, <3>3, <3>4, <3>5, <3>7, <3>8
  <2> QED BY <2>1, <2>2
<1>4. L \in Catalogue
  BY <1>3 DEF LegacyCatalogue, Catalogue
<1> HIDE DEF L, q
<1>5. Located(L) /\ CurrentLive(L)
  BY <1>3 DEF Located, CurrentLive, Current, Files
<1> QED BY <1>4, <1>5 DEF Sound, L

\* The invariant holds at the start.
LEMMA InitIInv == Init => IInv
<1> SUFFICES ASSUME Init PROVE IInv
  OBVIOUS
<1>1. Idle \in ScanState
  BY DEF Idle, ScanState
<1>2. Sound(db) /\ Sound(tx)
  BY LegacySound DEF Init
<1>3. TypeOK
  BY <1>1, <1>2 DEF Init, TypeOK, Sound, VIdle, VerifyState
<1>4. ScannersFit
  BY DEF Init, ScannersFit, Fits, Idle
<1> QED BY <1>2, <1>3, <1>4, ProcessAssumption
        DEF Init, IInv, CurrentRevisionLive, Sound, VerifierFits, PlanFits, DecisionFits, VIdle

-----------------------------------------------------------------------------
(* One step of one process: what it must establish to keep the invariant.  *)

\* A step of scanner s that leaves it in state st.
LEMMA ScanAdvances ==
    ASSUME IInv, NEW s \in Scanners, NEW st \in ScanState,
           sc' = [sc EXCEPT ![s] = st],
           Sound(tx'), Sound(db'),
           Files(db) \subseteq Files(db'), Files(db') \subseteq Files(tx'),
           writer = s \/ Files(tx) \subseteq Files(tx'),
           writer = s \/ writer' = writer \/ (writer = None /\ writer' = s),
           writer = s \/ db' = db,
           writer' \in {writer, s, None},
           Fits(s, st, db', tx', writer'),
           complete' \in BOOLEAN, ops' \in Nat,
           UNCHANGED <<disk, online, vf, plan, decided, unsettled, envs>>
    PROVE  IInv'
<1>1. TypeOK'
  BY DEF IInv, TypeOK, Sound
<1>2. ScannersFit'
  <2> SUFFICES ASSUME NEW x \in Scanners PROVE Fits(x, sc'[x], db', tx', writer')
    BY DEF ScannersFit, Fits
  <2>1. CASE x = s
    BY <2>1 DEF IInv, TypeOK
  <2>2. CASE x # s
    <3>1. sc'[x] = sc[x] /\ Fits(x, sc[x], db, tx, writer)
      BY <2>2 DEF IInv, TypeOK, ScannersFit, ScanState
    <3>2. writer = x => writer' = x
      BY <2>2, ProcessAssumption
    <3>3. sc[x].fresh \subseteq Files(tx')
      BY <2>2, <3>1 DEF Fits
    <3> QED BY <3>1, <3>2, <3>3 DEF Fits
  <2> QED BY <2>1, <2>2
<1>3. VerifierFits'
  BY ProcessAssumption DEF IInv, VerifierFits
<1>4. DecisionFits'
  BY ProcessAssumption DEF IInv, DecisionFits
<1> QED BY <1>1, <1>2, <1>3, <1>4 DEF IInv, CurrentRevisionLive, Sound, PlanFits

\* A step of Verify.
LEMMA VerifyAdvances ==
    ASSUME IInv, vf' \in VerifyState,
           Sound(tx'), Sound(db'),
           Files(db) \subseteq Files(db'), Files(db') \subseteq Files(tx'),
           writer = Verifier \/ Files(tx) \subseteq Files(tx'),
           writer \in {None, Verifier}, writer' \in {None, Verifier},
           vf'.pc = "run" => writer' = Verifier,
           vf'.todo \subseteq Files(db'),
           unsettled' \subseteq FileIds, ops' \in Nat,
           UNCHANGED <<disk, online, complete, sc, plan, decided, envs>>
    PROVE  IInv'
<1>1. TypeOK'
  BY DEF IInv, TypeOK, Sound
<1>2. ScannersFit'
  <2> SUFFICES ASSUME NEW x \in Scanners PROVE Fits(x, sc[x], db', tx', writer')
    BY DEF ScannersFit, Fits
  <2>1. Fits(x, sc[x], db, tx, writer) /\ writer # x
    BY ProcessAssumption DEF IInv, ScannersFit
  <2>2. sc[x].pc \notin {"walk", "reconcile"} /\ sc[x].fresh = {}
    BY <2>1 DEF Fits
  <2> QED BY <2>1, <2>2 DEF Fits
<1>3. DecisionFits'
  BY ProcessAssumption DEF DecisionFits, Verifier, Reviewer
<1> QED BY <1>1, <1>2, <1>3 DEF IInv, CurrentRevisionLive, Sound, PlanFits, VerifierFits

-----------------------------------------------------------------------------
(* A scan up to the end of its walk.                                       *)

\* Opening a session, SELECTing and taking the lock keep the invariant.
LEMMA ScanStarts ==
    ASSUME IInv, NEW s \in Scanners,
           ScanOffline(s) \/ ScanOpen(s) \/ ScanSelect(s) \/ ScanLock(s)
    PROVE  IInv'
<1> USE Catalogues
<1>1. /\ sc \in [Scanners -> ScanState] /\ sc[s] \in ScanState
      /\ Fits(s, sc[s], db, tx, writer) /\ Files(db) \subseteq Files(tx)
      /\ complete \in BOOLEAN /\ ops \in Nat /\ db \in Catalogue
  BY DEF IInv, TypeOK, ScannersFit
<1>2. CASE ScanOffline(s)
  <2>1. sc' = [sc EXCEPT ![s] = sc[s]]
    BY <1>1, <1>2 DEF ScanOffline
  <2>2. ops' \in Nat /\ complete' \in BOOLEAN
    BY <1>1, <1>2 DEF ScanOffline
  <2>3. UNCHANGED <<disk, online, db, tx, writer, vf, plan, decided, unsettled, envs>>
    BY <1>2 DEF ScanOffline
  <2>4. Fits(s, sc[s], db', tx', writer')
    BY <1>1, <2>3
  <2> QED BY <1>1, <2>1, <2>2, <2>3, <2>4, ScanAdvances
<1>3. CASE ScanOpen(s)
  <2> DEFINE st == [Idle EXCEPT !.pc = "opened"]
  <2>1. st \in ScanState /\ st.pc = "opened" /\ st.fresh = {}
    BY DEF Idle, ScanState
  <2>2. sc' = [sc EXCEPT ![s] = st]
    BY <1>3 DEF ScanOpen
  <2> HIDE DEF st
  <2>3. Fits(s, st, db', tx', writer')
    BY <2>1 DEF Fits
  <2>4. ops' \in Nat /\ complete' \in BOOLEAN
    <3>1. ops' = ops + 1
      BY <1>3 DEF ScanOpen
    <3>2. complete' = FALSE
      BY <1>3 DEF ScanOpen
    <3>3. ops' \in Nat
      BY <1>1, <3>1
    <3> QED BY <3>2, <3>3
  <2>5. UNCHANGED <<disk, online, db, tx, writer, vf, plan, decided, unsettled, envs>>
    BY <1>3 DEF ScanOpen
  <2> QED BY <1>1, <2>1, <2>2, <2>3, <2>4, <2>5, ScanAdvances
<1>4. CASE ScanSelect(s)
  <2> DEFINE st == [sc[s] EXCEPT !.pc = "selected", !.snap = db]
  <2>1. /\ st \in ScanState /\ st.pc = "selected" /\ st.snap = db
        /\ st.fresh = sc[s].fresh
    BY <1>1 DEF ScanState
  <2>2. sc' = [sc EXCEPT ![s] = st]
    BY <1>1, <1>4 DEF ScanSelect
  <2> HIDE DEF st
  <2>3. Fits(s, st, db', tx', writer')
    BY <1>1, <1>4, <2>1 DEF Fits, ScanSelect
  <2> QED BY <1>1, <1>4, <2>1, <2>2, <2>3, ScanAdvances DEF ScanSelect
<1>5. CASE ScanLock(s)
  <2> DEFINE st == [sc[s] EXCEPT !.pc = "walk",
                                 !.todo = IF online THEN Paths ELSE {},
                                 !.errors = ~online]
  <2>1. /\ st \in ScanState /\ st.pc = "walk" /\ st.snap = sc[s].snap
        /\ st.fresh = sc[s].fresh
    BY <1>1 DEF ScanState, IInv, TypeOK
  <2>2. sc' = [sc EXCEPT ![s] = st]
    BY <1>1, <1>5 DEF ScanLock
  <2> HIDE DEF st
  <2>3. Fits(s, st, db', tx', writer')
    BY <1>1, <1>5, <2>1 DEF Fits, ScanLock
  <2> QED BY <1>1, <1>5, <2>1, <2>2, <2>3, ScanAdvances DEF ScanLock, Free
<1> QED BY <1>2, <1>3, <1>4, <1>5

\* Whatever a step of the walk records, it keeps the invariant.
LEMMA WalkAdvances ==
    ASSUME IInv, NEW s \in Scanners, NEW p \in Paths, NEW st \in ScanState,
           sc[s].pc = "walk", st.pc = "walk",
           st.snap = sc[s].snap, st.fresh = sc[s].fresh,
           Walked(s, p, st)
    PROVE  IInv'
<1> DEFINE n == [st EXCEPT !.todo = @ \ {p}]
<1>1. /\ n \in ScanState /\ n.pc = "walk"
      /\ n.snap = sc[s].snap /\ n.fresh = sc[s].fresh
  BY DEF ScanState
<1>2. sc' = [sc EXCEPT ![s] = n]
  BY DEF Walked
<1> HIDE DEF n
<1>3. /\ Fits(s, sc[s], db, tx, writer) /\ Files(db) \subseteq Files(tx)
      /\ complete \in BOOLEAN /\ ops \in Nat
  BY DEF IInv, TypeOK, ScannersFit
<1>4. Fits(s, n, db', tx', writer')
  BY <1>1, <1>3 DEF Fits, Walked
<1> QED BY <1>1, <1>2, <1>3, <1>4, ScanAdvances, Catalogues DEF Walked

\* The walk and its end.
LEMMA ScanWalks ==
    ASSUME IInv, NEW s \in Scanners,
           \/ \E p \in Paths : \/ VisitBlind(s, p) \/ VisitAbsent(s, p)
                               \/ VisitUnreadable(s, p) \/ VisitDecoded(s, p)
           \/ EndWalk(s)
    PROVE  IInv'
<1>1. /\ sc \in [Scanners -> ScanState] /\ sc[s] \in ScanState
      /\ Fits(s, sc[s], db, tx, writer) /\ Files(db) \subseteq Files(tx)
      /\ complete \in BOOLEAN /\ ops \in Nat
  BY DEF IInv, TypeOK, ScannersFit
<1>2. ASSUME NEW p \in Paths, VisitBlind(s, p) PROVE IInv'
  <2> DEFINE st == [sc[s] EXCEPT !.errors = TRUE]
  <2>1. st \in ScanState /\ st.pc = sc[s].pc /\ st.snap = sc[s].snap
        /\ st.fresh = sc[s].fresh
    BY <1>1 DEF ScanState
  <2> HIDE DEF st
  <2>2. sc[s].pc = "walk" /\ Walked(s, p, st)
    BY <1>2 DEF VisitBlind, Walking, st
  <2> QED BY <2>1, <2>2, WalkAdvances
<1>3. ASSUME NEW p \in Paths, VisitAbsent(s, p) PROVE IInv'
  <2>1. sc[s].pc = "walk" /\ Walked(s, p, sc[s])
    BY <1>3 DEF VisitAbsent, Walking
  <2> QED BY <1>1, <2>1, WalkAdvances
<1>4. ASSUME NEW p \in Paths, VisitUnreadable(s, p) PROVE IInv'
  <2> DEFINE st == [sc[s] EXCEPT !.seen = @ \cup {p}]
  <2>1. st \in ScanState /\ st.pc = sc[s].pc /\ st.snap = sc[s].snap
        /\ st.fresh = sc[s].fresh
    BY <1>1 DEF ScanState
  <2> HIDE DEF st
  <2>2. sc[s].pc = "walk" /\ Walked(s, p, st)
    BY <1>4 DEF VisitUnreadable, Walking, st
  <2> QED BY <2>1, <2>2, WalkAdvances
<1>5. ASSUME NEW p \in Paths, VisitDecoded(s, p) PROVE IInv'
  <2>1. PICK c \in Contents :
            Walked(s, p, [sc[s] EXCEPT !.seen = @ \cup {p}, !.inv[p] = c])
    BY <1>5 DEF VisitDecoded
  <2> DEFINE st == [sc[s] EXCEPT !.seen = @ \cup {p}, !.inv[p] = c]
  <2>2. st \in ScanState /\ st.pc = sc[s].pc /\ st.snap = sc[s].snap
        /\ st.fresh = sc[s].fresh
    BY <1>1 DEF ScanState
  <2> HIDE DEF st
  <2>3. sc[s].pc = "walk" /\ Walked(s, p, st)
    BY <1>5, <2>1 DEF VisitDecoded, Walking, st
  <2> QED BY <2>2, <2>3, WalkAdvances
<1>6. CASE EndWalk(s)
  <2> DEFINE n == [sc[s] EXCEPT !.pc = "reconcile",
                                !.todo = {p \in Paths : sc[s].inv[p] # None}]
  <2>1. /\ n \in ScanState /\ n.pc = "reconcile" /\ n.snap = sc[s].snap
        /\ n.fresh = sc[s].fresh /\ \A p \in n.todo : n.inv[p] # None
    BY <1>1 DEF ScanState
  <2>2. sc' = [sc EXCEPT ![s] = n]
    BY <1>1, <1>6 DEF EndWalk
  <2> HIDE DEF n
  <2>3. Fits(s, n, db', tx', writer')
    BY <1>1, <1>6, <2>1 DEF Fits, EndWalk
  <2> QED BY <1>1, <1>6, <2>1, <2>2, <2>3, ScanAdvances, Catalogues DEF EndWalk
<1> QED BY <1>2, <1>3, <1>4, <1>5, <1>6

-----------------------------------------------------------------------------
(* Pass 2 of a scan.                                                       *)

\* Whatever rows a path is reconciled with, it is enough that the transaction
\* grows and knows the rows that are indexed anew.
LEMMA ReconcileAdvances ==
    ASSUME IInv, NEW s \in Scanners, NEW p \in Paths,
           NEW matched \in SUBSET FileIds, NEW fresh \in SUBSET FileIds,
           sc[s].pc = "reconcile", Reconciled(s, p, matched, fresh),
           Grows(tx, tx'), fresh \subseteq Files(tx')
    PROVE  IInv'
<1> DEFINE st == [sc[s] EXCEPT !.todo = @ \ {p}, !.matched = @ \cup matched,
                               !.fresh = @ \cup fresh]
<1>1. /\ sc \in [Scanners -> ScanState] /\ sc[s] \in ScanState
      /\ Fits(s, sc[s], db, tx, writer) /\ Files(db) \subseteq Files(tx)
      /\ complete \in BOOLEAN /\ ops \in Nat
  BY DEF IInv, TypeOK, ScannersFit
<1>2. /\ st \in ScanState /\ st.pc = "reconcile" /\ st.snap = sc[s].snap
      /\ st.fresh = sc[s].fresh \cup fresh /\ st.inv = sc[s].inv
      /\ st.todo \subseteq sc[s].todo
  BY <1>1 DEF ScanState
<1>3. sc' = [sc EXCEPT ![s] = st]
  BY <1>1 DEF Reconciled
<1> HIDE DEF st
<1>4. Fits(s, st, db', tx', writer')
  BY <1>1, <1>2 DEF Fits, Reconciled, Grows
<1> QED BY <1>1, <1>2, <1>3, <1>4, ScanAdvances, Catalogues DEF Reconciled, Grows

\* A File the scan found at a known path is still a File of the transaction,
\* although the row it was found in may be stale.
LEMMA KnownFile ==
    ASSUME IInv, NEW s \in Scanners, NEW p \in Paths, NEW f, Known(s, p, f)
    PROVE  /\ sc[s].pc = "reconcile" /\ f \in Files(tx) /\ f \in FileIds
           /\ sc[s].snap.row[f].cur \in Nat
           /\ sc[s].inv[p] \in Contents
           /\ Proper(At(tx.row[f], p), tx.rev[f])
<1>1. /\ sc[s].pc = "reconcile" /\ p \in sc[s].todo /\ f \in KnownAt(s, p)
      /\ sc[s] \in ScanState /\ Fits(s, sc[s], db, tx, writer)
      /\ Files(db) \subseteq Files(tx)
  BY DEF Known, IInv, TypeOK, ScannersFit
<1>2. /\ sc[s].snap \in Catalogue /\ Files(sc[s].snap) \subseteq Files(tx)
      /\ sc[s].inv[p] # None
  BY <1>1 DEF Fits
<1>3. f \in FileIds /\ f \in Files(sc[s].snap)
  BY <1>1 DEF KnownAt, PresentFiles, Files
<1>4. sc[s].snap.row[f].cur \in Nat
  BY <1>2, <1>3 DEF Catalogue, Row
<1>5. sc[s].inv[p] \in Contents
  BY <1>1, <1>2 DEF ScanState
<1>6. Proper(tx.row[f], tx.rev[f])
  BY <1>2, <1>3, RowProper, Catalogues
<1>7. Proper(At(tx.row[f], p), tx.rev[f])
  BY <1>6 DEF Proper, At, Row
<1> QED BY <1>1, <1>2, <1>3, <1>4, <1>5, <1>7

\* The Files at known paths.
LEMMA KnownSteps ==
    ASSUME IInv, NEW s \in Scanners, NEW p \in Paths, NEW f \in FileIds,
           \/ KnownBackfill(s, p, f) \/ KnownUnchanged(s, p, f)
           \/ KnownHeld(s, p, f) \/ KnownModified(s, p, f)
    PROVE  IInv'
<1>1. Known(s, p, f)
  BY DEF KnownBackfill, KnownUnchanged, KnownHeld, KnownModified
<1>2. /\ sc[s].pc = "reconcile" /\ f \in Files(tx)
      /\ sc[s].snap.row[f].cur \in Nat /\ sc[s].inv[p] \in Contents
      /\ Proper(At(tx.row[f], p), tx.rev[f]) /\ Sound(tx)
  BY <1>1, KnownFile, Catalogues
<1>3. CASE KnownBackfill(s, p, f)
  <2>1. tx' = Complete(tx, f, sc[s].snap.row[f].cur, sc[s].inv[p], At(tx.row[f], p))
    BY <1>3 DEF KnownBackfill, Write
  <2>2. Grows(tx, tx') /\ f \in Files(tx')
    BY <1>2, <2>1, CompleteGrows
  <2>3. Reconciled(s, p, {f}, {f})
    BY <1>3 DEF KnownBackfill
  <2> QED BY <1>2, <2>2, <2>3, ReconcileAdvances
<1>4. CASE KnownUnchanged(s, p, f)
  <2>1. Grows(tx, tx')
    BY <1>2, <1>4, RefreshGrows DEF KnownUnchanged, Write
  <2>2. Reconciled(s, p, {f}, {})
    BY <1>4 DEF KnownUnchanged
  <2> QED BY <1>2, <2>1, <2>2, ReconcileAdvances
<1>5. CASE KnownHeld(s, p, f)
  <2>1. Grows(tx, tx')
    BY <1>2, <1>5 DEF KnownHeld, Grows
  <2>2. Reconciled(s, p, {f}, {})
    BY <1>5 DEF KnownHeld
  <2> QED BY <1>2, <2>1, <2>2, ReconcileAdvances
<1>6. CASE KnownModified(s, p, f)
  <2>1. tx' = Supersede(tx, f, sc[s].snap.row[f].cur, sc[s].inv[p], At(tx.row[f], p))
    BY <1>6 DEF KnownModified, Write
  <2>2. Grows(tx, tx') /\ f \in Files(tx')
    BY <1>2, <2>1, SupersedeGrows
  <2>3. Reconciled(s, p, {f}, {f})
    BY <1>6 DEF KnownModified
  <2> QED BY <1>2, <2>2, <2>3, ReconcileAdvances
<1> QED BY <1>3, <1>4, <1>5, <1>6

\* A File whose bytes an orphan path has, is still a File of the transaction.
LEMMA CandidateFile ==
    ASSUME IInv, NEW s \in Scanners, NEW p \in Paths, Orphan(s, p),
           NEW f \in Candidates(s, p)
    PROVE  f \in FileIds /\ f \in Files(tx)
<1>1. /\ sc[s].pc = "reconcile" /\ p \in sc[s].todo
      /\ Fits(s, sc[s], db, tx, writer) /\ Files(db) \subseteq Files(tx)
  BY DEF Orphan, IInv, ScannersFit
<1>2. /\ sc[s].inv[p] # None /\ sc[s].fresh \subseteq Files(tx)
      /\ Files(sc[s].snap) \subseteq Files(tx)
  BY <1>1 DEF Fits
<1>3. f \in FileIds /\ IndexedSha(s, f) # None
  BY <1>2 DEF Candidates
<1>4. CASE f \in sc[s].fresh
  BY <1>2, <1>3, <1>4
<1>5. CASE f \notin sc[s].fresh
  <2>1. sc[s].snap.row[f].presence \in {"present", "missing"}
    BY <1>3, <1>5 DEF IndexedSha
  <2> QED BY <1>2, <1>3, <2>1 DEF Files
<1> QED BY <1>4, <1>5

\* A new File inserted under a Photo that exists, or under its own.
LEMMA InsertedAdvances ==
    ASSUME IInv, NEW s \in Scanners, NEW p \in Paths, Orphan(s, p),
           NEW ph \in FileIds \cup {None}, Inserted(s, p, ph)
    PROVE  IInv'
<1>1. PICK g \in FileIds \ Files(tx) :
        /\ Write(Insert(tx, g, p, sc[s].inv[p], IF ph = None THEN g ELSE ph))
        /\ Reconciled(s, p, {g}, {g})
  BY DEF Inserted
<1>2. /\ sc[s].pc = "reconcile" /\ p \in sc[s].todo /\ sc[s] \in ScanState
      /\ Fits(s, sc[s], db, tx, writer)
  BY DEF Orphan, IInv, TypeOK, ScannersFit
<1>3. sc[s].inv[p] \in Contents
  BY <1>2 DEF Fits, ScanState
<1> DEFINE h == IF ph = None THEN g ELSE ph
<1>4. h \in FileIds
  OBVIOUS
<1>5. tx' = Insert(tx, g, p, sc[s].inv[p], h)
  BY <1>1 DEF Write
<1> HIDE DEF h
<1>6. Grows(tx, tx') /\ g \in Files(tx')
  BY <1>3, <1>4, <1>5, InsertGrows, Catalogues
<1> QED BY <1>1, <1>2, <1>6, ReconcileAdvances

\* A File relocated to an orphan path.
LEMMA RelocatedAdvances ==
    ASSUME IInv, NEW s \in Scanners, NEW p \in Paths, Orphan(s, p),
           NEW f \in Candidates(s, p),
           Write(Relocate(tx, f, p, sc[s].inv[p])), Reconciled(s, p, {f}, {f})
    PROVE  IInv'
<1>1. /\ sc[s].pc = "reconcile" /\ p \in sc[s].todo /\ sc[s] \in ScanState
      /\ Fits(s, sc[s], db, tx, writer)
  BY DEF Orphan, IInv, TypeOK, ScannersFit
<1>2. sc[s].inv[p] \in Contents
  BY <1>1 DEF Fits, ScanState
<1>3. f \in FileIds /\ f \in Files(tx)
  BY CandidateFile
<1>4. Grows(tx, tx') /\ f \in Files(tx')
  BY <1>2, <1>3, RelocateGrows, Catalogues DEF Write
<1> QED BY <1>1, <1>3, <1>4, ReconcileAdvances

\* The orphans.
LEMMA OrphanSteps ==
    ASSUME IInv, NEW s \in Scanners, NEW p \in Paths,
           \/ OrphanRestored(s, p) \/ OrphanMoved(s, p) \/ OrphanAmbiguous(s, p)
           \/ OrphanCopied(s, p) \/ OrphanNew(s, p)
    PROVE  IInv'
<1>1. Orphan(s, p)
  BY DEF OrphanRestored, OrphanMoved, OrphanAmbiguous, OrphanCopied, OrphanNew
<1>2. ASSUME NEW f \in Candidates(s, p) PROVE View(s, f).photo \in FileIds \cup {None}
  <2>1. sc[s].pc = "reconcile" /\ Fits(s, sc[s], db, tx, writer) /\ tx \in Catalogue
    BY <1>1 DEF Orphan, IInv, TypeOK, ScannersFit
  <2>2. sc[s].snap \in Catalogue /\ f \in FileIds
    BY <1>1, <2>1, CandidateFile DEF Fits
  <2>3. View(s, f) \in Row
    BY <2>1, <2>2 DEF View, Catalogue
  <2> QED BY <2>3 DEF Row
<1>3. CASE OrphanRestored(s, p)
  <2>1. PICK f \in Restorable(s, p) :
          Write(Relocate(tx, f, p, sc[s].inv[p])) /\ Reconciled(s, p, {f}, {f})
    BY <1>3 DEF OrphanRestored
  <2> QED BY <1>1, <2>1, RelocatedAdvances DEF Restorable
<1>4. CASE OrphanMoved(s, p)
  <2>1. PICK f \in Relocatable(s, p) :
          Write(Relocate(tx, f, p, sc[s].inv[p])) /\ Reconciled(s, p, {f}, {f})
    BY <1>4 DEF OrphanMoved
  <2> QED BY <1>1, <2>1, RelocatedAdvances DEF Relocatable
<1>5. CASE OrphanAmbiguous(s, p)
  <2> DEFINE photos == {View(s, f).photo : f \in Relocatable(s, p)}
  <2>1. PICK ph \in photos : Inserted(s, p, IF photos = {ph} THEN ph ELSE None)
    BY <1>5 DEF OrphanAmbiguous
  <2>2. ph \in FileIds \cup {None}
    BY <1>2 DEF Relocatable
  <2> HIDE DEF photos
  <2>3. (IF photos = {ph} THEN ph ELSE None) \in FileIds \cup {None}
    BY <2>2
  <2> QED BY <1>1, <2>1, <2>3, InsertedAdvances
<1>6. CASE OrphanCopied(s, p)
  <2>1. PICK f \in Twins(s, p) : Inserted(s, p, View(s, f).photo)
    BY <1>6 DEF OrphanCopied
  <2>2. View(s, f).photo \in FileIds \cup {None}
    BY <1>2 DEF Twins
  <2> QED BY <1>1, <2>1, <2>2, InsertedAdvances
<1>7. CASE OrphanNew(s, p)
  BY <1>1, <1>7, InsertedAdvances DEF OrphanNew
<1> QED BY <1>3, <1>4, <1>5, <1>6, <1>7

-----------------------------------------------------------------------------
(* The end of a scan.                                                      *)

\* Marking what was not matched keeps every File sound.
LEMMA AccountedGrows ==
    ASSUME IInv, NEW s \in Scanners, ReadyToCommit(s)
    PROVE  Grows(tx, Accounted(s))
<1> DEFINE u == Accounted(s)
<1>1. /\ Sound(tx) /\ tx \in Catalogue
      /\ sc[s].pc = "reconcile" /\ Fits(s, sc[s], db, tx, writer)
      /\ Files(db) \subseteq Files(tx)
  BY Catalogues DEF ReadyToCommit, IInv, TypeOK, ScannersFit
<1>2. Files(sc[s].snap) \subseteq Files(tx)
  BY <1>1 DEF Fits
<1>3. Undecoded(s) \subseteq Files(tx) /\ Gone(s) \subseteq Files(tx)
  BY <1>2 DEF Undecoded, Gone, Unmatched
<1>4. ASSUME NEW f \in FileIds
      PROVE  /\ u.row[f] \in Row /\ u.rev[f] = tx.rev[f]
             /\ u.row[f].presence = "none" <=> tx.row[f].presence = "none"
             /\ u.row[f].path = tx.row[f].path /\ u.row[f].photo = tx.row[f].photo
             /\ u.row[f].cur = tx.row[f].cur
  <2>1. tx.row[f] \in Row
    BY <1>1 DEF Catalogue
  <2>2. f \in Undecoded(s) \cup Gone(s) => tx.row[f].presence # "none"
    BY <1>3 DEF Files
  <2>3. /\ u.rev[f] = tx.rev[f]
        /\ u.row[f] = IF f \in Undecoded(s)
                      THEN [tx.row[f] EXCEPT !.presence = "present", !.health = "unreadable"]
                      ELSE IF f \in Gone(s) THEN [tx.row[f] EXCEPT !.presence = "missing"]
                      ELSE tx.row[f]
    BY <1>1 DEF Accounted, Catalogue
  <2> HIDE DEF u
  <2> QED BY <2>1, <2>2, <2>3 DEF Row, Healths
<1>5. u \in Catalogue
  <2> DEFINE R == [f \in FileIds |-> u.row[f]]
  <2>1. u = [row |-> R, rev |-> tx.rev, obs |-> tx.obs]
    BY <1>1 DEF Accounted, Catalogue
  <2>2. R \in [FileIds -> Row]
    BY <1>4
  <2> HIDE DEF u, R
  <2> QED BY <1>1, <2>1, <2>2 DEF Catalogue
<1> HIDE DEF u
<1>6. Files(u) = Files(tx)
  BY <1>4 DEF Files
<1>7. Located(u) /\ CurrentLive(u)
  <2>1. \A f \in Files(tx) : f \in FileIds
    BY DEF Files
  <2> QED BY <1>1, <1>4, <1>6, <2>1 DEF Sound, Located, CurrentLive, Current
<1> QED BY <1>5, <1>6, <1>7 DEF Grows, Sound, u

\* Commit and failure.
LEMMA ScanEnds ==
    ASSUME IInv, NEW s \in Scanners, ScanCommit(s) \/ ScanFail(s)
    PROVE  IInv'
<1>1. /\ sc[s] \in ScanState /\ Fits(s, sc[s], db, tx, writer)
      /\ Files(db) \subseteq Files(tx) /\ complete \in BOOLEAN /\ ops \in Nat
      /\ Sound(db) /\ Sound(tx)
  BY Catalogues DEF IInv, TypeOK, ScannersFit
<1>2. Idle \in ScanState /\ Idle.pc = "idle" /\ Idle.fresh = {}
  BY DEF Idle, ScanState
<1>3. \A d, t, w : Fits(s, Idle, d, t, w)
  BY <1>2 DEF Fits
<1>4. CASE ScanCommit(s)
  <2>1. Grows(tx, Accounted(s)) /\ writer = s
    BY <1>1, <1>4, AccountedGrows DEF ScanCommit, ReadyToCommit, Fits
  <2>2. tx' = Accounted(s) /\ db' = Accounted(s)
    BY <1>4 DEF ScanCommit, WriteThrough
  <2>3. complete' \in BOOLEAN
    <3>1. complete' = ~sc[s].errors /\ sc[s].errors \in BOOLEAN
      BY <1>1, <1>4 DEF ScanCommit, ScanState
    <3> QED BY <3>1
  <2> QED BY <1>1, <1>2, <1>3, <1>4, <2>1, <2>2, <2>3, ScanAdvances
          DEF ScanCommit, Grows
<1>5. CASE ScanFail(s)
  <2>1. sc' = [sc EXCEPT ![s] = Idle]
        /\ UNCHANGED <<disk, online, db, complete, vf, plan, decided, unsettled, envs, ops>>
    BY <1>5 DEF ScanFail
  <2>2. CASE writer = s
    <3>1. tx' = db /\ writer' = None
      BY <1>5, <2>2 DEF ScanFail
    <3> QED BY <1>1, <1>2, <1>3, <2>1, <2>2, <3>1, ScanAdvances
  <2>3. CASE writer # s
    <3>1. tx' = tx /\ writer' = writer
      BY <1>5, <2>3 DEF ScanFail
    <3> QED BY <1>1, <1>2, <1>3, <2>1, <3>1, ScanAdvances
  <2> QED BY <2>2, <2>3
<1> QED BY <1>4, <1>5

-----------------------------------------------------------------------------
(* Verify.                                                                 *)

\* One File verified: it is enough that the transaction grows.
LEMMA VerifiedAdvances ==
    ASSUME IInv, NEW f \in FileIds, NEW t, Verifying(f), Verified(f, t), Grows(tx, t)
    PROVE  IInv'
<1>1. /\ vf \in VerifyState /\ vf.pc = "run" /\ writer = Verifier
      /\ vf.todo \subseteq Files(db) /\ Files(db) \subseteq Files(tx)
      /\ Sound(db) /\ unsettled \subseteq FileIds /\ ops \in Nat
  BY Catalogues DEF Verifying, IInv, TypeOK, VerifierFits
<1> DEFINE n == [vf EXCEPT !.todo = @ \ {f}]
<1>2. n \in VerifyState /\ n.todo \subseteq vf.todo
  BY <1>1 DEF VerifyState
<1>3. vf' = n /\ tx' = t
  BY DEF Verified
<1> HIDE DEF n
<1>4. UNCHANGED <<disk, online, db, complete, writer, sc, plan, decided, unsettled,
                  envs, ops>>
  BY DEF Verified
<1> QED BY <1>1, <1>2, <1>3, <1>4, VerifyAdvances DEF Grows

\* The verdicts.
LEMMA VerdictSteps ==
    ASSUME IInv, NEW f \in FileIds,
           \/ VerifyMissing(f) \/ VerifyUnreadable(f)
           \/ VerifyBackfill(f) \/ VerifyMatch(f) \/ VerifyMismatch(f)
    PROVE  IInv'
<1>1. Verifying(f)
  BY DEF VerifyMissing, VerifyUnreadable, VerifyBackfill, VerifyMatch, VerifyMismatch
<1>2. f \in Files(tx) /\ Sound(tx)
  BY <1>1, Catalogues DEF Verifying, IInv, VerifierFits
<1>3. CASE VerifyMissing(f)
  BY <1>1, <1>2, <1>3, SetMissingGrows, VerifiedAdvances DEF VerifyMissing
<1>4. ASSUME NEW h \in Healths PROVE Grows(tx, SetHealth(tx, f, h))
  BY <1>2, SetHealthGrows
<1>5. CASE VerifyUnreadable(f)
  BY <1>1, <1>4, <1>5, VerifiedAdvances DEF VerifyUnreadable, Healths
<1>6. CASE VerifyMatch(f)
  BY <1>1, <1>4, <1>6, VerifiedAdvances DEF VerifyMatch, Healths
<1>7. CASE VerifyMismatch(f)
  <2> DEFINE t == SetHealth(tx, f, "hash_mismatch")
  <2>1. Grows(tx, t)
    BY <1>4 DEF Healths
  <2> HIDE DEF t
  <2>2. Grows(t, Observe(t, f))
    BY <2>1, ObserveGrows DEF Grows
  <2>3. Grows(tx, Observe(t, f))
    BY <2>1, <2>2 DEF Grows
  <2>4. Verified(f, Observe(t, f))
    BY <1>7 DEF VerifyMismatch, t
  <2> QED BY <1>1, <2>3, <2>4, VerifiedAdvances
<1>8. CASE VerifyBackfill(f)
  <2> DEFINE r == [tx.row[f] EXCEPT !.health = "ok"]
  <2>1. Proper(tx.row[f], tx.rev[f])
    BY <1>2, RowProper
  <2>2. Proper(r, tx.rev[f]) /\ tx.row[f].cur \in Nat
    BY <2>1 DEF Proper, Row, Healths
  <2> HIDE DEF r
  <2>3. BytesAt(f) \in Contents /\ Verified(f, Complete(tx, f, tx.row[f].cur, BytesAt(f), r))
    BY <1>8 DEF VerifyBackfill, r
  <2>4. Grows(tx, Complete(tx, f, tx.row[f].cur, BytesAt(f), r))
    BY <1>2, <2>2, <2>3, CompleteGrows
  <2> QED BY <1>1, <2>3, <2>4, VerifiedAdvances
<1> QED BY <1>3, <1>5, <1>6, <1>7, <1>8

\* Its beginning and its end.
LEMMA VerifyEnds ==
    ASSUME IInv, VerifyBegin \/ VerifyCommit \/ VerifyFail
    PROVE  IInv'
<1>1. /\ vf \in VerifyState /\ Files(db) \subseteq Files(tx) /\ Sound(db) /\ Sound(tx)
      /\ unsettled \subseteq FileIds /\ ops \in Nat
      /\ vf.pc = "run" => writer = Verifier
  BY Catalogues DEF IInv, TypeOK, VerifierFits
<1>2. VIdle \in VerifyState /\ VIdle.pc = "idle" /\ VIdle.todo = {}
  BY DEF VIdle, VerifyState
<1>3. CASE VerifyBegin
  <2> DEFINE n == [VIdle EXCEPT !.pc = "run",
                                !.todo = {f \in PresentFiles(db) : online \/ ~db.row[f].lib}]
  <2>1. n \in VerifyState /\ n.todo \subseteq Files(db)
    BY DEF VIdle, VerifyState, PresentFiles, Files
  <2>2. /\ vf' = n /\ writer = None /\ writer' = Verifier /\ ops' = ops + 1
        /\ UNCHANGED <<disk, online, db, tx, complete, sc, plan, decided, unsettled, envs>>
    BY <1>3 DEF VerifyBegin, MayStart
  <2> HIDE DEF n
  <2>3. ops' \in Nat
    BY <1>1, <2>2
  <2> QED BY <1>1, <2>1, <2>2, <2>3, VerifyAdvances
<1>4. CASE VerifyCommit
  <2>1. /\ vf' = VIdle /\ writer = Verifier /\ writer' = None /\ db' = tx /\ tx' = tx
        /\ unsettled' \subseteq FileIds
        /\ UNCHANGED <<disk, online, complete, sc, plan, decided, envs, ops>>
    BY <1>1, <1>4 DEF VerifyCommit
  <2> QED BY <1>1, <1>2, <2>1, VerifyAdvances
<1>5. CASE VerifyFail
  <2>1. /\ vf' = VIdle /\ writer = Verifier /\ writer' = None /\ tx' = db
        /\ UNCHANGED <<disk, online, db, complete, sc, plan, decided, unsettled, envs, ops>>
    BY <1>1, <1>5 DEF VerifyFail
  <2> QED BY <1>1, <1>2, <2>1, VerifyAdvances
<1> QED BY <1>3, <1>4, <1>5

-----------------------------------------------------------------------------
(* Review, and the world outside.                                          *)

\* Making a plan.
LEMMA PlanSteps ==
    ASSUME IInv, NEW f \in FileIds, NEW a \in Actions, PlanResolution(f, a)
    PROVE  IInv'
<1>1. /\ Sound(db) /\ disk \in [Paths -> Bytes \cup {Absent}]
      /\ f \in Files(db)
  BY Catalogues DEF IInv, TypeOK, PlanResolution, Resolvable, Files
<1>2. /\ db.row[f] \in Row /\ db.row[f].path \in Paths /\ db.obs[f] \in Nat
      /\ Current(db, f) \in Revision
  <2>1. db \in Catalogue /\ Proper(db.row[f], db.rev[f])
    BY <1>1, RowProper DEF Sound
  <2>2. db.rev[f] \in Seq(Revision) /\ db.obs[f] \in Nat
    BY <2>1 DEF Catalogue
  <2> QED BY <2>1, <2>2 DEF Proper, Current
<1>3. /\ plan' = [file |-> f, action |-> a, evidence |-> Evidence(db, f), touched |-> {}]
      /\ decided' = 0 /\ writer # Reviewer
      /\ a = "adopt" => Evidence(db, f).bytes \in Contents
      /\ UNCHANGED <<disk, online, db, tx, complete, writer, sc, vf, unsettled, envs, ops>>
  BY DEF PlanResolution
<1>4. Evidence(db, f) \in [row : Row, expected : Revision, obs : Nat,
                           bytes : Bytes \cup {Absent}]
  BY <1>1, <1>2 DEF Evidence
<1>5. plan' \in PlanState /\ decided' \in Nat
  BY <1>3, <1>4 DEF PlanState, Bytes
<1>6. TypeOK'
  BY <1>3, <1>5 DEF IInv, TypeOK, Located, Files
<1>7. PlanFits' /\ DecisionFits'
  BY <1>3 DEF PlanFits, DecisionFits
<1>8. ScannersFit' /\ VerifierFits' /\ CurrentRevisionLive'
      /\ Files(db') \subseteq Files(tx')
  BY <1>3 DEF IInv, ScannersFit, Fits, VerifierFits, CurrentRevisionLive,
              CurrentLive, Current, Files
<1> QED BY <1>6, <1>7, <1>8 DEF IInv

\* Taking the lock and proving it again.
LEMMA ExecutionBegins ==
    ASSUME IInv, ExecuteBegin
    PROVE  IInv' /\ writer = None /\ writer' = Reviewer /\ UNCHANGED <<db, tx, sc, vf>>
<1>1. /\ plan \in PlanState /\ plan.file \in FileIds /\ PlanFits
      /\ disk \in [Paths -> Bytes \cup {Absent}]
  BY DEF IInv, TypeOK, ExecuteBegin, MayExecute, PlanState
<1> DEFINE n == [plan EXCEPT !.touched = {}]
           f == plan.file
           e == plan.evidence
<1>2. /\ n \in PlanState /\ n.file = f /\ n.action = plan.action /\ n.evidence = e
      /\ n.touched = {}
  BY <1>1 DEF PlanState
<1>3. /\ plan' = n /\ writer = None /\ writer' = Reviewer
      /\ Resolvable(db, f) /\ Evidence(db, f) = e
      /\ UNCHANGED <<disk, online, db, tx, complete, sc, vf, decided, unsettled, envs, ops>>
  BY DEF ExecuteBegin, MayExecute, Free
<1> HIDE DEF n
<1>4. n # None /\ plan # None
  BY <1>1, <1>2, PlanAssumption
<1>5. Proved(n, db, disk)
  <2>1. /\ f \in Files(db) /\ db.row[f].lib /\ db.row[f].health = "hash_mismatch"
        /\ Current(db, f).sha \notin {None, e.bytes}
    BY <1>1, <1>3 DEF Resolvable, Files
  <2>2. /\ e.row = db.row[f] /\ e.expected = Current(db, f) /\ e.obs = db.obs[f]
        /\ e.bytes = IF online THEN disk[db.row[f].path] ELSE Absent
    BY <1>3 DEF Evidence
  <2>3. plan.action = "adopt" => disk[db.row[f].path] = e.bytes
    BY <1>1, <1>4, <2>2, ValuesAssumption DEF PlanFits
  <2> QED BY <1>2, <1>4, <2>1, <2>2, <2>3 DEF Proved
<1>6. TypeOK'
  BY <1>2, <1>3 DEF IInv, TypeOK, Located, Files
<1>7. PlanFits' /\ DecisionFits'
  BY <1>1, <1>2, <1>3, <1>4, <1>5 DEF PlanFits, DecisionFits
<1>8. ScannersFit'
  <2> SUFFICES ASSUME NEW x \in Scanners PROVE Fits(x, sc[x], db, tx, Reviewer)
    BY <1>3 DEF ScannersFit, Fits, Files
  <2>1. Fits(x, sc[x], db, tx, None)
    BY <1>3 DEF IInv, ScannersFit
  <2> QED BY <2>1, ProcessAssumption DEF Fits
<1>9. VerifierFits' /\ CurrentRevisionLive' /\ Files(db') \subseteq Files(tx')
  BY <1>3, ProcessAssumption
     DEF IInv, VerifierFits, CurrentRevisionLive, CurrentLive, Current, Files
<1> QED BY <1>3, <1>6, <1>7, <1>8, <1>9 DEF IInv

\* Giving the lock back, with a decision or without.
LEMMA ExecutionEnds ==
    ASSUME IInv, writer = Reviewer, writer' = None,
           Grows(db, db'), tx' = db' \/ UNCHANGED <<db, tx>>,
           decided' \in Nat, unsettled' \subseteq FileIds,
           UNCHANGED <<disk, online, complete, sc, vf, plan, envs, ops>>
    PROVE  IInv'
<1>1. /\ Sound(db') /\ Sound(tx') /\ Files(db) \subseteq Files(db')
      /\ Files(db') \subseteq Files(tx')
  BY Catalogues DEF Grows, IInv
<1>2. TypeOK'
  BY <1>1 DEF IInv, TypeOK, Sound
<1>3. ScannersFit'
  <2> SUFFICES ASSUME NEW x \in Scanners PROVE Fits(x, sc[x], db', tx', None)
    BY DEF ScannersFit, Fits
  <2>1. Fits(x, sc[x], db, tx, writer) /\ writer # x
    BY ProcessAssumption DEF IInv, ScannersFit
  <2> QED BY <1>1, <2>1 DEF Fits
<1>4. VerifierFits' /\ PlanFits' /\ DecisionFits'
  BY <1>1, ProcessAssumption
     DEF IInv, VerifierFits, PlanFits, DecisionFits, Verifier, Reviewer
<1> QED BY <1>1, <1>2, <1>3, <1>4 DEF IInv, CurrentRevisionLive, Sound

\* An adoption supersedes the reviewed revision with the reviewed bytes.
LEMMA AdoptionSupersedes ==
    ASSUME IInv, ExecuteAdopt
    PROVE  LET f == plan.file
               r == At(db.row[f], db.row[f].path)
           IN  /\ plan # None /\ plan.action = "adopt" /\ writer = Reviewer /\ writer' = None
               /\ Proved(plan, db, disk) /\ decided' > decided
               /\ f \in Files(db) /\ f \in FileIds /\ plan.evidence.bytes \in Contents
               /\ Proper(r, db.rev[f]) /\ db.row[f].cur \in Nat
               /\ db' = Supersede(db, f, db.row[f].cur, plan.evidence.bytes, r)
               /\ tx' = db' /\ Grows(db, db')
<1> DEFINE f == plan.file
           r == At(db.row[f], db.row[f].path)
<1>1. /\ plan.action = "adopt" /\ writer = Reviewer /\ writer' = None /\ Decide({f})
      /\ WriteThrough(Supersede(db, f, db.row[f].cur, plan.evidence.bytes, r))
  BY DEF ExecuteAdopt, Decide
<1>2. Sound(db) /\ Proved(plan, db, disk) /\ PlanFits /\ decided \in Nat
  BY <1>1, Catalogues DEF IInv, DecisionFits, TypeOK
<1>3. plan # None /\ f \in Files(db) /\ f \in FileIds /\ plan.evidence.bytes \in Contents
  BY <1>1, <1>2, PlanAssumption DEF Proved, PlanFits, Files
<1>4. decided' > decided
  BY <1>1, <1>2 DEF Decide
<1> HIDE DEF f
<1>5. Proper(db.row[f], db.rev[f])
  BY <1>2, <1>3, RowProper
<1>6. Proper(r, db.rev[f]) /\ db.row[f].cur \in Nat
  BY <1>5 DEF Proper, At, Row
<1> HIDE DEF r
<1>7. db' = Supersede(db, f, db.row[f].cur, plan.evidence.bytes, r) /\ tx' = db'
  BY <1>1 DEF WriteThrough
<1>8. Grows(db, db')
  BY <1>2, <1>3, <1>6, <1>7, SupersedeGrows
<1> QED BY <1>1, <1>2, <1>3, <1>4, <1>6, <1>7, <1>8 DEF f, r

\* Making a plan, and executing it.
LEMMA ReviewSteps ==
    ASSUME IInv, ReviewStep
    PROVE  IInv'
<1>1. Sound(db) /\ decided \in Nat /\ plan \in PlanState \cup {None} /\ unsettled \subseteq FileIds
  BY Catalogues DEF IInv, TypeOK
<1>2. CASE ExecuteAdopt
  <2>1. /\ Grows(db, db') /\ tx' = db' /\ plan.file \in FileIds
    BY <1>2, AdoptionSupersedes
  <2>2. /\ writer = Reviewer /\ writer' = None /\ decided' = decided + 1
        /\ unsettled' = unsettled \ {plan.file}
        /\ UNCHANGED <<disk, online, complete, sc, vf, plan, envs, ops>>
    BY <1>2 DEF ExecuteAdopt, Decide
  <2>3. decided' \in Nat /\ unsettled' \subseteq FileIds
    BY <1>1, <2>2
  <2> QED BY <2>1, <2>2, <2>3, ExecutionEnds
<1>3. CASE ExecuteRecord
  <2>1. /\ writer = Reviewer /\ writer' = None /\ decided' = decided + 1
        /\ unsettled' = unsettled
        /\ UNCHANGED <<disk, online, db, tx, complete, sc, vf, plan, envs, ops>>
    BY <1>3 DEF ExecuteRecord, Decide
  <2>2. Grows(db, db') /\ decided' \in Nat
    BY <1>1, <2>1 DEF Grows
  <2> QED BY <1>1, <2>1, <2>2, ExecutionEnds
<1>4. CASE ExecuteFail
  <2>1. /\ writer = Reviewer /\ writer' = None
        /\ UNCHANGED <<disk, online, db, tx, complete, sc, vf, plan, decided, unsettled,
                       envs, ops>>
    BY <1>4 DEF ExecuteFail
  <2>2. Grows(db, db')
    BY <1>1, <2>1 DEF Grows
  <2> QED BY <1>1, <2>1, <2>2, ExecutionEnds
<1> QED BY <1>2, <1>3, <1>4, PlanSteps, ExecutionBegins DEF ReviewStep

\* History is all that a change outside writes into a scan or a Verify.
LEMMA WorldSteps ==
    ASSUME IInv, WorldStep
    PROVE  IInv'
<1>1. /\ sc \in [Scanners -> ScanState] /\ vf \in VerifyState
      /\ disk \in [Paths -> Bytes \cup {Absent}] /\ envs \in Nat
  BY DEF IInv, TypeOK
<1>2. ASSUME UNCHANGED <<db, tx, complete, writer, decided, unsettled, ops>>,
             plan' \in PlanState \cup {None}, PlanFits', DecisionFits',
             disk' \in [Paths -> Bytes \cup {Absent}], online' \in BOOLEAN, envs' \in Nat,
             vf' \in VerifyState, vf'.pc = vf.pc, vf'.todo = vf.todo,
             sc' \in [Scanners -> ScanState],
             \A x \in Scanners : /\ sc'[x].pc = sc[x].pc /\ sc'[x].snap = sc[x].snap
                                 /\ sc'[x].fresh = sc[x].fresh /\ sc'[x].inv = sc[x].inv
                                 /\ sc'[x].todo = sc[x].todo
      PROVE  IInv'
  <2>1. TypeOK'
    BY <1>2 DEF IInv, TypeOK, Located, Files
  <2>2. ScannersFit'
    BY <1>2 DEF IInv, ScannersFit, Fits, Files
  <2>3. VerifierFits' /\ CurrentRevisionLive' /\ Files(db') \subseteq Files(tx')
    BY <1>2 DEF IInv, VerifierFits, CurrentRevisionLive, CurrentLive, Current, Files
  <2> QED BY <1>2, <2>1, <2>2, <2>3 DEF IInv
<1>3. ASSUME NEW S \in SUBSET Paths, Disturb(S),
             disk' \in [Paths -> Bytes \cup {Absent}],
             \A p \in Paths \ S : disk'[p] = disk[p]
      PROVE  IInv'
  <2>1. envs' \in Nat
    <3>1. envs' = envs + 1
      BY <1>3 DEF Disturb
    <3> QED BY <1>1, <3>1
  <2>2. /\ sc' = [s \in Scanners |-> Touched(sc[s], S)] /\ vf' = Touched(vf, S)
        /\ plan' = TouchedPlan(S)
        /\ UNCHANGED <<online, db, tx, complete, writer, decided, unsettled, ops>>
    BY <1>3 DEF Disturb
  <2>3. ASSUME NEW x \in Scanners
        PROVE  /\ sc'[x] \in ScanState
               /\ sc'[x].pc = sc[x].pc /\ sc'[x].snap = sc[x].snap
               /\ sc'[x].fresh = sc[x].fresh /\ sc'[x].inv = sc[x].inv
               /\ sc'[x].todo = sc[x].todo
    <3>1. sc[x] \in ScanState /\ sc'[x] = Touched(sc[x], S)
      BY <1>1, <2>2
    <3> QED BY <3>1 DEF Touched, ScanState
  <2>4. vf' \in VerifyState /\ vf'.pc = vf.pc /\ vf'.todo = vf.todo
    BY <1>1, <2>2 DEF Touched, VerifyState
  <2>5. sc' \in [Scanners -> ScanState]
    BY <2>2, <2>3
  <2>6. online' \in BOOLEAN
    BY <2>2 DEF IInv, TypeOK
  <2>7. plan' \in PlanState \cup {None} /\ PlanFits' /\ DecisionFits'
    <3>1. plan \in PlanState \cup {None} /\ PlanFits /\ DecisionFits /\ Sound(db)
      BY Catalogues DEF IInv, TypeOK
    <3>2. CASE writer # Reviewer
      BY <2>2, <3>1, <3>2 DEF TouchedPlan, PlanFits, DecisionFits
    <3>3. CASE writer = Reviewer
      <4>1. plan \in PlanState /\ plan # None /\ Proved(plan, db, disk)
        BY <3>1, <3>3, PlanAssumption DEF DecisionFits, Proved
      <4> DEFINE n == [plan EXCEPT !.touched = @ \cup S]
      <4>2. /\ n \in PlanState /\ n.file = plan.file /\ n.action = plan.action
            /\ n.evidence = plan.evidence /\ n.touched = plan.touched \cup S
        BY <4>1 DEF PlanState
      <4>3. plan' = n
        BY <2>2, <3>3 DEF TouchedPlan
      <4> HIDE DEF n
      <4>4. n # None
        BY <4>2, PlanAssumption
      <4>5. \A p \in Paths : disk'[p] = disk[p] \/ p \in n.touched
        BY <1>3, <4>2
      <4>6. Current(db', n.file) = Current(db, n.file) /\ db' = db /\ Files(db') = Files(db)
        BY <2>2, <4>2
      <4>7. db.row[n.file].path \in Paths
        BY <3>1, <4>1, <4>2, RowProper DEF Proved, Proper
      <4>8. Proved(n, db, disk')
        BY <4>1, <4>2, <4>4, <4>5, <4>7 DEF Proved
      <4> QED BY <2>2, <3>1, <4>1, <4>2, <4>3, <4>4, <4>6, <4>8 DEF PlanFits, DecisionFits
    <3> QED BY <3>2, <3>3
  <2> QED BY <1>2, <1>3, <2>1, <2>2, <2>3, <2>4, <2>5, <2>6, <2>7
<1>4. ASSUME NEW p \in Paths, NEW b \in Bytes \cup {Absent}, WriteDisk(p, b) PROVE IInv'
  <2>1. /\ disk' \in [Paths -> Bytes \cup {Absent}] /\ Disturb({p})
        /\ \A x \in Paths \ {p} : disk'[x] = disk[x]
    BY <1>1, <1>4 DEF WriteDisk
  <2> QED BY <1>3, <2>1
<1>5. ASSUME NEW p \in Paths, NEW q \in Paths, RenameDisk(p, q) PROVE IInv'
  <2>1. /\ disk' \in [Paths -> Bytes \cup {Absent}] /\ Disturb({p, q})
        /\ \A x \in Paths \ {p, q} : disk'[x] = disk[x]
    BY <1>1, <1>5 DEF RenameDisk
  <2> QED BY <1>3, <2>1
<1>6. CASE Plug
  <2>1. /\ envs' = envs + 1 /\ online' = ~online
        /\ vf' = IF vf.pc = "idle" THEN vf ELSE [vf EXCEPT !.cut = TRUE]
        /\ UNCHANGED <<disk, db, tx, complete, writer, sc, plan, decided, unsettled, ops>>
    BY <1>6 DEF Plug
  <2>2. envs' \in Nat
    BY <1>1, <2>1
  <2>3. vf' \in VerifyState /\ vf'.pc = vf.pc /\ vf'.todo = vf.todo
    BY <1>1, <2>1 DEF VerifyState
  <2>4. online' \in BOOLEAN
    BY <2>1
  <2>5. plan' \in PlanState \cup {None} /\ PlanFits' /\ DecisionFits'
    BY <2>1 DEF IInv, TypeOK, PlanFits, DecisionFits
  <2> QED BY <1>1, <1>2, <2>1, <2>2, <2>3, <2>4, <2>5
<1> QED BY <1>4, <1>5, <1>6 DEF WorldStep

-----------------------------------------------------------------------------
(* The invariant, and what follows from it.                                *)

\* Every step keeps it.
LEMMA NextIInv == IInv /\ [Next]_vars => IInv'
<1> SUFFICES ASSUME IInv, [Next]_vars PROVE IInv'
  OBVIOUS
<1>1. CASE WorldStep
  BY <1>1, WorldSteps
<1>2. ASSUME NEW s \in Scanners, ScanStep(s) PROVE IInv'
  BY <1>2, ScanStarts, ScanWalks, KnownSteps, OrphanSteps, ScanEnds DEF ScanStep
<1>3. CASE VerifyStep
  BY <1>3, VerdictSteps, VerifyEnds DEF VerifyStep
<1>4. CASE ReviewStep
  BY <1>4, ReviewSteps
<1>5. CASE UNCHANGED vars
  BY <1>5 DEF vars, IInv, TypeOK, Located, Files, CurrentRevisionLive, CurrentLive,
              Current, ScannersFit, Fits, VerifierFits, PlanFits, DecisionFits
<1> QED BY <1>1, <1>2, <1>3, <1>4, <1>5 DEF Next

\* IInv is an invariant of the program.
THEOREM Invariance == Spec => []IInv
<1> QED BY InitIInv, NextIInv, PTL DEF Spec

\* Every catalogued File keeps a path and a Photo, every variable its type,
\* for any number of Files, paths and scanners.
THEOREM TypeCorrect == Spec => []TypeOK
<1>1. IInv => TypeOK
  BY DEF IInv
<1> QED BY <1>1, Invariance, PTL

\* However scans, Verify, decisions and disk changes interleave, and whatever
\* stale rows a scan acts on, current_revision_id always resolves to a
\* revision of its File that is not superseded, also inside a transaction.
THEOREM CurrentRevisionStaysLive == Spec => []CurrentRevisionLive
<1>1. IInv => CurrentRevisionLive
  BY DEF IInv
<1> QED BY <1>1, Invariance, PTL

\* Only the two decisions count as one.
LEMMA DecisionsCount ==
    ASSUME IInv, Next, decided' > decided
    PROVE  ExecuteAdopt \/ ExecuteRecord
<1>0. decided' # decided /\ decided' # 0
  BY DEF IInv, TypeOK
<1>1. ~WorldStep
  BY <1>0 DEF WorldStep, WriteDisk, RenameDisk, Disturb, Plug
<1>2. ASSUME NEW s \in Scanners, ScanStep(s) PROVE FALSE
  BY <1>0, <1>2
     DEF ScanStep, ScanOffline, ScanOpen, ScanSelect, ScanLock, VisitBlind,
         VisitAbsent, VisitUnreadable, VisitDecoded, Walked, EndWalk, KnownBackfill,
         KnownUnchanged, KnownHeld, KnownModified, OrphanRestored, OrphanMoved,
         OrphanAmbiguous, OrphanCopied, OrphanNew, Inserted, Reconciled,
         ScanCommit, ScanFail
<1>3. ~VerifyStep
  BY <1>0 DEF VerifyStep, VerifyBegin, VerifyMissing, VerifyUnreadable, VerifyBackfill,
         VerifyMatch, VerifyMismatch, Verified, VerifyCommit, VerifyFail
<1>4. /\ ~(\E f \in FileIds, a \in Actions : PlanResolution(f, a))
      /\ ~ExecuteBegin /\ ~ExecuteFail
  BY <1>0 DEF PlanResolution, ExecuteBegin, ExecuteFail
<1> QED BY <1>1, <1>2, <1>3, <1>4 DEF Next, ReviewStep

\* A committed decision is still about the row, the revision and the
\* observation its reviewer saw, and adopts the bytes the reviewer saw, which
\* were on disk while it executed; it touches no other File, and its own only
\* by adopting: whatever scans, Verify and other programs did since the plan,
\* and between the proof and the commit.
THEOREM DecisionsActOnEvidence == Spec => DecisionOnEvidence
<1> DEFINE A == decided' > decided =>
                  LET f == plan.file
                      e == plan.evidence
                  IN  /\ e.row = db.row[f] /\ e.expected = Current(db, f) /\ e.obs = db.obs[f]
                      /\ \A g \in FileIds \ {f} : db'.row[g] = db.row[g]
                      /\ IF plan.action = "adopt"
                         THEN /\ db'.row[f].sha = e.bytes
                              /\ disk[db.row[f].path] = e.bytes \/ db.row[f].path \in plan.touched
                         ELSE db'.row[f] = db.row[f]
<1>1. IInv /\ [Next]_vars => [A]_vars
  <2> SUFFICES ASSUME IInv, Next, decided' > decided PROVE A
    OBVIOUS
  <2>1. ExecuteAdopt \/ ExecuteRecord
    BY DecisionsCount
  <2>2. db \in Catalogue
    BY DEF IInv, TypeOK
  <2>3. CASE ExecuteRecord
    <3>1. writer = Reviewer /\ db' = db /\ plan.action # "adopt"
      BY <2>3 DEF ExecuteRecord, Decide
    <3>2. Proved(plan, db, disk)
      BY <3>1 DEF IInv, DecisionFits
    <3> QED BY <3>1, <3>2 DEF Proved
  <2>4. CASE ExecuteAdopt
    <3> DEFINE f == plan.file
               r == At(db.row[f], db.row[f].path)
    <3>1. /\ plan.action = "adopt" /\ Proved(plan, db, disk) /\ f \in FileIds
          /\ Proper(r, db.rev[f])
          /\ db' = Supersede(db, f, db.row[f].cur, plan.evidence.bytes, r)
      BY <2>4, AdoptionSupersedes
    <3>2. db'.row = [db.row EXCEPT ![f] = [r EXCEPT !.cur = Len(db.rev[f]) + 1,
                                   !.sha = plan.evidence.bytes, !.health = "ok"]]
      BY <3>1 DEF Supersede, PutRow, PutRev
    <3>3. r \in Row
      BY <3>1 DEF Proper
    <3> HIDE DEF f, r
    <3>4. db'.row[f].sha = plan.evidence.bytes
      BY <2>2, <3>1, <3>2, <3>3 DEF Catalogue, Row
    <3>5. \A g \in FileIds \ {f} : db'.row[g] = db.row[g]
      BY <2>2, <3>2 DEF Catalogue
    <3> QED BY <3>1, <3>4, <3>5 DEF f, Proved
  <2> QED BY <2>1, <2>3, <2>4
<1>2. Spec => [][A]_vars
  BY <1>1, Invariance, PTL DEF Spec
<1> QED BY <1>2 DEF DecisionOnEvidence

-----------------------------------------------------------------------------
(* What a scan has observed and settled so far.                            *)

\* The write lock is what a transaction needs; an id no File has been given
\* yet has no row and no revision.
TxFree == writer \in {None, Reviewer} => tx = db

Blank(t) == \A f \in FileIds \ Files(t) : t.row[f] = UnbornRow /\ t.rev[f] = <<>>

Decoded(st) == {p \in Paths : st.inv[p] # None}

\* A walk in state st says the truth about the disk k, except where the disk
\* was touched: without errors it misses no file, what it has seen is there,
\* and what it has decoded has the size and mtime of what is there.
Honest(st, k) ==
    /\ ~st.errors => \A p \in Paths : \/ st.pc = "walk" /\ p \in st.todo
                                      \/ p \in st.seen \cup st.touched
                                      \/ k[p] = Absent
    /\ \A p \in st.seen \ st.touched : k[p] # Absent
    /\ \A p \in Decoded(st) :
        /\ p \in st.seen
        /\ p \notin st.touched =>
                k[p] \in Contents /\ Stamp[st.inv[p]] = Stamp[k[p]]

\* Two Files of d that could both have become the same new one.
Rivals(st, d, f, h) ==
    /\ f # h
    /\ \A x \in {f, h} : /\ d.row[x].path \notin Decoded(st)
                         /\ Coherent(d, x)
                         /\ d.row[x].presence = "missing"
                                \/ VerifiedCurrent(d, x) # None
    /\ d.row[f].sha = d.row[h].sha

\* The new File g of transaction t has no twin in place, or could have been
\* two vanished Files, or has a Photo that another File with its bytes has;
\* and that File will not change any more.
Joined(st, d, t, g) ==
    LET c == t.row[g].sha
    IN  \/ \A f \in PresentFiles(d) :
                ~(VerifiedCurrent(d, f) = c /\ st.inv[d.row[f].path] = c)
        \/ \E f, h \in Files(d) :
                f # h /\ \A x \in {f, h} : /\ d.row[x].sha = c
                                           /\ d.row[x].path \notin Decoded(st)
        \/ \E f \in PresentFiles(t) \ {g} :
                /\ t.row[f].sha = c /\ t.row[f].photo = t.row[g].photo
                /\ \/ f \in st.matched
                   \/ f \in PresentFiles(d) /\ d.row[f].path \in Decoded(st) \ st.todo

\* What a scan has made of File f, which it has matched with a path.
Settled(st, d, t, f) ==
    /\ t.row[f].presence = "present" /\ t.row[f].path \in Decoded(st)
    /\ f \in PresentFiles(d) => d.row[f].path \notin st.todo
    /\ f \in PresentFiles(d) /\ d.row[f].path \in Decoded(st) =>
            t.row[f].path = d.row[f].path
    /\ f \in PresentFiles(d) /\ d.row[f].path \in Decoded(st) /\ f \in st.fresh =>
            VerifiedCurrent(d, f) # st.inv[d.row[f].path]
    /\ f \notin st.fresh => t.row[f].sha = d.row[f].sha /\ t.row[f].photo = d.row[f].photo
    /\ d.row[f].health = "hash_mismatch" => t.row[f].cur = d.row[f].cur
    /\ \A h \in FileIds : ~Rivals(st, d, f, h)
    /\ f \notin Files(d) => Joined(st, d, t, f)

\* Path p has its File.
Placed(st, t, p) ==
    \E f \in st.matched : /\ t.row[f].path = p
                          /\ \/ t.row[f].sha = st.inv[p]
                             \/ t.row[f].health = "hash_mismatch"

\* Pass 2, started from the rows of d, has the transaction t to show for it.
Faithful(st, d, t) ==
    /\ st.todo \subseteq Decoded(st) /\ st.fresh \subseteq st.matched
    /\ \A f \in FileIds \ st.matched : t.row[f] = d.row[f] /\ t.rev[f] = d.rev[f]
    /\ \A f \in st.matched : Settled(st, d, t, f)
    /\ \A p \in Decoded(st) \ st.todo : Placed(st, t, p)

Scanned(st, d, t, k) ==
    /\ st.pc # "reconcile" => st.matched = {} /\ st.fresh = {}
    /\ st.pc \in {"opened", "selected"} => st.seen = {} /\ Decoded(st) = {}
    /\ st.pc \in {"walk", "reconcile"} => Honest(st, k)
    /\ st.pc = "walk" => t = d
    /\ st.pc = "reconcile" /\ st.snap = d => Faithful(st, d, t)

\* Verify's verdict on File f, from the bytes that disk k has at its path.
Judged(d, t, k, f) ==
    LET p == d.row[f].path
        r == t.row[f]
        c == Current(t, f).sha
    IN  /\ r.presence = "missing" <=> k[p] = Absent
        /\ k[p] = Bad => r.health = "unreadable"
        /\ k[p] \in Contents /\ ~ReadFaults => r.health # "unreadable"
        /\ k[p] \in Contents /\ r.health = "ok" => c = k[p]
        /\ k[p] \in Contents /\ r.health = "hash_mismatch" =>
                c # k[p] /\ t.obs[f] > d.obs[f]

\* Verify, in state v, has not looked at the Files it has left, and has judged
\* the others; it moves no File and no current revision.
Checked(v, d, t, k, on) ==
    v.pc = "run" =>
        /\ v.todo \subseteq PresentFiles(d)
        /\ \A f \in FileIds : t.row[f].cur = d.row[f].cur /\ t.row[f].path = d.row[f].path
        /\ \A f \in v.todo : /\ t.row[f] = d.row[f] /\ t.rev[f] = d.rev[f]
                             /\ t.obs[f] = d.obs[f]
        /\ ~v.cut /\ on =>
                \A f \in PresentFiles(d) \ v.todo :
                    d.row[f].path \notin v.touched => Judged(d, t, k, f)

Observed ==
    /\ IInv
    /\ TxFree /\ Blank(db) /\ Blank(tx)
    /\ \A s \in Scanners : Scanned(sc[s], db, tx, disk)
    /\ Checked(vf, db, tx, disk, online)

-----------------------------------------------------------------------------
(* One File, as FileLedger sees it.                                        *)

\* The entry of a File is its history and how its row stands.
LEMMA EntryIs ==
    ASSUME NEW t, NEW f
    PROVE  LedgerEntry(t, f) = Archive!Entry(History(t.rev[f], t.row[f].cur),
                                             t.row[f].presence, t.row[f].health)
  BY DEF LedgerEntry, Archive!Entry

LEMMA EntryHas ==
    ASSUME NEW t, NEW f
    PROVE  LET e == LedgerEntry(t, f)
           IN  /\ e.history = History(t.rev[f], t.row[f].cur)
               /\ e.presence = t.row[f].presence /\ e.health = t.row[f].health
  BY DEF LedgerEntry

\* The latest contents are those that the row mirrors.
LEMMA LatestIs ==
    ASSUME NEW t, NEW f, t.rev[f] \in Seq(Revision), Tells(t.row[f], t.rev[f])
    PROVE  LET h == LedgerEntry(t, f).history
           IN  /\ h \in Seq(Contents \cup {None}) /\ Len(h) = t.row[f].cur
               /\ Archive!Latest(LedgerEntry(t, f)) = t.row[f].sha
<1> DEFINE q == t.rev[f]
           n == t.row[f].cur
           h == History(q, n)
<1>1. q \in Seq(Revision) /\ n \in 1 .. Len(q) /\ t.row[f].sha = q[n].sha
  BY DEF Tells
<1>2. LedgerEntry(t, f).history = h
  BY EntryHas
<1> HIDE DEF q, n
<1>3. n \in 0 .. Len(q) /\ n \in 1 .. n
  BY <1>1
<1>4. h \in Seq(Contents \cup {None}) /\ Len(h) = n /\ \A i \in 1 .. n : h[i] = q[i].sha
  BY <1>1, <1>3, HistoryIs
<1> HIDE DEF h
<1>5. Archive!Latest(LedgerEntry(t, f)) = h[n]
  BY <1>2, <1>4 DEF Archive!Latest
<1> QED BY <1>1, <1>2, <1>3, <1>4, <1>5 DEF n

\* Completing the content-less revision of a File that is there.
LEMMA CompletedEntry ==
    ASSUME NEW t, NEW u, NEW f, NEW c \in Contents,
           t.rev[f] \in Seq(Revision), Tells(t.row[f], t.rev[f]),
           t.row[f].presence = "present", t.row[f].sha = None,
           u.rev[f] = Filled(t.rev[f], t.row[f].cur, c),
           u.row[f].cur = t.row[f].cur, u.row[f].presence = "present"
    PROVE  Archive!Completed(LedgerEntry(t, f), LedgerEntry(u, f), u.row[f].health)
<1> DEFINE q == t.rev[f]
           n == t.row[f].cur
           e == LedgerEntry(t, f)
<1>1. q \in Seq(Revision) /\ n = Len(q) /\ n \in 1 .. Len(q)
  BY DEF Tells
<1>2. History(Filled(q, n, c), n) = [History(q, n) EXCEPT ![n] = c]
  BY <1>1, FilledHistory
<1>3. /\ e.history = History(q, n) /\ Len(e.history) = n
      /\ e.presence = "present" /\ Archive!Latest(e) = None
  BY LatestIs, EntryHas
<1>4. LedgerEntry(u, f) = Archive!Entry([e.history EXCEPT ![Len(e.history)] = c],
                                       "present", u.row[f].health)
  BY <1>2, <1>3, EntryIs
<1> HIDE DEF e
<1> QED BY <1>3, <1>4 DEF Archive!Completed, e

\* Other contents from now on.
LEMMA RenewedEntry ==
    ASSUME NEW t, NEW u, NEW f, NEW c \in Contents,
           t.rev[f] \in Seq(Revision), Tells(t.row[f], t.rev[f]),
           t.row[f].presence # "none", t.row[f].sha \notin {None, c},
           u.rev[f] = Renewed(t.rev[f], t.row[f].cur, c),
           u.row[f].cur = Len(t.rev[f]) + 1,
           u.row[f].presence = "present", u.row[f].health = "ok"
    PROVE  Archive!Renewed(LedgerEntry(t, f), LedgerEntry(u, f))
<1> DEFINE q == t.rev[f]
           n == t.row[f].cur
           e == LedgerEntry(t, f)
<1>1. q \in Seq(Revision) /\ n = Len(q) /\ n \in 1 .. Len(q)
  BY DEF Tells
<1>2. History(Renewed(q, n, c), n + 1) = Append(History(q, n), c)
  BY <1>1, RenewedHistory
<1>3. /\ e.history = History(q, n) /\ e.presence # "none"
      /\ Archive!Latest(e) \notin {None, c}
  BY LatestIs, EntryHas
<1>4. LedgerEntry(u, f) = Archive!Entry(Append(e.history, c), "present", "ok")
  BY <1>1, <1>2, <1>3, EntryIs
<1> HIDE DEF e
<1> QED BY <1>3, <1>4 DEF Archive!Renewed, e

\* Only the standing changes.
LEMMA StandingEntry ==
    ASSUME NEW t, NEW u, NEW f, u.rev[f] = t.rev[f], u.row[f].cur = t.row[f].cur
    PROVE  LedgerEntry(u, f) = Archive!Entry(LedgerEntry(t, f).history,
                                             u.row[f].presence, u.row[f].health)
  BY EntryIs, EntryHas

\* A File that is there, or there again.
LEMMA SeenEntry ==
    ASSUME NEW t, NEW u, NEW f, f \in Files(t),
           u.rev[f] = t.rev[f], u.row[f].cur = t.row[f].cur,
           u.row[f].presence = "present",
           u.row[f].health \in {t.row[f].health, "unreadable"}
    PROVE  Archive!Scanned(LedgerEntry(t, f), LedgerEntry(u, f))
<1> DEFINE e == LedgerEntry(t, f)
<1>1. e.presence # "none" /\ e.health = t.row[f].health
  BY EntryHas DEF Files
<1>2. LedgerEntry(u, f) = Archive!Entry(e.history, "present", u.row[f].health)
  BY StandingEntry
<1> HIDE DEF e
<1>3. Archive!Seen(e, LedgerEntry(u, f))
  BY <1>1, <1>2 DEF Archive!Seen
<1> QED BY <1>3 DEF Archive!Scanned, e

\* A File that is not there any more.
LEMMA GoneEntry ==
    ASSUME NEW t, NEW u, NEW f, t.row[f].presence = "present",
           u.rev[f] = t.rev[f], u.row[f].cur = t.row[f].cur,
           u.row[f].presence = "missing", u.row[f].health = t.row[f].health
    PROVE  Archive!Gone(LedgerEntry(t, f), LedgerEntry(u, f))
<1> DEFINE e == LedgerEntry(t, f)
<1>1. e.presence = "present" /\ e.health = t.row[f].health
  BY EntryHas
<1>2. LedgerEntry(u, f) = Archive!Entry(e.history, "missing", e.health)
  BY <1>1, StandingEntry
<1> HIDE DEF e
<1> QED BY <1>1, <1>2 DEF Archive!Gone, e

\* A verdict on a File that is there; a mismatch is one with contents.
LEMMA JudgedEntry ==
    ASSUME NEW t, NEW u, NEW f, t.row[f].presence = "present",
           u.rev[f] = t.rev[f], u.row[f].cur = t.row[f].cur,
           u.row[f].presence = "present", u.row[f].health \in Healths,
           u.row[f].health = "hash_mismatch" =>
                /\ t.rev[f] \in Seq(Revision) /\ Tells(t.row[f], t.rev[f])
                /\ t.row[f].sha # None
    PROVE  Archive!Verified(LedgerEntry(t, f), LedgerEntry(u, f))
<1> DEFINE e == LedgerEntry(t, f)
           h == u.row[f].health
<1>1. e.presence = "present" /\ h \in Archive!Healths
  BY EntryHas DEF Healths, Archive!Healths
<1>2. LedgerEntry(u, f) = Archive!Entry(e.history, "present", h)
  BY StandingEntry
<1>3. h = "hash_mismatch" => Archive!Latest(e) # None
  BY LatestIs
<1> HIDE DEF e, h
<1>4. Archive!Judged(e, LedgerEntry(u, f))
  BY <1>1, <1>2, <1>3 DEF Archive!Judged
<1> QED BY <1>4 DEF Archive!Verified, e

\* A new File.
LEMMA BornEntry ==
    ASSUME NEW t, NEW u, NEW f, NEW c \in Contents,
           t.row[f] = UnbornRow, t.rev[f] = <<>>,
           u.rev[f] = <<[sha |-> c, superseded |-> FALSE]>>, u.row[f].cur = 1,
           u.row[f].presence = "present", u.row[f].health = "ok"
    PROVE  Archive!Scanned(LedgerEntry(t, f), LedgerEntry(u, f))
<1> DEFINE e == LedgerEntry(t, f)
<1>1. e = Archive!Unborn
  BY EntryIs, BlankHistory DEF UnbornRow, Archive!Unborn
<1>2. LedgerEntry(u, f) = Archive!Entry(<<c>>, "present", "ok")
  BY EntryIs, FirstHistory
<1> HIDE DEF e
<1>3. Archive!Born(e, LedgerEntry(u, f))
  BY <1>1, <1>2 DEF Archive!Born
<1> QED BY <1>3 DEF Archive!Scanned, e

\* Nothing of the File changes.
LEMMA SameEntry ==
    ASSUME NEW t, NEW u, NEW f, u.rev[f] = t.rev[f], u.row[f] = t.row[f]
    PROVE  LedgerEntry(u, f) = LedgerEntry(t, f)
  BY DEF LedgerEntry

-----------------------------------------------------------------------------
(* Pass 2, path by path.                                                   *)

\* Settling one more File, whichever, disturbs nothing that was settled.
LEMMA SettlesFaithfully ==
    ASSUME NEW st, NEW n, NEW d, NEW t, NEW u, NEW p, NEW x \in FileIds \ st.matched,
           st.matched \subseteq FileIds,
           Faithful(st, d, t), p \in st.todo, Only(t, u, x),
           n.inv = st.inv, n.todo = st.todo \ {p}, n.matched = st.matched \cup {x},
           n.fresh \in {st.fresh, st.fresh \cup {x}},
           u.row[x].path = p,
           u.row[x].sha = st.inv[p] \/ u.row[x].health = "hash_mismatch",
           Settled(n, d, u, x)
    PROVE  Faithful(n, d, u)
<1>1. Decoded(n) = Decoded(st)
  BY DEF Decoded
<1>2. n.todo \subseteq Decoded(n) /\ n.fresh \subseteq n.matched
  BY <1>1 DEF Faithful
<1>3. \A f \in FileIds \ n.matched : u.row[f] = d.row[f] /\ u.rev[f] = d.rev[f]
  BY DEF Faithful, Only
<1>4. ASSUME NEW f \in st.matched PROVE Settled(n, d, u, f)
  <2>1. f \in FileIds /\ f # x /\ u.row[f] = t.row[f] /\ Settled(st, d, t, f)
    BY <1>4 DEF Faithful, Only
  <2>2. f \in n.fresh <=> f \in st.fresh
    BY <2>1
  <2>3. \A h \in FileIds : Rivals(n, d, f, h) <=> Rivals(st, d, f, h)
    BY <1>1 DEF Rivals
  <2>4. ASSUME Joined(st, d, t, f) PROVE Joined(n, d, u, f)
    <3> DEFINE c == t.row[f].sha
               kin(y) == /\ y \in PresentFiles(t) \ {f}
                         /\ t.row[y].sha = c /\ t.row[y].photo = t.row[f].photo
                         /\ \/ y \in st.matched
                            \/ /\ y \in PresentFiles(d)
                               /\ d.row[y].path \in Decoded(st) \ st.todo
    <3>1. CASE \E y \in PresentFiles(t) \ {f} : kin(y)
      <4>1. PICK y \in PresentFiles(t) \ {f} : kin(y)
        BY <3>1
      <4>2. y # x
        BY <4>1, <1>1 DEF Settled
      <4>3. y \in FileIds /\ u.row[y] = t.row[y]
        BY <4>2 DEF Only, PresentFiles
      <4>4. y \in PresentFiles(u) \ {f}
        BY <4>1, <4>3 DEF PresentFiles
      <4>5. y \in n.matched \/ (y \in PresentFiles(d) /\ d.row[y].path \in Decoded(n) \ n.todo)
        BY <4>1, <1>1
      <4> QED BY <4>1, <4>3, <4>4, <4>5, <2>1 DEF Joined
    <3>2. CASE ~ \E y \in PresentFiles(t) \ {f} : kin(y)
      BY <1>1, <2>1, <2>4, <3>2 DEF Joined
    <3> QED BY <3>1, <3>2
  <2> QED BY <1>1, <2>1, <2>2, <2>3, <2>4 DEF Settled
<1>5. \A f \in n.matched : Settled(n, d, u, f)
  BY <1>4
<1>6. ASSUME NEW q \in Decoded(n) \ n.todo PROVE Placed(n, u, q)
  <2>1. CASE q = p
    BY <2>1 DEF Placed
  <2>2. CASE q # p
    <3>1. PICK f \in st.matched : /\ t.row[f].path = q
                                  /\ \/ t.row[f].sha = st.inv[q]
                                     \/ t.row[f].health = "hash_mismatch"
      BY <1>1, <1>6, <2>2 DEF Faithful, Placed
    <3>2. u.row[f] = t.row[f] /\ f \in n.matched
      BY DEF Only
    <3> QED BY <3>1, <3>2 DEF Placed
  <2> QED BY <2>1, <2>2
<1> QED BY <1>2, <1>3, <1>5, <1>6 DEF Faithful

\* What one path reconciled leaves of a scan, and what it does not touch.
LEMMA ReconciledTo ==
    ASSUME NEW s \in Scanners, NEW p, NEW m, NEW fr,
           sc \in [Scanners -> ScanState], Reconciled(s, p, m, fr)
    PROVE  LET st == sc[s]
               n  == sc'[s]
           IN  /\ n.pc = st.pc /\ n.snap = st.snap /\ n.inv = st.inv /\ n.seen = st.seen
               /\ n.errors = st.errors /\ n.touched = st.touched
               /\ n.todo = st.todo \ {p} /\ n.matched = st.matched \cup m
               /\ n.fresh = st.fresh \cup fr
               /\ \A x \in Scanners \ {s} : sc'[x] = sc[x]
<1>1. sc[s] \in ScanState
  OBVIOUS
<1>2. sc' = [sc EXCEPT ![s] = [sc[s] EXCEPT !.todo = @ \ {p}, !.matched = @ \cup m,
                                           !.fresh = @ \cup fr]]
  BY DEF Reconciled, ScanState
<1> QED BY <1>1, <1>2 DEF ScanState

\* A scan that reconciles the rows the catalogue has.
Reconciling(s, p) ==
    sc[s].pc = "reconcile" /\ sc[s].snap = db /\ p \in sc[s].todo

LEMMA Pass2 ==
    ASSUME Observed, NEW s \in Scanners, NEW p, Reconciling(s, p)
    PROVE  /\ sc \in [Scanners -> ScanState] /\ sc[s] \in ScanState /\ p \in Paths
           /\ sc[s].matched \subseteq FileIds /\ db \in Catalogue /\ tx \in Catalogue
           /\ Faithful(sc[s], db, tx) /\ sc[s].inv[p] \in Contents
           /\ Decoded(sc[s]) = OnDisk(s) /\ p \in OnDisk(s)
           /\ Files(db) \subseteq Files(tx) /\ sc[s].fresh \subseteq sc[s].matched
<1>1. /\ sc \in [Scanners -> ScanState] /\ db \in Catalogue /\ tx \in Catalogue
      /\ Files(db) \subseteq Files(tx) /\ Scanned(sc[s], db, tx, disk)
  BY DEF Observed, IInv, TypeOK
<1>2. sc[s] \in ScanState
  BY <1>1
<1>3. Faithful(sc[s], db, tx)
  BY <1>1 DEF Scanned, Reconciling
<1>4. Decoded(sc[s]) = OnDisk(s)
  BY DEF Decoded, OnDisk
<1>5. p \in Decoded(sc[s]) /\ sc[s].fresh \subseteq sc[s].matched
  BY <1>3 DEF Faithful, Reconciling
<1>6. sc[s].inv[p] \in Contents /\ p \in Paths /\ sc[s].matched \subseteq FileIds
  BY <1>2, <1>5 DEF ScanState, Decoded
<1> QED BY <1>1, <1>2, <1>3, <1>4, <1>5, <1>6

\* In transaction t the row and revisions of File x tell one story, which
\* extends the committed one by what a scan may make of it.
Posts(t, x) ==
    /\ Tells(t.row[x], t.rev[x]) /\ Extends(db.rev[x], t.rev[x])
    /\ Archive!Scanned(LedgerEntry(db, x), LedgerEntry(t, x))

\* The step settles File x at path p.
Settles(s, p, x) ==
    /\ Only(tx, tx', x)
    /\ tx'.row[x].path = p
    /\ tx'.row[x].sha = sc[s].inv[p] \/ tx'.row[x].health = "hash_mismatch"
    /\ Settled(sc'[s], db, tx', x)
    /\ Told(tx) => Posts(tx', x)

\* A File at a known path.
LEMMA KnownSettles ==
    ASSUME Observed, NEW s \in Scanners, NEW p \in Paths, NEW f \in FileIds,
           sc[s].snap = db,
           \/ KnownBackfill(s, p, f) \/ KnownUnchanged(s, p, f)
           \/ KnownHeld(s, p, f) \/ KnownModified(s, p, f)
    PROVE  /\ f \notin sc[s].matched /\ Reconciling(s, p)
           /\ Reconciled(s, p, {f}, {f}) \/ Reconciled(s, p, {f}, {})
           /\ Settles(s, p, f)
<1> DEFINE st == sc[s]
           n  == sc'[s]
           r  == db.row[f]
           c  == st.inv[p]
           v  == tx'.row[f]
<1>1. Known(s, p, f)
  BY DEF KnownBackfill, KnownUnchanged, KnownHeld, KnownModified
<1>2. Reconciling(s, p) /\ f \in PresentFiles(db) /\ r.path = p
  BY <1>1 DEF Known, KnownAt, Reconciling
<1>3. /\ sc \in [Scanners -> ScanState] /\ st \in ScanState
      /\ st.matched \subseteq FileIds /\ db \in Catalogue /\ tx \in Catalogue
      /\ Faithful(st, db, tx) /\ c \in Contents
      /\ p \in Decoded(st) /\ p \in st.todo /\ st.fresh \subseteq st.matched
  BY <1>2, Pass2 DEF Reconciling
<1>4. f \notin st.matched /\ f \notin st.fresh
  BY <1>2, <1>3 DEF Faithful, Settled
<1>5. tx.row[f] = r /\ tx.rev[f] = db.rev[f] /\ r \in Row /\ tx.rev[f] \in Seq(Revision)
  BY <1>3, <1>4 DEF Faithful, Catalogue
<1>6. \/ Reconciled(s, p, {f}, {f})
      \/ Reconciled(s, p, {f}, {}) /\ (KnownUnchanged(s, p, f) \/ KnownHeld(s, p, f))
  BY DEF KnownBackfill, KnownUnchanged, KnownHeld, KnownModified
<1> SUFFICES Settles(s, p, f)
  BY <1>2, <1>4, <1>6
<1>7. /\ n.inv = st.inv /\ n.todo = st.todo \ {p}
      /\ f \in n.fresh \/ KnownUnchanged(s, p, f) \/ KnownHeld(s, p, f)
      /\ Reconciled(s, p, {f}, {}) => f \notin n.fresh
  BY <1>3, <1>4, <1>6, ReconciledTo
<1>8. f \in Files(tx) /\ f \in Files(db)
  BY <1>2, <1>5 DEF Files, PresentFiles
<1>9. Told(tx) => Tells(r, db.rev[f])
  BY <1>5, <1>8 DEF Told
<1> DEFINE a == At(r, p)
<1>10. /\ a \in Row /\ a.presence = "present" /\ a.path = p /\ a.health = r.health
       /\ a.sha = r.sha /\ a.photo = r.photo /\ a.cur = r.cur
  BY <1>5, AtIs
<1> HIDE DEF a
\* What is left to show once the row and its revisions are known.
<1>11. ASSUME Only(tx, tx', f), v.presence = "present", v.path = p,
              v.sha = c \/ v.health = "hash_mismatch",
              f \in n.fresh => VerifiedCurrent(db, f) # c,
              f \notin n.fresh => v.sha = r.sha /\ v.photo = r.photo,
              r.health = "hash_mismatch" => v.cur = r.cur,
              Told(tx) => Posts(tx', f)
       PROVE  Settles(s, p, f)
  <2>1. Decoded(n) = Decoded(st)
    BY <1>7 DEF Decoded
  <2>2. \A h \in FileIds : ~Rivals(n, db, f, h)
    BY <1>2, <1>3, <2>1 DEF Rivals
  <2>3. Settled(n, db, tx', f)
    BY <1>2, <1>3, <1>7, <1>8, <1>11, <2>1, <2>2 DEF Settled
  <2> QED BY <1>11, <2>3 DEF Settles
<1>12. VerifiedCurrent(db, f) \in {r.sha, None}
  BY DEF VerifiedCurrent
<1>13. c # None
  BY <1>3, NoneAssumption
<1>14. CASE KnownBackfill(s, p, f)
  <2>1. tx' = Complete(tx, f, r.cur, c, a) /\ r.sha = None
    BY <1>5, <1>14 DEF KnownBackfill, Write, a
  <2>2. /\ v.sha = c /\ v.presence = "present" /\ v.path = p /\ v.cur = r.cur
        /\ v.health = r.health
        /\ tx'.rev[f] = Filled(tx.rev[f], r.cur, c) /\ Only(tx, tx', f)
    BY <1>3, <1>10, <2>1, CompleteIs
  <2>3. f \in n.fresh
    BY <1>3, <1>14, ReconciledTo DEF KnownBackfill
  <2>4. ASSUME Told(tx) PROVE Posts(tx', f)
    <3>1. Tells(r, db.rev[f]) /\ db.rev[f] \in Seq(Revision) /\ db.rev[f][r.cur].sha = None
      BY <1>5, <1>9, <2>1, <2>4 DEF Tells
    <3>2. Tells(v, tx'.rev[f]) /\ Extends(db.rev[f], tx'.rev[f])
      BY <1>3, <1>5, <2>2, <3>1, FilledTells
    <3>3. tx'.rev[f] = Filled(db.rev[f], r.cur, c)
      BY <1>5, <2>2
    <3>4. Archive!Completed(LedgerEntry(db, f), LedgerEntry(tx', f), v.health)
      BY <1>2, <1>3, <2>1, <2>2, <3>1, <3>3, CompletedEntry DEF PresentFiles
    <3>5. v.health = LedgerEntry(db, f).health
      BY <2>2, EntryHas
    <3>6. Archive!Scanned(LedgerEntry(db, f), LedgerEntry(tx', f))
      BY <3>4, <3>5 DEF Archive!Scanned
    <3> QED BY <3>2, <3>6 DEF Posts
  <2> QED BY <1>11, <1>12, <1>13, <2>1, <2>2, <2>3, <2>4
<1>15. CASE KnownUnchanged(s, p, f)
  <2>1. tx' = Refresh(tx, f, p) /\ r.sha = c
    BY <1>15 DEF KnownUnchanged, Write
  <2>2. v = a /\ tx'.rev[f] = tx.rev[f] /\ Only(tx, tx', f)
    BY <1>3, <1>5, <2>1, RefreshIs DEF a
  <2>3. f \notin n.fresh
    BY <1>7, <1>15 DEF KnownUnchanged
  <2>4. ASSUME Told(tx) PROVE Posts(tx', f)
    <3>1. Tells(v, tx'.rev[f]) /\ Extends(db.rev[f], tx'.rev[f])
      BY <1>5, <1>9, <1>10, <2>2, <2>4, ExtendsItself DEF Tells
    <3>2. tx'.rev[f] = db.rev[f] /\ v.cur = r.cur /\ v.presence = "present" /\ v.health = r.health
      BY <1>5, <1>10, <2>2
    <3> QED BY <1>8, <3>1, <3>2, SeenEntry DEF Posts
  <2> QED BY <1>10, <1>11, <2>1, <2>2, <2>3, <2>4
<1>16. CASE KnownHeld(s, p, f)
  <2>1. tx' = tx /\ r.health = "hash_mismatch"
    BY <1>16 DEF KnownHeld
  <2>2. v = r /\ tx'.rev[f] = db.rev[f] /\ Only(tx, tx', f)
    BY <1>5, <2>1 DEF Only
  <2>3. f \notin n.fresh
    BY <1>7, <1>16 DEF KnownHeld
  <2>4. ASSUME Told(tx) PROVE Posts(tx', f)
    <3>1. Tells(v, tx'.rev[f]) /\ Extends(db.rev[f], tx'.rev[f])
      BY <1>5, <1>9, <2>2, <2>4, ExtendsItself
    <3>2. LedgerEntry(tx', f) = LedgerEntry(db, f)
      BY <2>2, SameEntry
    <3> QED BY <3>1, <3>2 DEF Posts, Archive!Scanned
  <2>5. v.presence = "present"
    BY <1>2, <2>2 DEF PresentFiles
  <2> QED BY <1>2, <1>11, <2>1, <2>2, <2>3, <2>4, <2>5
<1>17. CASE KnownModified(s, p, f)
  <2>1. /\ tx' = Supersede(tx, f, r.cur, c, a) /\ r.sha \notin {None, c}
        /\ r.health # "hash_mismatch"
    BY <1>5, <1>17 DEF KnownModified, Write, a
  <2>2. /\ v.sha = c /\ v.presence = "present" /\ v.path = p /\ v.health = "ok"
        /\ v.cur = Len(tx.rev[f]) + 1
        /\ tx'.rev[f] = Renewed(tx.rev[f], r.cur, c)
        /\ Only(tx, tx', f)
    BY <1>3, <1>10, <2>1, SupersedeIs
  <2>3. f \in n.fresh
    BY <1>3, <1>17, ReconciledTo DEF KnownModified
  <2>4. ASSUME Told(tx) PROVE Posts(tx', f)
    <3>1. Tells(r, db.rev[f]) /\ db.rev[f] \in Seq(Revision)
      BY <1>5, <1>9, <2>4
    <3>2. Tells(v, tx'.rev[f]) /\ Extends(db.rev[f], tx'.rev[f])
      BY <1>3, <1>5, <2>2, <3>1, RetiredTells
    <3>3. /\ tx'.rev[f] = Renewed(db.rev[f], r.cur, c) /\ v.cur = Len(db.rev[f]) + 1
          /\ r.presence = "present"
      BY <1>2, <1>5, <2>2 DEF PresentFiles
    <3>4. Archive!Renewed(LedgerEntry(db, f), LedgerEntry(tx', f))
      BY <1>3, <2>1, <2>2, <3>1, <3>3, RenewedEntry
    <3>5. /\ LedgerEntry(db, f).presence = "present"
          /\ LedgerEntry(db, f).health # "hash_mismatch"
      BY <2>1, <3>3, EntryHas
    <3>6. Archive!Scanned(LedgerEntry(db, f), LedgerEntry(tx', f))
      BY <3>4, <3>5 DEF Archive!Scanned
    <3> QED BY <3>2, <3>6 DEF Posts
  <2> QED BY <1>11, <1>12, <1>13, <2>1, <2>2, <2>3, <2>4
<1> QED BY <1>14, <1>15, <1>16, <1>17

\* The index entry of a File that was not indexed anew is its committed row.
LEMMA Indexed ==
    ASSUME Observed, NEW s \in Scanners, NEW p, Reconciling(s, p),
           NEW f \in Candidates(s, p), f \notin sc[s].fresh
    PROVE  /\ f \in Files(db) /\ View(s, f) = db.row[f]
           /\ db.row[f].sha = sc[s].inv[p]
           /\ f \in PresentFiles(db) => VerifiedCurrent(db, f) = sc[s].inv[p]
<1>1. sc[s].snap = db /\ sc[s].inv[p] # None
  BY Pass2, NoneAssumption DEF Reconciling
<1>2. f \in FileIds /\ IndexedSha(s, f) = sc[s].inv[p]
  BY DEF Candidates
<1>3. View(s, f) = db.row[f]
  BY <1>1 DEF View
<1>4. CASE db.row[f].presence = "present"
  BY <1>1, <1>2, <1>3, <1>4 DEF IndexedSha, VerifiedCurrent, Files, PresentFiles
<1>5. CASE db.row[f].presence # "present"
  BY <1>1, <1>2, <1>3, <1>5 DEF IndexedSha, Files, PresentFiles
<1> QED BY <1>4, <1>5

\* A vanished File put at an orphan path.
LEMMA PlacedSettles ==
    ASSUME Observed, NEW s \in Scanners, NEW p \in Paths, NEW f,
           sc[s].snap = db, Orphan(s, p),
           f \in Restorable(s, p) \/ Relocatable(s, p) = {f},
           Write(Relocate(tx, f, p, sc[s].inv[p])), Reconciled(s, p, {f}, {f})
    PROVE  f \in FileIds \ sc[s].matched /\ Reconciling(s, p) /\ Settles(s, p, f)
<1> DEFINE st == sc[s]
           n  == sc'[s]
           r  == db.row[f]
           c  == st.inv[p]
           v  == tx'.row[f]
<1>1. Reconciling(s, p)
  BY DEF Orphan, Reconciling
<1>2. /\ sc \in [Scanners -> ScanState] /\ st \in ScanState
      /\ st.matched \subseteq FileIds /\ db \in Catalogue /\ tx \in Catalogue
      /\ Faithful(st, db, tx) /\ c \in Contents /\ Files(db) \subseteq Files(tx)
      /\ p \in Decoded(st) /\ p \in st.todo /\ st.fresh \subseteq st.matched
      /\ Decoded(st) = OnDisk(s)
  BY <1>1, Pass2 DEF Reconciling
<1>3. f \in Candidates(s, p) /\ f \notin st.matched /\ f \in FileIds
  BY DEF Restorable, Relocatable, Candidates
<1>4. /\ f \in Files(db) /\ View(s, f) = r /\ r.sha = c
      /\ f \in PresentFiles(db) => VerifiedCurrent(db, f) = c
  BY <1>1, <1>2, <1>3, Indexed
<1>5. tx.row[f] = r /\ tx.rev[f] = db.rev[f] /\ db.rev[f] \in Seq(Revision)
  BY <1>2, <1>3 DEF Faithful, Catalogue
<1>6. /\ v.presence = "present" /\ v.path = p /\ v.sha = c /\ v.photo = r.photo
      /\ v.health = r.health
      /\ v.cur = r.cur /\ tx'.rev[f] = db.rev[f] /\ Only(tx, tx', f)
  BY <1>2, <1>3, <1>5, RelocateIs DEF Write
<1>7. /\ n.inv = st.inv /\ n.todo = st.todo \ {p} /\ f \in n.fresh
  BY <1>2, ReconciledTo
<1>8. Decoded(n) = Decoded(st)
  BY <1>7 DEF Decoded
<1>9. f \in PresentFiles(db) => r.path \notin Decoded(st)
  BY <1>2, <1>4 DEF Restorable, Relocatable, PresentFiles
<1>10. ASSUME NEW h \in FileIds, Rivals(n, db, f, h) PROVE FALSE
  <2>1. /\ f # h /\ r.path \notin Decoded(st) /\ db.row[h].path \notin Decoded(st)
        /\ Coherent(db, h) /\ db.row[h].sha = c
        /\ db.row[h].presence = "missing" \/ VerifiedCurrent(db, h) # None
    BY <1>4, <1>8, <1>10 DEF Rivals
  <2>2. Relocatable(s, p) = {f}
    BY <1>2, <1>4, <2>1 DEF Restorable
  <2>3. h \notin st.matched
    <3>1. Rivals(st, db, h, f)
      BY <1>8, <1>10 DEF Rivals
    <3> QED BY <1>2, <3>1, <1>3 DEF Faithful, Settled
  <2>4. IndexedSha(s, h) = c /\ View(s, h) = db.row[h]
    <3>1. h \notin st.fresh /\ st.snap = db
      BY <1>2, <2>3
    <3>2. VerifiedCurrent(db, h) # None => db.row[h].presence = "present" /\ VerifiedCurrent(db, h) = c
      BY <2>1 DEF VerifiedCurrent
    <3> QED BY <2>1, <3>1, <3>2 DEF IndexedSha, View
  <2>5. h \in Relocatable(s, p)
    BY <1>2, <2>1, <2>3, <2>4 DEF Relocatable, Candidates
  <2> QED BY <2>1, <2>2, <2>5
<1>11. Settled(n, db, tx', f)
  <2>1. n.todo \subseteq Decoded(st)
    BY <1>2, <1>7 DEF Faithful
  <2> QED BY <1>2, <1>4, <1>6, <1>7, <1>8, <1>9, <1>10, <2>1 DEF Settled
<1>12. ASSUME Told(tx) PROVE Posts(tx', f)
  <2>1. Tells(r, db.rev[f])
    BY <1>2, <1>4, <1>5, <1>12 DEF Told
  <2>2. Tells(v, tx'.rev[f]) /\ Extends(db.rev[f], tx'.rev[f])
    BY <1>4, <1>5, <1>6, <2>1, ExtendsItself DEF Tells
  <2> QED BY <1>4, <1>6, <2>2, SeenEntry DEF Posts
<1>13. Settles(s, p, f)
  BY <1>6, <1>11, <1>12 DEF Settles
<1> QED BY <1>1, <1>3, <1>13

\* A new File at an orphan path.
LEMMA InsertedSettles ==
    ASSUME Observed, NEW s \in Scanners, NEW p \in Paths, NEW g \in FileIds \ Files(tx),
           NEW ph, sc[s].snap = db, Orphan(s, p),
           Write(Insert(tx, g, p, sc[s].inv[p], ph)), Reconciled(s, p, {g}, {g}),
           \/ \E f, h \in Relocatable(s, p) : f # h
           \/ \E f \in Twins(s, p) : ph = View(s, f).photo
           \/ Twins(s, p) = {}
    PROVE  g \notin sc[s].matched /\ Reconciling(s, p) /\ Settles(s, p, g)
<1> DEFINE st == sc[s]
           n  == sc'[s]
           c  == st.inv[p]
           v  == tx'.row[g]
<1>1. Reconciling(s, p)
  BY DEF Orphan, Reconciling
<1>2. /\ sc \in [Scanners -> ScanState] /\ st \in ScanState
      /\ st.matched \subseteq FileIds /\ db \in Catalogue /\ tx \in Catalogue
      /\ Faithful(st, db, tx) /\ c \in Contents /\ Files(db) \subseteq Files(tx)
      /\ p \in Decoded(st) /\ p \in st.todo /\ st.fresh \subseteq st.matched
      /\ Decoded(st) = OnDisk(s)
  BY <1>1, Pass2 DEF Reconciling
<1>3. g \notin st.matched
  BY <1>2 DEF Faithful, Settled, Files
<1>4. g \notin Files(db) /\ g \notin PresentFiles(db) /\ db.row[g] = UnbornRow /\ db.rev[g] = <<>>
  BY <1>2 DEF Observed, Blank, Files, PresentFiles
<1>5. /\ v.presence = "present" /\ v.path = p /\ v.sha = c /\ v.photo = ph /\ v.cur = 1
      /\ v.health = "ok"
      /\ tx'.rev[g] = <<[sha |-> c, superseded |-> FALSE]>> /\ Only(tx, tx', g)
  BY <1>2, InsertIs DEF Write
<1>6. /\ n.inv = st.inv /\ n.todo = st.todo \ {p} /\ g \in n.fresh
      /\ n.matched = st.matched \cup {g}
  BY <1>2, ReconciledTo
<1>7. Decoded(n) = Decoded(st)
  BY <1>6 DEF Decoded
<1>8. ASSUME NEW h \in FileIds PROVE ~Rivals(n, db, g, h)
  <2>1. ~Coherent(db, g)
    BY <1>4 DEF Coherent, UnbornRow
  <2> QED BY <2>1 DEF Rivals
<1>9. Joined(n, db, tx', g)
  <2>1. CASE \E f, h \in Relocatable(s, p) : f # h
    <3>1. PICK f \in Relocatable(s, p), h \in Relocatable(s, p) : f # h
      BY <2>1
    <3>2. ASSUME NEW x \in Relocatable(s, p)
          PROVE  x \in Files(db) /\ db.row[x].sha = c /\ db.row[x].path \notin Decoded(n)
      <4>1. x \in Candidates(s, p) /\ x \notin st.fresh /\ View(s, x).path \notin Decoded(st)
        BY <1>2, <3>2 DEF Relocatable
      <4> QED BY <1>1, <1>7, <4>1, Indexed
    <3> QED BY <1>5, <3>1, <3>2 DEF Joined
  <2>2. CASE \E f \in Twins(s, p) : ph = View(s, f).photo
    <3>1. PICK f \in Twins(s, p) : ph = View(s, f).photo
      BY <2>2
    <3>2. /\ f \in Candidates(s, p) /\ f \in FileIds /\ View(s, f).presence = "present"
          /\ View(s, f).path \in Decoded(st)
      BY <1>2, <3>1 DEF Twins, Candidates
    <3>3. CASE f \in st.fresh
      <4>1. tx.row[f].sha = c /\ View(s, f) = tx.row[f]
        BY <3>2, <3>3 DEF Candidates, IndexedSha, View
      <4>2. f \in Files(tx) /\ f # g /\ f \in n.matched
        BY <1>2, <1>6, <3>2, <3>3, <4>1 DEF Files
      <4>3. tx'.row[f] = tx.row[f]
        BY <1>5, <3>2, <4>2 DEF Only
      <4>4. f \in PresentFiles(tx') \ {g}
        BY <3>2, <4>1, <4>2, <4>3 DEF PresentFiles
      <4> QED BY <1>5, <3>1, <4>1, <4>2, <4>3, <4>4 DEF Joined
    <3>4. CASE f \notin st.fresh
      <4>1. /\ f \in Files(db) /\ View(s, f) = db.row[f] /\ db.row[f].sha = c
            /\ f \in PresentFiles(db) /\ db.row[f].path \in Decoded(st)
        BY <1>1, <3>2, <3>4, Indexed DEF PresentFiles
      <4>2. /\ tx.row[f].sha = c /\ tx.row[f].photo = ph
            /\ tx.row[f].presence = "present"
        BY <1>2, <3>1, <3>2, <3>4, <4>1 DEF Faithful, Settled
      <4>3. f # g /\ tx'.row[f] = tx.row[f]
        BY <1>4, <1>5, <3>2, <4>1 DEF Only
      <4>4. f \in PresentFiles(tx') \ {g}
        BY <3>2, <4>2, <4>3 DEF PresentFiles
      <4>5. db.row[f].path \notin st.todo
        <5>1. st.snap = db /\ \A q \in st.todo : KnownAt(s, q) = {}
          BY DEF Orphan
        <5> QED BY <4>1, <5>1 DEF KnownAt
      <4>6. db.row[f].path \in Decoded(n) \ n.todo
        BY <1>6, <1>7, <4>1, <4>5
      <4> QED BY <1>5, <4>1, <4>2, <4>3, <4>4, <4>6 DEF Joined
    <3> QED BY <3>3, <3>4
  <2>3. CASE Twins(s, p) = {}
    <3>1. ASSUME NEW f \in PresentFiles(db), VerifiedCurrent(db, f) = c,
                 st.inv[db.row[f].path] = c
          PROVE  FALSE
      <4>1. f \in FileIds /\ db.row[f].presence = "present" /\ db.row[f].path \in Paths
        BY DEF PresentFiles, Observed, IInv, TypeOK, Located, Files
      <4>2. db.row[f].path \in Decoded(st)
        BY <1>2, <3>1, <4>1, NoneAssumption DEF Decoded
      <4>3. f \notin st.fresh
        BY <1>2, <3>1, <4>1, <4>2 DEF Faithful, Settled
      <4>4. IndexedSha(s, f) = c /\ View(s, f) = db.row[f]
        BY <3>1, <4>1, <4>3 DEF IndexedSha, View
      <4>5. f \in Twins(s, p)
        BY <1>2, <4>1, <4>2, <4>4 DEF Twins, Candidates
      <4> QED BY <2>3, <4>5
    <3> QED BY <1>5, <1>6, <3>1 DEF Joined
  <2> QED BY <2>1, <2>2, <2>3
<1>10. db.row[g].health = "ok"
  BY <1>4 DEF UnbornRow
<1>11. Settled(n, db, tx', g)
  BY <1>2, <1>4, <1>5, <1>6, <1>7, <1>8, <1>9, <1>10 DEF Settled
<1>12. Tells(v, tx'.rev[g]) /\ Extends(db.rev[g], tx'.rev[g])
  BY <1>2, <1>4, <1>5, FirstTells
<1>13. Archive!Scanned(LedgerEntry(db, g), LedgerEntry(tx', g))
  BY <1>2, <1>4, <1>5, BornEntry
<1>14. Posts(tx', g)
  BY <1>12, <1>13 DEF Posts
<1>15. Settles(s, p, g)
  BY <1>5, <1>11, <1>14 DEF Settles
<1> QED BY <1>1, <1>3, <1>15

\* One path reconciled, in whichever way.
PathStep(s, p) ==
    \/ \E f \in FileIds : \/ KnownBackfill(s, p, f) \/ KnownUnchanged(s, p, f)
                          \/ KnownHeld(s, p, f) \/ KnownModified(s, p, f)
    \/ OrphanRestored(s, p) \/ OrphanMoved(s, p) \/ OrphanAmbiguous(s, p)
    \/ OrphanCopied(s, p) \/ OrphanNew(s, p)

\* Against the rows of the catalogue, it settles one File.
LEMMA PathSettles ==
    ASSUME Observed, NEW s \in Scanners, NEW p \in Paths, sc[s].snap = db,
           PathStep(s, p)
    PROVE  \E x \in FileIds \ sc[s].matched :
                /\ Reconciling(s, p) /\ Settles(s, p, x)
                /\ Reconciled(s, p, {x}, {x}) \/ Reconciled(s, p, {x}, {})
<1>1. CASE \E f \in FileIds : \/ KnownBackfill(s, p, f) \/ KnownUnchanged(s, p, f)
                             \/ KnownHeld(s, p, f) \/ KnownModified(s, p, f)
  BY <1>1, KnownSettles
<1>2. CASE OrphanRestored(s, p)
  BY <1>2, PlacedSettles DEF OrphanRestored
<1>3. CASE OrphanMoved(s, p)
  BY <1>3, PlacedSettles DEF OrphanMoved
<1>4. ASSUME NEW ph, Inserted(s, p, ph), Orphan(s, p),
             \/ \E f, h \in Relocatable(s, p) : f # h
             \/ \E f \in Twins(s, p) : ph = View(s, f).photo
             \/ Twins(s, p) = {}
      PROVE  \E x \in FileIds \ sc[s].matched :
                /\ Reconciling(s, p) /\ Settles(s, p, x)
                /\ Reconciled(s, p, {x}, {x}) \/ Reconciled(s, p, {x}, {})
  <2>1. PICK g \in FileIds \ Files(tx) :
          /\ Write(Insert(tx, g, p, sc[s].inv[p], IF ph = None THEN g ELSE ph))
          /\ Reconciled(s, p, {g}, {g})
    BY <1>4 DEF Inserted
  <2> DEFINE h == IF ph = None THEN g ELSE ph
  <2>2. \/ \E f, x \in Relocatable(s, p) : f # x
        \/ \E f \in Twins(s, p) : h = View(s, f).photo
        \/ Twins(s, p) = {}
    <3>1. ASSUME NEW f \in Twins(s, p), ph = View(s, f).photo PROVE ph # None
      <4>1. f \in Candidates(s, p) /\ f \in FileIds
        BY DEF Twins, Candidates
      <4>2. f \in Files(tx)
        BY <1>4, <4>1, CandidateFile DEF Observed
      <4>3. Reconciling(s, p)
        BY <1>4 DEF Orphan, Reconciling
      <4>4. View(s, f) = tx.row[f] \/ (View(s, f) = db.row[f] /\ f \in Files(db))
        BY <4>1, <4>3, Indexed DEF View
      <4>5. View(s, f).photo \in FileIds
        BY <4>2, <4>4 DEF Observed, IInv, TypeOK, Located
      <4> QED BY <3>1, <4>5, NoneAssumption
    <3> QED BY <1>4, <3>1
  <2>3. Write(Insert(tx, g, p, sc[s].inv[p], h))
    BY <2>1
  <2> HIDE DEF h
  <2> QED BY <1>4, <2>1, <2>2, <2>3, InsertedSettles
<1>5. CASE OrphanAmbiguous(s, p)
  <2>1. /\ Orphan(s, p) /\ \E f, h \in Relocatable(s, p) : f # h
        /\ \E ph : Inserted(s, p, ph)
    BY <1>5 DEF OrphanAmbiguous
  <2> QED BY <1>4, <2>1
<1>6. CASE OrphanCopied(s, p)
  BY <1>4, <1>6 DEF OrphanCopied
<1>7. CASE OrphanNew(s, p)
  BY <1>4, <1>7 DEF OrphanNew
<1> QED BY <1>1, <1>2, <1>3, <1>5, <1>6, <1>7 DEF PathStep

\* ... and the transaction stays faithful to what has been settled.
LEMMA PathFaithful ==
    ASSUME Observed, NEW s \in Scanners, NEW p \in Paths, sc[s].snap = db,
           PathStep(s, p)
    PROVE  Faithful(sc'[s], db, tx')
<1>1. PICK x \in FileIds \ sc[s].matched :
        /\ Reconciling(s, p) /\ Settles(s, p, x)
        /\ Reconciled(s, p, {x}, {x}) \/ Reconciled(s, p, {x}, {})
  BY PathSettles
<1>2. /\ sc \in [Scanners -> ScanState] /\ sc[s].matched \subseteq FileIds
      /\ Faithful(sc[s], db, tx) /\ p \in sc[s].todo
  BY <1>1, Pass2 DEF Reconciling
<1>3. /\ sc'[s].inv = sc[s].inv /\ sc'[s].todo = sc[s].todo \ {p}
      /\ sc'[s].matched = sc[s].matched \cup {x}
      /\ sc'[s].fresh \in {sc[s].fresh, sc[s].fresh \cup {x}}
  <2>1. CASE Reconciled(s, p, {x}, {x})
    BY <1>2, <2>1, ReconciledTo
  <2>2. CASE Reconciled(s, p, {x}, {})
    <3>1. /\ sc'[s].inv = sc[s].inv /\ sc'[s].todo = sc[s].todo \ {p}
          /\ sc'[s].matched = sc[s].matched \cup {x}
          /\ sc'[s].fresh = sc[s].fresh \cup {}
      BY <1>2, <2>2, ReconciledTo
    <3> QED BY <3>1
  <2> QED BY <1>1, <2>1, <2>2
<1> QED BY <1>1, <1>2, <1>3, SettlesFaithfully DEF Settles

-----------------------------------------------------------------------------
(* Every step keeps what has been observed.                                *)

\* The steps of a scan touch no other scan, nothing outside the catalogue,
\* and the catalogue only under the lock.
LEMMA ScanFrame ==
    ASSUME IInv, NEW s \in Scanners, ScanStep(s)
    PROVE  /\ \A x \in Scanners \ {s} : sc'[x] = sc[x]
           /\ UNCHANGED <<disk, online, vf, plan>>
           /\ writer # s => UNCHANGED <<db, tx>>
           /\ writer' \in {writer, s, None}
           /\ writer' # None => db' = db
<1>1. sc \in [Scanners -> ScanState] /\ Fits(s, sc[s], db, tx, writer)
  BY DEF IInv, TypeOK, ScannersFit
<1>2. CASE ScanOffline(s) \/ ScanOpen(s) \/ ScanSelect(s) \/ ScanLock(s)
  BY <1>1, <1>2 DEF ScanOffline, ScanOpen, ScanSelect, ScanLock
<1>3. CASE \E p \in Paths : \/ VisitBlind(s, p) \/ VisitAbsent(s, p)
                            \/ VisitUnreadable(s, p) \/ VisitDecoded(s, p)
  BY <1>1, <1>3 DEF VisitBlind, VisitAbsent, VisitUnreadable, VisitDecoded, Walked
<1>4. CASE EndWalk(s)
  BY <1>1, <1>4 DEF EndWalk
<1>5. ASSUME NEW p, NEW m, NEW fr, Reconciled(s, p, m, fr), sc[s].pc = "reconcile"
      PROVE  /\ \A x \in Scanners \ {s} : sc'[x] = sc[x]
             /\ UNCHANGED <<disk, online, vf, plan, db>>
             /\ writer = s /\ writer' = writer
  BY <1>1, <1>5 DEF Reconciled, Fits
<1>6. CASE \E p \in Paths, f \in FileIds :
             \/ KnownBackfill(s, p, f) \/ KnownUnchanged(s, p, f)
             \/ KnownHeld(s, p, f) \/ KnownModified(s, p, f)
  BY <1>5, <1>6 DEF KnownBackfill, KnownUnchanged, KnownHeld, KnownModified, Known
<1>7. CASE \E p \in Paths :
             \/ OrphanRestored(s, p) \/ OrphanMoved(s, p) \/ OrphanAmbiguous(s, p)
             \/ OrphanCopied(s, p) \/ OrphanNew(s, p)
  BY <1>5, <1>7 DEF OrphanRestored, OrphanMoved, OrphanAmbiguous, OrphanCopied,
                    OrphanNew, Orphan, Inserted
<1>8. CASE ScanCommit(s) \/ ScanFail(s)
  BY <1>1, <1>8 DEF ScanCommit, ReadyToCommit, ScanFail, Fits
<1> QED BY <1>2, <1>3, <1>4, <1>6, <1>7, <1>8 DEF ScanStep

\* What a scan has observed stays true while nobody else writes to the disk or
\* to the catalogue under its lock.
LEMMA Undisturbed ==
    ASSUME Observed, NEW x \in Scanners, sc'[x] = sc[x], disk' = disk,
           writer = x => UNCHANGED <<db, tx>>
    PROVE  Scanned(sc'[x], db', tx', disk')
<1>1. Scanned(sc[x], db, tx, disk) /\ Fits(x, sc[x], db, tx, writer)
  BY DEF Observed, IInv, ScannersFit
<1> QED BY <1>1 DEF Scanned, Fits

\* The walk.
LEMMA WalkObserved ==
    ASSUME Observed, NEW s \in Scanners, NEW p \in Paths,
           \/ VisitBlind(s, p) \/ VisitAbsent(s, p)
           \/ VisitUnreadable(s, p) \/ VisitDecoded(s, p)
    PROVE  Scanned(sc'[s], db', tx', disk')
<1> DEFINE st == sc[s]
<1>1. /\ sc \in [Scanners -> ScanState] /\ st \in ScanState /\ st.pc = "walk"
      /\ Scanned(st, db, tx, disk)
      /\ disk \in [Paths -> Bytes \cup {Absent}]
  BY DEF Observed, IInv, TypeOK, VisitBlind, VisitAbsent, VisitUnreadable, VisitDecoded,
         Walking
<1>2. Honest(st, disk) /\ tx = db /\ st.matched = {} /\ st.fresh = {}
  BY <1>1 DEF Scanned
<1>3. ASSUME NEW m \in ScanState, Walked(s, p, m), m.pc = "walk", m.touched = st.touched,
             m.matched = {}, m.fresh = {}, m.todo = st.todo,
             st.errors => m.errors,
             m.seen \in {st.seen, st.seen \cup {p}},
             \A q \in Paths \ {p} : m.inv[q] = st.inv[q],
             m.errors \/ p \in m.seen \/ disk[p] = Absent,
             p \in m.seen \ st.seen => disk[p] # Absent,
             \/ m.inv[p] = st.inv[p]
             \/ p \in m.seen /\ disk[p] \in Contents /\ Stamp[m.inv[p]] = Stamp[disk[p]]
      PROVE  Scanned(sc'[s], db', tx', disk')
  <2> DEFINE n == [m EXCEPT !.todo = @ \ {p}]
  <2>1. /\ n.pc = "walk" /\ n.touched = st.touched /\ n.matched = {} /\ n.fresh = {}
        /\ n.todo = st.todo \ {p} /\ n.errors = m.errors /\ n.seen = m.seen
        /\ n.inv = m.inv
    BY <1>3 DEF ScanState
  <2>2. sc'[s] = n /\ db' = db /\ tx' = tx /\ disk' = disk
    BY <1>1, <1>3 DEF Walked
  <2> HIDE DEF n
  <2>3. st.errors \in BOOLEAN /\ m.errors \in BOOLEAN
    BY <1>1 DEF ScanState
  <2>4. ASSUME ~n.errors, NEW q \in Paths
        PROVE  q \in n.todo \/ q \in n.seen \cup n.touched \/ disk[q] = Absent
    BY <1>1, <1>2, <1>3, <2>1, <2>3, <2>4 DEF Honest
  <2>5. \A q \in n.seen \ n.touched : disk[q] # Absent
    BY <1>2, <1>3, <2>1 DEF Honest
  <2>6. ASSUME NEW q \in Decoded(n)
        PROVE  /\ q \in n.seen
               /\ q \notin n.touched =>
                    disk[q] \in Contents /\ Stamp[n.inv[q]] = Stamp[disk[q]]
    <3>1. q \in Paths /\ n.inv[q] # None
      BY <2>6 DEF Decoded
    <3>2. CASE q = p /\ m.inv[p] # st.inv[p]
      BY <1>3, <2>1, <3>2
    <3>3. CASE m.inv[q] = st.inv[q]
      <4>1. q \in Decoded(st)
        BY <2>1, <3>1, <3>3 DEF Decoded
      <4> QED BY <1>2, <1>3, <2>1, <3>3, <4>1 DEF Honest
    <3> QED BY <1>3, <3>1, <3>2, <3>3
  <2>7. Honest(n, disk)
    BY <2>1, <2>4, <2>5, <2>6 DEF Honest
  <2> QED BY <1>2, <2>1, <2>2, <2>7 DEF Scanned
<1>4. CASE VisitBlind(s, p)
  <2> DEFINE m == [st EXCEPT !.errors = TRUE]
  <2>1. /\ m \in ScanState /\ m.pc = "walk" /\ m.touched = st.touched /\ m.matched = {}
        /\ m.fresh = {} /\ m.errors /\ m.seen = st.seen /\ m.inv = st.inv /\ m.todo = st.todo
    BY <1>1, <1>2 DEF ScanState
  <2>2. Walked(s, p, m)
    BY <1>4 DEF VisitBlind
  <2> HIDE DEF m
  <2> QED BY <1>3, <2>1, <2>2
<1>5. CASE VisitAbsent(s, p)
  <2>1. Walked(s, p, st) /\ disk[p] = Absent
    BY <1>5 DEF VisitAbsent
  <2> QED BY <1>1, <1>2, <1>3, <2>1
<1>6. CASE VisitUnreadable(s, p)
  <2> DEFINE m == [st EXCEPT !.seen = @ \cup {p}]
  <2>1. /\ m \in ScanState /\ m.pc = "walk" /\ m.touched = st.touched /\ m.matched = {}
        /\ m.fresh = {} /\ m.errors = st.errors /\ m.seen = st.seen \cup {p}
        /\ m.inv = st.inv /\ m.todo = st.todo
    BY <1>1, <1>2 DEF ScanState
  <2>2. Walked(s, p, m) /\ disk[p] # Absent
    BY <1>6 DEF VisitUnreadable
  <2> HIDE DEF m
  <2> QED BY <1>3, <2>1, <2>2
<1>7. CASE VisitDecoded(s, p)
  <2>1. PICK c \in Contents :
          /\ IF StoredHash(s, p) # {} THEN c \in StoredHash(s, p) ELSE c = disk[p]
          /\ Walked(s, p, [sc[s] EXCEPT !.seen = @ \cup {p}, !.inv[p] = c])
    BY <1>7 DEF VisitDecoded
  <2>2. Stamp[c] = Stamp[disk[p]] /\ disk[p] \in Contents
    BY <1>7, <2>1 DEF StoredHash, VisitDecoded
  <2> DEFINE m == [st EXCEPT !.seen = @ \cup {p}, !.inv[p] = c]
  <2>3. /\ m \in ScanState /\ m.pc = "walk" /\ m.touched = st.touched /\ m.matched = {}
        /\ m.fresh = {} /\ m.errors = st.errors /\ m.seen = st.seen \cup {p}
        /\ m.inv[p] = c /\ m.todo = st.todo
        /\ \A q \in Paths \ {p} : m.inv[q] = st.inv[q]
    BY <1>1, <1>2 DEF ScanState
  <2>4. Walked(s, p, m)
    BY <2>1
  <2> HIDE DEF m
  <2>5. disk[p] # Absent
    BY <2>2, ValuesAssumption
  <2> QED BY <1>3, <2>2, <2>3, <2>4, <2>5
<1> QED BY <1>4, <1>5, <1>6, <1>7

\* The other steps of a scan.
LEMMA ScanObserved ==
    ASSUME Observed, NEW s \in Scanners, ScanStep(s)
    PROVE  Scanned(sc'[s], db', tx', disk')
<1> DEFINE st == sc[s]
           n  == sc'[s]
<1>1. /\ sc \in [Scanners -> ScanState] /\ st \in ScanState
      /\ Scanned(st, db, tx, disk) /\ TxFree /\ Fits(s, st, db, tx, writer)
  BY DEF Observed, IInv, TypeOK, ScannersFit
<1>2. CASE ScanOffline(s)
  BY <1>1, <1>2 DEF ScanOffline
<1>3. CASE ScanOpen(s)
  <2>1. /\ n.pc = "opened" /\ n.seen = {} /\ n.matched = {} /\ n.fresh = {}
        /\ n.inv = [p \in Paths |-> None]
    BY <1>1, <1>3 DEF ScanOpen, Idle
  <2>2. Decoded(n) = {}
    BY <2>1 DEF Decoded
  <2> QED BY <2>1, <2>2 DEF Scanned
<1>4. CASE ScanSelect(s)
  <2>1. /\ n.pc = "selected" /\ n.seen = st.seen /\ n.matched = st.matched
        /\ n.fresh = st.fresh /\ n.inv = st.inv /\ st.pc = "opened"
    BY <1>1, <1>4 DEF ScanSelect, ScanState
  <2>2. Decoded(n) = Decoded(st)
    BY <2>1 DEF Decoded
  <2> QED BY <1>1, <2>1, <2>2 DEF Scanned
<1>5. CASE ScanLock(s)
  <2>1. sc' = [sc EXCEPT ![s] = [st EXCEPT !.pc = "walk",
                                          !.todo = IF online THEN Paths ELSE {},
                                          !.errors = ~online]]
    BY <1>1, <1>5 DEF ScanLock
  <2>2. /\ n.pc = "walk" /\ n.seen = st.seen /\ n.matched = st.matched
        /\ n.fresh = st.fresh /\ n.inv = st.inv /\ st.pc = "selected"
        /\ n.errors = ~online /\ n.todo = IF online THEN Paths ELSE {}
    BY <1>1, <1>5, <2>1 DEF ScanLock, ScanState
  <2>3. Decoded(n) = Decoded(st)
    BY <2>2 DEF Decoded
  <2>4. db' = db /\ tx' = tx /\ disk' = disk /\ writer = None
    BY <1>5 DEF ScanLock, Free
  <2>5. Honest(n, disk)
    BY <1>1, <2>2, <2>3 DEF Honest, Scanned
  <2> QED BY <1>1, <2>2, <2>4, <2>5 DEF Scanned, TxFree
<1>6. CASE EndWalk(s)
  <2>1. sc' = [sc EXCEPT ![s] = [st EXCEPT !.pc = "reconcile", !.todo = Decoded(st)]]
    BY <1>1, <1>6 DEF EndWalk, Decoded
  <2>2. /\ n.pc = "reconcile" /\ n.seen = st.seen /\ n.matched = st.matched
        /\ n.fresh = st.fresh /\ n.inv = st.inv /\ st.pc = "walk" /\ n.errors = st.errors
        /\ n.touched = st.touched /\ n.todo = Decoded(st) /\ st.todo = {}
    <3>1. n = [st EXCEPT !.pc = "reconcile", !.todo = Decoded(st)]
      BY <1>1, <2>1
    <3>2. st.pc = "walk" /\ st.todo = {}
      BY <1>6 DEF EndWalk
    <3> HIDE DEF st, n
    <3> QED BY <1>1, <3>1, <3>2 DEF ScanState
  <2>3. Decoded(n) = Decoded(st)
    BY <2>2 DEF Decoded
  <2>4. db' = db /\ tx' = tx /\ disk' = disk
    BY <1>6 DEF EndWalk
  <2>5. Honest(n, disk)
    BY <1>1, <2>2, <2>3 DEF Honest, Scanned
  <2>6. Faithful(n, db, tx)
    BY <1>1, <2>2, <2>3 DEF Faithful, Scanned
  <2> QED BY <2>2, <2>4, <2>5, <2>6 DEF Scanned
<1>7. CASE \E p \in Paths : \/ VisitBlind(s, p) \/ VisitAbsent(s, p)
                            \/ VisitUnreadable(s, p) \/ VisitDecoded(s, p)
  BY <1>7, WalkObserved
<1>8. ASSUME NEW p \in Paths, PathStep(s, p) PROVE Scanned(n, db', tx', disk')
  <2>1. (\E m, fr : Reconciled(s, p, m, fr)) /\ st.pc = "reconcile"
    BY <1>8 DEF PathStep, KnownBackfill, KnownUnchanged, KnownHeld, KnownModified, Known,
                OrphanRestored, OrphanMoved, OrphanAmbiguous, OrphanCopied, OrphanNew,
                Orphan, Inserted
  <2>2. /\ n.pc = "reconcile" /\ n.snap = st.snap /\ n.inv = st.inv /\ n.seen = st.seen
        /\ n.errors = st.errors /\ n.touched = st.touched
        /\ db' = db /\ disk' = disk
    <3>1. PICK m, fr : Reconciled(s, p, m, fr)
      BY <2>1
    <3>2. db' = db /\ disk' = disk
      BY <3>1 DEF Reconciled
    <3> QED BY <1>1, <2>1, <3>1, <3>2, ReconciledTo
  <2>3. Decoded(n) = Decoded(st)
    BY <2>2 DEF Decoded
  <2>4. Honest(n, disk)
    BY <1>1, <2>1, <2>2, <2>3 DEF Honest, Scanned
  <2>5. st.snap = db => Faithful(n, db, tx')
    BY <1>8, PathFaithful
  <2> QED BY <2>2, <2>4, <2>5 DEF Scanned
<1>9. CASE ScanCommit(s) \/ ScanFail(s)
  <2>1. n = Idle
    BY <1>1, <1>9 DEF ScanCommit, ScanFail
  <2> QED BY <2>1 DEF Idle, Scanned
<1> QED BY <1>2, <1>3, <1>4, <1>5, <1>6, <1>7, <1>8, <1>9 DEF ScanStep, PathStep

\* An id stays unborn until a File gets it.
LEMMA BlankPut ==
    ASSUME NEW t, NEW u, NEW f, Blank(t), Only(t, u, f), f \in Files(u)
    PROVE  Blank(u)
  BY DEF Blank, Only, Files

\* Marking what was not matched touches the rows of known Files only, and in
\* them presence and health only.
LEMMA AccountedIs ==
    ASSUME IInv, NEW s \in Scanners, sc[s].pc = "reconcile", NEW f \in FileIds
    PROVE  LET u == Accounted(s)
               r == tx.row[f]
               v == u.row[f]
           IN  /\ v.path = r.path /\ v.sha = r.sha /\ v.photo = r.photo /\ v.cur = r.cur
               /\ u.rev = tx.rev
               /\ f \in Undecoded(s) => v.presence = "present" /\ v.health = "unreadable"
               /\ f \notin Undecoded(s) => v.health = r.health
               /\ f \in Gone(s) \ Undecoded(s) => v.presence = "missing"
               /\ f \notin Undecoded(s) \cup Gone(s) => v = r
               /\ Undecoded(s) \cup Gone(s) \subseteq Files(tx)
<1> DEFINE v == Accounted(s).row[f]
<1>1. /\ tx \in Catalogue /\ tx.row[f] \in Row
      /\ Fits(s, sc[s], db, tx, writer) /\ Files(db) \subseteq Files(tx)
  BY DEF IInv, TypeOK, ScannersFit, Catalogue
<1>2. /\ Accounted(s).rev = tx.rev
      /\ v = IF f \in Undecoded(s)
             THEN [tx.row[f] EXCEPT !.presence = "present", !.health = "unreadable"]
             ELSE IF f \in Gone(s) THEN [tx.row[f] EXCEPT !.presence = "missing"]
             ELSE tx.row[f]
  BY DEF Accounted
<1>3. Undecoded(s) \cup Gone(s) \subseteq Files(tx)
  BY <1>1 DEF Fits, Undecoded, Gone, Unmatched
<1> HIDE DEF v
<1> QED BY <1>1, <1>2, <1>3 DEF Row, v

\* What the transaction writes while it reconciles a path, stale rows or not.
LEMMA PathBlank ==
    ASSUME Observed, NEW s \in Scanners, NEW p \in Paths, PathStep(s, p)
    PROVE  Blank(tx')
<1>1. IInv /\ Blank(tx) /\ Sound(tx) /\ tx \in Catalogue
  BY Catalogues DEF Observed, Sound
<1>2. ASSUME NEW f \in FileIds,
             \/ KnownBackfill(s, p, f) \/ KnownUnchanged(s, p, f)
             \/ KnownHeld(s, p, f) \/ KnownModified(s, p, f)
      PROVE  Blank(tx')
  <2> DEFINE i == sc[s].snap.row[f].cur
             c == sc[s].inv[p]
             a == At(tx.row[f], p)
  <2>1. Known(s, p, f)
    BY <1>2 DEF KnownBackfill, KnownUnchanged, KnownHeld, KnownModified
  <2>2. f \in Files(tx) /\ i \in Nat /\ c \in Contents /\ Proper(a, tx.rev[f]) /\ a \in Row
    BY <1>1, <2>1, KnownFile DEF Proper
  <2> HIDE DEF i, c, a
  <2>3. \/ tx' = Complete(tx, f, i, c, a) \/ tx' = Refresh(tx, f, p)
        \/ tx' = tx \/ tx' = Supersede(tx, f, i, c, a)
    BY <1>2 DEF KnownBackfill, KnownUnchanged, KnownHeld, KnownModified, Write, i, c, a
  <2>4. CASE tx' = Complete(tx, f, i, c, a)
    BY <1>1, <2>2, <2>4, CompleteIs, CompleteGrows, BlankPut
  <2>5. CASE tx' = Refresh(tx, f, p)
    BY <1>1, <2>2, <2>5, RefreshIs, RefreshGrows, BlankPut
  <2>6. CASE tx' = tx
    BY <1>1, <2>6
  <2>7. CASE tx' = Supersede(tx, f, i, c, a)
    BY <1>1, <2>2, <2>7, SupersedeIs, SupersedeGrows, BlankPut
  <2> QED BY <2>3, <2>4, <2>5, <2>6, <2>7
<1>3. ASSUME Orphan(s, p) PROVE sc[s].inv[p] \in Contents
  <2>1. sc[s].pc = "reconcile" /\ p \in sc[s].todo /\ sc[s] \in ScanState
        /\ Fits(s, sc[s], db, tx, writer)
    BY <1>1, <1>3 DEF Orphan, IInv, TypeOK, ScannersFit
  <2> QED BY <2>1 DEF Fits, ScanState
<1>4. CASE OrphanRestored(s, p) \/ OrphanMoved(s, p)
  <2>1. Orphan(s, p) /\ \E f \in Candidates(s, p) : tx' = Relocate(tx, f, p, sc[s].inv[p])
    BY <1>4 DEF OrphanRestored, OrphanMoved, Restorable, Relocatable, Write
  <2>2. PICK f \in Candidates(s, p) : tx' = Relocate(tx, f, p, sc[s].inv[p])
    BY <2>1
  <2>3. f \in FileIds /\ f \in Files(tx)
    BY <1>1, <2>1, CandidateFile
  <2> QED BY <1>1, <1>3, <2>1, <2>2, <2>3, RelocateIs, RelocateGrows, BlankPut
<1>5. CASE OrphanAmbiguous(s, p) \/ OrphanCopied(s, p) \/ OrphanNew(s, p)
  <2>1. Orphan(s, p) /\ \E ph : Inserted(s, p, ph)
    BY <1>5 DEF OrphanAmbiguous, OrphanCopied, OrphanNew
  <2> DEFINE c == sc[s].inv[p]
  <2>2. c \in Contents
    BY <1>3, <2>1
  <2>3. PICK g \in FileIds : \E ph : tx' = Insert(tx, g, p, c, ph)
    BY <2>1 DEF Inserted, Write
  <2> HIDE DEF c
  <2>4. tx'.row[g].presence = "present" /\ Only(tx, tx', g)
    <3>1. PICK ph : tx' = Insert(tx, g, p, c, ph)
      BY <2>3
    <3>2. tx \in Catalogue
      BY <1>1
    <3> DEFINE u == Insert(tx, g, p, c, ph)
    <3>3. /\ u.row[g].sha = c /\ u.row[g].presence = "present" /\ u.row[g].path = p
          /\ u.row[g].health = "ok" /\ u.row[g].photo = ph /\ u.row[g].cur = 1
          /\ u.rev[g] = <<[sha |-> c, superseded |-> FALSE]>>
          /\ u.obs = tx.obs /\ Only(tx, u, g)
      BY <2>2, <3>2, InsertIs
    <3> HIDE DEF u
    <3> QED BY <3>1, <3>3 DEF u
  <2>5. g \in Files(tx')
    BY <2>4 DEF Files
  <2> QED BY <1>1, <2>4, <2>5, BlankPut
<1> QED BY <1>2, <1>4, <1>5 DEF PathStep

\* Whatever a scan does, the lock and the unborn ids stay as they should be.
LEMMA ScanBlank ==
    ASSUME Observed, NEW s \in Scanners, ScanStep(s)
    PROVE  TxFree' /\ Blank(db') /\ Blank(tx')
<1>1. /\ IInv /\ TxFree /\ Blank(db) /\ Blank(tx)
      /\ Fits(s, sc[s], db, tx, writer)
  BY DEF Observed, IInv, ScannersFit, TypeOK
<1>2. ASSUME UNCHANGED <<db, tx>>, writer' \in {writer, s}
      PROVE  TxFree' /\ Blank(db') /\ Blank(tx')
  BY <1>1, <1>2, ProcessAssumption DEF TxFree
<1>3. CASE ScanOffline(s) \/ ScanOpen(s) \/ ScanSelect(s) \/ ScanLock(s) \/ EndWalk(s)
  BY <1>2, <1>3 DEF ScanOffline, ScanOpen, ScanSelect, ScanLock, EndWalk
<1>4. CASE \E p \in Paths : \/ VisitBlind(s, p) \/ VisitAbsent(s, p)
                            \/ VisitUnreadable(s, p) \/ VisitDecoded(s, p)
  BY <1>2, <1>4 DEF VisitBlind, VisitAbsent, VisitUnreadable, VisitDecoded, Walked
<1>5. ASSUME NEW p \in Paths, PathStep(s, p) PROVE TxFree' /\ Blank(db') /\ Blank(tx')
  <2>1. (\E m, fr : Reconciled(s, p, m, fr)) /\ sc[s].pc = "reconcile"
    BY <1>5 DEF PathStep, KnownBackfill, KnownUnchanged, KnownHeld, KnownModified, Known,
                OrphanRestored, OrphanMoved, OrphanAmbiguous, OrphanCopied, OrphanNew,
                Orphan, Inserted
  <2>2. db' = db /\ writer' = writer /\ writer = s
    BY <1>1, <2>1 DEF Reconciled, Fits
  <2> QED BY <1>1, <1>5, <2>2, PathBlank, ProcessAssumption DEF TxFree
<1>6. CASE ScanCommit(s)
  <2>1. ReadyToCommit(s) /\ tx' = Accounted(s) /\ db' = Accounted(s)
    BY <1>6 DEF ScanCommit, WriteThrough
  <2>2. Files(tx) \subseteq Files(Accounted(s))
    BY <1>1, <2>1, AccountedGrows DEF Grows
  <2>3. ASSUME NEW f \in FileIds \ Files(Accounted(s))
        PROVE  Accounted(s).row[f] = UnbornRow /\ Accounted(s).rev[f] = <<>>
    <3>1. f \notin Files(tx)
      BY <2>2
    <3>2. Accounted(s).row[f] = tx.row[f] /\ Accounted(s).rev = tx.rev
      BY <1>1, <2>1, <3>1, AccountedIs DEF ReadyToCommit
    <3> QED BY <1>1, <3>1, <3>2 DEF Blank
  <2> QED BY <2>1, <2>3 DEF TxFree, Blank
<1>7. CASE ScanFail(s)
  BY <1>1, <1>7 DEF ScanFail, TxFree
<1> QED BY <1>3, <1>4, <1>5, <1>6, <1>7 DEF ScanStep, PathStep

-----------------------------------------------------------------------------
(* Verify.                                                                 *)

\* One more File judged, and nothing else touched.
LEMMA JudgedStep ==
    ASSUME Observed, NEW f \in FileIds, Verifying(f), NEW t, Verified(f, t),
           Only(tx, t, f), t.row[f].cur = tx.row[f].cur, t.row[f].path = tx.row[f].path,
           \A g \in FileIds \ {f} : t.obs[g] = tx.obs[g],
           online => Judged(db, t, disk, f)
    PROVE  Checked(vf', db', tx', disk', online')
<1>1. /\ vf \in VerifyState /\ vf.pc = "run" /\ f \in vf.todo
      /\ Checked(vf, db, tx, disk, online)
  BY DEF Verifying, Observed, IInv, TypeOK
<1>2. /\ vf' = [vf EXCEPT !.todo = @ \ {f}] /\ tx' = t
      /\ UNCHANGED <<disk, online, db>>
  BY DEF Verified
<1>3. /\ vf'.todo = vf.todo \ {f} /\ vf'.cut = vf.cut /\ vf'.touched = vf.touched
      /\ vf'.pc = "run"
  BY <1>1, <1>2 DEF VerifyState
<1>4. ASSUME NEW g \in FileIds \ {f}
      PROVE  /\ t.row[g] = tx.row[g] /\ t.rev[g] = tx.rev[g] /\ t.obs[g] = tx.obs[g]
             /\ Judged(db, t, disk, g) <=> Judged(db, tx, disk, g)
  BY DEF Only, Judged, Current
<1>5. \A g \in FileIds : t.row[g].cur = db.row[g].cur /\ t.row[g].path = db.row[g].path
  BY <1>1, <1>4 DEF Checked
<1>6. vf.todo \subseteq FileIds
  BY <1>1 DEF VerifyState
<1>7. \A g \in vf'.todo : t.row[g] = db.row[g] /\ t.rev[g] = db.rev[g] /\ t.obs[g] = db.obs[g]
  BY <1>1, <1>3, <1>4, <1>6 DEF Checked
<1>8. ASSUME ~vf.cut, online, NEW g \in PresentFiles(db) \ vf'.todo,
             db.row[g].path \notin vf.touched
      PROVE  Judged(db, t, disk, g)
  <2>1. CASE g = f
    BY <1>8, <2>1
  <2>2. CASE g # f
    <3>1. g \in FileIds \ {f} /\ g \notin vf.todo
      BY <1>3, <1>8, <2>2 DEF PresentFiles
    <3> QED BY <1>1, <1>4, <1>8, <3>1 DEF Checked
  <2> QED BY <2>1, <2>2
<1> QED BY <1>1, <1>2, <1>3, <1>5, <1>7, <1>8 DEF Checked

\* The revision a completion writes to has that content.
LEMMA FilledSha ==
    ASSUME NEW q \in Seq(Revision), NEW i \in 1 .. Len(q), NEW c \in Contents
    PROVE  Filled(q, i, c)[i].sha = c
<1> DEFINE w == [sha |-> c, superseded |-> q[i].superseded]
<1>1. q[i] \in Revision
  OBVIOUS
<1>2. w \in Revision /\ w.sha = c
  BY <1>1 DEF Revision
<1>3. Filled(q, i, c) = [q EXCEPT ![i] = w]
  BY DEF Filled
<1> HIDE DEF w
<1> QED BY <1>2, <1>3, RewrittenRevision

\* In transaction t the row and revisions of File x tell one story, which
\* extends the committed one by what Verify may make of it.
Certifies(t, x) ==
    /\ Tells(t.row[x], t.rev[x]) /\ Extends(db.rev[x], t.rev[x])
    /\ Archive!Verified(LedgerEntry(db, x), LedgerEntry(t, x))

\* The verdicts.
LEMMA VerdictsJudge ==
    ASSUME Observed, NEW f \in FileIds,
           \/ VerifyMissing(f) \/ VerifyUnreadable(f)
           \/ VerifyBackfill(f) \/ VerifyMatch(f) \/ VerifyMismatch(f)
    PROVE  /\ Checked(vf', db', tx', disk', online')
           /\ writer = Verifier
           /\ Only(tx, tx', f) /\ tx.row[f] = db.row[f] /\ tx.rev[f] = db.rev[f]
           /\ f \in Files(tx) /\ f \in Files(tx')
           /\ Told(tx) => Certifies(tx', f)
<1> DEFINE r == tx.row[f]
           b == disk[r.path]
<1>1. Verifying(f)
  BY DEF VerifyMissing, VerifyUnreadable, VerifyBackfill, VerifyMatch, VerifyMismatch
<1>2. /\ IInv /\ tx \in Catalogue /\ Checked(vf, db, tx, disk, online)
      /\ vf.pc = "run" /\ f \in vf.todo /\ writer = Verifier
  BY <1>1 DEF Verifying, Observed, IInv, TypeOK, VerifierFits
<1>3. /\ r = db.row[f] /\ tx.rev[f] = db.rev[f] /\ tx.obs[f] = db.obs[f]
      /\ r.presence = "present" /\ r \in Row /\ tx.rev[f] \in Seq(Revision)
  BY <1>2 DEF Checked, PresentFiles, Catalogue
<1>4. f \in Files(tx)
  BY <1>3 DEF Files
<1>5. Proper(r, tx.rev[f])
  BY <1>2, <1>4, RowProper, Catalogues
<1>6. Told(tx) => Tells(r, tx.rev[f])
  BY <1>4 DEF Told
<1>7. online => BytesAt(f) = b
  BY DEF BytesAt
<1>8. db.row[f].path = r.path
  BY <1>3
\* What is left to show once the row and its revisions are known.
<1>9. ASSUME NEW t, Verified(f, t), Only(tx, t, f), t.row[f].presence \in {"present", "missing"},
             t.row[f].cur = r.cur, t.row[f].path = r.path,
             \A g \in FileIds \ {f} : t.obs[g] = tx.obs[g],
             online => Judged(db, t, disk, f),
             Told(tx) => Certifies(t, f)
      PROVE  /\ Checked(vf', db', tx', disk', online')
             /\ Only(tx, tx', f) /\ f \in Files(tx')
             /\ Told(tx) => Certifies(tx', f)
  <2>1. tx' = t
    BY <1>9 DEF Verified
  <2>2. Checked(vf', db', tx', disk', online')
    BY <1>1, <1>9, JudgedStep
  <2>3. f \in Files(tx')
    BY <1>9, <2>1 DEF Files
  <2> QED BY <1>3, <1>9, <2>1, <2>2, <2>3
<1> SUFFICES /\ Checked(vf', db', tx', disk', online')
             /\ Only(tx, tx', f) /\ f \in Files(tx')
             /\ Told(tx) => Certifies(tx', f)
  BY <1>2, <1>3, <1>4
<1>10. ASSUME NEW h \in Healths, Verified(f, SetHealth(tx, f, h)),
              h # "hash_mismatch",
              online => Judged(db, SetHealth(tx, f, h), disk, f)
       PROVE  /\ Checked(vf', db', tx', disk', online')
              /\ Only(tx, tx', f) /\ f \in Files(tx')
              /\ Told(tx) => Certifies(tx', f)
  <2> DEFINE t == SetHealth(tx, f, h)
  <2>1. /\ t.row[f].presence = r.presence /\ t.row[f].path = r.path
        /\ t.row[f].sha = r.sha /\ t.row[f].cur = r.cur /\ t.row[f].health = h
        /\ t.rev = tx.rev /\ t.obs = tx.obs /\ Only(tx, t, f)
    BY <1>2, SetHealthIs
  <2> HIDE DEF t
  <2>2. ASSUME Told(tx) PROVE Certifies(t, f)
    <3>1. Tells(t.row[f], t.rev[f]) /\ Extends(db.rev[f], t.rev[f])
      BY <1>3, <1>6, <2>1, <2>2, ExtendsItself DEF Tells
    <3>2. Archive!Verified(LedgerEntry(db, f), LedgerEntry(t, f))
      BY <1>3, <1>10, <2>1, JudgedEntry
    <3> QED BY <3>1, <3>2 DEF Certifies
  <2> QED BY <1>3, <1>9, <1>10, <2>1, <2>2 DEF t
<1>11. CASE VerifyMissing(f)
  <2> DEFINE t == SetMissing(tx, f)
  <2>1. /\ t.row[f].presence = "missing" /\ t.row[f].path = r.path
        /\ t.row[f].health = r.health /\ t.row[f].sha = r.sha /\ t.row[f].cur = r.cur
        /\ t.rev = tx.rev /\ t.obs = tx.obs /\ Only(tx, t, f)
    BY <1>2, SetMissingIs
  <2>2. Verified(f, t) /\ BytesAt(f) = Absent
    BY <1>11 DEF VerifyMissing
  <2> HIDE DEF t
  <2>3. online => Judged(db, t, disk, f)
    BY <1>7, <1>8, <2>1, <2>2, ValuesAssumption DEF Judged
  <2>4. ASSUME Told(tx) PROVE Certifies(t, f)
    <3>1. Tells(t.row[f], t.rev[f]) /\ Extends(db.rev[f], t.rev[f])
      BY <1>3, <1>6, <2>1, <2>4, ExtendsItself DEF Tells
    <3>2. Archive!Gone(LedgerEntry(db, f), LedgerEntry(t, f))
      BY <1>3, <2>1, GoneEntry
    <3> QED BY <3>1, <3>2 DEF Certifies, Archive!Verified
  <2> QED BY <1>9, <2>1, <2>2, <2>3, <2>4
<1>12. CASE VerifyUnreadable(f)
  <2> DEFINE t == SetHealth(tx, f, "unreadable")
  <2>1. t.row[f].health = "unreadable" /\ t.row[f].presence = "present"
    BY <1>2, <1>3, SetHealthIs
  <2>2. Verified(f, t) /\ BytesAt(f) # Absent /\ (BytesAt(f) = Bad \/ ReadFaults)
    BY <1>12 DEF VerifyUnreadable
  <2> HIDE DEF t
  <2>3. online => Judged(db, t, disk, f)
    BY <1>7, <1>8, <2>1, <2>2, ValuesAssumption DEF Judged
  <2> QED BY <1>10, <2>2, <2>3 DEF t, Healths
<1>13. CASE VerifyMatch(f)
  <2> DEFINE t == SetHealth(tx, f, "ok")
  <2>1. /\ t.row[f].health = "ok" /\ t.row[f].presence = "present"
        /\ t.row[f].cur = r.cur /\ t.rev = tx.rev
    BY <1>2, <1>3, SetHealthIs
  <2>2. Verified(f, t) /\ BytesAt(f) \in Contents /\ Current(tx, f).sha = BytesAt(f)
    BY <1>13 DEF VerifyMatch
  <2> HIDE DEF t
  <2>3. Current(t, f) = Current(tx, f)
    BY <2>1 DEF Current
  <2>4. online => Judged(db, t, disk, f)
    BY <1>7, <1>8, <2>1, <2>2, <2>3, ValuesAssumption DEF Judged
  <2> QED BY <1>10, <2>2, <2>4 DEF t, Healths
<1>14. CASE VerifyMismatch(f)
  <2> DEFINE h == SetHealth(tx, f, "hash_mismatch")
             t == Observe(h, f)
  <2>1. /\ h.row[f].health = "hash_mismatch" /\ h.row[f].presence = "present"
        /\ h.row[f].path = r.path /\ h.row[f].sha = r.sha
        /\ h.row[f].cur = r.cur /\ h.rev = tx.rev /\ h.obs = tx.obs /\ Only(tx, h, f)
    BY <1>2, <1>3, SetHealthIs
  <2>2. /\ Verified(f, t) /\ BytesAt(f) \in Contents
        /\ Current(tx, f).sha \notin {None, BytesAt(f)}
    BY <1>14 DEF VerifyMismatch
  <2> HIDE DEF h
  <2>3. /\ t.row = h.row /\ t.rev = h.rev
        /\ t.obs = [tx.obs EXCEPT ![f] = tx.obs[f] + 1]
    BY <2>1 DEF Observe
  <2> HIDE DEF t
  <2>4. tx.obs \in [FileIds -> Nat]
    BY <1>2 DEF Catalogue
  <2>5. t.obs[f] > db.obs[f] /\ \A g \in FileIds \ {f} : t.obs[g] = tx.obs[g]
    BY <1>3, <2>3, <2>4
  <2>6. Current(t, f) = Current(tx, f)
    BY <2>1, <2>3 DEF Current
  <2>7. online => Judged(db, t, disk, f)
    BY <1>7, <1>8, <2>1, <2>2, <2>3, <2>5, <2>6, ValuesAssumption DEF Judged
  <2>8. Only(tx, t, f)
    BY <2>1, <2>3 DEF Only
  <2>9. ASSUME Told(tx) PROVE Certifies(t, f)
    <3>1. /\ t.rev[f] = db.rev[f] /\ t.row[f].cur = db.row[f].cur
          /\ t.row[f].sha = db.row[f].sha /\ t.row[f].presence = "present"
          /\ t.row[f].health = "hash_mismatch" /\ db.row[f].presence = "present"
          /\ db.rev[f] \in Seq(Revision)
      BY <1>3, <2>1, <2>3
    <3>2. Tells(db.row[f], db.rev[f]) /\ db.row[f].sha # None
      BY <1>3, <1>6, <2>2, <2>9 DEF Tells, Current
    <3>3. Tells(t.row[f], t.rev[f]) /\ Extends(db.rev[f], t.rev[f])
      BY <3>1, <3>2, ExtendsItself DEF Tells
    <3>4. Archive!Verified(LedgerEntry(db, f), LedgerEntry(t, f))
      BY <3>1, <3>2, JudgedEntry DEF Healths
    <3> QED BY <3>3, <3>4 DEF Certifies
  <2> QED BY <1>9, <2>1, <2>2, <2>3, <2>5, <2>7, <2>8, <2>9
<1>15. CASE VerifyBackfill(f)
  <2> DEFINE n == [r EXCEPT !.health = "ok"]
             c == BytesAt(f)
             t == Complete(tx, f, r.cur, c, n)
  <2>1. Verified(f, t) /\ c \in Contents /\ Current(tx, f).sha = None
    BY <1>15 DEF VerifyBackfill
  <2>2. /\ n \in Row /\ n.presence = "present" /\ n.path = r.path /\ n.health = "ok"
        /\ n.cur = r.cur
    BY <1>3 DEF Row, Healths
  <2> HIDE DEF n, c
  <2>3. /\ t.row[f].sha = c /\ t.row[f].presence = "present" /\ t.row[f].path = r.path
        /\ t.row[f].health = "ok" /\ t.row[f].cur = r.cur
        /\ t.rev[f] = Filled(tx.rev[f], r.cur, c) /\ t.obs = tx.obs /\ Only(tx, t, f)
    BY <1>2, <2>1, <2>2, CompleteIs
  <2> HIDE DEF t
  <2>4. Current(t, f).sha = c
    <3>1. r.cur \in 1 .. Len(tx.rev[f])
      BY <1>5 DEF Proper
    <3>2. Filled(tx.rev[f], r.cur, c)[r.cur].sha = c
      BY <1>3, <2>1, <3>1, FilledSha
    <3> QED BY <2>3, <3>2 DEF Current
  <2>5. online => Judged(db, t, disk, f)
    BY <1>7, <1>8, <2>1, <2>3, <2>4, ValuesAssumption DEF Judged, c
  <2>6. ASSUME Told(tx) PROVE Certifies(t, f)
    <3>1. Tells(t.row[f], t.rev[f]) /\ Extends(db.rev[f], t.rev[f])
      BY <1>3, <1>6, <2>1, <2>3, <2>6, FilledTells DEF Current
    <3>2. Tells(db.row[f], db.rev[f]) /\ db.row[f].sha = None
      BY <1>3, <1>6, <2>1, <2>6 DEF Tells, Current
    <3>3. /\ db.rev[f] \in Seq(Revision) /\ db.row[f].presence = "present"
          /\ t.rev[f] = Filled(db.rev[f], db.row[f].cur, c)
          /\ t.row[f].cur = db.row[f].cur /\ t.row[f].presence = "present"
      BY <1>3, <2>3
    <3>4. Archive!Completed(LedgerEntry(db, f), LedgerEntry(t, f), t.row[f].health)
      BY <2>1, <3>2, <3>3, CompletedEntry
    <3> QED BY <2>3, <3>1, <3>4 DEF Certifies, Archive!Verified
  <2> QED BY <1>9, <2>1, <2>3, <2>5, <2>6
<1> QED BY <1>11, <1>12, <1>13, <1>14, <1>15

\* Verify from its first statement to its commit.
LEMMA VerifyObserved ==
    ASSUME Observed, VerifyStep
    PROVE  /\ TxFree' /\ Blank(db') /\ Blank(tx')
           /\ Checked(vf', db', tx', disk', online')
           /\ \A x \in Scanners : Scanned(sc'[x], db', tx', disk')
<1>1. /\ IInv /\ TxFree /\ Blank(db) /\ Blank(tx) /\ Checked(vf, db, tx, disk, online)
      /\ vf.pc = "run" => writer = Verifier
  BY DEF Observed, IInv, VerifierFits
<1>2. ASSUME UNCHANGED <<sc, disk>>, writer \in {None, Verifier},
             NEW x \in Scanners
      PROVE  Scanned(sc'[x], db', tx', disk')
  BY <1>2, Undisturbed, ProcessAssumption
<1>3. CASE VerifyBegin
  <2>1. /\ vf' = [VIdle EXCEPT !.pc = "run",
                               !.todo = {f \in PresentFiles(db) : online \/ ~db.row[f].lib}]
        /\ writer = None /\ writer' = Verifier
        /\ UNCHANGED <<disk, online, db, tx, sc>>
    BY <1>3 DEF VerifyBegin, MayStart
  <2>2. /\ vf'.todo = {f \in PresentFiles(db) : online \/ ~db.row[f].lib} /\ vf'.pc = "run"
        /\ vf'.cut = FALSE
    BY <2>1 DEF VIdle
  <2>3. tx = db
    BY <1>1, <2>1 DEF TxFree
  <2>4. Checked(vf', db, db, disk, online)
    BY <2>2 DEF Checked
  <2> QED BY <1>1, <1>2, <2>1, <2>3, <2>4, ProcessAssumption DEF TxFree, Verifier, Reviewer
<1>4. ASSUME NEW f \in FileIds,
             \/ VerifyMissing(f) \/ VerifyUnreadable(f)
             \/ VerifyBackfill(f) \/ VerifyMatch(f) \/ VerifyMismatch(f)
      PROVE  /\ TxFree' /\ Blank(db') /\ Blank(tx')
             /\ Checked(vf', db', tx', disk', online')
             /\ \A x \in Scanners : Scanned(sc'[x], db', tx', disk')
  <2>1. UNCHANGED <<disk, online, db, sc, writer>>
    BY <1>4 DEF VerifyMissing, VerifyUnreadable, VerifyBackfill, VerifyMatch,
                VerifyMismatch, Verified
  <2>2. /\ Checked(vf', db', tx', disk', online') /\ writer = Verifier
        /\ Only(tx, tx', f) /\ f \in Files(tx')
    BY <1>4, VerdictsJudge
  <2>3. Blank(tx')
    BY <1>1, <2>2, BlankPut
  <2> QED BY <1>1, <1>2, <2>1, <2>2, <2>3, ProcessAssumption DEF TxFree, Verifier, Reviewer
<1>5. CASE VerifyCommit
  <2>1. /\ vf' = VIdle /\ writer = Verifier /\ db' = tx /\ tx' = tx
        /\ UNCHANGED <<disk, sc>>
    BY <1>1, <1>5 DEF VerifyCommit
  <2>2. vf'.pc # "run"
    BY <2>1 DEF VIdle
  <2> QED BY <1>1, <1>2, <2>1, <2>2 DEF TxFree, Checked
<1>6. CASE VerifyFail
  <2>1. /\ vf' = VIdle /\ writer = Verifier /\ db' = db /\ tx' = db
        /\ UNCHANGED <<disk, sc>>
    BY <1>1, <1>6 DEF VerifyFail
  <2>2. vf'.pc # "run"
    BY <2>1 DEF VIdle
  <2> QED BY <1>1, <1>2, <2>1, <2>2 DEF TxFree, Checked
<1> QED BY <1>3, <1>4, <1>5, <1>6 DEF VerifyStep

\* What adoption writes, in one committed step.
LEMMA AdoptWrites ==
    ASSUME IInv, ExecuteAdopt
    PROVE  LET f == plan.file
           IN  /\ f \in FileIds /\ f \in Files(db) /\ f \in Files(db')
               /\ plan # None /\ plan.action = "adopt" /\ plan.evidence.bytes \in Contents
               /\ Proved(plan, db, disk) /\ decided' > decided
               /\ writer = Reviewer /\ writer' = None
               /\ tx' = db' /\ Only(db, db', f)
               /\ db'.row[f].sha = plan.evidence.bytes
               /\ db'.row[f].cur = Len(db.rev[f]) + 1
               /\ db'.row[f].presence = "present" /\ db'.row[f].health = "ok"
               /\ db'.rev[f] = Renewed(db.rev[f], db.row[f].cur, plan.evidence.bytes)
               /\ UNCHANGED <<disk, online, sc, vf, plan>>
<1> DEFINE f == plan.file
           a == At(db.row[f], db.row[f].path)
           c == plan.evidence.bytes
           i == db.row[f].cur
<1>1. /\ plan # None /\ plan.action = "adopt" /\ writer = Reviewer /\ writer' = None
      /\ Proved(plan, db, disk) /\ decided' > decided
      /\ f \in FileIds /\ f \in Files(db) /\ c \in Contents
      /\ db' = Supersede(db, f, i, c, a) /\ tx' = db'
  BY AdoptionSupersedes
<1>2. db \in Catalogue /\ f \in FileIds /\ c \in Contents
  BY <1>1 DEF IInv, TypeOK
<1>3. f \in Files(db) /\ UNCHANGED <<disk, online, sc, vf, plan>>
  BY <1>1 DEF ExecuteAdopt, Decide
<1>4. Proper(db.row[f], db.rev[f]) /\ db.row[f].path \in Paths
  BY <1>3, RowProper, Catalogues DEF Proper
<1>5. db.row[f] \in Row /\ i \in Nat
  BY <1>4 DEF Proper
<1>6. a \in Row /\ a.presence = "present"
  BY <1>4, <1>5, AtIs
<1> HIDE DEF f, a, c, i
<1>7. /\ db'.row[f].sha = c /\ db'.row[f].presence = "present"
      /\ db'.row[f].cur = Len(db.rev[f]) + 1 /\ db'.row[f].health = "ok"
      /\ db'.rev[f] = Renewed(db.rev[f], i, c) /\ Only(db, db', f)
  BY <1>1, <1>2, <1>6, SupersedeIs
<1>8. f \in Files(db')
  BY <1>2, <1>7 DEF Files
<1> QED BY <1>1, <1>2, <1>3, <1>7, <1>8 DEF f, c, i

\* Review.
LEMMA ReviewObserved ==
    ASSUME Observed, ReviewStep
    PROVE  /\ TxFree' /\ Blank(db') /\ Blank(tx')
           /\ Checked(vf', db', tx', disk', online')
           /\ \A x \in Scanners : Scanned(sc'[x], db', tx', disk')
<1>1. /\ IInv /\ TxFree /\ Blank(db) /\ Blank(tx) /\ Checked(vf, db, tx, disk, online)
      /\ vf.pc = "run" => writer = Verifier
  BY DEF Observed, IInv, VerifierFits
<1>2. CASE /\ UNCHANGED <<disk, online, db, tx, sc, vf>>
           /\ \/ writer' = writer
              \/ writer = None /\ writer' = Reviewer
              \/ writer = Reviewer /\ writer' = None
  BY <1>1, <1>2, Undisturbed DEF TxFree
<1>3. CASE ExecuteAdopt
  <2>1. /\ writer = Reviewer /\ writer' = None /\ tx' = db' /\ Only(db, db', plan.file)
        /\ plan.file \in Files(db') /\ UNCHANGED <<disk, online, sc, vf>>
    BY <1>1, <1>3, AdoptWrites
  <2>2. Blank(db')
    BY <1>1, <2>1, BlankPut
  <2>3. vf'.pc # "run"
    BY <1>1, <2>1 DEF Verifier, Reviewer
  <2>4. ASSUME NEW x \in Scanners PROVE Scanned(sc'[x], db', tx', disk')
    BY <2>1, Undisturbed, ProcessAssumption
  <2> QED BY <2>1, <2>2, <2>3, <2>4 DEF TxFree, Checked
<1>4. CASE ReviewStep /\ ~ExecuteAdopt
  BY <1>2, <1>4 DEF ReviewStep, PlanResolution, ExecuteBegin, MayExecute, Free,
                    ExecuteRecord, Decide, ExecuteFail
<1> QED BY <1>3, <1>4

\* A change outside is history to whoever is running.
LEMMA WorldObserved ==
    ASSUME Observed, WorldStep
    PROVE  /\ TxFree' /\ Blank(db') /\ Blank(tx')
           /\ Checked(vf', db', tx', disk', online')
           /\ \A x \in Scanners : Scanned(sc'[x], db', tx', disk')
<1>1. /\ IInv /\ TxFree /\ Blank(db) /\ Blank(tx) /\ Checked(vf, db, tx, disk, online)
      /\ sc \in [Scanners -> ScanState] /\ vf \in VerifyState /\ Located(db)
      /\ \A x \in Scanners : Scanned(sc[x], db, tx, disk)
      /\ disk \in [Paths -> Bytes \cup {Absent}]
  BY DEF Observed, IInv, TypeOK
<1>2. ASSUME NEW S \in SUBSET Paths, Disturb(S), \A q \in Paths \ S : disk'[q] = disk[q]
      PROVE  /\ TxFree' /\ Blank(db') /\ Blank(tx')
             /\ Checked(vf', db', tx', disk', online')
             /\ \A x \in Scanners : Scanned(sc'[x], db', tx', disk')
  <2>1. /\ sc' = [s \in Scanners |-> Touched(sc[s], S)] /\ vf' = Touched(vf, S)
        /\ UNCHANGED <<online, db, tx, writer>>
    BY <1>2 DEF Disturb
  <2>2. ASSUME NEW x \in Scanners PROVE Scanned(sc'[x], db', tx', disk')
    <3> DEFINE st == sc[x]
               n  == sc'[x]
    <3>1. /\ n.pc = st.pc /\ n.snap = st.snap /\ n.inv = st.inv /\ n.seen = st.seen
          /\ n.errors = st.errors /\ n.todo = st.todo /\ n.matched = st.matched
          /\ n.fresh = st.fresh
          /\ st.pc # "idle" => n.touched = st.touched \cup S
      BY <1>1, <2>1 DEF Touched, ScanState
    <3>2. st.seen \subseteq Paths
      BY <1>1 DEF ScanState
    <3> HIDE DEF st, n
    <3>3. Scanned(st, db, tx, disk)
      BY <1>1 DEF st
    <3>4. Decoded(n) = Decoded(st)
      BY <3>1 DEF Decoded
    <3>5. ASSUME st.pc \in {"walk", "reconcile"} PROVE Honest(n, disk')
      <4>1. Honest(st, disk) /\ n.touched = st.touched \cup S
        BY <3>1, <3>3, <3>5 DEF Scanned
      <4>2. \A q \in Paths \ n.touched : disk'[q] = disk[q] /\ q \notin st.touched
        BY <1>2, <4>1
      <4>3. Decoded(st) \subseteq Paths
        BY DEF Decoded
      <4> QED BY <3>1, <3>2, <3>4, <4>1, <4>2, <4>3 DEF Honest
    <3>6. Faithful(n, db, tx) <=> Faithful(st, db, tx)
      BY <3>1, <3>4 DEF Faithful, Settled, Placed, Rivals, Joined
    <3>7. Scanned(n, db, tx, disk')
      BY <3>1, <3>3, <3>4, <3>5, <3>6 DEF Scanned
    <3> QED BY <2>1, <3>7 DEF n
  <2>3. Checked(vf', db', tx', disk', online')
    <3>1. /\ vf'.pc = vf.pc /\ vf'.todo = vf.todo /\ vf'.cut = vf.cut
          /\ vf.pc # "idle" => vf'.touched = vf.touched \cup S
      BY <1>1, <2>1 DEF Touched, VerifyState
    <3>2. ASSUME NEW f \in PresentFiles(db), db.row[f].path \notin S
          PROVE  Judged(db, tx, disk', f) <=> Judged(db, tx, disk, f)
      <4>1. db.row[f].path \in Paths
        BY <1>1 DEF Located, PresentFiles, Files
      <4>2. disk'[db.row[f].path] = disk[db.row[f].path]
        BY <1>2, <3>2, <4>1
      <4> QED BY <4>2 DEF Judged
    <3> QED BY <1>1, <2>1, <3>1, <3>2 DEF Checked
  <2> QED BY <1>1, <2>1, <2>2, <2>3 DEF TxFree
<1>3. ASSUME NEW p \in Paths, NEW b \in Bytes \cup {Absent}, WriteDisk(p, b)
      PROVE  \A q \in Paths \ {p} : disk'[q] = disk[q]
  BY <1>1, <1>3 DEF WriteDisk
<1>4. ASSUME NEW p \in Paths, NEW q \in Paths, RenameDisk(p, q)
      PROVE  \A x \in Paths \ {p, q} : disk'[x] = disk[x]
  BY <1>1, <1>4 DEF RenameDisk
<1>5. CASE Plug
  <2>1. /\ vf' = IF vf.pc = "idle" THEN vf ELSE [vf EXCEPT !.cut = TRUE]
        /\ UNCHANGED <<disk, db, tx, writer, sc>>
    BY <1>5 DEF Plug
  <2>2. /\ vf'.pc = vf.pc /\ vf'.todo = vf.todo
        /\ vf.pc = "run" => vf'.cut
    BY <1>1, <2>1 DEF VerifyState
  <2>3. Checked(vf', db', tx', disk', online')
    BY <1>1, <2>1, <2>2 DEF Checked
  <2> QED BY <1>1, <2>1, <2>3 DEF TxFree
<1>6. CASE \E p \in Paths, b \in Bytes \cup {Absent} : WriteDisk(p, b)
  <2>1. PICK p \in Paths : \E b \in Bytes \cup {Absent} : WriteDisk(p, b)
    BY <1>6
  <2>2. Disturb({p}) /\ \A q \in Paths \ {p} : disk'[q] = disk[q]
    BY <1>3, <2>1 DEF WriteDisk
  <2> QED BY <1>2, <2>2
<1>7. CASE \E p, q \in Paths : RenameDisk(p, q)
  <2>1. PICK p \in Paths, q \in Paths : RenameDisk(p, q)
    BY <1>7
  <2>2. Disturb({p, q}) /\ \A x \in Paths \ {p, q} : disk'[x] = disk[x]
    BY <1>4, <2>1 DEF RenameDisk
  <2> QED BY <1>2, <2>2
<1> QED BY <1>5, <1>6, <1>7 DEF WorldStep

\* Every step keeps what has been observed.
LEMMA NextObserved == Observed /\ [Next]_vars => Observed'
<1> SUFFICES ASSUME Observed, [Next]_vars PROVE Observed'
  OBVIOUS
<1>1. IInv'
  BY NextIInv DEF Observed
<1>2. SUFFICES /\ TxFree' /\ Blank(db') /\ Blank(tx')
               /\ Checked(vf', db', tx', disk', online')
               /\ \A x \in Scanners : Scanned(sc'[x], db', tx', disk')
  BY <1>1 DEF Observed, Scanned, Checked, Blank
<1>3. CASE WorldStep
  BY <1>3, WorldObserved
<1>4. ASSUME NEW s \in Scanners, ScanStep(s)
      PROVE  /\ TxFree' /\ Blank(db') /\ Blank(tx')
             /\ Checked(vf', db', tx', disk', online')
             /\ \A x \in Scanners : Scanned(sc'[x], db', tx', disk')
  <2>1. /\ \A x \in Scanners \ {s} : sc'[x] = sc[x]
        /\ UNCHANGED <<disk, online, vf>>
        /\ writer # s => UNCHANGED <<db, tx>>
    BY <1>4, ScanFrame DEF Observed
  <2>2. ASSUME NEW x \in Scanners PROVE Scanned(sc'[x], db', tx', disk')
    <3>1. CASE x = s
      BY <1>4, <3>1, ScanObserved
    <3>2. CASE x # s
      BY <2>1, <3>2, Undisturbed
    <3> QED BY <3>1, <3>2
  <2>3. Checked(vf', db', tx', disk', online')
    <3>1. vf.pc = "run" => writer # s
      BY ProcessAssumption DEF Observed, IInv, VerifierFits
    <3> QED BY <2>1, <3>1 DEF Observed, Checked
  <2> QED BY <1>4, <2>2, <2>3, ScanBlank
<1>5. CASE VerifyStep
  BY <1>5, VerifyObserved
<1>6. CASE ReviewStep
  BY <1>6, ReviewObserved
<1>7. CASE UNCHANGED vars
  BY <1>7 DEF vars, Observed, TxFree
<1> QED BY <1>3, <1>4, <1>5, <1>6, <1>7 DEF Next

LEMMA InitObserved == Init => Observed
<1> SUFFICES ASSUME Init PROVE Observed
  OBVIOUS
<1>1. IInv /\ tx = db /\ db = LegacyCatalogue /\ vf = VIdle /\ sc = [s \in Scanners |-> Idle]
  BY InitIInv DEF Init
<1>2. Blank(LegacyCatalogue)
  <2> SUFFICES ASSUME NEW f \in FileIds, f \notin Files(LegacyCatalogue)
               PROVE  /\ LegacyCatalogue.row[f] = UnbornRow
                      /\ LegacyCatalogue.rev[f] = <<>>
    BY DEF Blank
  <2>1. Legacy[f] = None
    BY DEF LegacyCatalogue, Files
  <2> QED BY <2>1 DEF LegacyCatalogue
<1>3. \A s \in Scanners : Scanned(sc[s], db, tx, disk)
  BY <1>1 DEF Scanned, Idle
<1>4. Checked(vf, db, tx, disk, online)
  BY <1>1 DEF Checked, VIdle
<1> QED BY <1>1, <1>2, <1>3, <1>4 DEF Observed, TxFree

\* What scans and Verify have observed is an invariant, gated or not.
THEOREM AlwaysObserved == Spec => []Observed
<1> QED BY InitObserved, NextObserved, PTL DEF Spec

-----------------------------------------------------------------------------
(* What a commit shows.                                                    *)

\* A scan that commits against the rows it SELECTed.
CommitsOnOwnRows(s) == ScanCommit(s) /\ sc[s].snap = db

LEMMA Committed ==
    ASSUME Observed, NEW s \in Scanners, CommitsOnOwnRows(s)
    PROVE  /\ Faithful(sc[s], db, tx) /\ Honest(sc[s], disk)
           /\ sc[s].pc = "reconcile" /\ sc[s].todo = {} /\ Decoded(sc[s]) = OnDisk(s)
           /\ sc[s].seen \subseteq Paths /\ sc[s].matched \subseteq FileIds
           /\ sc[s] \in ScanState
           /\ \A f \in FileIds :
                /\ db'.row[f].path = tx.row[f].path /\ db'.row[f].sha = tx.row[f].sha
                /\ db'.row[f].photo = tx.row[f].photo /\ db'.row[f].cur = tx.row[f].cur
                /\ db'.rev[f] = tx.rev[f]
                /\ f \in sc[s].matched => db'.row[f] = tx.row[f]
                /\ f \in Undecoded(s) => db'.row[f].presence = "present"
                                         /\ db'.row[f].health = "unreadable"
                /\ f \in Gone(s) \ Undecoded(s) => db'.row[f].presence = "missing"
                /\ f \notin Undecoded(s) => db'.row[f].health = tx.row[f].health
                /\ f \notin Undecoded(s) \cup Gone(s) => db'.row[f] = tx.row[f]
<1>1. /\ ScanCommit(s) /\ sc[s].pc = "reconcile" /\ sc[s].todo = {} /\ sc[s].snap = db
      /\ db' = Accounted(s)
  BY DEF CommitsOnOwnRows, ScanCommit, ReadyToCommit, WriteThrough
<1>2. IInv /\ Scanned(sc[s], db, tx, disk) /\ sc[s] \in ScanState
  BY DEF Observed, IInv, TypeOK
<1>3. Faithful(sc[s], db, tx) /\ Honest(sc[s], disk)
  BY <1>1, <1>2 DEF Scanned
<1>4. Undecoded(s) \cup Gone(s) \subseteq Unmatched(s) /\ Unmatched(s) \cap sc[s].matched = {}
  BY DEF Undecoded, Gone, Unmatched
<1>5. Decoded(sc[s]) = OnDisk(s)
  BY DEF Decoded, OnDisk
<1>6. sc[s].seen \subseteq Paths /\ sc[s].matched \subseteq FileIds
  BY <1>2 DEF ScanState
<1> QED BY <1>1, <1>2, <1>3, <1>4, <1>5, <1>6, AccountedIs

\* It leaves the catalogue in agreement with every path nobody touched.
LEMMA CommitReflects ==
    ASSUME Observed, NEW s \in Scanners, CommitsOnOwnRows(s),
           NEW p \in Paths, p \notin sc[s].touched
    PROVE  LET here == {f \in PresentFiles(db') : db'.row[f].path = p}
           IN  /\ sc[s].inv[p] # None =>
                    \E f \in here : \/ db'.row[f].sha = disk[p]
                                    \/ db'.row[f].health = "hash_mismatch"
                                    \/ Stamp[db'.row[f].sha] = Stamp[disk[p]]
               /\ disk[p] = Bad /\ p \in sc[s].seen =>
                    \A f \in here : db'.row[f].health # "ok"
               /\ disk[p] = Absent /\ ~sc[s].errors => here = {}
<1> DEFINE st == sc[s]
           here == {f \in PresentFiles(db') : db'.row[f].path = p}
<1>1. /\ Faithful(st, db, tx) /\ Honest(st, disk) /\ st.pc = "reconcile" /\ st.todo = {}
      /\ Decoded(st) = OnDisk(s) /\ st.matched \subseteq FileIds
  BY Committed
<1>2. st.snap = db
  BY DEF CommitsOnOwnRows
<1>3. \A f \in FileIds :
        /\ db'.row[f].path = tx.row[f].path /\ db'.row[f].sha = tx.row[f].sha
        /\ f \in st.matched => db'.row[f] = tx.row[f]
        /\ f \in Undecoded(s) => db'.row[f].presence = "present"
                                 /\ db'.row[f].health = "unreadable"
        /\ f \in Gone(s) \ Undecoded(s) => db'.row[f].presence = "missing"
        /\ f \notin Undecoded(s) \cup Gone(s) => db'.row[f] = tx.row[f]
  BY Committed
<1> HIDE DEF here
<1>4. \A f \in here : f \in FileIds /\ db'.row[f].presence = "present" /\ db'.row[f].path = p
  BY DEF here, PresentFiles
<1>5. ASSUME st.inv[p] # None
      PROVE  \E f \in here : \/ db'.row[f].health = "hash_mismatch"
                             \/ Stamp[db'.row[f].sha] = Stamp[disk[p]]
  <2>1. p \in Decoded(st) /\ Stamp[st.inv[p]] = Stamp[disk[p]]
    BY <1>1, <1>5 DEF Decoded, Honest
  <2>2. PICK f \in st.matched : /\ tx.row[f].path = p
                                /\ \/ tx.row[f].sha = st.inv[p]
                                   \/ tx.row[f].health = "hash_mismatch"
    BY <1>1, <2>1 DEF Faithful, Placed
  <2>3. f \in FileIds /\ db'.row[f] = tx.row[f] /\ tx.row[f].presence = "present"
    BY <1>1, <1>3, <2>2 DEF Faithful, Settled
  <2>4. f \in here
    BY <2>2, <2>3 DEF here, PresentFiles
  <2> QED BY <2>1, <2>2, <2>3, <2>4
\* Otherwise no File that was matched is here, and the rows of the others are
\* the ones the scan SELECTed.
<1>6. ASSUME st.inv[p] = None, NEW f \in here
      PROVE  /\ f \in FileIds \ st.matched /\ tx.row[f] = db.row[f] /\ db.row[f].path = p
             /\ f \in Unmatched(s) \/ f \notin Files(db)
  <2>1. f \in FileIds /\ tx.row[f].path = p /\ p \notin Decoded(st)
    BY <1>3, <1>4, <1>6 DEF Decoded
  <2>2. f \notin st.matched
    BY <1>1, <2>1 DEF Faithful, Settled
  <2>3. tx.row[f] = db.row[f]
    BY <1>1, <2>1, <2>2 DEF Faithful
  <2> QED BY <1>1, <1>2, <2>1, <2>2, <2>3 DEF Unmatched
<1>7. ASSUME disk[p] = Bad, p \in st.seen, NEW f \in here
      PROVE  db'.row[f].health # "ok"
  <2>1. st.inv[p] = None
    BY <1>1, <1>7, ValuesAssumption DEF Honest, Decoded
  <2>2. f \in FileIds /\ tx.row[f] = db.row[f] /\ db.row[f].path = p
        /\ (f \in Unmatched(s) \/ f \notin Files(db))
    BY <1>6, <1>7, <2>1
  <2>3. CASE f \in Undecoded(s)
    BY <1>3, <2>2, <2>3
  <2>4. CASE f \notin Undecoded(s)
    <3>1. f \notin Gone(s)
      BY <1>2, <1>7, <2>2 DEF Gone
    <3>2. db'.row[f] = db.row[f]
      BY <1>3, <2>2, <2>4, <3>1
    <3>3. f \in Files(db)
      BY <1>4, <1>7, <2>2, <3>2 DEF Files
    <3>4. db.row[f].health = "unreadable"
      BY <1>2, <1>7, <2>2, <2>4, <3>3 DEF Undecoded
    <3> QED BY <3>2, <3>4
  <2> QED BY <2>3, <2>4
<1>8. ASSUME disk[p] = Absent, ~st.errors, NEW f \in here PROVE FALSE
  <2>1. p \notin st.seen /\ st.inv[p] = None
    BY <1>1, <1>8, ValuesAssumption DEF Honest, Decoded
  <2>2. f \in FileIds /\ tx.row[f] = db.row[f] /\ db.row[f].path = p
        /\ (f \in Unmatched(s) \/ f \notin Files(db))
    BY <1>6, <1>8, <2>1
  <2>3. f \notin Undecoded(s)
    BY <1>2, <2>1, <2>2 DEF Undecoded
  <2>4. f \notin Gone(s)
    BY <1>3, <1>4, <1>8, <2>2, <2>3
  <2>5. db'.row[f] = db.row[f]
    BY <1>3, <2>2, <2>3, <2>4
  <2>6. f \in Files(db) /\ db.row[f].presence = "present"
    BY <1>4, <1>8, <2>2, <2>5 DEF Files
  <2>7. f \in Gone(s)
    BY <1>2, <1>8, <2>1, <2>2, <2>6 DEF Gone
  <2> QED BY <2>4, <2>7
<1> QED BY <1>5, <1>7, <1>8 DEF here

\* It marks a File missing only if its path had no file.
LEMMA CommitMissing ==
    ASSUME Observed, NEW s \in Scanners, CommitsOnOwnRows(s),
           NEW f \in PresentFiles(db), db'.row[f].presence = "missing"
    PROVE  disk[db.row[f].path] = Absent \/ db.row[f].path \in sc[s].touched
<1> DEFINE st == sc[s]
<1>1. /\ Faithful(st, db, tx) /\ Honest(st, disk) /\ st.pc = "reconcile"
      /\ f \in st.matched => db'.row[f] = tx.row[f]
      /\ f \notin Undecoded(s) \cup Gone(s) => db'.row[f] = tx.row[f]
      /\ f \in Undecoded(s) => db'.row[f].presence = "present"
      /\ f \in FileIds /\ db.row[f].presence = "present" /\ st.snap = db
  BY Committed DEF PresentFiles, CommitsOnOwnRows
<1>2. f \notin st.matched
  BY <1>1 DEF Faithful, Settled
<1>3. tx.row[f] = db.row[f]
  BY <1>1, <1>2 DEF Faithful
<1>4. f \in Gone(s)
  BY <1>1, <1>3
<1>5. db.row[f].path \notin st.seen /\ ~st.errors
  BY <1>1, <1>4 DEF Gone
<1>6. db.row[f].path \in Paths
  BY <1>1 DEF Observed, IInv, TypeOK, Located, Files
<1> QED BY <1>1, <1>5, <1>6 DEF Honest

\* It leaves every File in place whose path it could decode.
LEMMA CommitStays ==
    ASSUME Observed, NEW s \in Scanners, CommitsOnOwnRows(s),
           NEW f \in PresentFiles(db), sc[s].inv[db.row[f].path] # None
    PROVE  db'.row[f].presence = "present" /\ db'.row[f].path = db.row[f].path
<1> DEFINE st == sc[s]
<1>1. /\ Faithful(st, db, tx) /\ Honest(st, disk) /\ st.todo = {}
      /\ db'.row[f].path = tx.row[f].path
      /\ f \in st.matched => db'.row[f] = tx.row[f]
      /\ f \notin Undecoded(s) \cup Gone(s) => db'.row[f] = tx.row[f]
      /\ f \in Undecoded(s) => db'.row[f].presence = "present"
      /\ f \in FileIds /\ db.row[f].presence = "present" /\ st.snap = db
  BY Committed DEF PresentFiles, CommitsOnOwnRows
<1>2. db.row[f].path \in Decoded(st)
  <2>1. db.row[f].path \in Paths
    BY <1>1 DEF Observed, IInv, TypeOK, Located, Files
  <2> QED BY <2>1 DEF Decoded
<1>3. CASE f \in st.matched
  BY <1>1, <1>2, <1>3 DEF Faithful, Settled
<1>4. CASE f \notin st.matched
  <2>1. tx.row[f] = db.row[f]
    BY <1>1, <1>4 DEF Faithful
  <2>2. f \notin Gone(s)
    BY <1>1, <1>2 DEF Honest, Gone
  <2> QED BY <1>1, <2>1, <2>2
<1> QED BY <1>3, <1>4

\* It moves neither of two Files that could both have become a new one.
LEMMA CommitChoosesNone ==
    ASSUME Observed, NEW s \in Scanners, CommitsOnOwnRows(s),
           NEW f \in Files(db), NEW h \in Files(db), Rivals(sc[s], db, f, h)
    PROVE  db'.row[f].path = db.row[f].path
<1>1. /\ Faithful(sc[s], db, tx) /\ f \in FileIds /\ h \in FileIds
      /\ db'.row[f].path = tx.row[f].path
  BY Committed DEF Files
<1>2. f \notin sc[s].matched
  BY <1>1 DEF Faithful, Settled
<1> QED BY <1>1, <1>2 DEF Faithful

\* It gives a copy the Photo of what it is a copy of.
Copied(s, g) ==
    LET c     == db'.row[g].sha
        twins == {f \in PresentFiles(db) : /\ VerifiedCurrent(db, f) = c
                                           /\ sc[s].inv[db.row[f].path] = c}
        kin   == {f \in PresentFiles(db') \ {g} : db'.row[f].sha = c}
        lost  == {f \in Files(db) : /\ db.row[f].sha = c
                                    /\ db.row[f].path \notin OnDisk(s)}
    IN  \/ twins = {}
        \/ \E f, h \in lost : f # h
        \/ \E f \in kin : db'.row[f].photo = db'.row[g].photo

LEMMA CommitJoins ==
    ASSUME Observed, NEW s \in Scanners, CommitsOnOwnRows(s),
           NEW g \in PresentFiles(db') \ Files(db)
    PROVE  Copied(s, g)
<1> DEFINE st == sc[s]
           c  == db'.row[g].sha
<1>1. /\ Faithful(st, db, tx) /\ Honest(st, disk) /\ st.todo = {}
      /\ Decoded(st) = OnDisk(s) /\ st.matched \subseteq FileIds /\ st.snap = db
  BY Committed DEF CommitsOnOwnRows
<1>2. \A f \in FileIds :
        /\ db'.row[f].sha = tx.row[f].sha /\ db'.row[f].photo = tx.row[f].photo
        /\ f \in st.matched => db'.row[f] = tx.row[f]
        /\ f \in Undecoded(s) => db'.row[f].presence = "present"
        /\ f \notin Undecoded(s) \cup Gone(s) => db'.row[f] = tx.row[f]
  BY Committed
<1>3. g \in FileIds /\ db'.row[g].presence = "present" /\ g \notin Files(db)
  BY DEF PresentFiles
<1>4. g \in st.matched
  <2>1. ASSUME g \notin st.matched PROVE FALSE
    <3>1. tx.row[g] = db.row[g]
      BY <1>1, <1>3, <2>1 DEF Faithful
    <3>2. g \notin Undecoded(s) \cup Gone(s)
      BY <1>1, <1>3 DEF Undecoded, Gone, Unmatched
    <3> QED BY <1>2, <1>3, <3>1, <3>2 DEF Files
  <2> QED BY <2>1
<1>5. Joined(st, db, tx, g) /\ tx.row[g].sha = c /\ db'.row[g] = tx.row[g]
  BY <1>1, <1>2, <1>3, <1>4 DEF Faithful, Settled
<1>6. ASSUME NEW f \in PresentFiles(tx) \ {g},
             tx.row[f].sha = c, tx.row[f].photo = tx.row[g].photo,
             \/ f \in st.matched
             \/ f \in PresentFiles(db) /\ db.row[f].path \in Decoded(st)
      PROVE  \E x \in PresentFiles(db') \ {g} :
                db'.row[x].sha = c /\ db'.row[x].photo = db'.row[g].photo
  <2>1. f \in FileIds /\ tx.row[f].presence = "present"
    BY DEF PresentFiles
  <2>2. db'.row[f].presence = "present"
    <3>1. CASE f \in st.matched
      BY <1>2, <2>1, <3>1
    <3>2. CASE f \in PresentFiles(db) /\ db.row[f].path \in Decoded(st)
      BY <3>2, CommitStays DEF Decoded
    <3> QED BY <1>6, <3>1, <3>2
  <2>3. f \in PresentFiles(db')
    BY <2>1, <2>2 DEF PresentFiles
  <2> QED BY <1>2, <1>3, <1>6, <2>1, <2>3
<1>7. CASE \A f \in PresentFiles(db) :
                ~(VerifiedCurrent(db, f) = c /\ st.inv[db.row[f].path] = c)
  BY <1>7 DEF Copied
<1>8. CASE \E f, h \in Files(db) :
                f # h /\ \A x \in {f, h} : /\ db.row[x].sha = c
                                           /\ db.row[x].path \notin Decoded(st)
  <2> DEFINE lost == {x \in Files(db) : /\ db.row[x].sha = c
                                        /\ db.row[x].path \notin OnDisk(s)}
  <2>1. PICK f \in Files(db), h \in Files(db) :
            f # h /\ \A x \in {f, h} : /\ db.row[x].sha = c
                                       /\ db.row[x].path \notin Decoded(st)
    BY <1>8
  <2>2. f \in lost /\ h \in lost
    BY <1>1, <2>1
  <2>3. \E y, z \in lost : y # z
    BY <2>1, <2>2
  <2> QED BY <2>3 DEF Copied
<1>9. CASE \E f \in PresentFiles(tx) \ {g} :
                /\ tx.row[f].sha = c /\ tx.row[f].photo = tx.row[g].photo
                /\ \/ f \in st.matched
                   \/ f \in PresentFiles(db) /\ db.row[f].path \in Decoded(st) \ st.todo
  BY <1>6, <1>9 DEF Copied
<1>10. \/ \A f \in PresentFiles(db) :
               ~(VerifiedCurrent(db, f) = c /\ st.inv[db.row[f].path] = c)
       \/ \E f, h \in Files(db) :
               f # h /\ \A x \in {f, h} : /\ db.row[x].sha = c
                                          /\ db.row[x].path \notin Decoded(st)
       \/ \E f \in PresentFiles(tx) \ {g} :
               /\ tx.row[f].sha = c /\ tx.row[f].photo = tx.row[g].photo
               /\ \/ f \in st.matched
                  \/ f \in PresentFiles(db) /\ db.row[f].path \in Decoded(st) \ st.todo
  <2> HIDE DEF c, st
  <2> QED BY <1>5 DEF Joined
<1> QED BY <1>7, <1>8, <1>9, <1>10

-----------------------------------------------------------------------------
(* What holds however operations overlap.                                  *)

\* The catalogue changes by a scan's commit, by Verify's, or by an adoption.
LEMMA CatalogueChanges ==
    ASSUME IInv, [Next]_vars, db' # db
    PROVE  (\E s \in Scanners : ScanCommit(s)) \/ VerifyCommit \/ ExecuteAdopt
<1>1. ASSUME WorldStep PROVE FALSE
  BY <1>1 DEF WorldStep, WriteDisk, RenameDisk, Disturb, Plug
<1>2. ASSUME NEW s \in Scanners, ScanStep(s) PROVE ScanCommit(s)
  BY <1>2
     DEF ScanStep, ScanOffline, ScanOpen, ScanSelect, ScanLock, VisitBlind,
         VisitAbsent, VisitUnreadable, VisitDecoded, Walked, EndWalk, KnownBackfill,
         KnownUnchanged, KnownHeld, KnownModified, OrphanRestored, OrphanMoved,
         OrphanAmbiguous, OrphanCopied, OrphanNew, Inserted, Reconciled, ScanFail
<1>3. ASSUME VerifyStep PROVE VerifyCommit
  BY <1>3 DEF VerifyStep, VerifyBegin, VerifyMissing, VerifyUnreadable, VerifyBackfill,
              VerifyMatch, VerifyMismatch, Verified, VerifyFail
<1>4. ASSUME ReviewStep PROVE ExecuteAdopt
  BY <1>4 DEF ReviewStep, PlanResolution, ExecuteBegin, ExecuteRecord, ExecuteFail
<1> QED BY <1>1, <1>2, <1>3, <1>4 DEF Next, vars

\* Verify's verdict on a present File whose path nobody touched is what is on
\* disk against the bytes of its current revision, whatever scans did before.
THEOREM VerdictIsOnDisk == Spec => VerifyVerdict
<1> DEFINE A == VerifyCommit /\ ~vf.cut /\ online =>
                  \A f \in PresentFiles(db) :
                    LET p == db.row[f].path
                        r == db'.row[f]
                        c == Current(db', f).sha
                    IN  p \notin vf.touched =>
                        /\ r.presence = "missing" <=> disk[p] = Absent
                        /\ disk[p] = Bad => r.health = "unreadable"
                        /\ disk[p] \in Contents /\ ~ReadFaults => r.health # "unreadable"
                        /\ disk[p] \in Contents /\ r.health = "ok" => c = disk[p]
                        /\ disk[p] \in Contents /\ r.health = "hash_mismatch" =>
                                c # disk[p] /\ db'.obs[f] > db.obs[f]
<1>1. Observed => A
  <2> SUFFICES ASSUME Observed, VerifyCommit, ~vf.cut, online,
                      NEW f \in PresentFiles(db), db.row[f].path \notin vf.touched
               PROVE  Judged(db, db', disk, f)
    BY DEF Judged
  <2>1. vf.pc = "run" /\ vf.todo = {} /\ db' = tx
    BY DEF VerifyCommit
  <2> QED BY <2>1 DEF Observed, Checked
<1>2. Observed /\ [Next]_vars => [A]_vars
  BY <1>1
<1>3. Spec => [][A]_vars
  BY <1>2, AlwaysObserved, PTL DEF Spec
<1> QED BY <1>3 DEF VerifyVerdict

\* A scan that commits against the rows it SELECTed leaves the catalogue in
\* agreement with every path nobody touched meanwhile.
THEOREM ScansReflectDisk == Spec => ScanReflectsDisk
<1> DEFINE A == \A s \in Scanners : ScanCommit(s) /\ sc[s].snap = db =>
                  \A p \in Paths \ sc[s].touched :
                    LET here == {f \in PresentFiles(db') : db'.row[f].path = p}
                    IN  /\ sc[s].inv[p] # None =>
                            \E f \in here : \/ db'.row[f].sha = disk[p]
                                            \/ db'.row[f].health = "hash_mismatch"
                                            \/ Stamp[db'.row[f].sha] = Stamp[disk[p]]
                        /\ disk[p] = Bad /\ p \in sc[s].seen =>
                            \A f \in here : db'.row[f].health # "ok"
                        /\ disk[p] = Absent /\ ~sc[s].errors => here = {}
<1>1. Observed => A
  BY CommitReflects DEF CommitsOnOwnRows
<1>2. Observed /\ [Next]_vars => [A]_vars
  BY <1>1
<1>3. Spec => [][A]_vars
  BY <1>2, AlwaysObserved, PTL DEF Spec
<1> QED BY <1>3 DEF ScanReflectsDisk

-----------------------------------------------------------------------------
(* Under the busy gate.                                                    *)

\* At most one scan runs, and the claim is withdrawn while it does.
OneScan ==
    /\ sc \in [Scanners -> ScanState]
    /\ \A s, x \in Scanners : sc[s].pc # "idle" /\ sc[x].pc # "idle" => s = x
    /\ ClaimWithdrawn

\* With the busy gate the source-tree inventory is never claimed complete
\* while a scan of it runs; two ungated scanners can break that.
THEOREM ClaimStaysWithdrawn ==
    ASSUME Serial = TRUE
    PROVE  Spec => []ClaimWithdrawn
<1>1. Init => OneScan
  <2> SUFFICES ASSUME Init PROVE OneScan
    OBVIOUS
  <2>1. sc \in [Scanners -> ScanState]
    BY InitIInv DEF IInv, TypeOK
  <2>2. \A s \in Scanners : sc[s] = Idle
    BY DEF Init
  <2>3. Idle.pc = "idle" /\ complete = FALSE
    BY DEF Init, Idle
  <2> QED BY <2>1, <2>2, <2>3 DEF OneScan, ClaimWithdrawn
<1>2. ASSUME IInv, IInv', OneScan, [Next]_vars PROVE OneScan'
  <2>1. sc' \in [Scanners -> ScanState] /\ sc \in [Scanners -> ScanState]
    BY <1>2 DEF IInv, TypeOK
  <2>2. ASSUME \A s \in Scanners : sc'[s].pc # "idle" => sc[s].pc # "idle",
               complete' => complete
        PROVE  OneScan'
    BY <1>2, <2>1, <2>2 DEF OneScan, ClaimWithdrawn
  <2>3. ASSUME UNCHANGED <<sc, complete>> PROVE OneScan'
    BY <2>2, <2>3
  <2>4. CASE WorldStep
    <3>1. ASSUME NEW S, Disturb(S) PROVE OneScan'
      <4>1. ASSUME NEW s \in Scanners PROVE sc'[s].pc = sc[s].pc
        <5>1. sc'[s] = Touched(sc[s], S) /\ sc[s] \in ScanState
          BY <2>1, <3>1 DEF Disturb
        <5> QED BY <5>1 DEF Touched, ScanState
      <4>2. complete' = complete
        BY <3>1 DEF Disturb
      <4> QED BY <2>2, <4>1, <4>2
    <3>2. CASE Plug
      BY <2>3, <3>2 DEF Plug
    <3> QED BY <2>4, <3>1, <3>2 DEF WorldStep, WriteDisk, RenameDisk
  <2>5. CASE VerifyStep
    BY <2>3, <2>5 DEF VerifyStep, VerifyBegin, VerifyMissing, VerifyUnreadable,
                      VerifyBackfill, VerifyMatch, VerifyMismatch, Verified,
                      VerifyCommit, VerifyFail
  <2>6. CASE ReviewStep
    BY <2>3, <2>6 DEF ReviewStep, PlanResolution, ExecuteBegin, ExecuteAdopt,
                      ExecuteRecord, Decide, ExecuteFail
  <2>7. ASSUME NEW s \in Scanners, ScanStep(s) PROVE OneScan'
    <3>1. CASE ScanOffline(s)
      BY <2>3, <3>1 DEF ScanOffline
    <3>2. CASE ScanOpen(s)
      <4>1. /\ complete' = FALSE /\ \A x \in Scanners : sc[x].pc = "idle"
            /\ sc' = [sc EXCEPT ![s] = [Idle EXCEPT !.pc = "opened"]]
        BY <3>2 DEF ScanOpen, MayStart, Quiet
      <4>2. \A x \in Scanners : sc'[x].pc # "idle" => x = s
        BY <2>1, <4>1
      <4> QED BY <2>1, <4>1, <4>2 DEF OneScan, ClaimWithdrawn
    <3>3. CASE ScanCommit(s) \/ ScanFail(s)
      <4>1. sc' = [sc EXCEPT ![s] = Idle] /\ sc[s].pc # "idle"
        BY <3>3 DEF ScanCommit, ReadyToCommit, ScanFail
      <4>2. sc'[s].pc = "idle" /\ \A x \in Scanners \ {s} : sc'[x] = sc[x]
        BY <2>1, <4>1 DEF Idle
      <4>3. \A x \in Scanners : sc'[x].pc = "idle"
        BY <1>2, <4>1, <4>2 DEF OneScan
      <4> QED BY <2>1, <4>3 DEF OneScan, ClaimWithdrawn
    <3>4. ASSUME complete' = complete, sc[s].pc # "idle",
                 \A x \in Scanners \ {s} : sc'[x] = sc[x]
          PROVE  OneScan'
      BY <2>2, <3>4
    <3>5. CASE \/ ScanSelect(s) \/ ScanLock(s) \/ EndWalk(s)
      BY <2>1, <3>4, <3>5 DEF ScanSelect, ScanLock, EndWalk
    <3>6. CASE \E p \in Paths : \/ VisitBlind(s, p) \/ VisitAbsent(s, p)
                                \/ VisitUnreadable(s, p) \/ VisitDecoded(s, p)
      BY <2>1, <3>4, <3>6 DEF VisitBlind, VisitAbsent, VisitUnreadable, VisitDecoded,
                              Walking, Walked
    <3>7. ASSUME NEW p \in Paths, NEW m, NEW fresh, sc[s].pc = "reconcile",
                 Reconciled(s, p, m, fresh)
          PROVE  OneScan'
      BY <2>1, <3>4, <3>7 DEF Reconciled
    <3>8. CASE \E p \in Paths, f \in FileIds :
                 \/ KnownBackfill(s, p, f) \/ KnownUnchanged(s, p, f)
                 \/ KnownHeld(s, p, f) \/ KnownModified(s, p, f)
      BY <3>7, <3>8 DEF KnownBackfill, KnownUnchanged, KnownHeld, KnownModified, Known
    <3>9. CASE \E p \in Paths :
                 \/ OrphanRestored(s, p) \/ OrphanMoved(s, p) \/ OrphanAmbiguous(s, p)
                 \/ OrphanCopied(s, p) \/ OrphanNew(s, p)
      BY <3>7, <3>9 DEF OrphanRestored, OrphanMoved, OrphanAmbiguous, OrphanCopied,
                        OrphanNew, Orphan, Inserted
    <3> QED BY <2>7, <3>1, <3>2, <3>3, <3>5, <3>6, <3>8, <3>9 DEF ScanStep
  <2>8. CASE UNCHANGED vars
    BY <2>3, <2>8 DEF vars
  <2> QED BY <1>2, <2>4, <2>5, <2>6, <2>7, <2>8 DEF Next
<1>3. OneScan => ClaimWithdrawn
  BY DEF OneScan
<1>4. IInv /\ IInv' /\ OneScan /\ [Next]_vars => OneScan'
  BY <1>2
<1> QED BY <1>1, <1>3, <1>4, Invariance, PTL DEF Spec

-----------------------------------------------------------------------------
(* Under the busy gate: what one operation at a time adds.                 *)

Ledger(d, t) == \A f \in FileIds : Extends(d.rev[f], t.rev[f])

\* No other operation runs beside a scan, so the rows it SELECTed are the rows
\* of the catalogue until it commits; and every transaction tells one story
\* that extends the committed ledger.
OneAtATime ==
    /\ \A s, x \in Scanners : sc[s].pc # "idle" /\ sc[x].pc # "idle" => s = x
    /\ \A s \in Scanners : sc[s].pc # "idle" => vf.pc = "idle"
    /\ writer = Reviewer => Quiet

OwnRows ==
    \A s \in Scanners : sc[s].pc \in {"selected", "walk", "reconcile"} => sc[s].snap = db

Gated ==
    /\ Observed
    /\ OneAtATime
    /\ OwnRows
    /\ Told(db) /\ Told(tx) /\ Ledger(db, tx)

\* A ledger extends itself.
LEMMA LedgerItself == ASSUME NEW t \in Catalogue PROVE Ledger(t, t)
  BY ExtendsItself DEF Ledger, Catalogue

\* What a scan needs of the gate: it starts in quiet, and keeps its rows.
LEMMA ScanGate ==
    ASSUME Observed, OwnRows, Serial = TRUE, NEW s \in Scanners, ScanStep(s)
    PROVE  /\ sc'[s].pc # "idle" => sc[s].pc # "idle" \/ (Quiet /\ writer = None)
           /\ sc'[s].pc \in {"selected", "walk", "reconcile"} => sc'[s].snap = db'
           /\ db' # db => sc[s].pc # "idle"
<1>1. sc \in [Scanners -> ScanState] /\ sc[s] \in ScanState
  BY DEF Observed, IInv, TypeOK
<1>2. CASE ScanOffline(s)
  BY <1>2 DEF ScanOffline, OwnRows
<1>3. CASE ScanOpen(s)
  <2>1. sc'[s].pc = "opened" /\ Quiet /\ writer = None /\ db' = db
    BY <1>1, <1>3 DEF ScanOpen, MayStart, Idle
  <2> QED BY <2>1
<1>4. CASE ScanSelect(s)
  <2>1. sc'[s].snap = db /\ sc[s].pc = "opened" /\ db' = db
    BY <1>1, <1>4 DEF ScanSelect, ScanState
  <2> QED BY <2>1
<1>5. CASE ScanCommit(s) \/ ScanFail(s)
  <2>1. sc'[s] = Idle /\ sc[s].pc # "idle"
    BY <1>1, <1>5 DEF ScanCommit, ReadyToCommit, ScanFail
  <2> QED BY <2>1 DEF Idle
\* Every other step keeps the rows.
<1>6. ASSUME sc[s].pc \in {"selected", "walk", "reconcile"}, sc'[s].snap = sc[s].snap,
             db' = db
      PROVE  /\ sc'[s].pc # "idle" => sc[s].pc # "idle" \/ (Quiet /\ writer = None)
             /\ sc'[s].pc \in {"selected", "walk", "reconcile"} => sc'[s].snap = db'
             /\ db' # db => sc[s].pc # "idle"
  BY <1>6 DEF OwnRows
<1>7. CASE ScanLock(s) \/ EndWalk(s)
  <2>1. sc[s].pc \in {"selected", "walk"} /\ db' = db
    BY <1>7 DEF ScanLock, EndWalk
  <2>2. sc'[s].snap = sc[s].snap
    BY <1>1, <1>7 DEF ScanLock, EndWalk, ScanState
  <2> QED BY <1>6, <2>1, <2>2
<1>8. ASSUME NEW p \in Paths,
             \/ VisitBlind(s, p) \/ VisitAbsent(s, p)
             \/ VisitUnreadable(s, p) \/ VisitDecoded(s, p)
      PROVE  sc[s].pc = "walk" /\ sc'[s].snap = sc[s].snap /\ db' = db
  <2>1. \E st \in ScanState : Walked(s, p, st) /\ st.snap = sc[s].snap
    <3>1. CASE VisitBlind(s, p)
      <4>1. [sc[s] EXCEPT !.errors = TRUE] \in ScanState
            /\ [sc[s] EXCEPT !.errors = TRUE].snap = sc[s].snap
        BY <1>1 DEF ScanState
      <4> QED BY <3>1, <4>1 DEF VisitBlind
    <3>2. CASE VisitAbsent(s, p)
      BY <1>1, <3>2 DEF VisitAbsent
    <3>3. CASE VisitUnreadable(s, p)
      <4>1. [sc[s] EXCEPT !.seen = @ \cup {p}] \in ScanState
            /\ [sc[s] EXCEPT !.seen = @ \cup {p}].snap = sc[s].snap
        BY <1>1 DEF ScanState
      <4> QED BY <3>3, <4>1 DEF VisitUnreadable
    <3>4. CASE VisitDecoded(s, p)
      <4>1. ASSUME NEW c \in Contents
            PROVE  /\ [sc[s] EXCEPT !.seen = @ \cup {p}, !.inv[p] = c] \in ScanState
                   /\ [sc[s] EXCEPT !.seen = @ \cup {p}, !.inv[p] = c].snap = sc[s].snap
        BY <1>1 DEF ScanState
      <4> QED BY <3>4, <4>1 DEF VisitDecoded
    <3> QED BY <1>8, <3>1, <3>2, <3>3, <3>4
  <2>2. PICK st \in ScanState : Walked(s, p, st) /\ st.snap = sc[s].snap
    BY <2>1
  <2>3. sc' = [sc EXCEPT ![s] = [st EXCEPT !.todo = st.todo \ {p}]] /\ db' = db
    BY <2>2 DEF Walked
  <2>4. [st EXCEPT !.todo = st.todo \ {p}].snap = st.snap
    BY DEF ScanState
  <2>5. sc[s].pc = "walk"
    BY <1>8 DEF VisitBlind, VisitAbsent, VisitUnreadable, VisitDecoded, Walking
  <2> QED BY <1>1, <2>2, <2>3, <2>4, <2>5
<1>9. ASSUME NEW p \in Paths, PathStep(s, p)
      PROVE  sc[s].pc = "reconcile" /\ sc'[s].snap = sc[s].snap /\ db' = db
  <2>1. (\E m, fr : Reconciled(s, p, m, fr)) /\ sc[s].pc = "reconcile"
    BY <1>9 DEF PathStep, KnownBackfill, KnownUnchanged, KnownHeld, KnownModified, Known,
                OrphanRestored, OrphanMoved, OrphanAmbiguous, OrphanCopied, OrphanNew,
                Orphan, Inserted
  <2>2. PICK m, fr : Reconciled(s, p, m, fr)
    BY <2>1
  <2>3. db' = db
    BY <2>2 DEF Reconciled
  <2> QED BY <1>1, <2>1, <2>2, <2>3, ReconciledTo
<1> QED BY <1>2, <1>3, <1>4, <1>5, <1>6, <1>7, <1>8, <1>9 DEF ScanStep, PathStep

\* The story a scan's transaction tells.
LEMMA ScanTells ==
    ASSUME Gated, NEW s \in Scanners, ScanStep(s)
    PROVE  Told(db') /\ Told(tx') /\ Ledger(db', tx') /\ Ledger(db, db')
<1>1. /\ Observed /\ IInv /\ Told(db) /\ Told(tx) /\ Ledger(db, tx) /\ OwnRows
      /\ db \in Catalogue /\ tx \in Catalogue
  BY DEF Gated, Observed, IInv, TypeOK
<1>2. CASE UNCHANGED <<db, tx>>
  BY <1>1, <1>2, LedgerItself
<1>3. ASSUME NEW p \in Paths, PathStep(s, p)
      PROVE  Told(db') /\ Told(tx') /\ Ledger(db', tx') /\ Ledger(db, db')
  <2>1. (\E m, fr : Reconciled(s, p, m, fr)) /\ sc[s].pc = "reconcile"
    BY <1>3 DEF PathStep, KnownBackfill, KnownUnchanged, KnownHeld, KnownModified, Known,
                OrphanRestored, OrphanMoved, OrphanAmbiguous, OrphanCopied, OrphanNew,
                Orphan, Inserted
  <2>2. db' = db /\ sc[s].snap = db
    BY <1>1, <2>1 DEF Reconciled, OwnRows
  <2>3. PICK x \in FileIds \ sc[s].matched : Settles(s, p, x)
    BY <1>1, <1>3, <2>2, PathSettles
  <2>4. /\ Only(tx, tx', x) /\ Tells(tx'.row[x], tx'.rev[x])
        /\ Extends(db.rev[x], tx'.rev[x])
    BY <1>1, <2>3 DEF Settles, Posts
  <2>5. Told(tx')
    BY <1>1, <2>4, StillTold
  <2>6. Ledger(db, tx')
    BY <1>1, <2>4 DEF Ledger, Only
  <2> QED BY <1>1, <2>2, <2>5, <2>6, LedgerItself
<1>4. CASE ScanCommit(s)
  <2>1. /\ sc[s].pc = "reconcile" /\ tx' = Accounted(s) /\ db' = tx'
    BY <1>4 DEF ScanCommit, ReadyToCommit, WriteThrough
  <2>2. /\ tx'.rev = tx.rev
        /\ \A f \in FileIds : /\ tx'.row[f].sha = tx.row[f].sha
                              /\ tx'.row[f].cur = tx.row[f].cur
        /\ \A f \in Files(tx') : f \in Files(tx)
    <3>1. ASSUME NEW f \in FileIds
          PROVE  /\ tx'.rev = tx.rev /\ tx'.row[f].sha = tx.row[f].sha
                 /\ tx'.row[f].cur = tx.row[f].cur
                 /\ f \in Files(tx') => f \in Files(tx)
      BY <1>1, <2>1, AccountedIs DEF Files
    <3>2. tx'.rev = tx.rev
      BY <2>1 DEF Accounted
    <3> QED BY <3>1, <3>2 DEF Files
  <2>3. Told(tx')
    BY <1>1, <2>2 DEF Told, Tells, Files
  <2>4. Ledger(db, tx') /\ Ledger(tx', tx')
    <3>1. Ledger(tx, tx)
      BY <1>1, LedgerItself
    <3> QED BY <1>1, <2>2, <3>1 DEF Ledger
  <2> QED BY <2>1, <2>3, <2>4
<1>5. CASE ScanFail(s)
  BY <1>1, <1>5, LedgerItself DEF ScanFail
<1>6. CASE ScanOffline(s) \/ ScanOpen(s) \/ ScanSelect(s) \/ ScanLock(s) \/ EndWalk(s)
  BY <1>2, <1>6 DEF ScanOffline, ScanOpen, ScanSelect, ScanLock, EndWalk
<1>7. CASE \E p \in Paths : \/ VisitBlind(s, p) \/ VisitAbsent(s, p)
                            \/ VisitUnreadable(s, p) \/ VisitDecoded(s, p)
  BY <1>2, <1>7 DEF VisitBlind, VisitAbsent, VisitUnreadable, VisitDecoded, Walked
<1> QED BY <1>3, <1>4, <1>5, <1>6, <1>7 DEF ScanStep, PathStep

\* ... and Verify's, and an adoption.
LEMMA VerifyTells ==
    ASSUME Gated, VerifyStep
    PROVE  Told(db') /\ Told(tx') /\ Ledger(db', tx') /\ Ledger(db, db')
<1>1. /\ Observed /\ Told(db) /\ Told(tx) /\ Ledger(db, tx)
      /\ db \in Catalogue /\ tx \in Catalogue
  BY DEF Gated, Observed, IInv, TypeOK
<1>2. CASE VerifyBegin
  BY <1>1, <1>2, LedgerItself DEF VerifyBegin
<1>3. ASSUME NEW f \in FileIds,
             \/ VerifyMissing(f) \/ VerifyUnreadable(f)
             \/ VerifyBackfill(f) \/ VerifyMatch(f) \/ VerifyMismatch(f)
      PROVE  Told(db') /\ Told(tx') /\ Ledger(db', tx') /\ Ledger(db, db')
  <2>1. /\ Only(tx, tx', f) /\ Tells(tx'.row[f], tx'.rev[f])
        /\ Extends(db.rev[f], tx'.rev[f])
    BY <1>1, <1>3, VerdictsJudge DEF Certifies
  <2>2. db' = db
    BY <1>3 DEF VerifyMissing, VerifyUnreadable, VerifyBackfill, VerifyMatch,
                VerifyMismatch, Verified
  <2>3. Told(tx')
    BY <1>1, <2>1, StillTold
  <2>4. Ledger(db, tx')
    BY <1>1, <2>1 DEF Ledger, Only
  <2> QED BY <1>1, <2>2, <2>3, <2>4, LedgerItself
<1>4. CASE VerifyCommit
  BY <1>1, <1>4, LedgerItself DEF VerifyCommit
<1>5. CASE VerifyFail
  BY <1>1, <1>5, LedgerItself DEF VerifyFail
<1> QED BY <1>2, <1>3, <1>4, <1>5 DEF VerifyStep

LEMMA AdoptTells ==
    ASSUME Gated, ExecuteAdopt
    PROVE  Told(db') /\ Told(tx') /\ Ledger(db', tx') /\ Ledger(db, db')
<1> DEFINE f == plan.file
<1>1. /\ IInv /\ Told(db) /\ db \in Catalogue /\ db' \in Catalogue
  <2>1. IInv'
    BY NextIInv DEF Gated, Observed, Next, ReviewStep
  <2> QED BY <2>1 DEF Gated, Observed, IInv, TypeOK
<1>2. /\ f \in FileIds /\ f \in Files(db) /\ plan.evidence.bytes \in Contents
      /\ tx' = db' /\ Only(db, db', f)
      /\ db'.row[f].sha = plan.evidence.bytes /\ db'.row[f].cur = Len(db.rev[f]) + 1
      /\ db'.rev[f] = Renewed(db.rev[f], db.row[f].cur, plan.evidence.bytes)
  BY <1>1, AdoptWrites
<1>3. db.rev[f] \in Seq(Revision) /\ Tells(db.row[f], db.rev[f])
  BY <1>1, <1>2 DEF Catalogue, Told
<1> HIDE DEF f
<1>4. Tells(db'.row[f], db'.rev[f]) /\ Extends(db.rev[f], db'.rev[f])
  BY <1>2, <1>3, RetiredTells DEF f
<1>5. Told(db')
  BY <1>1, <1>2, <1>4, StillTold
<1>6. Ledger(db, db')
  <2>1. Ledger(db, db)
    BY <1>1, LedgerItself
  <2> QED BY <1>2, <1>4, <2>1 DEF Ledger, Only
<1> QED BY <1>1, <1>2, <1>5, <1>6, LedgerItself

\* Every step tells on, and extends the committed ledger.
LEMMA NextTells ==
    ASSUME Gated, [Next]_vars
    PROVE  Told(db') /\ Told(tx') /\ Ledger(db', tx') /\ Ledger(db, db')
<1>1. CASE UNCHANGED <<db, tx>>
  <2>1. Ledger(db, db)
    BY LedgerItself DEF Gated, Observed, IInv, TypeOK
  <2> QED BY <1>1, <2>1 DEF Gated
<1>2. CASE WorldStep \/ UNCHANGED vars
  BY <1>1, <1>2 DEF WorldStep, WriteDisk, RenameDisk, Disturb, Plug, vars
<1>3. CASE ReviewStep
  BY <1>1, <1>3, AdoptTells DEF ReviewStep, PlanResolution, ExecuteBegin, ExecuteRecord,
                                ExecuteFail
<1> QED BY <1>2, <1>3, ScanTells, VerifyTells DEF Next

\* A reviewer acts while nothing runs.
LEMMA ReviewIsQuiet ==
    ASSUME Gated, Serial = TRUE, ReviewStep
    PROVE  Quiet /\ UNCHANGED <<sc, vf>>
<1>1. writer = Reviewer => Quiet
  BY DEF Gated, OneAtATime
<1> QED BY <1>1 DEF ReviewStep, PlanResolution, ExecuteBegin, MayExecute, ExecuteAdopt,
                    ExecuteRecord, Decide, ExecuteFail

\* The gate holds.
LEMMA NextGate ==
    ASSUME Gated, Serial = TRUE, [Next]_vars
    PROVE  OneAtATime' /\ OwnRows'
<1>1. /\ Observed /\ OneAtATime /\ OwnRows /\ IInv
      /\ sc \in [Scanners -> ScanState] /\ vf \in VerifyState
  BY DEF Gated, Observed, IInv, TypeOK
<1>2. ASSUME db' = db, vf'.pc = vf.pc, writer' = writer,
             \A s \in Scanners : sc'[s].pc = sc[s].pc /\ sc'[s].snap = sc[s].snap
      PROVE  OneAtATime' /\ OwnRows'
  BY <1>1, <1>2 DEF OneAtATime, OwnRows, Quiet
<1>3. CASE WorldStep
  <2>1. db' = db /\ writer' = writer
    BY <1>3 DEF WorldStep, WriteDisk, RenameDisk, Disturb, Plug
  <2>2. ASSUME NEW S, Disturb(S) PROVE OneAtATime' /\ OwnRows'
    <3>1. sc' = [s \in Scanners |-> Touched(sc[s], S)] /\ vf' = Touched(vf, S)
      BY <2>2 DEF Disturb
    <3>2. \A s \in Scanners : sc'[s].pc = sc[s].pc /\ sc'[s].snap = sc[s].snap
      BY <1>1, <3>1 DEF Touched, ScanState
    <3>3. vf'.pc = vf.pc
      BY <1>1, <3>1 DEF Touched, VerifyState
    <3> QED BY <1>2, <2>1, <3>2, <3>3
  <2>3. CASE Plug
    <3>1. sc' = sc /\ vf'.pc = vf.pc
      BY <1>1, <2>3 DEF Plug, VerifyState
    <3> QED BY <1>2, <2>1, <3>1
  <2> QED BY <1>3, <2>2, <2>3 DEF WorldStep, WriteDisk, RenameDisk
<1>4. ASSUME NEW s \in Scanners, ScanStep(s) PROVE OneAtATime' /\ OwnRows'
  <2>1. /\ \A x \in Scanners \ {s} : sc'[x] = sc[x]
        /\ vf' = vf /\ writer' \in {writer, s, None}
    BY <1>1, <1>4, ScanFrame
  <2>2. /\ sc'[s].pc # "idle" => sc[s].pc # "idle" \/ (Quiet /\ writer = None)
        /\ sc'[s].pc \in {"selected", "walk", "reconcile"} => sc'[s].snap = db'
        /\ db' # db => sc[s].pc # "idle"
    BY <1>1, <1>4, ScanGate
  <2>3. OneAtATime'
    <3>1. writer' = Reviewer => writer = Reviewer
      BY <2>1, ProcessAssumption
    <3>2. writer' = Reviewer => Quiet'
      BY <1>1, <2>1, <2>2, <3>1, ProcessAssumption DEF OneAtATime, Quiet
    <3> QED BY <1>1, <2>1, <2>2, <3>2 DEF OneAtATime, Quiet
  <2>4. ASSUME NEW x \in Scanners, sc'[x].pc \in {"selected", "walk", "reconcile"}
        PROVE  sc'[x].snap = db'
    <3>1. CASE x = s
      BY <2>2, <2>4, <3>1
    <3>2. CASE x # s
      <4>1. sc'[x] = sc[x]
        BY <2>1, <3>2
      <4>2. db' = db
        BY <1>1, <2>2, <2>4, <3>2, <4>1 DEF OneAtATime
      <4> QED BY <1>1, <2>4, <4>1, <4>2 DEF OwnRows
    <3> QED BY <3>1, <3>2
  <2> QED BY <2>3, <2>4 DEF OwnRows
<1>5. CASE VerifyStep
  <2>1. sc' = sc
    BY <1>5 DEF VerifyStep, VerifyBegin, VerifyMissing, VerifyUnreadable, VerifyBackfill,
                VerifyMatch, VerifyMismatch, Verified, VerifyCommit, VerifyFail
  <2>2. CASE VerifyBegin
    <3>1. Quiet /\ writer' = Verifier
      BY <2>2 DEF VerifyBegin, MayStart
    <3> QED BY <2>1, <3>1 DEF Quiet, OneAtATime, OwnRows, Verifier, Reviewer
  <2>3. CASE vf.pc = "run"
    <3>1. \A s \in Scanners : sc'[s].pc = "idle"
      BY <1>1, <2>1, <2>3 DEF OneAtATime
    <3>2. writer = Verifier
      BY <1>1, <2>3 DEF IInv, VerifierFits
    <3>3. writer' # Reviewer
      BY <1>5, <3>2, ProcessAssumption
         DEF VerifyStep, VerifyBegin, VerifyMissing, VerifyUnreadable, VerifyBackfill,
             VerifyMatch, VerifyMismatch, Verified, VerifyCommit, VerifyFail,
             Verifier, Reviewer
    <3> QED BY <3>1, <3>3 DEF OneAtATime, OwnRows
  <2> QED BY <1>5, <2>2, <2>3
          DEF VerifyStep, VerifyMissing, VerifyUnreadable, VerifyBackfill, VerifyMatch,
              VerifyMismatch, Verifying, VerifyCommit, VerifyFail
<1>6. CASE ReviewStep
  <2>1. Quiet /\ UNCHANGED <<sc, vf>>
    BY <1>6, ReviewIsQuiet
  <2> QED BY <2>1 DEF Quiet, OneAtATime, OwnRows
<1>7. CASE UNCHANGED vars
  BY <1>2, <1>7 DEF vars
<1> QED BY <1>3, <1>4, <1>5, <1>6, <1>7 DEF Next

\* At first the rows are the Phase-1 ones, with their one revision each.
LEMMA InitGated == Init => Gated
<1> SUFFICES ASSUME Init PROVE Gated
  OBVIOUS
<1>1. /\ Observed /\ tx = db /\ db = LegacyCatalogue /\ db \in Catalogue
      /\ sc = [s \in Scanners |-> Idle] /\ vf = VIdle
  BY InitObserved DEF Init, Observed, IInv, TypeOK
<1>2. \A s \in Scanners : sc[s].pc = "idle"
  BY <1>1 DEF Idle
<1>3. OneAtATime /\ OwnRows
  BY <1>1, <1>2 DEF OneAtATime, OwnRows, Quiet, VIdle
<1>4. ASSUME NEW f \in Files(db) PROVE Tells(db.row[f], db.rev[f])
  <2>1. f \in FileIds /\ Legacy[f] # None
    BY <1>1, <1>4 DEF Files, LegacyCatalogue, UnbornRow
  <2>2. /\ db.row[f].cur = 1 /\ db.row[f].sha = None
        /\ db.rev[f] = <<[sha |-> None, superseded |-> FALSE]>>
    BY <1>1, <2>1 DEF LegacyCatalogue
  <2> DEFINE n == [sha |-> None, superseded |-> FALSE]
             q == <<n>>
  <2>3. n.sha = None /\ ~n.superseded
    OBVIOUS
  <2> HIDE DEF n
  <2>4. Len(q) = 1 /\ q[1] = n
    OBVIOUS
  <2>5. db.rev[f] = q
    BY <2>2 DEF n
  <2> HIDE DEF q
  <2> QED BY <2>2, <2>3, <2>4, <2>5 DEF Tells
<1> QED BY <1>1, <1>3, <1>4, LedgerItself DEF Gated, Told

\* With the busy gate the stronger invariant holds.
LEMMA AlwaysGated ==
    ASSUME Serial = TRUE
    PROVE  Spec => []Gated
<1>1. Gated /\ [Next]_vars => Gated'
  <2> SUFFICES ASSUME Gated, [Next]_vars PROVE Gated'
    OBVIOUS
  <2>1. Observed'
    BY NextObserved DEF Gated
  <2> QED BY <2>1, NextTells, NextGate DEF Gated, Told, Ledger
<1> QED BY <1>1, InitGated, PTL DEF Spec

-----------------------------------------------------------------------------
(* What follows under the busy gate.                                       *)

\* Exactly the current revision of a File has superseded_at NULL, and
\* files.sha256 mirrors it.
THEOREM CurrentRevisionIsCoherent ==
    ASSUME Serial = TRUE
    PROVE  Spec => []CurrentRevisionCoherent
<1>1. Gated => CurrentRevisionCoherent
  BY DEF Gated, Told, Tells, CurrentRevisionCoherent, Current
<1> QED BY <1>1, AlwaysGated, PTL

\* The current revision of a flagged File changes only by a decision, to the
\* bytes a reviewer saw, on the row the reviewer saw.
THEOREM FlaggedWaitsForReview ==
    ASSUME Serial = TRUE
    PROVE  Spec => FlaggedChangesOnlyByReview
<1> DEFINE A == \A f \in FileIds :
                  db.row[f].health = "hash_mismatch" /\ db'.row[f].cur # db.row[f].cur =>
                    /\ plan # None /\ plan.action = "adopt" /\ plan.file = f
                    /\ decided' > decided
                    /\ plan.evidence.row = db.row[f]
                    /\ db'.row[f].sha = plan.evidence.bytes
<1>1. Gated /\ [Next]_vars => [A]_vars
  <2> SUFFICES ASSUME Gated, [Next]_vars, NEW f \in FileIds,
                      db.row[f].health = "hash_mismatch", db'.row[f].cur # db.row[f].cur
               PROVE  /\ plan # None /\ plan.action = "adopt" /\ plan.file = f
                      /\ decided' > decided
                      /\ plan.evidence.row = db.row[f]
                      /\ db'.row[f].sha = plan.evidence.bytes
    OBVIOUS
  <2>1. Observed /\ IInv /\ OwnRows
    BY DEF Gated, Observed
  <2>2. ASSUME NEW s \in Scanners, ScanCommit(s) PROVE FALSE
    <3>1. CommitsOnOwnRows(s)
      BY <2>1, <2>2 DEF CommitsOnOwnRows, ScanCommit, ReadyToCommit, OwnRows
    <3>2. Faithful(sc[s], db, tx) /\ db'.row[f].cur = tx.row[f].cur
      BY <2>1, <3>1, Committed
    <3> QED BY <3>2 DEF Faithful, Settled
  <2>3. ~VerifyCommit
    <3> SUFFICES ASSUME VerifyCommit PROVE FALSE
      OBVIOUS
    <3>1. vf.pc = "run" /\ db' = tx
      BY DEF VerifyCommit
    <3> QED BY <2>1, <3>1 DEF Observed, Checked
  <2>4. ExecuteAdopt
    BY <2>1, <2>2, <2>3, CatalogueChanges
  <2>5. /\ plan # None /\ plan.action = "adopt" /\ decided' > decided
        /\ Proved(plan, db, disk) /\ Only(db, db', plan.file)
        /\ db'.row[plan.file].sha = plan.evidence.bytes
    BY <2>1, <2>4, AdoptWrites
  <2>6. plan.file = f
    BY <2>5 DEF Only
  <2>7. plan.evidence.row = db.row[f]
    BY <2>5, <2>6 DEF Proved
  <2> QED BY <2>5, <2>6, <2>7
<1>2. Spec => [][A]_vars
  BY <1>1, AlwaysGated, PTL DEF Spec
<1> QED BY <1>2 DEF FlaggedChangesOnlyByReview

\* Under the gate every scan commits against the rows it SELECTed.
LEMMA GateCommits ==
    ASSUME Gated, NEW s \in Scanners, ScanCommit(s)
    PROVE  Observed /\ CommitsOnOwnRows(s)
  BY DEF Gated, OwnRows, CommitsOnOwnRows, ScanCommit, ReadyToCommit

\* A scan marks a File missing only if its path really had no file.
THEOREM MissingIsAbsent ==
    ASSUME Serial = TRUE
    PROVE  Spec => ScanMissingIsAbsent
<1> DEFINE A == \A s \in Scanners : ScanCommit(s) =>
                  \A f \in PresentFiles(db) : db'.row[f].presence = "missing" =>
                    \/ disk[db.row[f].path] = Absent
                    \/ db.row[f].path \in sc[s].touched
<1>1. Gated /\ [Next]_vars => [A]_vars
  BY GateCommits, CommitMissing
<1>2. Spec => [][A]_vars
  BY <1>1, AlwaysGated, PTL DEF Spec
<1> QED BY <1>2 DEF ScanMissingIsAbsent

\* A File whose path still holds a photograph the scan could decode stays.
THEOREM UndisturbedStays ==
    ASSUME Serial = TRUE
    PROVE  Spec => UndisturbedFileStays
<1> DEFINE A == \A s \in Scanners : ScanCommit(s) =>
                  \A f \in PresentFiles(db) :
                    sc[s].inv[db.row[f].path] # None =>
                        /\ db'.row[f].presence = "present"
                        /\ db'.row[f].path = db.row[f].path
<1>1. Gated /\ [Next]_vars => [A]_vars
  BY GateCommits, CommitStays
<1>2. Spec => [][A]_vars
  BY <1>1, AlwaysGated, PTL DEF Spec
<1> QED BY <1>2 DEF UndisturbedFileStays

\* When several vanished Files could have become a new one, none is chosen.
THEOREM AmbiguityIsNotResolved ==
    ASSUME Serial = TRUE
    PROVE  Spec => AmbiguityChoosesNone
<1> DEFINE A == \A s \in Scanners : ScanCommit(s) =>
                  \A f, h \in Files(db) :
                    /\ f # h
                    /\ \A x \in {f, h} : /\ db.row[x].path \notin OnDisk(s)
                                         /\ Coherent(db, x)
                                         /\ db.row[x].presence = "missing"
                                                \/ VerifiedCurrent(db, x) # None
                    /\ db.row[f].sha = db.row[h].sha
                    => db'.row[f].path = db.row[f].path
<1>1. Gated /\ [Next]_vars => [A]_vars
  <2> SUFFICES ASSUME Gated, [Next]_vars, NEW s \in Scanners, ScanCommit(s),
                      NEW f \in Files(db), NEW h \in Files(db), f # h,
                      \A x \in {f, h} : /\ db.row[x].path \notin OnDisk(s)
                                        /\ Coherent(db, x)
                                        /\ db.row[x].presence = "missing"
                                                \/ VerifiedCurrent(db, x) # None,
                      db.row[f].sha = db.row[h].sha
               PROVE  db'.row[f].path = db.row[f].path
    OBVIOUS
  <2>1. Observed /\ CommitsOnOwnRows(s)
    BY GateCommits
  <2>2. Rivals(sc[s], db, f, h)
    BY DEF Rivals, Decoded, OnDisk
  <2> QED BY <2>1, <2>2, CommitChoosesNone
<1>2. Spec => [][A]_vars
  BY <1>1, AlwaysGated, PTL DEF Spec
<1> QED BY <1>2 DEF AmbiguityChoosesNone

\* A new copy of a photograph verified in place becomes a File of its Photo,
\* unless two vanished Files could both have become it.
THEOREM CopiesJoinTheirPhoto ==
    ASSUME Serial = TRUE
    PROVE  Spec => CopyJoinsPhoto
<1> DEFINE A == \A s \in Scanners : ScanCommit(s) =>
                  \A g \in PresentFiles(db') \ Files(db) :
                    LET c     == db'.row[g].sha
                        twins == {f \in PresentFiles(db) :
                                    /\ VerifiedCurrent(db, f) = c
                                    /\ sc[s].inv[db.row[f].path] = c}
                        kin   == {f \in PresentFiles(db') \ {g} : db'.row[f].sha = c}
                        lost  == {f \in Files(db) :
                                    /\ db.row[f].sha = c
                                    /\ db.row[f].path \notin OnDisk(s)}
                    IN  \/ twins = {}
                        \/ \E f, h \in lost : f # h
                        \/ \E f \in kin : db'.row[f].photo = db'.row[g].photo
<1>1. Gated /\ [Next]_vars => [A]_vars
  <2>1. ASSUME Gated, NEW s \in Scanners, ScanCommit(s),
               NEW g \in PresentFiles(db') \ Files(db)
        PROVE  Copied(s, g)
    BY <2>1, GateCommits, CommitJoins
  <2>2. (\A s \in Scanners : ScanCommit(s) =>
            \A g \in PresentFiles(db') \ Files(db) : Copied(s, g)) => A
    BY DEF Copied
  <2> QED BY <2>1, <2>2
<1>2. Spec => [][A]_vars
  BY <1>1, AlwaysGated, PTL DEF Spec
<1> QED BY <1>2, PTL DEF CopyJoinsPhoto

-----------------------------------------------------------------------------
(* The catalogue implements FileLedger.                                    *)

\* What the transaction of a running operation has made of each File so far is
\* one step of a scan, or of Verify.
Drafted ==
    /\ \A s \in Scanners : sc[s].pc = "reconcile" =>
        \A f \in FileIds : Archive!Scanned(LedgerEntry(db, f), LedgerEntry(tx, f))
    /\ vf.pc = "run" =>
        \A f \in FileIds : Archive!Verified(LedgerEntry(db, f), LedgerEntry(tx, f))

\* A scan that is not running changes no rows.
LEMMA StartsClean ==
    ASSUME IInv, NEW s \in Scanners, ScanStep(s), sc[s].pc = "idle"
    PROVE  UNCHANGED <<db, tx>> /\ sc'[s].pc # "reconcile"
<1>1. sc \in [Scanners -> ScanState]
  BY DEF IInv, TypeOK
<1>2. CASE ScanOffline(s)
  BY <1>2 DEF ScanOffline
<1>3. CASE ScanOpen(s)
  <2>1. UNCHANGED <<db, tx>> /\ sc'[s].pc = "opened"
    BY <1>1, <1>3 DEF ScanOpen, Idle
  <2> QED BY <2>1
<1>4. ~(ScanSelect(s) \/ ScanLock(s) \/ EndWalk(s) \/ ScanCommit(s) \/ ScanFail(s))
  BY DEF ScanSelect, ScanLock, EndWalk, ScanCommit, ReadyToCommit, ScanFail
<1>5. ASSUME NEW p PROVE ~(\/ VisitBlind(s, p) \/ VisitAbsent(s, p)
                           \/ VisitUnreadable(s, p) \/ VisitDecoded(s, p))
  BY DEF VisitBlind, VisitAbsent, VisitUnreadable, VisitDecoded, Walking
<1>6. ASSUME NEW p, PathStep(s, p) PROVE FALSE
  BY <1>6 DEF PathStep, KnownBackfill, KnownUnchanged, KnownHeld, KnownModified, Known,
              OrphanRestored, OrphanMoved, OrphanAmbiguous, OrphanCopied, OrphanNew, Orphan
<1> QED BY <1>2, <1>3, <1>4, <1>5, <1>6 DEF ScanStep, PathStep

\* A walk goes on until it has ended.
LEMMA WalkStays ==
    ASSUME IInv, NEW s \in Scanners, NEW p \in Paths,
           \/ VisitBlind(s, p) \/ VisitAbsent(s, p)
           \/ VisitUnreadable(s, p) \/ VisitDecoded(s, p)
    PROVE  sc'[s].pc = "walk"
<1>1. sc \in [Scanners -> ScanState] /\ sc[s] \in ScanState /\ sc[s].pc = "walk"
  BY DEF IInv, TypeOK, VisitBlind, VisitAbsent, VisitUnreadable, VisitDecoded, Walking
<1>2. \E st \in ScanState : Walked(s, p, st) /\ st.pc = "walk"
  <2>1. CASE VisitBlind(s, p)
    <3>1. [sc[s] EXCEPT !.errors = TRUE] \in ScanState
          /\ [sc[s] EXCEPT !.errors = TRUE].pc = "walk"
      BY <1>1 DEF ScanState
    <3> QED BY <2>1, <3>1 DEF VisitBlind
  <2>2. CASE VisitAbsent(s, p)
    BY <1>1, <2>2 DEF VisitAbsent
  <2>3. CASE VisitUnreadable(s, p)
    <3>1. [sc[s] EXCEPT !.seen = @ \cup {p}] \in ScanState
          /\ [sc[s] EXCEPT !.seen = @ \cup {p}].pc = "walk"
      BY <1>1 DEF ScanState
    <3> QED BY <2>3, <3>1 DEF VisitUnreadable
  <2>4. CASE VisitDecoded(s, p)
    <3>1. ASSUME NEW c \in Contents
          PROVE  /\ [sc[s] EXCEPT !.seen = @ \cup {p}, !.inv[p] = c] \in ScanState
                 /\ [sc[s] EXCEPT !.seen = @ \cup {p}, !.inv[p] = c].pc = "walk"
      BY <1>1 DEF ScanState
    <3> QED BY <2>4, <3>1 DEF VisitDecoded
  <2> QED BY <2>1, <2>2, <2>3, <2>4
<1>3. PICK st \in ScanState : Walked(s, p, st) /\ st.pc = "walk"
  BY <1>2
<1>4. sc' = [sc EXCEPT ![s] = [st EXCEPT !.todo = st.todo \ {p}]]
  BY <1>3 DEF Walked
<1>5. [st EXCEPT !.todo = st.todo \ {p}].pc = st.pc
  BY DEF ScanState
<1> QED BY <1>1, <1>3, <1>4, <1>5

\* What a scan of the rows of the catalogue has drafted.
LEMMA ScanDrafts ==
    ASSUME Gated, Drafted, NEW s \in Scanners, ScanStep(s), sc'[s].pc = "reconcile"
    PROVE  /\ db' = db
           /\ \A f \in FileIds : Archive!Scanned(LedgerEntry(db, f), LedgerEntry(tx', f))
<1>1. /\ Observed /\ IInv /\ OwnRows /\ Told(tx) /\ sc[s] \in ScanState
      /\ sc \in [Scanners -> ScanState]
  BY DEF Gated, Observed, IInv, TypeOK
<1>2. CASE EndWalk(s)
  <2>1. UNCHANGED <<db, tx>> /\ sc[s].pc = "walk"
    BY <1>2 DEF EndWalk
  <2>2. tx = db
    BY <1>1, <2>1 DEF Observed, Scanned
  <2> QED BY <2>1, <2>2 DEF Archive!Scanned
<1>3. ASSUME NEW p \in Paths, PathStep(s, p)
      PROVE  /\ db' = db
             /\ \A f \in FileIds : Archive!Scanned(LedgerEntry(db, f), LedgerEntry(tx', f))
  <2>1. (\E m, fr : Reconciled(s, p, m, fr)) /\ sc[s].pc = "reconcile"
    BY <1>3 DEF PathStep, KnownBackfill, KnownUnchanged, KnownHeld, KnownModified, Known,
                OrphanRestored, OrphanMoved, OrphanAmbiguous, OrphanCopied, OrphanNew,
                Orphan, Inserted
  <2>2. db' = db /\ sc[s].snap = db
    BY <1>1, <2>1 DEF Reconciled, OwnRows
  <2>3. PICK x \in FileIds \ sc[s].matched : Settles(s, p, x)
    BY <1>1, <1>3, <2>2, PathSettles
  <2>4. Only(tx, tx', x) /\ Archive!Scanned(LedgerEntry(db, x), LedgerEntry(tx', x))
    BY <1>1, <2>3 DEF Settles, Posts
  <2>5. ASSUME NEW f \in FileIds \ {x}
        PROVE  Archive!Scanned(LedgerEntry(db, f), LedgerEntry(tx', f))
    <3>1. LedgerEntry(tx', f) = LedgerEntry(tx, f)
      BY <2>4, SameEntry DEF Only
    <3> QED BY <2>1, <3>1 DEF Drafted
  <2> QED BY <2>2, <2>4, <2>5
<1>4. CASE ScanCommit(s) \/ ScanFail(s)
  <2>1. sc'[s] = Idle
    BY <1>1, <1>4 DEF ScanCommit, ScanFail
  <2> QED BY <2>1 DEF Idle
<1>5. CASE ScanOffline(s) \/ ScanOpen(s)
  <2>1. sc[s].pc = "idle"
    BY <1>5 DEF ScanOffline, ScanOpen
  <2> QED BY <1>1, <2>1, StartsClean
<1>6. CASE ScanSelect(s) \/ ScanLock(s)
  <2>1. sc'[s].pc \in {"selected", "walk"}
    BY <1>1, <1>6 DEF ScanSelect, ScanLock, ScanState
  <2> QED BY <2>1
<1>7. CASE \E p \in Paths : \/ VisitBlind(s, p) \/ VisitAbsent(s, p)
                            \/ VisitUnreadable(s, p) \/ VisitDecoded(s, p)
  <2>1. sc'[s].pc = "walk"
    BY <1>1, <1>7, WalkStays
  <2> QED BY <2>1
<1> QED BY <1>2, <1>3, <1>4, <1>5, <1>6, <1>7 DEF ScanStep, PathStep

\* Every step drafts on.
LEMMA NextDrafted ==
    ASSUME Gated, Drafted, Serial = TRUE, [Next]_vars
    PROVE  Drafted'
<1>1. /\ Observed /\ IInv /\ OneAtATime /\ OwnRows /\ Told(tx) /\ TxFree
      /\ sc \in [Scanners -> ScanState] /\ vf \in VerifyState
  BY DEF Gated, Observed, IInv, TypeOK
<1>2. ASSUME UNCHANGED <<db, tx>>, vf'.pc = vf.pc,
             \A s \in Scanners : sc'[s].pc = sc[s].pc
      PROVE  Drafted'
  BY <1>2 DEF Drafted
<1>3. CASE WorldStep
  <2>1. UNCHANGED <<db, tx>>
    BY <1>3 DEF WorldStep, WriteDisk, RenameDisk, Disturb, Plug
  <2>2. ASSUME NEW S, Disturb(S) PROVE Drafted'
    <3>1. sc' = [s \in Scanners |-> Touched(sc[s], S)] /\ vf' = Touched(vf, S)
      BY <2>2 DEF Disturb
    <3>2. \A s \in Scanners : sc'[s].pc = sc[s].pc
      BY <1>1, <3>1 DEF Touched, ScanState
    <3>3. vf'.pc = vf.pc
      BY <1>1, <3>1 DEF Touched, VerifyState
    <3> QED BY <1>2, <2>1, <3>2, <3>3
  <2>3. CASE Plug
    <3>1. sc' = sc /\ vf'.pc = vf.pc
      BY <1>1, <2>3 DEF Plug, VerifyState
    <3> QED BY <1>2, <2>1, <3>1
  <2> QED BY <1>3, <2>2, <2>3 DEF WorldStep, WriteDisk, RenameDisk
<1>4. ASSUME NEW s \in Scanners, ScanStep(s) PROVE Drafted'
  <2>1. /\ \A x \in Scanners \ {s} : sc'[x] = sc[x]
        /\ vf' = vf
    BY <1>1, <1>4, ScanFrame
  <2>2. CASE sc[s].pc = "idle"
    <3>1. UNCHANGED <<db, tx>> /\ sc'[s].pc # "reconcile"
      BY <1>1, <1>4, <2>2, StartsClean
    <3> QED BY <2>1, <3>1 DEF Drafted
  <2>3. CASE sc[s].pc # "idle"
    <3>1. vf'.pc # "run" /\ \A x \in Scanners \ {s} : sc'[x].pc = "idle"
      BY <1>1, <2>1, <2>3 DEF OneAtATime
    <3>2. sc'[s].pc = "reconcile" =>
            /\ db' = db
            /\ \A f \in FileIds : Archive!Scanned(LedgerEntry(db, f), LedgerEntry(tx', f))
      BY <1>4, ScanDrafts
    <3> QED BY <3>1, <3>2 DEF Drafted
  <2> QED BY <2>2, <2>3
<1>5. CASE VerifyStep
  <2>1. sc' = sc
    BY <1>5 DEF VerifyStep, VerifyBegin, VerifyMissing, VerifyUnreadable, VerifyBackfill,
                VerifyMatch, VerifyMismatch, Verified, VerifyCommit, VerifyFail
  <2>2. \A s \in Scanners : sc'[s].pc = "idle"
    <3>1. vf.pc = "run" \/ Quiet
      BY <1>5 DEF VerifyStep, VerifyBegin, MayStart, VerifyMissing, VerifyUnreadable,
                  VerifyBackfill, VerifyMatch, VerifyMismatch, Verifying, VerifyCommit,
                  VerifyFail
    <3> QED BY <1>1, <2>1, <3>1 DEF OneAtATime, Quiet
  <2>3. CASE VerifyBegin
    <3>1. UNCHANGED <<db, tx>> /\ tx = db
      BY <1>1, <2>3 DEF VerifyBegin, MayStart, TxFree
    <3> QED BY <2>2, <3>1 DEF Drafted, Archive!Verified
  <2>4. ASSUME NEW f \in FileIds,
               \/ VerifyMissing(f) \/ VerifyUnreadable(f)
               \/ VerifyBackfill(f) \/ VerifyMatch(f) \/ VerifyMismatch(f)
        PROVE  Drafted'
    <3>1. Only(tx, tx', f) /\ Archive!Verified(LedgerEntry(db, f), LedgerEntry(tx', f))
      BY <1>1, <2>4, VerdictsJudge DEF Certifies
    <3>2. db' = db /\ vf.pc = "run"
      BY <2>4 DEF VerifyMissing, VerifyUnreadable, VerifyBackfill, VerifyMatch,
                  VerifyMismatch, Verified, Verifying
    <3>3. ASSUME NEW g \in FileIds \ {f}
          PROVE  Archive!Verified(LedgerEntry(db, g), LedgerEntry(tx', g))
      <4>1. LedgerEntry(tx', g) = LedgerEntry(tx, g)
        BY <3>1, SameEntry DEF Only
      <4> QED BY <3>2, <4>1 DEF Drafted
    <3> QED BY <2>2, <3>1, <3>2, <3>3 DEF Drafted
  <2>5. CASE VerifyCommit \/ VerifyFail
    <3>1. vf'.pc = "idle"
      BY <2>5 DEF VerifyCommit, VerifyFail, VIdle
    <3> QED BY <2>2, <3>1 DEF Drafted
  <2> QED BY <1>5, <2>3, <2>4, <2>5 DEF VerifyStep
<1>6. CASE ReviewStep
  <2>1. Quiet /\ UNCHANGED <<sc, vf>>
    BY <1>6, ReviewIsQuiet
  <2> QED BY <2>1 DEF Quiet, Drafted
<1>7. CASE UNCHANGED vars
  BY <1>2, <1>7 DEF vars
<1> QED BY <1>3, <1>4, <1>5, <1>6, <1>7 DEF Next


\* A scan that commits makes of every File what a scan may.
LEMMA CommitScans ==
    ASSUME Gated, Drafted, NEW s \in Scanners, ScanCommit(s), NEW f \in FileIds
    PROVE  Archive!Scanned(LedgerEntry(db, f), LedgerEntry(db', f))
<1>1. /\ Observed /\ IInv /\ sc[s].pc = "reconcile" /\ sc[s].snap = db
      /\ db' = Accounted(s)
  BY DEF Gated, Observed, OwnRows, ScanCommit, ReadyToCommit, WriteThrough
<1>2. Faithful(sc[s], db, tx)
  BY <1>1 DEF Observed, Scanned
<1> DEFINE r == tx.row[f]
           v == db'.row[f]
<1>3. /\ v.cur = r.cur /\ db'.rev = tx.rev
      /\ f \in Undecoded(s) => v.presence = "present" /\ v.health = "unreadable"
      /\ f \notin Undecoded(s) => v.health = r.health
      /\ f \in Gone(s) \ Undecoded(s) => v.presence = "missing"
      /\ f \notin Undecoded(s) \cup Gone(s) => v = r
  BY <1>1, AccountedIs
<1>4. f \in Undecoded(s) \cup Gone(s) => f \in Files(db) \ sc[s].matched
  BY <1>1 DEF Undecoded, Gone, Unmatched
<1>5. f \in Undecoded(s) \cup Gone(s) => r = db.row[f] /\ tx.rev[f] = db.rev[f]
  BY <1>2, <1>4 DEF Faithful
<1>6. f \in Gone(s) => db.row[f].presence = "present"
  BY <1>1 DEF Gone
<1> HIDE DEF r, v
<1>7. CASE f \in Undecoded(s)
  <2>1. /\ f \in Files(db) /\ db'.rev[f] = db.rev[f] /\ v.cur = db.row[f].cur
        /\ v.presence = "present" /\ v.health \in {db.row[f].health, "unreadable"}
    BY <1>3, <1>4, <1>5, <1>7
  <2> QED BY <2>1, SeenEntry DEF v
<1>8. CASE f \in Gone(s) \ Undecoded(s)
  <2>1. /\ db'.rev[f] = db.rev[f] /\ v.cur = db.row[f].cur
        /\ v.presence = "missing" /\ v.health = db.row[f].health
        /\ db.row[f].presence = "present"
    BY <1>3, <1>5, <1>6, <1>8
  <2>2. Archive!Gone(LedgerEntry(db, f), LedgerEntry(db', f))
    BY <2>1, GoneEntry DEF v
  <2> QED BY <2>2 DEF Archive!Scanned
<1>9. CASE f \notin Undecoded(s) \cup Gone(s)
  <2>1. db'.row[f] = tx.row[f] /\ db'.rev[f] = tx.rev[f]
    BY <1>3, <1>9 DEF r, v
  <2>2. LedgerEntry(db', f) = LedgerEntry(tx, f)
    BY <2>1, SameEntry
  <2> QED BY <1>1, <2>2 DEF Drafted
<1> QED BY <1>7, <1>8, <1>9

\* Adoption renews the flagged File of its plan, and touches no other.
LEMMA AdoptionRenews ==
    ASSUME Gated, ExecuteAdopt
    PROVE  \E f \in FileIds :
              /\ LedgerEntry(db, f).health = "hash_mismatch"
              /\ Archive!Renewed(LedgerEntry(db, f), LedgerEntry(db', f))
              /\ \A g \in FileIds \ {f} : LedgerEntry(db', g) = LedgerEntry(db, g)
<1> DEFINE f == plan.file
           c == plan.evidence.bytes
<1>1. IInv /\ Told(db) /\ db \in Catalogue
  BY DEF Gated, Observed, IInv, TypeOK
<1>2. /\ f \in FileIds /\ f \in Files(db) /\ c \in Contents
      /\ Proved(plan, db, disk) /\ Only(db, db', f)
      /\ db'.row[f].cur = Len(db.rev[f]) + 1
      /\ db'.row[f].presence = "present" /\ db'.row[f].health = "ok"
      /\ db'.rev[f] = Renewed(db.rev[f], db.row[f].cur, c)
  BY <1>1, AdoptWrites
<1>3. /\ db.row[f].presence # "none" /\ db.row[f].health = "hash_mismatch"
      /\ Current(db, f).sha \notin {None, c}
  BY <1>2 DEF Proved, Files
<1>5. /\ db.rev[f] \in Seq(Revision) /\ Tells(db.row[f], db.rev[f])
      /\ db.row[f].sha = Current(db, f).sha
  BY <1>1, <1>2 DEF Catalogue, Told, Tells, Current
<1> HIDE DEF f, c
<1>6. Archive!Renewed(LedgerEntry(db, f), LedgerEntry(db', f))
  BY <1>2, <1>3, <1>5, RenewedEntry
<1>7. LedgerEntry(db, f).health = "hash_mismatch"
  BY <1>3, EntryHas
<1>8. \A g \in FileIds \ {f} : LedgerEntry(db', g) = LedgerEntry(db, g)
  BY <1>2, SameEntry DEF Only
<1> QED BY <1>2, <1>6, <1>7, <1>8

\* Entries have their type.
LEMMA EntryTyped ==
    ASSUME NEW t \in Catalogue, Told(t), Blank(t), NEW f \in FileIds
    PROVE  LedgerEntry(t, f) \in Archive!Entries
<1>1. t.row[f] \in Row /\ t.rev[f] \in Seq(Revision)
  BY DEF Catalogue
<1>2. t.row[f].presence \in {"none", "present", "missing"} /\ t.row[f].health \in Healths
  BY <1>1 DEF Row
<1>3. LedgerEntry(t, f).history \in Seq(Contents \cup {None})
  <2>1. CASE f \in Files(t)
    BY <1>1, <2>1, LatestIs DEF Told
  <2>2. CASE f \notin Files(t)
    <3>1. LedgerEntry(t, f).history = <<>>
      BY <2>2, EntryHas, BlankHistory DEF Blank, UnbornRow
    <3> QED BY <3>1
  <2> QED BY <2>1, <2>2
<1> QED BY <1>2, <1>3 DEF LedgerEntry, Archive!Entries, Healths, Archive!Healths

\* The catalogue starts as the ledger does.
LEMMA LedgerInit == Init => Archive!Init
<1> SUFFICES ASSUME Init PROVE Archive!Init
  OBVIOUS
<1>1. db = LegacyCatalogue
  BY DEF Init
<1>2. ASSUME NEW f \in FileIds
      PROVE  LedgerEntry(db, f) = IF f \in {g \in FileIds : Legacy[g] # None}
                                  THEN Archive!Entry(<<None>>, "present", "ok")
                                  ELSE Archive!Unborn
  <2>1. CASE Legacy[f] = None
    <3>1. db.row[f] = UnbornRow /\ db.rev[f] = <<>>
      BY <1>1, <2>1 DEF LegacyCatalogue
    <3> QED BY <2>1, <3>1, EntryIs, BlankHistory DEF UnbornRow, Archive!Unborn
  <2>2. CASE Legacy[f] # None
    <3>1. /\ db.row[f].presence = "present" /\ db.row[f].health = "ok" /\ db.row[f].cur = 1
          /\ db.rev[f] = <<[sha |-> None, superseded |-> FALSE]>>
      BY <1>1, <2>2 DEF LegacyCatalogue
    <3>2. History(db.rev[f], db.row[f].cur) = <<None>>
      BY <3>1, FirstHistory
    <3> QED BY <2>2, <3>1, <3>2, EntryIs
  <2> QED BY <2>1, <2>2
<1> QED BY <1>2 DEF Archive!Init

\* Every step is one of the ledger's, or none.
LEMMA LedgerStep ==
    ASSUME Gated, Drafted, Gated', [Next]_vars
    PROVE  [Archive!Next]_([f \in FileIds |-> LedgerEntry(db, f)])
<1> DEFINE e == [f \in FileIds |-> LedgerEntry(db, f)]
           n == [f \in FileIds |-> LedgerEntry(db', f)]
<1>1. e' = n
  OBVIOUS
<1>2. CASE db' = db
  BY <1>1, <1>2
<1>3. n \in [FileIds -> Archive!Entries]
  BY EntryTyped DEF Gated, Observed, IInv, TypeOK
<1>4. ASSUME NEW s \in Scanners, ScanStep(s), db' # db PROVE Archive!Next
  <2>1. ScanCommit(s)
    BY <1>4 DEF ScanStep, ScanOffline, ScanOpen, ScanSelect, ScanLock, VisitBlind,
                VisitAbsent, VisitUnreadable, VisitDecoded, Walked, EndWalk, KnownBackfill,
                KnownUnchanged, KnownHeld, KnownModified, OrphanRestored, OrphanMoved,
                OrphanAmbiguous, OrphanCopied, OrphanNew, Inserted, Reconciled, ScanFail
  <2>2. Archive!Scan
    BY <2>1, CommitScans DEF Archive!Scan
  <2> QED BY <1>1, <1>3, <2>2 DEF Archive!Next
<1>5. CASE VerifyStep /\ db' # db
  <2>1. db' = tx /\ vf.pc = "run"
    BY <1>5 DEF VerifyStep, VerifyBegin, VerifyMissing, VerifyUnreadable, VerifyBackfill,
                VerifyMatch, VerifyMismatch, Verified, VerifyCommit, VerifyFail
  <2>2. Archive!Verify
    BY <2>1 DEF Drafted, Archive!Verify
  <2> QED BY <1>1, <1>3, <2>2 DEF Archive!Next
<1>6. CASE ReviewStep /\ db' # db
  <2>1. ExecuteAdopt
    BY <1>6 DEF ReviewStep, PlanResolution, ExecuteBegin, ExecuteRecord, ExecuteFail
  <2>2. PICK f \in FileIds :
              /\ LedgerEntry(db, f).health = "hash_mismatch"
              /\ Archive!Renewed(LedgerEntry(db, f), LedgerEntry(db', f))
              /\ \A g \in FileIds \ {f} : LedgerEntry(db', g) = LedgerEntry(db, g)
    BY <2>1, AdoptionRenews
  <2>3. Archive!Adopt(f)
    BY <2>2 DEF Archive!Adopt
  <2> QED BY <1>1, <1>3, <2>3 DEF Archive!Next
<1>7. CASE WorldStep \/ UNCHANGED vars
  <2>1. db' = db
    BY <1>7 DEF WorldStep, WriteDisk, RenameDisk, Disturb, Plug, vars
  <2> QED BY <1>2, <2>1
<1> QED BY <1>2, <1>4, <1>5, <1>6, <1>7 DEF Next

\* With the busy gate the catalogue implements FileLedger: every commit, of
\* whatever operation and after whatever was abandoned before it, takes each
\* File one of the ledger's steps at most.
THEOREM ArchiveKeepsLedger ==
    ASSUME Serial = TRUE
    PROVE  Spec => KeepsLedger
<1>1. Gated /\ Init => Drafted
  <2>1. Init => \A s \in Scanners : sc[s].pc = "idle"
    BY DEF Init, Idle
  <2>2. Init => vf.pc = "idle"
    BY DEF Init, VIdle
  <2> QED BY <2>1, <2>2 DEF Drafted
<1>2. Gated /\ Drafted /\ [Next]_vars => Drafted'
  BY NextDrafted
<1>3. Spec => [](Gated /\ Drafted)
  BY <1>1, <1>2, InitGated, AlwaysGated, PTL DEF Spec
<1>4. Gated /\ Drafted /\ Gated' /\ [Next]_vars =>
        [Archive!Next]_([f \in FileIds |-> LedgerEntry(db, f)])
  BY LedgerStep
<1> QED BY <1>3, <1>4, LedgerInit, AlwaysGated, PTL DEF Spec, KeepsLedger, Archive!Spec

=============================================================================
