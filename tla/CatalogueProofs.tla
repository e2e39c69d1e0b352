--------------------------- MODULE CatalogueProofs ---------------------------
(***************************************************************************)
(* What the operators on catalogues preserve, for every set of Files,      *)
(* paths and contents: a catalogue stays well-typed, every File in it      *)
(* keeps a path, a Photo and a live current revision, and no File is ever  *)
(* forgotten.  Then what exactly each of them writes, what keeps the row   *)
(* of a File and its revisions telling one story, and what becomes of the  *)
(* contents they have had.  The steps of scan, Verify and resolution cite  *)
(* these facts.                                                            *)
(***************************************************************************)
EXTENDS Catalogue, SequenceTheorems, TLAPS

Sound(t) == t \in Catalogue /\ Located(t) /\ CurrentLive(t)

\* t became u: u is sound too, and knows every File that t knows.
Grows(t, u) == Sound(u) /\ Files(t) \subseteq Files(u)

-----------------------------------------------------------------------------
(* Revisions of one File.                                                  *)

\* Writing over one revision, whichever, leaves a sequence of revisions of the
\* same length.
LEMMA RewrittenRevision ==
    ASSUME NEW q \in Seq(Revision), NEW i \in 1 .. Len(q), NEW v \in Revision
    PROVE  LET u == [q EXCEPT ![i] = v]
           IN  /\ u \in Seq(Revision)
               /\ Len(u) = Len(q)
               /\ \A j \in 1 .. Len(q) : u[j] = IF j = i THEN v ELSE q[j]
<1> DEFINE u == [q EXCEPT ![i] = v]
<1>1. q \in [1 .. Len(q) -> Revision] /\ Len(q) \in Nat
  OBVIOUS
<1>2. u \in [1 .. Len(q) -> Revision]
  BY <1>1
<1>3. \A j \in 1 .. Len(q) : u[j] = IF j = i THEN v ELSE q[j]
  BY <1>1
<1> HIDE DEF u
<1>4. u \in Seq(Revision) /\ Len(u) = Len(q)
  BY <1>1, <1>2
<1> QED BY <1>3, <1>4 DEF u

\* Changing the content of one revision, whichever, leaves every revision
\* superseded exactly where it was.
LEMMA FilledRevisions ==
    ASSUME NEW q \in Seq(Revision), NEW i \in Nat, NEW c \in Contents \cup {None}
    PROVE  /\ Filled(q, i, c) \in Seq(Revision)
           /\ Len(Filled(q, i, c)) = Len(q)
           /\ \A j \in 1 .. Len(q) : Filled(q, i, c)[j].superseded = q[j].superseded
<1> DEFINE v == [sha |-> c, superseded |-> q[i].superseded]
<1>1. CASE i \in 1 .. Len(q)
  <2> q[i] \in Revision
    BY <1>1
  <2>1. v \in Revision /\ v.superseded = q[i].superseded
    BY DEF Revision
  <2>2. Filled(q, i, c) = [q EXCEPT ![i] = v]
    BY DEF Filled
  <2> HIDE DEF v
  <2> QED BY <1>1, <2>1, <2>2, RewrittenRevision
<1>2. CASE i \notin 1 .. Len(q)
  <2>1. Filled(q, i, c) = q
    BY <1>2 DEF Filled
  <2> QED BY <2>1
<1> QED BY <1>1, <1>2

\* Superseding one revision, whichever, leaves as many revisions,
LEMMA RetiredRevisions ==
    ASSUME NEW q \in Seq(Revision), NEW i \in Nat
    PROVE  Retired(q, i) \in Seq(Revision) /\ Len(Retired(q, i)) = Len(q)
<1> DEFINE v == [sha |-> q[i].sha, superseded |-> TRUE]
<1>1. CASE i \in 1 .. Len(q)
  <2> q[i] \in Revision
    BY <1>1
  <2>1. v \in Revision
    BY DEF Revision
  <2>2. Retired(q, i) = [q EXCEPT ![i] = v]
    BY DEF Retired
  <2> HIDE DEF v
  <2> QED BY <1>1, <2>1, <2>2, RewrittenRevision
<1>2. CASE i \notin 1 .. Len(q)
  <2>1. Retired(q, i) = q
    BY <1>2 DEF Retired
  <2> QED BY <2>1
<1> QED BY <1>1, <1>2

\* ... and a new revision appended to it is its last, and live.
LEMMA AppendedRevision ==
    ASSUME NEW q \in Seq(Revision), NEW c \in Contents \cup {None}
    PROVE  LET u == Append(q, [sha |-> c, superseded |-> FALSE])
           IN  /\ u \in Seq(Revision)
               /\ Len(u) = Len(q) + 1
               /\ ~u[Len(q) + 1].superseded
<1> DEFINE new == [sha |-> c, superseded |-> FALSE]
<1>1. new \in Revision /\ ~new.superseded
  BY DEF Revision
<1> HIDE DEF new
<1>2. /\ Append(q, new) \in Seq(Revision)
      /\ Len(Append(q, new)) = Len(q) + 1
      /\ Append(q, new)[Len(q) + 1] = new
  BY <1>1
<1> QED BY <1>1, <1>2 DEF new

-----------------------------------------------------------------------------
(* Rows.                                                                   *)

\* A row that may stand for a catalogued File with revisions q.
Proper(r, q) ==
    /\ r \in Row /\ r.presence # "none"
    /\ r.path \in Paths /\ r.photo \in FileIds
    /\ r.cur \in 1 .. Len(q) /\ ~q[r.cur].superseded

\* The row of a catalogued File is a proper one.
LEMMA RowProper ==
    ASSUME NEW t, Sound(t), NEW f \in Files(t)
    PROVE  Proper(t.row[f], t.rev[f])
<1>1. f \in FileIds /\ t.row[f] \in Row
  BY DEF Sound, Files, Catalogue
<1> QED BY <1>1 DEF Sound, Files, Located, CurrentLive, Current, Proper

\* Writing a proper row and its revisions grows a sound catalogue.
LEMMA PutGrows ==
    ASSUME NEW t, Sound(t), NEW f \in FileIds,
           NEW q \in Seq(Revision), NEW r, Proper(r, q)
    PROVE  LET u == PutRow(PutRev(t, f, q), f, r)
           IN  Grows(t, u) /\ f \in Files(u)
<1> DEFINE u == PutRow(PutRev(t, f, q), f, r)
<1>1. t \in Catalogue
  BY DEF Sound
<1>2. u = [row |-> [t.row EXCEPT ![f] = r], rev |-> [t.rev EXCEPT ![f] = q],
           obs |-> t.obs]
  BY <1>1 DEF Catalogue, PutRow, PutRev
<1>3. u \in Catalogue
  BY <1>1, <1>2 DEF Catalogue, Proper
<1>4. /\ u.row[f] = r /\ u.rev[f] = q
      /\ \A g \in FileIds \ {f} : u.row[g] = t.row[g] /\ u.rev[g] = t.rev[g]
  BY <1>1, <1>2 DEF Catalogue
<1> HIDE DEF u
<1>5. Files(u) = Files(t) \cup {f}
  BY <1>4 DEF Files, Proper
<1>6. \A g \in Files(t) : g \in FileIds
  BY DEF Files
<1>7. Located(u)
  BY <1>4, <1>5, <1>6 DEF Located, Sound, Proper
<1>8. CurrentLive(u)
  BY <1>4, <1>5, <1>6 DEF CurrentLive, Current, Sound, Proper
<1> QED BY <1>3, <1>5, <1>7, <1>8 DEF Grows, Sound, u

\* Writing a proper row over the revisions a File has grows it as well.
LEMMA PutRowGrows ==
    ASSUME NEW t, Sound(t), NEW f \in FileIds, NEW r, Proper(r, t.rev[f])
    PROVE  Grows(t, PutRow(t, f, r)) /\ f \in Files(PutRow(t, f, r))
<1>1. t \in Catalogue /\ t.rev[f] \in Seq(Revision)
  BY DEF Sound, Catalogue
<1>2. PutRev(t, f, t.rev[f]) = t
  BY <1>1 DEF PutRev, Catalogue
<1> QED BY <1>1, <1>2, PutGrows

-----------------------------------------------------------------------------
(* The statements of scan, Verify and resolution.                          *)

\* A File the catalogue knows stays sound when it is seen again, at any path,
LEMMA RefreshGrows ==
    ASSUME NEW t, Sound(t), NEW f \in Files(t), NEW p \in Paths
    PROVE  Grows(t, Refresh(t, f, p)) /\ f \in Files(Refresh(t, f, p))
<1>1. f \in FileIds /\ Proper(t.row[f], t.rev[f])
  BY RowProper DEF Files
<1>2. Proper(At(t.row[f], p), t.rev[f])
  BY <1>1 DEF Proper, At, Row
<1> QED BY <1>1, <1>2, PutRowGrows DEF Refresh

\* ... when it is relocated,
LEMMA RelocateGrows ==
    ASSUME NEW t, Sound(t), NEW f \in Files(t), NEW p \in Paths, NEW c \in Contents
    PROVE  Grows(t, Relocate(t, f, p, c)) /\ f \in Files(Relocate(t, f, p, c))
<1>1. f \in FileIds /\ Proper(t.row[f], t.rev[f])
  BY RowProper DEF Files
<1>2. Proper([At(t.row[f], p) EXCEPT !.sha = c], t.rev[f])
  BY <1>1 DEF Proper, At, Row
<1> QED BY <1>1, <1>2, PutRowGrows DEF Relocate

\* ... when Verify gives it another health,
LEMMA SetHealthGrows ==
    ASSUME NEW t, Sound(t), NEW f \in Files(t), NEW h \in Healths
    PROVE  Grows(t, SetHealth(t, f, h))
<1>1. f \in FileIds /\ Proper(t.row[f], t.rev[f])
  BY RowProper DEF Files
<1>2. Proper([t.row[f] EXCEPT !.health = h], t.rev[f])
  BY <1>1 DEF Proper, Row
<1> QED BY <1>1, <1>2, PutRowGrows DEF SetHealth

\* ... or marks it missing,
LEMMA SetMissingGrows ==
    ASSUME NEW t, Sound(t), NEW f \in Files(t)
    PROVE  Grows(t, SetMissing(t, f))
<1>1. f \in FileIds /\ Proper(t.row[f], t.rev[f])
  BY RowProper DEF Files
<1>2. Proper([t.row[f] EXCEPT !.presence = "missing"], t.rev[f])
  BY <1>1 DEF Proper, Row
<1> QED BY <1>1, <1>2, PutRowGrows DEF SetMissing

\* ... or records an observation of it,
LEMMA ObserveGrows ==
    ASSUME NEW t, Sound(t), NEW f \in FileIds
    PROVE  Grows(t, Observe(t, f))
<1>1. /\ Observe(t, f) \in Catalogue
      /\ Observe(t, f).row = t.row /\ Observe(t, f).rev = t.rev
  BY DEF Sound, Catalogue, Observe
<1> QED BY <1>1 DEF Sound, Grows, Files, Located, CurrentLive, Current

\* ... when a content-less revision is completed, even if it is not the
\* current one (the caller read its number from rows that may be stale),
LEMMA CompleteGrows ==
    ASSUME NEW t, Sound(t), NEW f \in Files(t), NEW i \in Nat, NEW c \in Contents,
           NEW r, Proper(r, t.rev[f])
    PROVE  Grows(t, Complete(t, f, i, c, r)) /\ f \in Files(Complete(t, f, i, c, r))
<1>1. f \in FileIds /\ t.rev[f] \in Seq(Revision)
  BY DEF Files, Sound, Catalogue
<1> DEFINE q == Filled(t.rev[f], i, c)
           n == [r EXCEPT !.sha = c]
<1>2. /\ q \in Seq(Revision)
      /\ Len(q) = Len(t.rev[f])
      /\ \A j \in 1 .. Len(t.rev[f]) : q[j].superseded = t.rev[f][j].superseded
  BY <1>1, FilledRevisions
<1>3. Proper(n, q)
  <2>1. n \in Row /\ n.presence = r.presence /\ n.path = r.path
        /\ n.photo = r.photo /\ n.cur = r.cur
    BY DEF Proper, Row
  <2> HIDE DEF n, q
  <2> QED BY <1>2, <2>1 DEF Proper
<1>4. Complete(t, f, i, c, r) = PutRow(PutRev(t, f, q), f, n)
  BY DEF Complete
<1> HIDE DEF q, n
<1> QED BY <1>1, <1>2, <1>3, <1>4, PutGrows

\* ... when a revision, current or not, is superseded by a new one,
LEMMA SupersedeGrows ==
    ASSUME NEW t, Sound(t), NEW f \in Files(t), NEW i \in Nat, NEW c \in Contents,
           NEW r, Proper(r, t.rev[f])
    PROVE  Grows(t, Supersede(t, f, i, c, r)) /\ f \in Files(Supersede(t, f, i, c, r))
<1>1. f \in FileIds /\ t.rev[f] \in Seq(Revision)
  BY DEF Files, Sound, Catalogue
<1> DEFINE q == Append(Retired(t.rev[f], i), [sha |-> c, superseded |-> FALSE])
           m == Len(t.rev[f]) + 1
           n == [r EXCEPT !.cur = m, !.sha = c, !.health = "ok"]
<1>2. /\ q \in Seq(Revision)
      /\ Len(q) = Len(t.rev[f]) + 1
      /\ ~q[Len(t.rev[f]) + 1].superseded
  BY <1>1, RetiredRevisions, AppendedRevision
<1>3. Proper(n, q)
  <2> m \in Nat /\ r \in Row
    BY <1>1 DEF Proper
  <2> HIDE DEF m
  <2>1. n \in Row /\ n.presence = r.presence /\ n.path = r.path
        /\ n.photo = r.photo /\ n.cur = m
    BY DEF Row, Healths
  <2> HIDE DEF n, q
  <2> USE DEF m
  <2> QED BY <1>1, <1>2, <2>1 DEF Proper
<1>4. Supersede(t, f, i, c, r) = PutRow(PutRev(t, f, q), f, n)
  BY DEF Supersede
<1> HIDE DEF q, n
<1> QED BY <1>1, <1>2, <1>3, <1>4, PutGrows

\* ... and a new File is sound from its first row on.
LEMMA InsertGrows ==
    ASSUME NEW t, Sound(t), NEW f \in FileIds, NEW p \in Paths, NEW c \in Contents,
           NEW ph \in FileIds
    PROVE  Grows(t, Insert(t, f, p, c, ph)) /\ f \in Files(Insert(t, f, p, c, ph))
<1> DEFINE q == <<[sha |-> c, superseded |-> FALSE]>>
           r == [presence |-> "present", health |-> "ok", path |-> p,
                 sha |-> c, photo |-> ph, cur |-> 1, lib |-> TRUE]
<1>1. q \in Seq(Revision) /\ Len(q) = 1 /\ ~q[1].superseded
  BY DEF Revision
<1>2. Proper(r, q)
  BY <1>1 DEF Proper, Row, Healths
<1>3. Insert(t, f, p, c, ph) = PutRow(PutRev(t, f, q), f, r)
  BY DEF Insert
<1> HIDE DEF q, r
<1> QED BY <1>1, <1>2, <1>3, PutGrows

-----------------------------------------------------------------------------
(* What exactly each statement writes.                                     *)

\* u is t except for the row and the revisions of f.
Only(t, u, f) ==
    \A g \in FileIds \ {f} : u.row[g] = t.row[g] /\ u.rev[g] = t.rev[g]

\* The two UPDATEs write what they are given, and nothing else.
LEMMA PutIs ==
    ASSUME NEW t \in Catalogue, NEW f \in FileIds, NEW q, NEW r
    PROVE  LET u == PutRow(PutRev(t, f, q), f, r)
           IN  u.row[f] = r /\ u.rev[f] = q /\ u.obs = t.obs /\ Only(t, u, f)
<1> DEFINE u == PutRow(PutRev(t, f, q), f, r)
<1>1. u = [row |-> [t.row EXCEPT ![f] = r], rev |-> [t.rev EXCEPT ![f] = q],
           obs |-> t.obs]
  BY DEF Catalogue, PutRow, PutRev
<1>2. /\ u.row = [t.row EXCEPT ![f] = r] /\ u.rev = [t.rev EXCEPT ![f] = q]
      /\ u.obs = t.obs
  BY <1>1
<1> HIDE DEF u
<1> QED BY <1>2 DEF Catalogue, Only, u

LEMMA PutRowIs ==
    ASSUME NEW t \in Catalogue, NEW f \in FileIds, NEW r
    PROVE  LET u == PutRow(t, f, r)
           IN  u.row[f] = r /\ u.rev = t.rev /\ u.obs = t.obs /\ Only(t, u, f)
<1> DEFINE u == PutRow(t, f, r)
<1>1. u.row = [t.row EXCEPT ![f] = r] /\ u.rev = t.rev /\ u.obs = t.obs
  BY DEF Catalogue, PutRow
<1> HIDE DEF u
<1> QED BY <1>1 DEF Catalogue, Only, u

\* A row seen again is present at that path, and otherwise what it was.
LEMMA AtIs ==
    ASSUME NEW r \in Row, NEW p \in Paths
    PROVE  LET v == At(r, p)
           IN  /\ v \in Row /\ v.presence = "present" /\ v.path = p /\ v.health = r.health
               /\ v.sha = r.sha /\ v.photo = r.photo /\ v.cur = r.cur
  BY DEF At, Row

\* The rows that the statements of a scan write.
LEMMA RefreshIs ==
    ASSUME NEW t \in Catalogue, NEW f \in FileIds, NEW p \in Paths
    PROVE  LET u == Refresh(t, f, p)
           IN  /\ u.row[f] = At(t.row[f], p) /\ u.rev[f] = t.rev[f]
               /\ u.obs = t.obs /\ Only(t, u, f)
  BY PutRowIs DEF Refresh

LEMMA RelocateIs ==
    ASSUME NEW t \in Catalogue, NEW f \in FileIds, NEW p \in Paths, NEW c \in Contents
    PROVE  LET u == Relocate(t, f, p, c)
           IN  /\ u.row[f].presence = "present" /\ u.row[f].path = p
               /\ u.row[f].sha = c /\ u.row[f].health = t.row[f].health
               /\ u.row[f].photo = t.row[f].photo /\ u.row[f].cur = t.row[f].cur
               /\ u.rev[f] = t.rev[f] /\ u.obs = t.obs /\ Only(t, u, f)
<1> DEFINE a == At(t.row[f], p)
           r == [a EXCEPT !.sha = c]
           u == Relocate(t, f, p, c)
<1>1. u.row[f] = r /\ u.rev = t.rev /\ u.obs = t.obs /\ Only(t, u, f)
  BY PutRowIs DEF Relocate
<1>2. t.row[f] \in Row
  BY DEF Catalogue
<1>3. /\ a \in Row /\ a.presence = "present" /\ a.path = p /\ a.health = t.row[f].health
      /\ a.photo = t.row[f].photo /\ a.cur = t.row[f].cur
  BY <1>2, AtIs
<1> HIDE DEF u, a
<1> QED BY <1>1, <1>3 DEF Row, u

LEMMA CompleteIs ==
    ASSUME NEW t \in Catalogue, NEW f \in FileIds, NEW i, NEW c \in Contents, NEW r \in Row
    PROVE  LET u == Complete(t, f, i, c, r)
               v == u.row[f]
           IN  /\ v.sha = c /\ v.presence = r.presence /\ v.path = r.path
               /\ v.health = r.health /\ v.photo = r.photo /\ v.cur = r.cur
               /\ u.rev[f] = Filled(t.rev[f], i, c) /\ u.obs = t.obs /\ Only(t, u, f)
<1> DEFINE u == Complete(t, f, i, c, r)
           n == [r EXCEPT !.sha = c]
<1>1. /\ u.row[f] = n /\ u.rev[f] = Filled(t.rev[f], i, c) /\ u.obs = t.obs
      /\ Only(t, u, f)
  BY PutIs DEF Complete
<1>2. /\ n.sha = c /\ n.presence = r.presence /\ n.path = r.path
      /\ n.health = r.health /\ n.photo = r.photo /\ n.cur = r.cur
  BY DEF Row
<1> HIDE DEF u, n
<1> QED BY <1>1, <1>2 DEF u

\* The ledger with revision i superseded by a new one.
Renewed(q, i, c) == Append(Retired(q, i), [sha |-> c, superseded |-> FALSE])

LEMMA SupersedeIs ==
    ASSUME NEW t \in Catalogue, NEW f \in FileIds, NEW i, NEW c \in Contents, NEW r \in Row
    PROVE  LET u == Supersede(t, f, i, c, r)
               v == u.row[f]
           IN  /\ v.sha = c /\ v.presence = r.presence /\ v.path = r.path
               /\ v.health = "ok" /\ v.photo = r.photo /\ v.cur = Len(t.rev[f]) + 1
               /\ u.rev[f] = Renewed(t.rev[f], i, c)
               /\ u.obs = t.obs /\ Only(t, u, f)
<1> DEFINE u == Supersede(t, f, i, c, r)
           m == Len(t.rev[f]) + 1
           q == Renewed(t.rev[f], i, c)
           n == [r EXCEPT !.cur = m, !.sha = c, !.health = "ok"]
<1>1. u.row[f] = n /\ u.rev[f] = q /\ u.obs = t.obs /\ Only(t, u, f)
  BY PutIs DEF Supersede, Renewed
<1> HIDE DEF m
<1>2. /\ n.sha = c /\ n.presence = r.presence /\ n.path = r.path
      /\ n.health = "ok" /\ n.photo = r.photo /\ n.cur = m
  BY DEF Row
<1> HIDE DEF u, n, q
<1> QED BY <1>1, <1>2 DEF u, m, q

LEMMA InsertIs ==
    ASSUME NEW t \in Catalogue, NEW f \in FileIds, NEW p \in Paths, NEW c \in Contents,
           NEW ph
    PROVE  LET u == Insert(t, f, p, c, ph)
               v == u.row[f]
           IN  /\ v.sha = c /\ v.presence = "present" /\ v.path = p
               /\ v.health = "ok" /\ v.photo = ph /\ v.cur = 1
               /\ u.rev[f] = <<[sha |-> c, superseded |-> FALSE]>>
               /\ u.obs = t.obs /\ Only(t, u, f)
<1> DEFINE u == Insert(t, f, p, c, ph)
           q == <<[sha |-> c, superseded |-> FALSE]>>
           n == [presence |-> "present", health |-> "ok", path |-> p,
                 sha |-> c, photo |-> ph, cur |-> 1, lib |-> TRUE]
<1>1. u.row[f] = n /\ u.rev[f] = q /\ u.obs = t.obs /\ Only(t, u, f)
  BY PutIs DEF Insert
<1>2. /\ n.sha = c /\ n.presence = "present" /\ n.path = p
      /\ n.health = "ok" /\ n.photo = ph /\ n.cur = 1
  OBVIOUS
<1> HIDE DEF u, n, q
<1> QED BY <1>1, <1>2 DEF u, q

\* The rows that Verify writes.
LEMMA SetHealthIs ==
    ASSUME NEW t \in Catalogue, NEW f \in FileIds, NEW h
    PROVE  LET u == SetHealth(t, f, h)
               v == u.row[f]
               r == t.row[f]
           IN  /\ v.health = h /\ v.presence = r.presence /\ v.path = r.path
               /\ v.sha = r.sha /\ v.photo = r.photo /\ v.cur = r.cur
               /\ u.rev = t.rev /\ u.obs = t.obs /\ Only(t, u, f)
<1> DEFINE u == SetHealth(t, f, h)
           n == [t.row[f] EXCEPT !.health = h]
<1>1. u.row[f] = n /\ u.rev = t.rev /\ u.obs = t.obs /\ Only(t, u, f)
  BY PutRowIs DEF SetHealth
<1>2. t.row[f] \in Row
  BY DEF Catalogue
<1>3. /\ n.health = h /\ n.presence = t.row[f].presence /\ n.path = t.row[f].path
      /\ n.sha = t.row[f].sha /\ n.photo = t.row[f].photo /\ n.cur = t.row[f].cur
  BY <1>2 DEF Row
<1> HIDE DEF u, n
<1> QED BY <1>1, <1>3 DEF u

LEMMA SetMissingIs ==
    ASSUME NEW t \in Catalogue, NEW f \in FileIds
    PROVE  LET u == SetMissing(t, f)
               v == u.row[f]
               r == t.row[f]
           IN  /\ v.presence = "missing" /\ v.health = r.health /\ v.path = r.path
               /\ v.sha = r.sha /\ v.photo = r.photo /\ v.cur = r.cur
               /\ u.rev = t.rev /\ u.obs = t.obs /\ Only(t, u, f)
<1> DEFINE u == SetMissing(t, f)
           n == [t.row[f] EXCEPT !.presence = "missing"]
<1>1. u.row[f] = n /\ u.rev = t.rev /\ u.obs = t.obs /\ Only(t, u, f)
  BY PutRowIs DEF SetMissing
<1>2. t.row[f] \in Row
  BY DEF Catalogue
<1>3. /\ n.presence = "missing" /\ n.health = t.row[f].health /\ n.path = t.row[f].path
      /\ n.sha = t.row[f].sha /\ n.photo = t.row[f].photo /\ n.cur = t.row[f].cur
  BY <1>2 DEF Row
<1> HIDE DEF u, n
<1> QED BY <1>1, <1>3 DEF u

-----------------------------------------------------------------------------
(* What the rows of a File tell together.                                  *)

\* One story: exactly the current revision, the last one, is live, and the row
\* mirrors it.
Tells(r, q) ==
    /\ r.cur \in 1 .. Len(q) /\ r.cur = Len(q)
    /\ \A i \in 1 .. Len(q) : ~q[i].superseded <=> i = r.cur
    /\ r.sha = q[r.cur].sha

Told(t) == \A f \in Files(t) : Tells(t.row[f], t.rev[f])

\* q became u as an append-only ledger may.
Extends(q, u) ==
    /\ Len(q) <= Len(u)
    /\ \A i \in 1 .. Len(q) : /\ q[i].sha \in {None, u[i].sha}
                              /\ q[i].superseded => u[i].superseded

LEMMA ExtendsItself == ASSUME NEW q \in Seq(Revision) PROVE Extends(q, q)
  BY DEF Extends

\* Completing the current revision keeps the story, and extends the ledger if
\* that revision had no content.
LEMMA FilledTells ==
    ASSUME NEW q \in Seq(Revision), NEW r, Tells(r, q), NEW c \in Contents,
           NEW v, v.cur = r.cur, v.sha = c
    PROVE  /\ Tells(v, Filled(q, r.cur, c))
           /\ q[r.cur].sha = None => Extends(q, Filled(q, r.cur, c))
<1> DEFINE i == r.cur
           w == [sha |-> c, superseded |-> q[i].superseded]
<1>1. i \in 1 .. Len(q)
  BY DEF Tells
<1>2. q[i] \in Revision
  BY <1>1
<1>3. w \in Revision /\ w.sha = c /\ w.superseded = q[i].superseded
  BY <1>2 DEF Revision
<1>4. Filled(q, i, c) = [q EXCEPT ![i] = w]
  BY DEF Filled
<1> DEFINE u == Filled(q, i, c)
<1> HIDE DEF w, i
<1>5. /\ u \in Seq(Revision) /\ Len(u) = Len(q)
      /\ \A j \in 1 .. Len(q) : u[j] = IF j = i THEN w ELSE q[j]
  BY <1>1, <1>3, <1>4, RewrittenRevision
<1> HIDE DEF u
<1>6. \A j \in 1 .. Len(q) : u[j].superseded = q[j].superseded
  BY <1>3, <1>5
<1>7. u[i].sha = c
  BY <1>1, <1>3, <1>5
<1>8. Tells(v, u)
  BY <1>1, <1>5, <1>6, <1>7 DEF Tells, i
<1>9. ASSUME q[i].sha = None PROVE Extends(q, u)
  BY <1>1, <1>3, <1>5, <1>6, <1>9 DEF Extends
<1> QED BY <1>8, <1>9 DEF i, u

\* A revision that supersedes the current one is the one told of from then on.
LEMMA RetiredTells ==
    ASSUME NEW q \in Seq(Revision), NEW r, Tells(r, q), NEW c \in Contents,
           NEW v, v.cur = Len(q) + 1, v.sha = c
    PROVE  LET u == Renewed(q, r.cur, c)
           IN  Tells(v, u) /\ Extends(q, u)
<1> DEFINE i == r.cur
           w == [sha |-> q[i].sha, superseded |-> TRUE]
           k == Retired(q, i)
           n == [sha |-> c, superseded |-> FALSE]
           u == Append(k, n)
<1>1. i \in 1 .. Len(q) /\ \A j \in 1 .. Len(q) : ~q[j].superseded <=> j = i
  BY DEF Tells
<1>2. q[i] \in Revision
  BY <1>1
<1>3. w \in Revision /\ w.sha = q[i].sha /\ w.superseded
  BY <1>2 DEF Revision
<1>4. k = [q EXCEPT ![i] = w]
  BY DEF Retired
<1> HIDE DEF w, i
<1>5. /\ k \in Seq(Revision) /\ Len(k) = Len(q)
      /\ \A j \in 1 .. Len(q) : k[j] = IF j = i THEN w ELSE q[j]
  BY <1>1, <1>3, <1>4, RewrittenRevision
<1>6. n \in Revision /\ n.sha = c /\ ~n.superseded
  BY DEF Revision
<1> HIDE DEF k, n
<1>7. /\ Len(u) = Len(q) + 1 /\ u[Len(q) + 1] = n
      /\ \A j \in 1 .. Len(q) : u[j] = k[j]
  BY <1>5, <1>6
<1> HIDE DEF u
<1>8. \A j \in 1 .. Len(q) : u[j].superseded /\ u[j].sha = q[j].sha
  BY <1>1, <1>3, <1>5, <1>7
<1>9. Len(q) \in Nat
  OBVIOUS
<1>10. Tells(v, u)
  BY <1>6, <1>7, <1>8, <1>9 DEF Tells
<1>11. Extends(q, u)
  BY <1>7, <1>8, <1>9 DEF Extends
<1> QED BY <1>10, <1>11 DEF u, k, n, i, Renewed

\* The first revision of a new File.
LEMMA FirstTells ==
    ASSUME NEW c \in Contents, NEW v, v.cur = 1, v.sha = c
    PROVE  /\ Tells(v, <<[sha |-> c, superseded |-> FALSE]>>)
           /\ Extends(<<>>, <<[sha |-> c, superseded |-> FALSE]>>)
<1> DEFINE n == [sha |-> c, superseded |-> FALSE]
           q == <<n>>
<1>1. n.sha = c /\ ~n.superseded
  OBVIOUS
<1> HIDE DEF n
<1>2. Len(q) = 1 /\ q[1] = n
  OBVIOUS
<1> HIDE DEF q
<1>3. Tells(v, q)
  BY <1>1, <1>2 DEF Tells
<1>4. Extends(<<>>, q)
  BY <1>2 DEF Extends
<1> QED BY <1>3, <1>4 DEF q, n

\* Rows that tell one story do so when one File's change.
LEMMA StillTold ==
    ASSUME NEW t, NEW u, NEW f \in FileIds, Told(t), Only(t, u, f),
           Tells(u.row[f], u.rev[f])
    PROVE  Told(u)
  BY DEF Told, Only, Files

-----------------------------------------------------------------------------
(* The contents that the revisions of a File have had.                     *)

\* A history is a sequence of contents, and each of them its revision's.
LEMMA HistoryIs ==
    ASSUME NEW q \in Seq(Revision), NEW n \in 0 .. Len(q)
    PROVE  /\ History(q, n) \in Seq(Contents \cup {None}) /\ Len(History(q, n)) = n
           /\ \A i \in 1 .. n : History(q, n)[i] = q[i].sha
<1>1. n \in Nat
  OBVIOUS
<1>2. ASSUME NEW i \in 1 .. n PROVE q[i].sha \in Contents \cup {None}
  <2>1. q[i] \in Revision
    OBVIOUS
  <2> QED BY <2>1 DEF Revision
<1> QED BY <1>1, <1>2 DEF History

\* Two sequences with the same elements are one.
LEMMA SameHistory ==
    ASSUME NEW h \in Seq(Contents \cup {None}), NEW k \in Seq(Contents \cup {None}),
           Len(h) = Len(k), \A i \in 1 .. Len(h) : h[i] = k[i]
    PROVE  h = k
  BY SeqEqual

\* Completing the last revision completes the history.
LEMMA FilledHistory ==
    ASSUME NEW q \in Seq(Revision), NEW n, n = Len(q), n \in 1 .. Len(q),
           NEW c \in Contents
    PROVE  /\ History(Filled(q, n, c), n) = [History(q, n) EXCEPT ![n] = c]
           /\ Len(Filled(q, n, c)) = n
<1> DEFINE w == [sha |-> c, superseded |-> q[n].superseded]
           u == Filled(q, n, c)
           h == History(q, n)
           k == [h EXCEPT ![n] = c]
<1>1. q[n] \in Revision
  OBVIOUS
<1>2. w \in Revision /\ w.sha = c
  BY <1>1 DEF Revision
<1>3. u = [q EXCEPT ![n] = w]
  BY DEF Filled
<1> HIDE DEF w, u
<1>4. /\ u \in Seq(Revision) /\ Len(u) = n
      /\ \A j \in 1 .. n : u[j] = IF j = n THEN w ELSE q[j]
  BY <1>2, <1>3, RewrittenRevision
<1>5. h \in Seq(Contents \cup {None}) /\ Len(h) = n /\ \A i \in 1 .. n : h[i] = q[i].sha
  BY HistoryIs
<1>6. /\ History(u, n) \in Seq(Contents \cup {None}) /\ Len(History(u, n)) = n
      /\ \A i \in 1 .. n : History(u, n)[i] = u[i].sha
  BY <1>4, HistoryIs
<1> HIDE DEF h
<1>7. /\ k \in Seq(Contents \cup {None}) /\ Len(k) = n
      /\ \A i \in 1 .. n : k[i] = IF i = n THEN c ELSE h[i]
  BY <1>5
<1> HIDE DEF k
<1>8. \A i \in 1 .. n : History(u, n)[i] = k[i]
  BY <1>2, <1>4, <1>5, <1>6, <1>7
<1>9. History(u, n) = k
  BY <1>6, <1>7, <1>8, SameHistory
<1> QED BY <1>4, <1>9 DEF u, k, h

\* A new revision adds its content to the history.
LEMMA RenewedHistory ==
    ASSUME NEW q \in Seq(Revision), NEW n, n = Len(q), n \in 1 .. Len(q),
           NEW c \in Contents
    PROVE  History(Renewed(q, n, c), n + 1) = Append(History(q, n), c)
<1> DEFINE w == [sha |-> q[n].sha, superseded |-> TRUE]
           k == Retired(q, n)
           m == [sha |-> c, superseded |-> FALSE]
           u == Append(k, m)
           h == History(q, n)
           g == Append(h, c)
<1>1. q[n] \in Revision
  OBVIOUS
<1>2. w \in Revision /\ w.sha = q[n].sha
  BY <1>1 DEF Revision
<1>3. k = [q EXCEPT ![n] = w]
  BY DEF Retired
<1> HIDE DEF w
<1>4. /\ k \in Seq(Revision) /\ Len(k) = n
      /\ \A j \in 1 .. n : k[j] = IF j = n THEN w ELSE q[j]
  BY <1>2, <1>3, RewrittenRevision
<1>5. m \in Revision /\ m.sha = c
  BY DEF Revision
<1> HIDE DEF k, m
<1>6. /\ u \in Seq(Revision) /\ Len(u) = n + 1 /\ u[n + 1] = m
      /\ \A j \in 1 .. n : u[j] = k[j]
  BY <1>4, <1>5
<1> HIDE DEF u
<1>7. h \in Seq(Contents \cup {None}) /\ Len(h) = n /\ \A i \in 1 .. n : h[i] = q[i].sha
  BY HistoryIs
<1> HIDE DEF h
<1>8. /\ g \in Seq(Contents \cup {None}) /\ Len(g) = n + 1 /\ g[n + 1] = c
      /\ \A i \in 1 .. n : g[i] = h[i]
  BY <1>7
<1> HIDE DEF g
<1>9. /\ History(u, n + 1) \in Seq(Contents \cup {None}) /\ Len(History(u, n + 1)) = n + 1
      /\ \A i \in 1 .. n + 1 : History(u, n + 1)[i] = u[i].sha
  BY <1>6, HistoryIs
<1>10. \A i \in 1 .. n : k[i].sha = q[i].sha
  BY <1>2, <1>4
<1>11. \A i \in 1 .. n + 1 : History(u, n + 1)[i] = g[i]
  BY <1>5, <1>6, <1>7, <1>8, <1>9, <1>10
<1>12. History(u, n + 1) = g
  BY <1>8, <1>9, <1>11, SameHistory
<1> QED BY <1>12 DEF u, g, h, k, m, Renewed

\* The history of an id that no File has been given yet.
LEMMA BlankHistory == History(<<>>, 0) = <<>>
<1> DEFINE q == <<>>
<1>1. q \in Seq(Revision) /\ Len(q) = 0
  OBVIOUS
<1> HIDE DEF q
<1>2. 0 \in 0 .. Len(q)
  BY <1>1
<1>3. History(q, 0) \in Seq(Contents \cup {None}) /\ Len(History(q, 0)) = 0
  BY <1>1, <1>2, HistoryIs
<1> QED BY <1>3 DEF q

\* The history of a new File.
LEMMA FirstHistory ==
    ASSUME NEW c \in Contents \cup {None}
    PROVE  History(<<[sha |-> c, superseded |-> FALSE]>>, 1) = <<c>>
<1> DEFINE n == [sha |-> c, superseded |-> FALSE]
           q == <<n>>
<1>1. n \in Revision /\ n.sha = c
  BY DEF Revision
<1> HIDE DEF n
<1>2. q \in Seq(Revision) /\ Len(q) = 1 /\ q[1] = n
  BY <1>1
<1> HIDE DEF q
<1>3. /\ History(q, 1) \in Seq(Contents \cup {None}) /\ Len(History(q, 1)) = 1
      /\ \A i \in 1 .. 1 : History(q, 1)[i] = q[i].sha
  BY <1>2, HistoryIs
<1>4. <<c>> \in Seq(Contents \cup {None}) /\ Len(<<c>>) = 1 /\ <<c>>[1] = c
  OBVIOUS
<1>5. History(q, 1) = <<c>>
  BY <1>1, <1>2, <1>3, <1>4, SameHistory
<1> QED BY <1>5 DEF q, n

================================================================================
