------------------------------ MODULE Catalogue ------------------------------
(***************************************************************************)
(* The catalogue rows that decide what a photograph on disk *is*: the      *)
(* `files` row of a File (where it is, whether it is there, whether its    *)
(* bytes are healthy), and the append-only ledger of its `file_revisions`. *)
(* A catalogue is a record [row, rev, obs]; every UPDATE or INSERT of the  *)
(* scanner, of Verify and of mismatch resolution is an operator from a     *)
(* catalogue to a catalogue, so that a transaction is one working copy.    *)
(*                                                                         *)
(* A path is the canonical relative path of a File within one Library      *)
(* (files.relative_path_key); contents stand for byte strings, which are   *)
(* equal exactly when their SHA-256 are.                                   *)
(***************************************************************************)
EXTENDS Naturals, Sequences

CONSTANTS
    Paths,      \* canonical relative paths inside the Library
    Contents,   \* decodable image contents, identified with their SHA-256
    FileIds,    \* uuids a File may be given; a new Photo takes its File's
    None        \* SQL NULL

ASSUME NoneAssumption ==
    /\ None \notin Contents
    /\ None \notin Paths
    /\ None \notin FileIds

Healths == {"ok", "hash_mismatch", "unreadable"}

\* presence "none" marks an id no File has been given yet.
Row == [presence : {"none", "present", "missing"},
        health   : Healths,
        path     : Paths \cup {None},
        sha      : Contents \cup {None},
        photo    : FileIds \cup {None},
        cur      : Nat,
        lib      : BOOLEAN]          \* library_id IS NOT NULL

Revision == [sha : Contents \cup {None}, superseded : BOOLEAN]

Catalogue == [row : [FileIds -> Row],
              rev : [FileIds -> Seq(Revision)],
              obs : [FileIds -> Nat]]

UnbornRow == [presence |-> "none", health |-> "ok", path |-> None,
              sha |-> None, photo |-> None, cur |-> 0, lib |-> FALSE]

-----------------------------------------------------------------------------
(* What the code reads out of the rows.                                    *)

Files(t)        == {f \in FileIds : t.row[f].presence # "none"}
PresentFiles(t) == {f \in FileIds : t.row[f].presence = "present"}

\* The File's current revision, joined on files.current_revision_id.
Current(t, f) == t.rev[f][t.row[f].cur]

\* current_revision_id resolves to a revision of this File that is not
\* superseded and whose SHA-256 the File mirrors.
Coherent(t, f) ==
    /\ t.row[f].cur \in 1 .. Len(t.rev[f])
    /\ ~Current(t, f).superseded
    /\ Current(t, f).sha = t.row[f].sha
    /\ t.row[f].sha # None

\* The canonical verified-current SHA-256: NULL unless the File is present,
\* healthy and coherent.
VerifiedCurrent(t, f) ==
    IF t.row[f].presence = "present" /\ t.row[f].health = "ok" /\ Coherent(t, f)
    THEN t.row[f].sha ELSE None

\* The unique index uq_files_present_identity, which leaves out the rows that
\* have no Library.
OnePresentPerPath(t) ==
    \A f, g \in {h \in PresentFiles(t) : t.row[h].lib} :
        t.row[f].path = t.row[g].path => f = g

\* A catalogued File has a path and belongs to a Photo.
Located(t) == \A f \in Files(t) : t.row[f].path \in Paths /\ t.row[f].photo \in FileIds

\* current_revision_id resolves to a revision of the File not yet superseded.
CurrentLive(t) ==
    \A f \in Files(t) : /\ t.row[f].cur \in 1 .. Len(t.rev[f])
                        /\ ~Current(t, f).superseded

\* The contents of the first n revisions of q.
History(q, n) == [i \in 1 .. n |-> q[i].sha]

-----------------------------------------------------------------------------
(* What the code writes into the rows.                                     *)

PutRow(t, f, r) ==
    [row |-> [t.row EXCEPT ![f] = r], rev |-> t.rev, obs |-> t.obs]

PutRev(t, f, q) ==
    [row |-> t.row, rev |-> [t.rev EXCEPT ![f] = q], obs |-> t.obs]

\* UPDATE file_revisions SET sha256 = c, or superseded_at = now, on revision i.
Filled(q, i, c) == [q EXCEPT ![i] = [sha |-> c, superseded |-> q[i].superseded]]

Retired(q, i) == [q EXCEPT ![i] = [sha |-> q[i].sha, superseded |-> TRUE]]

\* UPDATE files SET presence_status='present', library_id=..., path=...
At(r, p) == [r EXCEPT !.presence = "present", !.path = p, !.lib = TRUE]

SetHealth(t, f, h) == PutRow(t, f, [t.row[f] EXCEPT !.health = h])

SetMissing(t, f) == PutRow(t, f, [t.row[f] EXCEPT !.presence = "missing"])

\* A known File seen again with the bytes it is recorded to have.
Refresh(t, f, p) == PutRow(t, f, At(t.row[f], p))

\* Complete a content-less revision i in place and mirror it in the File.
Complete(t, f, i, c, r) ==
    PutRow(PutRev(t, f, Filled(t.rev[f], i, c)), f, [r EXCEPT !.sha = c])

\* Fault: the old revision keeps superseded_at NULL.
SupersedeNothing(t, f, i, c, r) ==
    PutRow(PutRev(t, f, Append(t.rev[f], [sha |-> c, superseded |-> FALSE])), f,
           [r EXCEPT !.cur = Len(t.rev[f]) + 1, !.sha = c, !.health = "ok"])

\* Fault: the revision is rewritten instead of superseded.
SupersedeInPlace(t, f, i, c, r) ==
    PutRow(PutRev(t, f, Filled(t.rev[f], i, c)), f,
           [r EXCEPT !.sha = c, !.health = "ok"])

\* Fault: current_revision_id is not moved to the new revision.
SupersedeKeepsPointer(t, f, i, c, r) ==
    PutRow(PutRev(t, f, Append(Retired(t.rev[f], i),
                               [sha |-> c, superseded |-> FALSE])), f,
           [r EXCEPT !.sha = c, !.health = "ok"])

\* Supersede revision i, append a new one with content c, point the File at it.
Supersede(t, f, i, c, r) ==
    PutRow(PutRev(t, f, Append(Retired(t.rev[f], i),
                               [sha |-> c, superseded |-> FALSE])), f,
           [r EXCEPT !.cur = Len(t.rev[f]) + 1, !.sha = c, !.health = "ok"])

\* The File is found at another path, or back after being missing: only its
\* location and presence change, its health stays what Verify made it.
Relocate(t, f, p, c) == PutRow(t, f, [At(t.row[f], p) EXCEPT !.sha = c])

\* Fault: the new File is given no Photo.
InsertWithoutPhoto(t, f, p, c, ph) ==
    PutRow(PutRev(t, f, <<[sha |-> c, superseded |-> FALSE]>>), f,
           [presence |-> "present", health |-> "ok", path |-> p,
            sha |-> c, photo |-> None, cur |-> 1, lib |-> TRUE])

\* A new File with its first revision.
Insert(t, f, p, c, ph) ==
    PutRow(PutRev(t, f, <<[sha |-> c, superseded |-> FALSE]>>), f,
           [presence |-> "present", health |-> "ok", path |-> p,
            sha |-> c, photo |-> ph, cur |-> 1, lib |-> TRUE])

\* INSERT INTO integrity_mismatch_observations.
Observe(t, f) ==
    [row |-> t.row, rev |-> t.rev, obs |-> [t.obs EXCEPT ![f] = t.obs[f] + 1]]

=============================================================================
