---------------------------- MODULE MCArchiveCore ----------------------------
(* Instances of ArchiveCore small enough for TLC. *)
EXTENDS ArchiveCore, TLC

CONSTANTS LegacyFile, LegacyPath

\* Every content has a size and mtime of its own: every edit shows in stat().
StampDistinct == [c \in Contents |-> c]

\* One size and mtime for all: an edit that stat() does not show.
StampSame == [c \in Contents |-> 0]

\* A File Phase 1 catalogued at a path, without a hash.
OneLegacy == [f \in FileIds |-> IF f = LegacyFile THEN LegacyPath ELSE None]

\* Contents differ only in being different.
ContentSymmetry == Permutations(Contents)

\* So do two scans that nothing but the write lock orders.
ScanSymmetry == Permutations(Contents) \cup Permutations(Scanners)

NoLegacy == [f \in FileIds |-> None]
=============================================================================
