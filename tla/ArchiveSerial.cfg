SPECIFICATION Spec
CONSTANTS
  Paths = {p, q, r}
  Contents = {a, b}
  FileIds = {f1, f2, f3}
  None = None
  Scanners = {gui}
  Serial = TRUE
  Reviews = TRUE
  ReadFaults = FALSE
  Bad = Bad
  Absent = Absent
  Stamp <- StampSame
  LegacyFile = f1
  LegacyPath = p
  Legacy <- OneLegacy
  Occupied = {p, q}
  MaxEnv = 2
  MaxOps = 4
  MaxRev = 3
SYMMETRY ContentSymmetry
INVARIANTS TypeOK CurrentRevisionCoherent
PROPERTIES ScanMissingIsAbsent FlaggedChangesOnlyByReview KeepsLedger
  UndisturbedFileStays CopyJoinsPhoto AmbiguityChoosesNone
CHECK_DEADLOCK FALSE
