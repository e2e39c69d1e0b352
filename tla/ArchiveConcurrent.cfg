SPECIFICATION Spec
CONSTANTS
  Paths = {p, q}
  Contents = {a, b}
  FileIds = {f1, f2, f3}
  None = None
  Scanners = {gui, cli}
  Serial = FALSE
  Reviews = TRUE
  ReadFaults = FALSE
  Bad = Bad
  Absent = Absent
  Stamp <- StampDistinct
  LegacyFile = f1
  LegacyPath = p
  Legacy <- NoLegacy
  Occupied = {p, q}
  MaxEnv = 2
  MaxOps = 3
  MaxRev = 3
SYMMETRY ScanSymmetry
INVARIANT CurrentRevisionLive
PROPERTIES ScanReflectsDisk VerifyVerdict DecisionOnEvidence
CHECK_DEADLOCK FALSE
