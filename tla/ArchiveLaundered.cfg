SPECIFICATION Spec
CONSTANTS
  Paths = {p}
  Contents = {a, b}
  FileIds = {f1, f2}
  None = None
  Scanners = {gui}
  Serial = TRUE
  Reviews = FALSE
  ReadFaults = FALSE
  Bad = Bad
  Absent = Absent
  Stamp <- StampDistinct
  LegacyFile = f1
  LegacyPath = p
  Legacy <- NoLegacy
  Occupied = {p}
  MaxEnv = 3
  MaxOps = 4
  MaxRev = 3
PROPERTY MismatchNeverSilentlyAdopted
CHECK_DEADLOCK FALSE
