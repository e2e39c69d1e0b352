SPECIFICATION Spec
CONSTANTS
  here = here
  there = there
  f1 = f1
  f2 = f2
  f3 = f3
  f4 = f4
  album = album
  tag = tag
  event = event
  picnic = picnic
  a = a
  b = b
  Files = {f1, f2, f3, f4}
  Catalogued = {f1, f2, f3}
  Photos = {1, 2, 3, 4}
  Libs = {here, there}
  Albums = {album}
  Tags = {tag}
  Events = {event, picnic}
  Standing <- TagAndEvent
  Labels = {x, y}
  Assigned <- OneOrEach
  MaxItems = 1
  Kinds = {"create", "add", "remove", "label", "cover", "arrange", "reset", "relate", "unrelate", "forget", "restore"}
  Contents = {a, b}
  Sessions = {gui, cli}
  LibOf <- TwoLibraries
  None = None
  MinGroup = 2
  MinTagged = 1
  MinCoverage = 50
  MaxOps = 3
  MaxEnv = 1
  MaxSteps = 3
  MaxUndo = 1
INVARIANTS NoGhostPhoto MembershipBacked AuditReplays
PROPERTIES RetiredPhotoIsBare ReassignedOnReviewedBytes RecoveryReunites
SYMMETRY Symmetry
CHECK_DEADLOCK FALSE
