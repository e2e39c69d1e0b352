SPECIFICATION Spec
CONSTANTS
  here = here
  there = there
  f1 = f1
  f2 = f2
  f3 = f3
  f4 = f4
  album = album
  tag = tag
  event = event
  picnic = picnic
  a = a
  b = b
  Files = {f1, f2, f3, f4}
  Catalogued = {f1, f2, f3}
  Photos = {1, 2, 3, 4}
  Libs = {here, there}
  Albums = {album}
  Tags = {tag}
  Events = {event, picnic}
  Standing <- TagAndEvent
  Labels = {x, y}
  Assigned <- OneOrEach
  MaxItems = 1
  Kinds = {"remove"}
  Contents = {a, b}
  Sessions = {gui, cli}
  LibOf <- TwoLibraries
  None = None
  MinGroup = 2
  MinTagged = 1
  MinCoverage = 50
  MaxOps = 3
  MaxEnv = 0
  MaxSteps = 3
  MaxUndo = 0
CHECK_DEADLOCK FALSE
INVARIANT EventKeepsMember
