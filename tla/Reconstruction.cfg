SPECIFICATION Spec
CONSTANTS
  f1 = f1
  f2 = f2
  f3 = f3
  None = None
  Files <- MCFiles
  Number <- MCNumber
  ResetDays = {4}
  MaxGap = 1
  MinRun = 2
  Procs = {desktop, cli}
  Observations <- MCObservations
  FileAnchors <- MCFileAnchors
  DirectoryAnchors <- MCDirectoryAnchors
  Floors <- MCFloors
  Sessions <- MCSessions
  MinBatch = 3
  MaxEvents = 1
  MaxJobs = 3
INVARIANTS TypeOK FreshMeansDerived PointsRestOnHumans
PROPERTIES StickyToEngine BatchActsOnReview
CHECK_DEADLOCK FALSE
SYMMETRY Symmetry
