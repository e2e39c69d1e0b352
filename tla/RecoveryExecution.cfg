SPECIFICATION FairSpec
CONSTANTS
  Execs = {e1, e2}
  Readinesses = {r1, r2}
  Strangers = {s1, s2}
  Contents = {good, bad}
  Expected = good
  None = None
  MaxEnv = 3
INVARIANTS OneAttempt AbortedUntouched
PROPERTIES StrangersSurvive RecordedIsTrue AttemptEnds
CHECK_DEADLOCK FALSE
