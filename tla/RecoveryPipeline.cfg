SPECIFICATION Spec
CONSTANTS
  Proposals = {p1}
  Stages = {s1, s2}
  Materializations = {m1, m2}
  Target = target
  Donors = {donor}
  Objects = {o1, o2, o3, o4}
  Contents = {good, bad}
  Expected = good
  None = None
  Spoiled = Spoiled
  MaxEnv = 2
  MaxIntent = 1
PROPERTIES ClimbsLadder PreservedIsReviewed CopyIsOperational NothingDisturbed ReadyRestsOnChain
CHECK_DEADLOCK FALSE
SYMMETRY Symmetry
