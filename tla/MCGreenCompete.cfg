SPECIFICATION Spec
CONSTANTS
  m = m
  t1 = t1
  t2 = t2
  t3 = t3
  Greens <- FourGreens
  Main = m
  Null = Null
  May <- MayCompete
  Quiet <- Exposed
  MaxSusp = 0
SYMMETRY AnyOrder
INVARIANTS MutualExclusion NoLostWakeup
CHECK_DEADLOCK FALSE
