SPECIFICATION Spec
CONSTANTS
  m = m
  t1 = t1
  t2 = t2
  t3 = t3
  Greens <- ThreeGreens
  Main = m
  Null = Null
  May <- MayJoin
  Quiet <- NoFunction
  MaxSusp = 0
SYMMETRY AnyOrder
INVARIANTS TypeOK ContextsMatch
CHECK_DEADLOCK FALSE
