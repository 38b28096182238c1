SPECIFICATION FairSpec
CONSTANTS
  m = m
  t1 = t1
  t2 = t2
  t3 = t3
  Greens <- ThreeGreens
  Main = m
  Null = Null
  May <- MayJoin
  Quiet <- AllButJoin
  MaxSusp = 0
PROPERTY JoinReturns
CHECK_DEADLOCK FALSE
