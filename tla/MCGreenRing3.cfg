SPECIFICATION ProgramsSpec
CONSTANTS
  m = m
  t1 = t1
  t2 = t2
  t3 = t3
  Greens <- FourGreens
  Main = m
  Null = Null
  May <- MayNothing
  Quiet <- Exposed
  MaxSusp = 3
  Programs <- OnlyCond
  Order <- ThreeInTurn
  Loops <- TwoLoops
PROPERTY ProgramEnds
CHECK_DEADLOCK FALSE
