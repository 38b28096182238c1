SPECIFICATION ProgramsSpec
CONSTANTS
  m = m
  t1 = t1
  t2 = t2
  t3 = t3
  Greens <- FourGreens
  Main = m
  Null = Null
  May <- MayNothing
  Quiet <- Exposed
  MaxSusp = 3
  Programs <- AllPrograms
  Order <- TwoInTurn
  Loops <- SomeLoops
INVARIANTS CounterExact InTurn
PROPERTY ProgramEnds
