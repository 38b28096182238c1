SPECIFICATION FairSpec
CONSTANTS
  m = m
  t1 = t1
  t2 = t2
  t3 = t3
  Greens <- ThreeGreens
  Main = m
  Null = Null
  May <- MayCall
  Quiet <- Exposed
  MaxSusp = 2
INVARIANTS NoThreadLost CrashOnlyOnDeadlock NumSuspCounts
PROPERTIES ReadyRuns JoinReturns ImplementsScheduler
CHECK_DEADLOCK FALSE
