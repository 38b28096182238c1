CONSTANT Inc = 2
SPECIFICATION FairSpec
INVARIANTS Exclusion CountExact BoundedOvertaking NoSleepOnFree
PROPERTY ProgramEnds
