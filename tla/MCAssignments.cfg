CONSTANTS
  MAX = 4
  ITERATIONS = 2
  BURSTS = 3
  CAPACITY = 2
  Positions = {1, 2, 3}
  Sizes = {3, 5}
  HEADER = 2
  MAX_HEAP = 25
  Allocators = {"mhysa", "mylloc"}
  Breaks = {"libc", "sbrk"}
  Callers = {q1, q2, q3}
  QUOTES = 3
  Policies = {"lru", "optimal", "sabina", "random"}
  PAGES = 4
  REFS = 6
  SAMPLES = 4
  Referenced = {0, 1, 2, 3}
  MaxSent = 6
SPECIFICATION Spec
INVARIANTS DeviceSound HeapIntact GrowthBounded
INVARIANTS Recency FramesFilled OptimalIsBest
PROPERTIES PipeDrained YieldFinishes FourAnswersEnd
CHECK_DEADLOCK FALSE
