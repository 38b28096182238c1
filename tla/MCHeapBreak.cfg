CONSTANTS
  Positions = {1, 2}
  Sizes = {3, 5}
  HEADER = 2
  MAX_HEAP = 20
  Allocators = {"mhysa"}
  Breaks = {"sbrk"}
SPECIFICATION HeapSpec
INVARIANT FailureReported
