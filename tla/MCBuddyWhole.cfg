CONSTANTS
  Pages = {p1}
  LEVELS = 3
  MIN = 5
  HEADER = 24
  Sizes = {8, 40}
  MAX_PAGES = 1
  Null = Null
SPECIFICATION Spec
INVARIANT AllFreedIsWhole
