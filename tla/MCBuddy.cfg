CONSTANTS
  Pages = {p1, p2}
  LEVELS = 3
  MIN = 5
  HEADER = 24
  Sizes = {8, 40, 41}
  MAX_PAGES = 1
  Null = Null
SPECIFICATION Spec
INVARIANTS TypeOK HeldIntact Tiled BuddyHasHeader ListsLinked NothingLost MarkedBuddiesJoined PagesKept
PROPERTY ImplementsAllocator
