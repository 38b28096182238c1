CONSTANTS
  Threads = {t1, t2}
  MAX = 3
  Cells = {c1, c2, c3, c4, c5}
  Rounds = 2
  Null = Null
  dummy = dummy
  sentinel = sentinel
SPECIFICATION FairSpec
INVARIANTS ListIntact UsesOwnCells
PROPERTIES ImplementsAtomicToggle CallsEnd
