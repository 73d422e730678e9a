SPECIFICATION Spec
CHECK_DEADLOCK FALSE
CONSTANTS
  Calls = {c1, c2}
  Workers = {w1, w2}
  Lengths = {1, 3}
  MinimumChunk = 1
  Pool = Pool
  Free = Free
  NoWork = NoWork
INVARIANTS
  BorrowOutlivesUse
  EachIndexOnce
  PoolBuiltOnce
PROPERTIES
  EveryCallReturns
