SPECIFICATION LoopsSpec
CONSTANTS
  BlockSize = 2
  MaxCacheSize = 3
  Blocks = {0, 1, 2, 3}
  Questions = {0, 1, 2, 3, 4, 5, 6, 7, 8, 9, 10}
INVARIANTS
  FillLoopRight
  MissCheckRight
  PurgeLoopRight
CHECK_DEADLOCK FALSE
