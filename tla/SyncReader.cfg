SPECIFICATION Spec
CONSTANTS
  IndexSize = 9
  Capacity = 2
  MaxLost = 2
INVARIANTS
  CopyIsWholeAndLatest
  CountersInStep
CHECK_DEADLOCK FALSE
