SPECIFICATION FairSpec
CONSTANTS
  Length = 4
  Positions = {0, 2, 3, 4, 5}
  Sizes = {1, 3}
  MaxReads = 3
INVARIANTS
  OneTaskPerRead
PROPERTIES
  ImplementsContract
  ReadsAnswered
CHECK_DEADLOCK FALSE
