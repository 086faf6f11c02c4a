SPECIFICATION FairSpec
CONSTANTS
  BlockSize = 2
  Length = 5
  MaxWaitForReaderOffset = 3
  MaxLookAheadIndex = 0
  MaxLookBehindIndex = 0
  MaxCacheSize = 2
  MaxChunk = 2
  ResponseCodes = {206, 404}
  FetchMayFail = TRUE
  MaxPosition = 6
  MaxTasks = 2
  Sizes = {3}
  MaxReads = 2
INVARIANTS
  PendingReadIsPolled
PROPERTIES
  ImplementsContract
  ReadsAnswered
CHECK_DEADLOCK FALSE
