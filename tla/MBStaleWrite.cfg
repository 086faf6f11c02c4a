SPECIFICATION BufferSpec
CONSTANTS
  BlockSize = 2
  Length = 8
  MaxWaitForReaderOffset = 3
  MaxLookAheadIndex = 0
  MaxLookBehindIndex = 1
  MaxCacheSize = 3
  MaxChunk = 3
  ResponseCodes = {206}
  FetchMayFail = FALSE
  MaxPosition = 7
  MaxTasks = 2
INVARIANT BufferHoldsResource
CHECK_DEADLOCK FALSE
