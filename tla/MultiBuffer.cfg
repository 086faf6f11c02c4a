SPECIFICATION BufferSpec
CONSTANTS
  BlockSize = 2
  Length = 7
  MaxWaitForReaderOffset = 3
  MaxLookAheadIndex = 1
  MaxLookBehindIndex = 0
  MaxCacheSize = 3
  MaxChunk = 3
  ResponseCodes = {200, 206, 404}
  FetchMayFail = TRUE
  MaxPosition = 8
  MaxTasks = 2
CONSTRAINT UntilStale
INVARIANTS
  BufferTypeOK
  CacheMirrorsLru
  PurgeTerminates
  NoHoleInBlock
  FetchTracksWriter
  ContentRight
  WaitIsJustified
PROPERTY EvictionSparesReader
CHECK_DEADLOCK FALSE
