SPECIFICATION FairSpec
CONSTANTS
  Duration = 2
  Rates = {0, 1, 3, 5}
  kMinRate = 2
  kMaxRate = 4
  Impatient = FALSE
  MaxLoads = 2
  MaxSeeks = 3
INVARIANTS
  SeekingIsAwaited
  PausedTimeNotAhead
PROPERTIES
  PausedHolds
  LastSeekWins
  SeeksFinish
CHECK_DEADLOCK FALSE
