SPECIFICATION FairSpec
CONSTANTS
  Devices = {d1, d2, d3}
  Named = {d3}
  Timeouts = TRUE
  MaxStreams = 3
INVARIANTS
  ListenersAreOpenStreams
  StagesAgree
PROPERTY RequestsAnswered
CHECK_DEADLOCK FALSE
