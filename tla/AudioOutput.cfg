SPECIFICATION FairSpec
CONSTANTS
  Providers <- MCProviders
  Keys <- MCKeys
  Frames = {1}
  Params = {1, 2}
  Origins = {1}
  Devices = {0, 1, 2}
  DefaultDevices = {0, 2}
  CreationMayFail = TRUE
  MaxSinks = 3
INVARIANTS
  MixerWhileStarted
  UsedMeansAcquired
  SinksAreStopped
  RefCountsInputs
  MixersOwnRunningSinks
PROPERTIES
  
  EverythingStops
CHECK_DEADLOCK FALSE
