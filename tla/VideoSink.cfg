SPECIFICATION Spec
CONSTANTS
  Frames = {f1, f2}
  NoFrame = NoFrame
  OneThread = FALSE
  MaxStarts = 3
  MaxTasks = 3
INVARIANTS
  RenderingFollowsCallback
  ClientInStep
  RenderingGoesOn
CHECK_DEADLOCK FALSE
