SPECIFICATION Spec
CONSTANTS
  Frames = {f1, f2}
  NoFrame = NoFrame
  OneThread = TRUE
  MaxStarts = 3
  MaxTasks = 3
INVARIANT RendersOnlyWhileRendering
CHECK_DEADLOCK FALSE
