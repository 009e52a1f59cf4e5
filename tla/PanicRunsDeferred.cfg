SPECIFICATION Spec
CONSTANTS
  FramesMax = 4
  MaxHeight = 1
  MaxArgs = 0
  MaxDefers = 1
  MaxScopes = 1
  Tracing = FALSE
INVARIANT PanicRunsDeferred
CHECK_DEADLOCK FALSE
