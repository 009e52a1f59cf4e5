SPECIFICATION Spec
CONSTANTS
  FramesMax = 4
  MaxHeight = 2
  MaxArgs = 1
  MaxDefers = 2
  MaxScopes = 1
  Tracing = TRUE
INVARIANTS StackDiscipline DeferAccounting TraceBalanced
PROPERTIES ImplementsDeferStack
CHECK_DEADLOCK FALSE
