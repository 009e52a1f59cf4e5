SPECIFICATION MCSpec
CONSTANTS
  Files = {main, a, b, c}
  Root = main
  Dir <- Shared
  MaxDepth = 5
  MaxImports = 6
INVARIANTS ReentryRepeatsDirectory CompilesOnlyChecked AcyclicAccepted
PROPERTY PipelineEnds
CHECK_DEADLOCK FALSE
