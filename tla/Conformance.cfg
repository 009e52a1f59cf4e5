SPECIFICATION Spec
CONSTANTS
  Mixes <- AllMixes
  MaxLen = 7
INVARIANTS
  InStep
  StackIsLocals
  NativeNames
  NativeDefers
CHECK_DEADLOCK FALSE
