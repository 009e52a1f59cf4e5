SPECIFICATION Spec
CONSTANTS
  MaxOutput = 3
  MaxWritten = 3
  Codes = {0, 1}
INVARIANTS CaptureExact OutcomeTrue
PROPERTIES CallReturns
CHECK_DEADLOCK FALSE
