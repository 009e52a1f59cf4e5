SPECIFICATION Spec
CONSTANTS
  MaxOutput = 3
  MaxWritten = 3
  Codes = {0, 1}
PROPERTY NativeTimesOut
CHECK_DEADLOCK FALSE
