SPECIFICATION FairSpec
CONSTANTS
  Threads = {m, a, b}
  Main = m
  None = None
  MaxHandle = 2
  MaxWrites = 1
  Disciplined = TRUE
INVARIANTS MutualExclusion NoLostUpdate CancelIsFinal
PROPERTIES ImplementsThreadContract LockGranted JoinReturns CancelStops
CHECK_DEADLOCK FALSE
