SPECIFICATION FairSpec
CONSTANTS
  Uris = {u}
  Files = {u}
  Texts = {v1, v2}
  None = None
  Jobs = {j1, j2}
  Sweeps = {s1}
  Reader = Reader
INVARIANTS OneLiveAnalysis NoOrphanTimer ChangesReachASweep
PROPERTIES TextAnalysed HandlersReturn
CHECK_DEADLOCK FALSE
