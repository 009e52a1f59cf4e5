SPECIFICATION FairSpec
CONSTANTS
  r1 = r1  r2 = r2  r3 = r3  i1 = i1  i2 = i2  f1 = f1  f2 = f2  t1 = t1  t2 = t2
  None = None
  Requests <- Pair
  Ids <- TwoIds
  Files <- OneFile
  Texts <- TwoTexts
INVARIANTS CancelReaches ContextsReleased CancelledUnanswered
           DroppedWasCancelled PartialWasCancelled
PROPERTY RequestsEnd
CHECK_DEADLOCK FALSE
