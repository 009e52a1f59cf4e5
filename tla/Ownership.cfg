SPECIFICATION Spec
CONSTANTS
  Mixes <- AllMixes
  MaxLen = 7
INVARIANTS
  MissedMoves
  AlarmsMeanPaths
  MutableBorrowGuarded
  SharedNotMutated
  ReturnsWhenRequired
CHECK_DEADLOCK FALSE
