CONSTANTS
  A = A
  B = B
  Cell = {A, B}
  Hoitaja = 0
  NoCell = NoCell
  Systems <- Running3Boot2
SPECIFICATION Spec
INVARIANTS  HolderIsAwake
PROPERTY OnlyHolderGivesUp
CHECK_DEADLOCK FALSE
