CONSTANTS
  A = A
  B = B
  Cell = {A, B}
  Hoitaja = 0
  NoCell = NoCell
  Systems <- LostRequest
SPECIFICATION Spec
INVARIANT NoRequestLost
CHECK_DEADLOCK FALSE
