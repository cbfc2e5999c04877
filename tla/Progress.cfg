CONSTANTS
  CPU = {c1, c2, c3}
  Tickets = 3
  Id = {0, 1, 2}
  NUM_IRQ = 2
  MAXPIN = 3
  WIDTH = 2
  RATIO = 2
  A = A
  B = B
  NoCell = NoCell
SPECIFICATION MCSpec
 
PROPERTIES EveryoneServed FifoSpec  RequestAnswered
CHECK_DEADLOCK FALSE
