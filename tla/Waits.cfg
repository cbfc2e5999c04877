CONSTANTS
  p1 = p1
  p2 = p2
  e1 = e1
  e2 = e2
  e3 = e3
  CPU = {p1, p2}
  Ec = {e1, e2, e3}
  Home <- MCHome
  Idle = Idle
  Sem = {sm}
  None = None
  Calls = 4
  g1 = g1
  g2 = g2
  s1 = s1
  s2 = s2
  Global = {g1, g2}
  Local = {s1, s2}
  Budget = 2
SPECIFICATION MCSpec
INVARIANTS NoLostWakeup UnitsConserved
PROPERTIES TimedWaitEnds TopIsServed
CHECK_DEADLOCK FALSE
