CONSTANTS
  Sides = {"ipc", "platform", "tree"}
  g1 = g1  g2 = g2  s1 = s1  s2 = s2
  Global = {g1, g2}
  Local = {s1, s2}
  Idle = Idle
  None = None
  Prio <- MCPrio
  MayCall <- MCMayCall
  Budget = 2
  Calls = 2
  Id = {0, 1, 2}
  NUM_IRQ = 2
  MAXPIN = 3
  WIDTH = 2
  RATIO = 2
  FRAMES = 12
SPECIFICATION MCSpec
INVARIANTS LinksInv RunsForItself ScAccounted TimerArmed DriverHeard TreeSound
PROPERTY SpaceIsSet
CHECK_DEADLOCK TRUE
