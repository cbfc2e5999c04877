CONSTANTS
  Sides = {"devices", "signal"}
  FN = 2
  SLOTS = 2
  COUNT = 2
  Cpu = {0, 1}
  RIDS = 2
  NFR = 2
  Workloads <- Devs
  Thread = {t1, t2, t3}
  Kern = {gsi}
  User = {a, b}
  Null = Null
  Sinks = {a}
  Targets = {a}
  Zero = FALSE
  Calls = 4
SPECIFICATION MCSpec
INVARIANTS  FaultsBounded 
SYMMETRY Symmetry
CHECK_DEADLOCK FALSE
