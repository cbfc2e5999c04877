CONSTANTS
  Sides = {"mdb"}
  CPU = {p1, p2}
  Space = {s1, s2, s3}
  Owner = s1
  Attr = {r}
  Nodes = 4
  Uses = {"overlap"}
  Calls <- FourCalls
  Parent = root
  Child = child
  Kern = kern
  Cpus = cpus
  None = none
  MaxIdx = 3
  Order = 3
  Elem = 2
  Word = 16
  KernPages = 0
  CpuPages = 1
  RootNotr = 0
  Amounts = {2}
  Needs = {1}
  MaxOps = 5
  Cached = {child}
  Sizes = {1}
  MaxBlocks = 1
SPECIFICATION MCSpec
INVARIANTS FirstPassDone
SYMMETRY Symmetry
CHECK_DEADLOCK FALSE
