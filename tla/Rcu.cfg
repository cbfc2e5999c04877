CONSTANTS
  CPU = {c1, c2}
  Elem = {e1, e2}
  Calls = 2
SPECIFICATION FairSpec
INVARIANT NoUseAfterFree
PROPERTY EveryCallDone
