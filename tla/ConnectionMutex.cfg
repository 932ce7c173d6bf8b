SPECIFICATION FairSpec
CONSTANTS
  c1 = c1
  c2 = c2
  c3 = c3
  c4 = c4
  None = None
  Client = {c1, c2, c3, c4}
  MaxCalls = 3
INVARIANTS
  MutexInv
PROPERTY CallsAreServed
CHECK_DEADLOCK FALSE
