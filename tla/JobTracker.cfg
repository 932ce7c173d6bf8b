SPECIFICATION FairSpec
CONSTANTS
  j1 = j1
  j2 = j2
  j3 = j3
  j4 = j4
  j5 = j5
  a = a
  b = b
  c = c
  d = d
  Job = {j1, j2, j3, j4, j5}
  Id = {a, b, c, d}
  IdOf <- MCIdOf
  MaxJobConcurrency = 2
  Interval = 2
  k1 = k1
  k2 = k2
  Check = {k1, k2}
  MaxReturned = 2
INVARIANTS
  TrackerInv
PROPERTIES
  ImplementsJobQueue
  OfferedIsSettled
