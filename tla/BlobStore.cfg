SPECIFICATION FairSpec
CONSTANTS
  f1 = f1
  f2 = f2
  f3 = f3
  i1 = i1
  i2 = i2
  h1 = h1
  h2 = h2
  Hash = {h1, h2}
  Imports = {i1, i2}
  Files = {f1, f2, f3}
  Owner <- MCOwner
  MaxCrashes = 1
INVARIANTS
  LockInv
  StoredContentKept
  SweepComplete
  FilesReadable
PROPERTIES
  ImplementsContentStore
  LockIsReleased
  JobsEnd
CHECK_DEADLOCK FALSE
