SPECIFICATION Spec
CONSTANTS
  f1 = f1
  f2 = f2
  f3 = f3
  i1 = i1
  i2 = i2
  h1 = h1
  h2 = h2
  Hash = {h1, h2}
  Imports = {i1, i2}
  Files = {f1, f2}
  Owner <- MCOwner2
  MaxCrashes = 1
INVARIANT StagedFilesCollected
CHECK_DEADLOCK FALSE
