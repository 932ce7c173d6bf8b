SPECIFICATION MCSpec
CONSTANT Value = {1, 2, 3, 4, 5}
INVARIANTS
  MergeInv
  IsDifference
CHECK_DEADLOCK FALSE
