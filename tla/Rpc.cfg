SPECIFICATION FairSpec
CONSTANTS
  c1 = c1
  c2 = c2
  c3 = c3
  c4 = c4
  c5 = c5
  Call = {c1, c2, c3, c4, c5}
  NoCall = NoCall
  IdSpace = 3
  Kind <- MCKind
INVARIANTS
  RpcInv
  OwnResult
PROPERTY CallsSettle
CHECK_DEADLOCK FALSE
