SPECIFICATION FairSpec
CONSTANTS
  g1 = g1
  Game = {g1}
  PageSize = 1
  MaxPages = 2
  MaxCalls = 2
  MaxTime = 2
  MaxEdits = 1
  MaxFaults = 1
  MaxQueue = 2
INVARIANTS
  GamesInv
  LoadedIsCurrent
PROPERTIES
  LoadsEnd
  ShownIsAsked
CHECK_DEADLOCK FALSE
