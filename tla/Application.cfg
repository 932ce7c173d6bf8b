SPECIFICATION FairAppSpec
CONSTANTS
  e1 = e1
  e2 = e2
  Edit = {e1, e2}
  MaxCrashes = 2
  MaxWindows = 1
INVARIANTS
  AppInv
  NothingLost
  NeverMixed
  MigrationsApply
  RunsOnLatest
PROPERTY StartShows
CHECK_DEADLOCK FALSE
