SPECIFICATION FairSpec
CONSTANTS
  v1 = v1
  v2 = v2
  html = html
  n1 = n1
  n2 = n2
  NoNode = NoNode
  Random = Random
  Version = {v1, v2}
  Platform = {html}
  Node = {n1, n2}
  MaxHasty = 1
  MaxFaults = 1
  MaxCrashes = 1
INVARIANTS
  ScheduleInv
  EnabledIsComplete
  CleanupTargetsObsolete
  NoNodeLeaked
  PlaceholderHasJob
  ViewConverges
PROPERTY QueueIsDrained
CHECK_DEADLOCK FALSE
