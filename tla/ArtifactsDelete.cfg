SPECIFICATION Spec
CONSTANTS
  v1 = v1
  v2 = v2
  html = html
  n1 = n1
  n2 = n2
  NoNode = NoNode
  Random = Random
  Version = {v1, v2}
  Platform = {html}
  Node = {n1, n2}
  MaxHasty = 0
  MaxFaults = 0
  MaxCrashes = 0
INVARIANT SelectedAreDeleted
CHECK_DEADLOCK FALSE
