SPECIFICATION PlaySpec
CONSTANTS
  a = a
  b = b
  none = none
  dot = dot
  up = up
  row = row
  blob = blob
  Name = {a, b}
  one = one
  two = two
  Import = {one, two}
  Anchor <- MCAnchor
  MaxNode = 4
  MaxDepth = 2
  MaxLate = 1
  Hash = {row, blob}
  Inline = {row}
  Game = a
  Html = b
  Index = a
  Empty = none
  Dot = dot
  Up = up
  MaxSegments = 3
SYMMETRY MCSymmetry
INVARIANTS
  PlayInv
  FoundAsMade
  ArtifactsAreKept
  ServedWhileKept
  FoundIsImported
PROPERTY UsesContentStore
CHECK_DEADLOCK FALSE
