SPECIFICATION Spec
CONSTANTS
  i1 = i1
  i2 = i2
  i3 = i3
  Items = {i1, i2, i3}
  MaxItems = 3
  Seeds <- MCSeeds
  Draw <- MCDraw
  Positions = {0, 1}
  DefaultThreshold = 0
  CheckedReplace = TRUE
SYMMETRY Symmetry
INVARIANTS
  PlaysEachTrackOnce
PROPERTIES
  TurnsAreKept
