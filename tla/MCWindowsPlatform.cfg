CONSTANTS
  i1 = i1  s1 = s1  s2 = s2  i2 = i2  x1 = x1  x2 = x2  c1 = c1  c2 = c2
  Items = {i1, i2}
  NoItem = NoItem
  CoreStates = {"Empty", "Playing", "Paused"}
  MaxVersion = 2
  MaxFrames = 1
  MaxSamples = 2
  NoSnapshot = NoSnapshot
  NoProjection = NoProjection
  ScanIds = {s1, s2}
  Paths <- MCPaths
  Children <- MCChildren
  Roots <- MCRoots
  Manifests <- MCManifests
  Extensions = {x1, x2}
  Actions = {"act"}
  NoCommand = NoCommand
  Callers = {c1, c2}
  NoManifest = NoManifest
  NoCall = NoCall
SPECIFICATION PlatformSpec
INVARIANTS DispatchedWasOffered ScansTellEachPathOnce
PROPERTIES ProjectionFollowsCore ControlsConverge
