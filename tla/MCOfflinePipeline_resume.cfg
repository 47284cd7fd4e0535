SPECIFICATION Spec
CONSTANTS
  i1 = i1
  i2 = i2
  Requests = {1, 2, 3, 4}
  Items = {i1, i2}
  NoItem = NoItem
  NoPending = NoPending
  NoToken = NoToken
  NoIntent = NoIntent
  NoDecoder = NoDecoder
  NoPlay = NoPlay
  MaxItems = 2
  Seeds <- MCSeeds
  Draw <- MCDraw
  DefaultThreshold = 1
  MaxPosition = 2
  MaxVersion = 20
  Commands <- PlayerCommands
  TrackLength = 2
  BlockFrames = 1
  PrebufferFrames = 1
  MaxBufferFrames = 2
  OutputFrames = 1
  WorkersFail = FALSE
INVARIANTS
  NextFrameIsAtTheClock
