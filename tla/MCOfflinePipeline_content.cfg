SPECIFICATION FairSpec
CONSTANTS
  i1 = i1
  i2 = i2
  Requests = {1, 2, 3}
  Items = {i1, i2}
  NoItem = NoItem
  NoPending = NoPending
  NoToken = NoToken
  NoIntent = NoIntent
  NoDecoder = NoDecoder
  NoPlay = NoPlay
  MaxItems = 2
  Seeds <- MCSeeds
  Draw <- MCDraw
  DefaultThreshold = 1
  MaxPosition = 3
  MaxVersion = 20
  Commands <- PauselessCommands
  TrackLength = 3
  BlockFrames = 2
  PrebufferFrames = 2
  MaxBufferFrames = 2
  OutputFrames = 1
  WorkersFail = FALSE
INVARIANTS
  NextFrameIsAtTheClock
PROPERTIES
  TracksEnd
CONSTRAINT FromBothEnds
