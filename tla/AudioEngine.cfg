SPECIFICATION EngineSpec
CONSTANTS
  Frames = 5
  PacketFrames = 2
  PreSkip = 3
  Rooms = {0, 1, 3}
  EmptySlices = FALSE
  MaxGeneration = 2
  MaxOutputs = 1
  Readers = {r1}
  Rates = {44, 48}
  LastEpoch = 1
  Formats = {f1, f2}
  Period = 1
  MaxOpens = 1
  MaxRenders = 2
INVARIANTS
  EndIsTheEnd
  ClockCoversTheEndpoint
  UnderrunsAreAccounted
  UnderrunIsNeverLost
PROPERTIES
  AcceptedFramesFollow
  ClockIsCoherent
CHECK_DEADLOCK FALSE
CONSTRAINT OneConcern
