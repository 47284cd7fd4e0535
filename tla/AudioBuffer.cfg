SPECIFICATION FairSpec
CONSTANTS
  SlotCount = 2
  BlockFrames = 2
  MaxRequest = 2
  Coordinators = {c1}
  NoBlock = NoBlock
  MaxBlocks = 3
  MaxGeneration = 2
  MaxAttempts = 2

PROPERTIES
  HeardIsCurrent
  FramesFollow
  BlocksAreHeard
