SPECIFICATION FairSpec
CONSTANTS
  Requests = {1, 2, 3}
  Items = {i1, i2}
  NoItem = NoItem
  NoPending = NoPending
  NoToken = NoToken
  NoIntent = NoIntent
  MaxPosition = 1
  MaxVersion = 4
INVARIANTS
  EveryStateHasAnOwner
PROPERTIES
  RetiredTokensAreInert
  ChangesAreTold
  ImplementsLedger
  WaitingEnds
CONSTRAINT NumberedInOrder
