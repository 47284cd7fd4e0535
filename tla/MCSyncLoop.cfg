SPECIFICATION SyncSpec
CONSTANTS
  d1 = d1
  d2 = d2
  o1 = o1
  o2 = o2
  o3 = o3
  e1 = e1
  i1 = i1
  Devices = {d1, d2}
  Operations = {o1, o2, o3}
  Entities = {e1}
  Items = {i1}
  NoItem = NoItem
  NoList = NoList
  NoResult = NoResult
  Unset = Unset
  NoRow = NoRow
  NoEntry = NoEntry
  NoCursor = NoCursor
  Ids <- SomeIds
  Issued <- SomeBodies
  MaxEpoch = 2
  MaxRevision = 3
  s1 = s1
  s2 = s2
  Source <- Cut
  Manifests <- SomeManifests
  Deliveries <- SomeDeliveries
  SnapshotId = s1
  MaxVersionChars = 2
  MaxTotalChunks = 3
  MaxChunkSize = 3
  NoManifest = NoManifest
INVARIANTS
  AcknowledgedIsCommitted
  StateIsReplay
  OutboxAgreesWithArchive
  SnapshotIsWholeOrRefused
PROPERTIES
  StoresAreOutboxes
SYMMETRY Symmetry
CONSTRAINT OwnersKind
