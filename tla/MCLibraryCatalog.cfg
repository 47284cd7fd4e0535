CONSTANTS
  p1 = p1  p2 = p2  a1 = a1  a2 = a2  f1 = f1  f2 = f2  m1 = m1
  Processes = {p1, p2}
  Migrations <- MCMigrations
  Binaries <- MCBinaries
  Creates <- MCCreates
  Broken = {}
  Contents <- MCContents
  EmptyContent <- NewCatalog
  NoProcess = NoProcess
  Scans = {1, 2}
  Times = {1, 2}
  Assets = {a1, a2}
  Facts <- MCFacts
  Media = {m1}
  NoScan = 0
  Prints = {"old", "new"}
  StoredPrint <- MCPrint
  Gone = "gone"
  Directories <- MCDirectories
  Results = {"ProbeSucceeded"}
  NoPlan = NoPlan
SPECIFICATION LibrarySpec
SYMMETRY Symmetry
INVARIANTS SchemaIsTheLedger ReadyIsCurrent StatsAreTheFacts NewestScanCounts

CONSTRAINT OneConcern OneDirectory
