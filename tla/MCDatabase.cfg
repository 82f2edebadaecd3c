SPECIFICATION Spec
CONSTANTS
  Addr <- MCAddr
  Sector <- MCSector
  SectorOf <- MCSectorOf
  AnchorOf <- MCAnchorOf
  HashBits <- MCHashBits
  Estimate <- MCEstimate
  NumBits = 256
  NumHashes = 3
  U8 = 3
  Threads = {"t1", "t2"}
  Entities = {1}
  Ids = {0, 1}
  Records <- MCRecords
  LastSector = 2
  Values = {{2}}
  Tombstone = {1}
  ComputeResults <- MCResults
  Scans <- MCScans
  Parents <- MCParents
  NoCall = NoCall
  MaxCalls = 5
INVARIANTS
  ListedNeverDenied
  FilterIsRebuild
  ScanMissesOnlyCollidingSectors
  ParentDeniesOnlyForeignHashes
PROPERTIES
  UpdateFindsInsertOnlyByType
  RegistryImplementsMembership
CHECK_DEADLOCK FALSE
