\* Two threads, three calls of any kind, full and empty queues, gated and ungated.
CONSTANTS
  p = p
  c = c
  r = r
  s = s
  Threads = {t1, t2}
  Addr <- MCAddr
  Sector = {s}
  SectorOf <- MCSectorOf
  LayerOf <- MCLayerOf
  Child <- MCChild
  PopulatedSets <- MCPopulatedSets
  ComputeOps <- MCComputeOps
  Payloads = {{1}}
  Deltas = {{1}}
  Bits = {1}
  Layers = {13}
  Policies <- MCPolicies
  U8 = 2
  NoEcho = NoEcho
  NoLane = NoLane
  Free = Free
  NoCall = NoCall
  MaxCalls = 3
SPECIFICATION FairSpec
INVARIANTS
  TypeOK
  NoInterference
  SelfDeadlockOnlyUngated
  BloomCoversWrites
PROPERTIES
  OnlyPropagateDrains
  CallsReturn
CHECK_DEADLOCK FALSE
