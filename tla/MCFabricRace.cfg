\* The default policy: two adaptations of one register.
CONSTANTS
  p = p
  c = c
  r = r
  s = s
  Threads = {t1, t2}
  Addr <- MCAddr
  Sector = {s}
  SectorOf <- MCSectorOf
  LayerOf <- MCLayerOf
  Child <- MCChild
  PopulatedSets <- MCPopulatedSets
  ComputeOps <- MCComputeOps
  Payloads = {{1}}
  Deltas = {{1}}
  Bits = {1}
  Layers = {13}
  Policies <- MCDefaultPolicies
  U8 = 2
  NoEcho = NoEcho
  NoLane = NoLane
  Free = Free
  NoCall = NoCall
  MaxCalls = 3
SPECIFICATION Spec
INVARIANT
  FoldIsAtomic
CHECK_DEADLOCK FALSE
