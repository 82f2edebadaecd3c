\* Every policy, chains and fan-outs; a byte is scaled to two values so that it overflows.
CONSTANTS
  a = a
  b = b
  c = c
  s = s
  Addr <- MCAddr
  Sector = {s}
  SectorOf <- MCSectorOf
  DependentMaps <- MCDependentMaps
  RegisteredSets <- MCRegisteredSets
  Inserts <- MCInserts
  Bits = {1}
  Layers = {1, 13}
  Policies <- MCPolicies
  QueueSizes = {1, 2}
  U8 = 2
  NoEcho = NoEcho
  MaxAccepted = 2
  MaxDropped = 1
  MaxRounds = 2
SPECIFICATION FairSpec
INVARIANTS
  TypeOK
  DepthWithinLimit
  OnlyColdRequeued
  QueueBoundedForChains
  AtMostOnceDelivery
PROPERTY
  PropagateTerminates
CHECK_DEADLOCK FALSE
