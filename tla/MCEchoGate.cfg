\* The default policy: test_echo_propagation_basic.
CONSTANTS
  a = a
  b = b
  c = c
  s = s
  Addr <- MCAddr
  Sector = {s}
  SectorOf <- MCSectorOf
  DependentMaps <- MCDependentMaps
  RegisteredSets <- MCRegisteredSets
  Inserts <- MCInserts
  Bits = {1}
  Layers = {1, 13}
  Policies <- MCDefaultPolicies
  QueueSizes = {2}
  U8 = 2
  NoEcho = NoEcho
  MaxAccepted = 2
  MaxDropped = 1
  MaxRounds = 2
SPECIFICATION Spec
INVARIANT
  DependentUpdated
CHECK_DEADLOCK FALSE
