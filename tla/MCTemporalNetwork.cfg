SPECIFICATION Spec
CONSTANTS
  g1 = g1
  g2 = g2
  g3 = g3
  None = None
  Address <- MCAddress
  GateDefs <- MCGateDefs
  Packets <- MCPackets
  Calls <- MCCalls
  MaxScheduled = 3
INVARIANTS
  SealedPacketFollowsItsControl
  EveryHopIsAccountedFor
PROPERTIES
  ClockGoesBackOnlyToBackdated
  RunReturns
CHECK_DEADLOCK FALSE
