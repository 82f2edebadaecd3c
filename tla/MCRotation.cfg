\* Layers 0 (1 ms), 1 (2 ms, of the first of its two tiers), 2 (32 ms) and 11
\* (saturated at U64). Callers advance by half a millisecond, by one and a half (twice is a
\* cycle of layer 1 and one tick short of it) and by 32. Unit is a multiple of every period.
SPECIFICATION Spec
CONSTANTS
  Threads = {"t1", "t2"}
  Free = Free
  Inf = Inf
  NaN = NaN
  Tiers <- MCTiers
  Policies <- MCPolicies
  Elapsed = {1, 3, 64}
  Ticks = 2
  Unit = 192
  U64 = 96
  PrefetchAbove = 10
  MaxWaiting = 1
  MaxCalls = 4
INVARIANTS
  TypeOK
  PeriodFromOneFactor
  CyclesAccountForTime
  PhaseInCycleUnlessOutrun
  RotationDrainsNothing
PROPERTIES
  AdvanceReturns
CHECK_DEADLOCK FALSE
