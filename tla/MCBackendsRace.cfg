\* Two calls that both reach llama.cpp.
SPECIFICATION Spec
CONSTANTS
  x = x
  y = y
  z = z
  X = x
  Y = y
  Z = z
  None = None
  W = 2
  Threads = {t1, t2}
  Ops <- MCOps
  Operands <- MCOperands
  Stores <- MCStores
  Wanted <- MCWanted
  EnergyAware = {TRUE}
  Embd = 64
  LayerCount = 4
  MaxHandles = 3
  MaxCalls = 2
INVARIANTS
  OneThreadPerContext
CHECK_DEADLOCK FALSE
