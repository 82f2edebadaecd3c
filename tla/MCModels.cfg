SPECIFICATION Spec
CONSTANTS
  Addr = {1, 2}
  Width = 2
  Threads = {"t1", "t2"}
  BaseAddress = 1
  WeightCount = 1
  Names = {"m", "n"}
  NoName = NoName
  Payloads = {{0}, {1}}
  Deltas = {{0}}
  Compounds <- MCCompounds
  NoRegister = NoRegister
  NoCompound = NoCompound
  NoCall = NoCall
  MaxCalls = 6
INVARIANTS
  LineageDeterminesPayload
  OnlyDeltasReadAsCorrupt
  ConsistentCompoundIsCurrent
  TornOnlyByTwoChanges
CHECK_DEADLOCK FALSE
