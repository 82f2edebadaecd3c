SPECIFICATION Spec
CONSTANTS
  GeneLength = 2
  PopulationSize = 2
  MaxGenerations = 2
  Threshold = 1
  Top = 2
  Half = 2
  Rate = 1
  OpLength = 2
  Ops = {"Cos"}
  Lanes <- MCLanes
  Hashes <- MCHashes
  IntentHash <- MCIntentHash
  MinAlignment = 1
  MinSuccess <- MCMinSuccess
  None = None
  MaxCalls = 3
INVARIANTS
  SignedIntentPassesNoVerifier
PROPERTIES
  BestNeverWorsens
  EvolutionAddsNoBit
  AppliedClosesGap
CHECK_DEADLOCK FALSE
