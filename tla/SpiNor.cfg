SPECIFICATION FairSpec
CONSTANTS
  Table <- TableMC
  Fitted <- FittedMC
  Low = 16
  Word = 64
  Regions <- RegionsMC
  Patterns <- PatternsMC
  MaxCalls = 3
  MaxResets = 1
INVARIANT StoredSurvives
PROPERTIES StoreSpec EveryCallReturns
CHECK_DEADLOCK FALSE
