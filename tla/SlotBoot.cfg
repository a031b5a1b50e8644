SPECIFICATION FairSpec
CONSTANTS
  UEnv = {e1, e2}
  EmptyEnv = EmptyEnv
  SectorOf <- Sectors64K
  RecoveryEnable = TRUE
  Broken = {"b"}
  BlankUboot = TRUE
  MaxCuts = 2
  MaxFaults = 2
  MaxRequests = 1
INVARIANTS TrialStartsOnce SafeVolumeKeepsItsEnv MarkPrecedesStart
PROPERTIES BrokenTrialIsLeft TrialSpec
