SPECIFICATION Spec
CONSTANTS
  UEnv = {e1, e2}
  EmptyEnv = EmptyEnv
  SectorOf <- Sectors64K
  RecoveryEnable = FALSE
  Broken = {"b"}
  BlankUboot = FALSE
  MaxCuts = 1
  MaxFaults = 0
  MaxRequests = 1
INVARIANT ReservedCopyRestored
