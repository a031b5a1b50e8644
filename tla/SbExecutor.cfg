SPECIFICATION Spec
CONSTANTS
  MaxCa = 2
  MaxLen = 6
  Images <- ImagesMC
  Starts <- StartsMC
  MaxFaults = 1
  RecoveryEnable = {TRUE, FALSE}
INVARIANTS ChainAnchored OnlyIntactCodeInMemory StartedCodeIsComplete TableIsOfThisImage SoundImageStarts
CHECK_DEADLOCK FALSE
