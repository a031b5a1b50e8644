SPECIFICATION Spec
CONSTANTS
  Keys <- KeysMC
  Vals <- ValsMC
  Width <- WidthMC
  Attr <- AttrMC
  Region = 9
  Hdr = 1
  Uses <- UsesMC
  Contents <- ContentsMC
  MaxOps = 4
  MaxFaults = 1
INVARIANTS LastSetCounts FlagsInStep RoundTrip IterationComplete
CHECK_DEADLOCK FALSE
