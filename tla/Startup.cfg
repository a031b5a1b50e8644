SPECIFICATION Spec
CONSTANTS
  Fifos = 2
  MaxWraps = 3
  Slots = 3
  DdrFirst = 1
  DdrLast = 2
  Ddr = 10
  Buffers <- BuffersMC
  MaxReq = 2
INVARIANTS HandlerInPlace TimeBehind NoDoorbellDropped WindowsExact
CHECK_DEADLOCK FALSE
