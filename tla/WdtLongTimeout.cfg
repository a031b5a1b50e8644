SPECIFICATION Spec
CONSTANTS
  NumTops = 2
  MaxCoef = 3
  Bits = 6
  KHz = 4
  Sec = 2
  Timeouts <- BeyondMax
  PowerOnTop <- AnyTop
INVARIANTS NoEarlyReset
CHECK_DEADLOCK FALSE
