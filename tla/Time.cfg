SPECIFICATION TimeSpec
CONSTANTS
  NumTops = 2
  MaxCoef = 3
  Bits = 6
  KHz = 4
  Sec = 2
  Timeouts <- WithinMax
  PowerOnTop <- AnyTop
  Word = 6
  Pause = 2
  High = 3
  Delays <- DelaysMC
  Modes <- Both
  MaxTime = 20
  Count = 9
  AreaBytes = 2048
  OsIds <- OsIdsMC
  MaxClock = 3
  MaxBoots = 2
INVARIANTS NoEarlyReset ReportedTimeoutHolds PolledDelayLongEnough WrapsCounted ReportsFirstMark SblStagesKept
CHECK_DEADLOCK FALSE
