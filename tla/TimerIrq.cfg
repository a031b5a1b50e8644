SPECIFICATION TimerSpec
CONSTANTS
  Word = 6
  Pause = 2
  High = 3
  Delays <- DelaysMC
  Modes <- Interrupt
  MaxTime = 20
INVARIANTS DelayLongEnough
CHECK_DEADLOCK FALSE
