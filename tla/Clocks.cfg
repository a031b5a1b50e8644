SPECIFICATION FairSpec
CONSTANTS
  Boot <- BootMC
  Service <- ServiceMC
  Foreign <- ForeignMC
  Channels <- ChannelsMC
  Gens <- GensMC
  Table <- TableMC
  Masked <- MaskedMC
  MaxReq = 5
INVARIANTS ClockOnlyWhenPowered BypassWhileComingUp AnswerTellsState PllChangesUnderBypass ApbWithinWatchdog OtpReadSlow CoreStartsReady
PROPERTY EveryWaitEnds
CHECK_DEADLOCK FALSE
