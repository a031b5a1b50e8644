SPECIFICATION Spec
CONSTANTS
  Boot <- BootMC
  Service <- ServiceMC
  Foreign <- ForeignMC
  Channels <- ChannelsMC
  Gens <- GensMC
  Table <- TableMC
  Masked <- MaskedMC
  MaxReq = 0
INVARIANT MailboxDelayHolds
CHECK_DEADLOCK FALSE
