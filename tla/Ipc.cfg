SPECIFICATION FairSpec
CONSTANTS
  Link <- LinksMC
  Usages <- UsagesMC
  MaxReq = 2
  FifoWords = 8
  Blocks = 4
  Slot <- SlotsMC
INVARIANTS ExactlyOnceInOrder AnswerIsMine PanicOnlyWithCause NothingLeaks
PROPERTIES EveryRequestAnswered
CHECK_DEADLOCK FALSE
