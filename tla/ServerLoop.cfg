SPECIFICATION FairLoopSpec
CONSTANTS
  UsesTls = TRUE
  MaxRequest = 3
  MaxPart = 2
  WireCap = 2
  Window = 2
INVARIANTS NothingCarriedOver OneLateTransfer
PROPERTIES GivenUpIsLast StopReturns RequestComesToEnd
CHECK_DEADLOCK FALSE
