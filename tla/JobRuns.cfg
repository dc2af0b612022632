CONSTANTS
  Timeout = 2
  Grace = 1
  PipeCapacity = 1
  MaxOutput = 2
  Chatty = FALSE
  MaxAttempts = 3
SPECIFICATION FairSpec
INVARIANTS SignalsOwnGroup
PROPERTIES SuccessIsEarned NothingLeftBehind HardDeadline
CHECK_DEADLOCK FALSE
