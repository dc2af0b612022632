CONSTANTS
  Timeout = 2
  Grace = 1
  PipeCapacity = 1
  MaxOutput = 2
  Chatty = TRUE
  MaxAttempts = 1
SPECIFICATION FairSpec
PROPERTIES HardDeadline
CHECK_DEADLOCK FALSE
