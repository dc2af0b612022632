CONSTANTS
  Jobs = {j1}
  NoJob = NoJob
  CallSeconds = {0, 15}
  SaveMayFail = FALSE
  Intervals = {0, 20}
  CanRevoke = TRUE
  MaxLate = 1
SPECIFICATION FairSpec
PROPERTIES EventuallyDelivered HeartbeatGoesOn
