CONSTANTS
  Jobs = {j1}
  NoJob = NoJob
  CallSeconds = {0}
  SaveMayFail = TRUE
  Intervals = {10}
  CanRevoke = FALSE
  MaxLate = 0
SPECIFICATION Spec
INVARIANTS ResultNeverLost
