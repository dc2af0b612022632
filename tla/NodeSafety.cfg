CONSTANTS
  Jobs = {j1, j2}
  NoJob = NoJob
  CallSeconds = {0}
  SaveMayFail = FALSE
  Intervals = {3600}
  CanRevoke = TRUE
  MaxLate = 1
SPECIFICATION Spec
SYMMETRY JobSymmetry
INVARIANTS ResultNeverLost PersistedBeforeSent RunsOnlyAcceptedJobs RecordedIsTrue NoWorkWhileUndelivered HeartbeatNamesJob
PROPERTIES NeverOverwritten ImplementsCustody
