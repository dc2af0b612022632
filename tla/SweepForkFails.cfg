CONSTANTS
  NCases = 2
  NJobs = 2
  NGpu = 2
SPECIFICATION Spec
INVARIANTS SummaryIsTrue
CHECK_DEADLOCK FALSE
