CONSTANTS
  NCases = 3
  NJobs = 2
  NGpu = 2
SPECIFICATION FairSpec
INVARIANTS OnePerGpu DoneMeansRan
PROPERTIES EachCaseOnce StudyCompletes
CHECK_DEADLOCK FALSE
