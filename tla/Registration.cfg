CONSTANTS
  NodeIds = {n1, n2, n3}
  None = None
  MaxCommands = 4
SPECIFICATION FairSpec
INVARIANTS ServiceCanRead DaemonIsThisNode RegisterIsAtomic NoStrandedRow LeavesLocally
PROPERTIES Joins
CHECK_DEADLOCK FALSE
