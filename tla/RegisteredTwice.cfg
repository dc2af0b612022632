CONSTANTS
  NodeIds = {n1, n2, n3}
  None = None
  MaxCommands = 2
SPECIFICATION Spec
INVARIANTS NeverRegistersTwice
CHECK_DEADLOCK FALSE
