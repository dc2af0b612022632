SPECIFICATION Spec
SYMMETRY MCSymmetry
CONSTANTS
  Procs = {p1, p2}
  Tests = {"unit", "gate"}
  Scripts = {"gate.sh"}
  Binaries = {"bin"}
  InTree = {"data"}
  Outside = {"tutorials"}
  Envs = {"off", "on"}
  Requests <- MCRequests
  BuildOf <- MCBuildOf
  Exes <- MCExes
  Direct <- MCDirect
  Writes <- MCWrites
  Named <- MCNamed
  DigestOf <- MCDigestOf
  Outcome <- MCOutcome
  MaxVersion <- MCMaxVersion
  MaxClock = 2
  MaxRuns = 2
  None = None
  Torn = Torn
INVARIANT HeldIsEarned
INVARIANT MemoIsTrue
CHECK_DEADLOCK FALSE
