SPECIFICATION SpecInjection
CONSTANTS
  Graphs <- MCGraphs
  Bodies <- LockBodies
  Mutexes = {"m"}
  MaxLen = 6
  MaxEnabled = 2
INVARIANTS
  PairedLocksStayBalanced
  PreciseStaysGuarded
  HooksStayWithTheirBlock
CHECK_DEADLOCK FALSE
