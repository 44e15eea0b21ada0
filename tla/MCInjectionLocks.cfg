SPECIFICATION SpecInjection
CONSTANTS
  Graphs <- MCGraphs
  Bodies <- LockBodies
  Mutexes = {"m"}
  MaxLen = 6
  MaxEnabled = 0
\* One statement at a time: the others are in comments.
INVARIANT ConfigIsApplied
\* INVARIANT LocksStayBalanced
CHECK_DEADLOCK FALSE
