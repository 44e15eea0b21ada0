SPECIFICATION TriageSpec
CONSTANTS
  N = 3
  Reps = 2
  Scores <- MCScores
  Speedups <- MCSpeedups
  FullError = 10
  MaxError = 3
  EpsError = 4
  EpsSpeedup = 2
  NoSpeedup = 2
  Simulate = FALSE
INVARIANT OnlyOptimalAreTested
CHECK_DEADLOCK FALSE
