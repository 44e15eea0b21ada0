SPECIFICATION FairSpec
CONSTANTS
  k1 = k1
  k2 = k2
  j1 = j1
  j2 = j2
  j3 = j3
  NoKey = NoKey
  Keys <- MCKeys
  JobIds <- MCTwoJobIds
  MaxEpoch = 2
  MaxSessions = 2
  JobsMayFail = TRUE
INVARIANTS
  NoCallIsLost
  ForceAnswersFresh
  CleanExitIsComplete
PROPERTIES
  OnlyForceForgets
  ImplementsFutures
  GetTerminates
CHECK_DEADLOCK FALSE
