SPECIFICATION Spec
CONSTANTS
  k1 = k1
  k2 = k2
  j1 = j1
  j2 = j2
  j3 = j3
  NoKey = NoKey
  Keys <- MCKeys
  JobIds <- MCTwoJobIds
  MaxEpoch = 1
  MaxSessions = 1
  JobsMayFail = FALSE
INVARIANT GetFindsSubmittedCalls
CHECK_DEADLOCK FALSE
