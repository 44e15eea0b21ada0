SPECIFICATION Spec
CONSTANTS
  x1 = x1
  x2 = x2
  a = a
  p = p
  q = q
  t1 = t1
  t2 = t2
  t3 = t3
  Null = Null
  Free = Free
  Vars <- MCVars
  Depth <- MCDepth
  Approx <- MCApprox
  After <- MCAfter
  Temps <- MCTwoTemps
  Followed <- MCChained
INVARIANT
  NothingAliases
CHECK_DEADLOCK FALSE
