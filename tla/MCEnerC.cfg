SPECIFICATION Spec
CONSTANTS
  x1 = x1
  x2 = x2
  a = a
  p = p
  q = q
  t1 = t1
  t2 = t2
  t3 = t3
  Null = Null
  Free = Free
  Vars <- MCVars
  Depth <- MCDepth
  Approx <- MCApprox
  After <- MCAfter
  Temps <- MCTemps
  Followed <- MCFollowed
SYMMETRY Symmetry
INVARIANTS
  PreciseAgrees
  AliasesAgree
\* A state in which the checker has reported an error or a gap was met has no
\* successor; it is checked and not stored.
CONSTRAINT Going
CHECK_DEADLOCK FALSE
