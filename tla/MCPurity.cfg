SPECIFICATION PurityFairSpec
CONSTANTS
  Functions <- MCFunctions
  Programs <- MCPrograms
INVARIANTS
  PureIsSound
  OnlyRecursionIsUndecided
PROPERTIES
  VerdictsStand
  EndsWithVerdicts
CHECK_DEADLOCK FALSE
