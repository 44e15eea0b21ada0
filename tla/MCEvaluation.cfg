SPECIFICATION Spec
CONSTANTS
  Sites <- MCSites
  ParamMax <- MCParamMax
  Kinds <- MCKinds
  KindOf <- MCKindOf
  Options <- MCOptions
  MaxGenerations = 3
  Durations = {1, 3}
  Noise = 1
  Budgets = {1, 2}
INVARIANTS
  GetsFollowSubmits
  SearchClimbs
  SearchIsExhaustive
  NothingBetterIsDropped
CHECK_DEADLOCK FALSE
