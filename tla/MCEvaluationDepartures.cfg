SPECIFICATION Spec
CONSTANTS
  Sites <- MCSites
  ParamMax <- MCParamMax
  Kinds <- MCKinds
  KindOf <- MCKindOf
  Options <- MCOptions
  MaxGenerations = 3
  Durations = {1, 3}
  Noise = 1
  Budgets = {1, 2}
\* One statement at a time: the others are in comments.
INVARIANT SurvivorsAreFaster
\* INVARIANT OptionsAreHonoured
\* INVARIANT SearchReturnsAllSafe
CHECK_DEADLOCK FALSE
