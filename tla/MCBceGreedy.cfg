SPECIFICATION GreedySpec
CONSTANTS
  s1 = s1
  s2 = s2
  Sites <- MCSites
  ParamMax <- MCParamMax
  Levels <- MCLevels
  Values = {1, 2}
  Losses <- MCLosses
  N = 3
  MaxError = 2
SYMMETRY MCSymmetry
INVARIANTS
  ChosenAreDisjoint
  ErrorIsTracked
  BudgetIsKept
CHECK_DEADLOCK FALSE
