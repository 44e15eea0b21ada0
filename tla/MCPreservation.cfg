SPECIFICATION FairSpecBody
CONSTANTS
  Ids = {"a", "b"}
  Kinds <- MCKinds
  Programs <- MCPrograms
  MaxParam = 2
  Width = 2
  Trips = {0, 1, 4, 5}
  Entries = 2
  Bodies <- MCBodies
  Locals = {"x", "y", "t"}
  Observed = {"x"}
  Inputs = {0, 3}
  Garbage = 7
  Bits = 4
INVARIANTS
  BodyRunsOneInFactor
  ClonesAreDefined
  SamePlaces
  IncrementsAreHeld
PROPERTY LoopEnds
CHECK_DEADLOCK FALSE
