SPECIFICATION SpecBody
CONSTANTS
  Ids = {"a", "b"}
  Kinds <- MCKinds
  Programs <- AllPrograms
  MaxParam = 2
  Width = 2
  Trips = {0, 1, 4, 5}
  Entries = 2
  Bodies <- MCBodies
  Locals = {"x", "y", "t"}
  Observed = {"x"}
  Inputs = {0, 3}
  Garbage = 7
  Bits = 4
\* One statement at a time: the others are in comments.
INVARIANT PerforatedIsElidable
\* INVARIANT LoopStillExits
\* INVARIANT LoadsWhatWasSaved
\* INVARIANT NoTrapIsAdded
\* INVARIANT RelaxedBuildIsMade
CHECK_DEADLOCK FALSE
