SPECIFICATION Spec
CONSTANTS
  Graphs <- MCGraphs
  Bodies <- CastBodies
  MaxLen = 2
  Regions <- MCRegions
INVARIANT EscapesBlock
CHECK_DEADLOCK FALSE
