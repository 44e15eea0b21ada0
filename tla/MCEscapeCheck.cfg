SPECIFICATION FairSpec
CONSTANTS
  Graphs <- MCGraphs
  Bodies <- MCBodies
  MaxLen = 2
  Regions <- MCRegions
INVARIANTS
  EscapesBlock
  HarmlessPasses
PROPERTY Terminates
CHECK_DEADLOCK FALSE
