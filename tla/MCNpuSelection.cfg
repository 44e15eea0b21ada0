SPECIFICATION SpecSelection
CONSTANTS
  Loops <- MCLoops
  BufferSize = 4
  MaxEntries = 2
  Programs <- MCPrograms
INVARIANTS
  ReplaysAreInOrder
  StateGoesOn
  OnlyATailIsLost
  LoopsAreRewrittenAsNamed
CHECK_DEADLOCK FALSE
