SPECIFICATION SpecSelection
CONSTANTS
  Loops <- MCLoops
  BufferSize = 4
  MaxEntries = 2
  Programs <- MCPrograms
INVARIANT
  OnlyNamedAreRewritten
\* INVARIANT NoStoresInLoops
\* INVARIANT BuildIsDefined
\* INVARIANT IndirectCallsAreBuilt
\* INVARIANT DependenciesAreBuffered
\* INVARIANT LatchIsSatisfied
\* INVARIANT MemoryIsBuffered
\* INVARIANT AddressesFit
CHECK_DEADLOCK FALSE
