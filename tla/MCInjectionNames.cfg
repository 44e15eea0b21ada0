SPECIFICATION SpecInjection
CONSTANTS
  Graphs <- MCGraphs
  Bodies <- ShortBodies
  Mutexes = {"m"}
  MaxLen = 6
  MaxEnabled = 1
\* One statement at a time: the others are in comments.
INVARIANT HooksAreWhatWasChosen
\* INVARIANT InjectionBuilds
CHECK_DEADLOCK FALSE
