SPECIFICATION SpecInjection
CONSTANTS
  Graphs <- MCGraphs
  Bodies <- BarrierBodies
  Mutexes = {}
  MaxLen = 6
  MaxEnabled = 0
INVARIANT PreciseStaysBehindBarrier
CHECK_DEADLOCK FALSE
