SPECIFICATION Spec
CONSTANTS
  w1 = w1
  w2 = w2
  a1 = a1
  a2 = a2
  p1 = p1
  NoJob = NoJob
  Workers <- MCWorkers
  Jobs <- MCThreeJobs
  Approx <- MCThreeApprox
  LeftOver <- Files
  CleanMeToo <- MCCleanMeToo
INVARIANTS
  ResultsAreOwn
  StatusTellsTheTruth
  StandsInItsSandbox
PROPERTY ApplicationUntouched
CHECK_DEADLOCK FALSE
