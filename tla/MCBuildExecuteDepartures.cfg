SPECIFICATION Spec
CONSTANTS
  w1 = w1
  w2 = w2
  a1 = a1
  a2 = a2
  p1 = p1
  NoJob = NoJob
  Workers <- MCOneWorker
  Jobs <- MCJobs
  Approx <- MCApprox
  LeftOver <- Files
  CleanMeToo <- MCCleanMeToo
\* One statement at a time: the others are in comments.
INVARIANT SandboxIsCleanedUp
\* INVARIANT DirectoryIsRestored
CHECK_DEADLOCK FALSE
