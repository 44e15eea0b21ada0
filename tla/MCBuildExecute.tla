--------------------------- MODULE MCBuildExecute ---------------------------
(* Instances of BuildExecute for TLC: an approximate and a precise job on   *)
(* two workers, or three jobs on one.                                      *)
EXTENDS BuildExecute, TLC

CONSTANTS w1, w2, a1, a2, p1

MCApprox == {a1}
MCJobs == {a1, p1}
MCThreeApprox == {a1, a2}
MCThreeJobs == {a1, a2, p1}
MCWorkers == {w1, w2}
MCOneWorker == {w1}
MCCleanMeToo == {"output"}
=============================================================================
