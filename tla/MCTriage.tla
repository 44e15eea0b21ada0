------------------------------ MODULE MCTriage ------------------------------
(* An instance of Triage for TLC: three results of two replicas; errors in   *)
(* tenths, speedups in units of which 2 is no speedup.                      *)
EXTENDS Triage

MCScores == {0, 3, 8}
MCSpeedups == {[v |-> 2, e |-> 0], [v |-> 4, e |-> 0], [v |-> 5, e |-> 1],
               [v |-> 7, e |-> 1]}
=============================================================================
