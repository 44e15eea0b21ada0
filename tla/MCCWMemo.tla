------------------------------ MODULE MCCWMemo ------------------------------
(* Instances of CWMemo for TLC: two calls, three job ids, two processes.   *)
EXTENDS CWMemo

CONSTANTS k1, k2, j1, j2, j3

MCKeys == {k1, k2}
MCJobIds == {j1, j2, j3}
MCTwoJobIds == {j1, j2}

=============================================================================
