---------------------------- MODULE MCBceGreedy ----------------------------
(* Instances of BceGreedy for TLC: three components over two sites.         *)
EXTENDS BceGreedy, TLC

CONSTANTS s1, s2

MCSites == {s1, s2}
MCParamMax == [s \in MCSites |-> 2]
MCLevels == {0, 1, 2}
MCLosses == {1, 3}
MCSymmetry == Permutations(MCSites)
=============================================================================
