------------------------------ MODULE MCEnerC ------------------------------
(* An instance of EnerC for TLC: an array x1 x2 of precise integers, an     *)
(* approximate integer a, and a pointer to either kind.                     *)
EXTENDS EnerC, TLC

CONSTANTS x1, x2, a, p, q, t1, t2, t3

MCVars == {x1, x2, a, p, q}
MCDepth == [v \in MCVars |-> IF v \in {p, q} THEN 2 ELSE 1]
MCApprox == {a, q}
MCAfter == [v \in MCVars |-> IF v = x1 THEN x2 ELSE Null]
MCTemps == {t1, t2, t3}
MCTwoTemps == {t1, t2}
MCFollowed == {}
MCChained == {"chained"}
Symmetry == Permutations(MCTemps)
=============================================================================
