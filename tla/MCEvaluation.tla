---------------------------- MODULE MCEvaluation ----------------------------
(* An instance of Evaluation for TLC: a loop with three parameters and a lock. *)
EXTENDS Evaluation

MCSites == {"loop", "lock"}
MCParamMax == [s \in MCSites |-> IF s = "loop" THEN 3 ELSE 1]
MCKinds == {"loopperf", "desync"}
MCKindOf == [s \in MCSites |-> IF s = "loop" THEN "loopperf" ELSE "desync"]

All == [only |-> {}, tuned |-> TRUE, composite |-> TRUE]
MCOptions ==
  {All, [All EXCEPT !.only = {"main"}], [All EXCEPT !.only = {"desync"}],
   [All EXCEPT !.tuned = FALSE], [All EXCEPT !.composite = FALSE]}
=============================================================================
