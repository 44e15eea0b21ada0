------------------------------ MODULE MCPurity ------------------------------
(* An instance of Purity for TLC: every way three functions can call each      *)
(* other, two of them of any source.                                           *)
EXTENDS Purity

MCFunctions == {"f", "g", "h"}
MCPrograms ==
  UNION {[source : {s}, blocked : SUBSET d,
          calls : {c \in [MCFunctions -> SUBSET MCFunctions] :
                     \A f \in MCFunctions \ d : c[f] = {}}] :
         <<s, d>> \in {<<t, {f \in MCFunctions : t[f] = "defined"}>> :
                         t \in {u \in [MCFunctions -> Sources] : u["f"] = "defined"}}}
=============================================================================
