---------------------------- MODULE MCEscapeCheck ---------------------------
(* Instances of EscapeCheck for TLC: three blocks, in line, with a branch, in *)
(* a loop, and in a loop of one block.                                        *)
EXTENDS EscapeCheck

Line == <<{2}, {3}, {}>>
Diamond == <<{2, 3}, {3}, {}>>
Loop == <<{2}, {1, 3}, {}>>
SelfLoop == <<{2}, {2, 3}, {}>>
MCGraphs == {Line, Diamond, Loop, SelfLoop}
Blocks(bs) == bs \X (1..2)
Between == {<<1, 2>>, <<2, 1>>, <<2, 2>>, <<3, 1>>}
MCRegions == {Blocks({2}), Blocks({1, 2}), Blocks({1, 2, 3}), Between, {<<2, 1>>}}

I(op, ptr) == [op |-> op, ptr |-> ptr]
Uncast == {I(op, "none") : op \in {"inside", "outside", "return", "impure",
                                   "acquire", "release"}}
          \cup {I(op, "alloca") : op \in {"capture", "lend", "store", "load"}}
          \cup {I("store", "argument")}
MCBodies == {<<i>> : i \in Uncast}
            \cup {<<I("store", "alloca"), I("load", "alloca")>>,
                  <<I("load", "alloca"), I("store", "alloca")>>,
                  <<I("acquire", "none"), I("release", "none")>>,
                  <<I("acquire", "none"), I("acquire", "none")>>}
CastBodies == {<<I("approx", "none")>>, <<I("lend", "cast")>>, <<I("store", "cast")>>,
               <<I("load", "alloca")>>}
=============================================================================
