----------------------------- MODULE MCInjection -----------------------------
(* Instances of SyncElision and Injection for TLC: functions of four blocks, in *)
(* line, with branches, and with loops; the code of a block is from a list.     *)
EXTENDS Injection

Diamond == <<{2, 3}, {4}, {4}, {}>>
Skip == <<{2}, {3, 4}, {4}, {}>>
Loop == <<{2}, {2, 3}, {4}, {}>>
Wide == <<{2}, {3}, {2, 4}, {}>>
Swapped == <<{3}, {4}, {2}, {}>>    \* in line, not laid out in that order
MCGraphs == {Swapped, Diamond, Skip, Loop, Wide}

I(op) == [op |-> op, mutex |-> "none"]
Acquire(m) == [op |-> "acquire", mutex |-> m]
Release(m) == [op |-> "release", mutex |-> m]

LockBodies ==
  {<<I("precise")>>, <<I("approx")>>, <<Acquire("m")>>, <<Release("m"), I("region")>>,
   <<I("precise"), Release("m"), Acquire("m")>>,<<I("barrier")>>, <<I("barrier"), I("precise")>>, <<I("indirect"), I("plain")>>,
   <<Acquire("m"), I("plain"), I("approx"), Release("m"), Acquire("m"), Release("m")>>}
BarrierBodies ==
  {<<I("precise")>>, <<I("approx")>>, <<I("barrier")>>,
   <<I("precise"), I("barrier"), I("approx")>>}
ShortBodies ==
  {<<I("approx")>>, <<I("plain")>>, <<I("indirect")>>, <<I("region")>>,
   <<Acquire("m"), I("plain"), I("approx"), I("approx"), Release("m")>>}
=============================================================================
