---------------------------- MODULE EscapeCheck ----------------------------
(***************************************************************************)
(* preciseEscapeCheck of pass/approxinfo.cpp: which instructions of a      *)
(* region keep it from being treated as approximate.                       *)
(*                                                                         *)
(* A function is a control-flow graph of blocks of instructions.  Of an    *)
(* instruction only its effect matters: an approximate one (or one on a    *)
(* line marked ACCEPT_PERMIT, or a branch), a value used inside or outside *)
(* the region, a precise load or store through a pointer, a call.  A call  *)
(* may be handed a pointer: "capture" by an impure function, which may     *)
(* keep it, "lend" by a precise-pure one, which only reads through it.     *)
(* The flags are kept in a map ordered by address, so that the             *)
(* instructions are visited in any order.                                  *)
(***************************************************************************)
EXTENDS Integers, Sequences, FiniteSets

CONSTANTS
  Graphs,    \* control-flow graphs: functions from blocks to sets of blocks
  Bodies,    \* sequences of instructions that a block may hold
  MaxLen,    \* how long a block may be
  Regions    \* the sets of places that are analysed: blocks, or a critical section

\* Pointers: two of one local variable, of which Cast is a bitcast of Alloca,
\* and one from elsewhere.
Pointers == {"alloca", "cast", "argument"}

Instructions ==
  [op : {"approx", "inside", "outside", "return", "impure", "acquire", "release"},
   ptr : {"none"}] \cup [op : {"load", "store", "capture", "lend"}, ptr : Pointers]

ASSUME BodiesAssumption ==
  /\ MaxLen \in Nat
  /\ Bodies \subseteq Seq(Instructions)
  /\ \A body \in Bodies : Len(body) \in 1..MaxLen

ASSUME RegionsAssumption ==
  \A g \in Graphs :
    /\ IsFiniteSet(DOMAIN g)
    /\ \A b \in DOMAIN g : g[b] \subseteq DOMAIN g
    /\ \A r \in Regions : r \subseteq (DOMAIN g) \X (1..MaxLen)

VARIABLES
  graph, code,  \* the function
  region,       \* the places of the region
  flags,        \* the instructions marked so far: flags[i] is set
  left,         \* what this pass over the flags has still to visit
  changes,      \* how many flags this pass has changed
  phase         \* "mark", "scan" or "done"

vars == <<graph, code, region, flags, left, changes, phase>>

\* An instruction is named by its place.
Places == {i \in (DOMAIN graph) \X (1..MaxLen) : i[2] <= Len(code[i[1]])}
Insts == Places \cap region
At(i) == code[i[1]][i[2]]
Is(i, op) == At(i).op = op

\* What lies behind a node of a graph, by one edge or more: the least set that
\* holds its successors and theirs.
Reached(edges, node) ==
  {n \in DOMAIN edges :
     \A S \in SUBSET DOMAIN edges :
       edges[node] \subseteq S /\ (\A s \in S : edges[s] \subseteq S) => n \in S}

-----------------------------------------------------------------------------
(* storeEscapes, for a store of the region.                                *)

\* successorsOf: the blocks reached by at least one edge.
SuccessorsOf(b) == Reached(graph, b)

\* Changed: loads of the region itself count.
SeenByAny(load, store) ==
  Is(load, "load") /\ At(load).ptr = At(store).ptr

SeenBy(load, store) ==
  /\ Is(load, "load") /\ At(load).ptr = At(store).ptr /\ load \notin Insts

\* pointerCaptured: a call holds one of the local pointers, and is not a call of a
\* precise-pure function in the region itself.
PointerCaptured ==
  \E i \in Places : /\ At(i).ptr \in {"alloca", "cast"}
                    /\ Is(i, "capture") \/ (Is(i, "lend") /\ i \notin Insts)

\* Changed: the rest of the store's own block is not looked at.
StoreEscapesElsewhere(store) ==
  \/ At(store).ptr = "argument" \/ PointerCaptured
  \/ \E load \in Places : SeenBy(load, store) /\ load[1] \in SuccessorsOf(store[1])

StoreEscapes(store) ==
  \/ At(store).ptr = "argument" \/ PointerCaptured
  \/ \E load \in Places :
       /\ SeenBy(load, store)
       /\ \/ load[1] = store[1] /\ load[2] > store[2]
          \/ load[1] \in SuccessorsOf(store[1])

-----------------------------------------------------------------------------
(* preciseEscapeCheck.                                                     *)

\* approxOrLocal.
ApproxOrLocal(i) == At(i).op \in {"approx", "inside", "load", "lend"}

Mark ==
  /\ phase = "mark"
  /\ flags' = {i \in Insts : ApproxOrLocal(i)}
  /\ left' = Insts /\ changes' = 0 /\ phase' = "scan"
  /\ UNCHANGED <<graph, code, region>>

\* One round of preciseEscapeCheckHelper looks at every instruction once.
Visit(i) ==
  /\ phase = "scan" /\ i \in left
  /\ left' = left \ {i}
  /\ UNCHANGED <<graph, code, region, phase>>

KeepFlag(i) ==
  /\ Visit(i)
  /\ i \in flags \/ At(i).op \in {"impure", "capture", "release", "outside"}
     \/ (Is(i, "store") /\ StoreEscapes(i))
  /\ UNCHANGED <<flags, changes>>

\* A store that nobody else observes, or a return, which has no uses.
ClearBlocker(i) ==
  /\ Visit(i)
  /\ i \notin flags
  /\ (Is(i, "store") /\ ~StoreEscapes(i)) \/ Is(i, "return")
  /\ flags' = flags \cup {i} /\ changes' = changes + 1

Unpaired == {j \in Insts \ flags : Is(j, "release")}

\* An acquire takes any release with it; this does not count as a change.
PairLock(i) ==
  /\ Visit(i)
  /\ i \notin flags /\ Is(i, "acquire")
  /\ IF Unpaired = {} THEN UNCHANGED flags
     ELSE \E j \in Unpaired : flags' = flags \cup {i, j}
  /\ UNCHANGED changes

\* Changed: the count of changes goes on from pass to pass.
EndPassCounting ==
  /\ phase = "scan" /\ left = {}
  /\ IF changes > 0 THEN left' = Insts /\ UNCHANGED phase
                    ELSE phase' = "done" /\ UNCHANGED left
  /\ UNCHANGED <<graph, code, region, flags, changes>>

EndPass ==
  /\ phase = "scan" /\ left = {}
  /\ IF changes > 0 THEN left' = Insts /\ UNCHANGED phase
                    ELSE phase' = "done" /\ UNCHANGED left
  /\ changes' = 0
  /\ UNCHANGED <<graph, code, region, flags>>

Init ==
  /\ graph \in Graphs /\ code \in [DOMAIN graph -> Bodies] /\ region \in Regions
  /\ flags = {} /\ left = {} /\ changes = 0 /\ phase = "mark"

Next ==
  \/ Mark \/ EndPass
  \/ \E i \in left : KeepFlag(i) \/ ClearBlocker(i) \/ PairLock(i)

Spec == Init /\ [][Next]_vars
FairSpec == Spec /\ WF_vars(Next)

Blockers == Insts \ flags

-----------------------------------------------------------------------------
(* Properties.                                                             *)

TypeOK ==
  /\ graph \in Graphs /\ region \in Regions
  /\ code \in [DOMAIN graph -> Bodies]
  /\ flags \subseteq Insts /\ left \subseteq Insts
  /\ changes \in 0..Cardinality(Insts)
  /\ phase \in {"mark", "scan", "done"}

\* Execution order: the points that control can reach after a point.
Follows(i) ==
  {j \in Places : \/ i[1] = j[1] /\ j[2] = i[2] + 1
                  \/ i[2] = Len(code[i[1]]) /\ j[2] = 1 /\ j[1] \in graph[i[1]]}
Later(i) == Reached([j \in Places |-> Follows(j)], i)

SameVariable(p, q) == p = q \/ {p, q} \subseteq {"alloca", "cast"}

\* Who keeps a pointer may read through it at any time from then on.
Observed(store) ==
  \/ At(store).ptr = "argument"
  \/ \E j \in Later(store) \ Insts :
       At(j).op \in {"load", "lend"} /\ SameVariable(At(j).ptr, At(store).ptr)
  \/ \E j \in Places :
       /\ Is(j, "capture") /\ SameVariable(At(j).ptr, At(store).ptr)
       /\ j \in Later(store) \/ store \in Later(j)

\* What the analysis is for: a region that it passes stores nothing precise that
\* code outside of the region reads, whatever the paths between the two are.
ObservedStoresBlock ==
  \A i \in Insts : Is(i, "store") /\ Observed(i) => i \in Blockers

\* Other effects, and values used elsewhere, block in any case.  Unbalanced locking
\* always blocks: each acquire is paired with one release.
EffectsBlock ==
  /\ \A i \in Insts : At(i).op \in {"impure", "capture", "outside"} => i \in Blockers
  /\ LET excess(is) == Cardinality({i \in is : Is(i, "acquire")})
                         - Cardinality({i \in is : Is(i, "release")})
     IN excess(Blockers) = excess(Insts)

\* What must block does, in whichever order the instructions are looked at: stores
\* that are observed, effects, and locks without a partner.
EscapesBlock == phase = "done" => ObservedStoresBlock /\ EffectsBlock

\* Only what must block does: no acquire is left together with a release, and a
\* store blocks only for a load elsewhere through the same pointer, or for a call
\* that was handed a pointer to the variable.
HarmlessPasses ==
  phase = "done" =>
    \A i \in Blockers :
      \/ At(i).op \in {"impure", "capture", "outside"}
      \/ Is(i, "acquire") /\ ~\E j \in Blockers : Is(j, "release")
      \/ Is(i, "release") /\ ~\E j \in Blockers : Is(j, "acquire")
      \/ Is(i, "store")
           /\ (At(i).ptr = "argument" \/ PointerCaptured
               \/ \E load \in Places \ Insts :
                    Is(load, "load") /\ At(load).ptr = At(i).ptr)

\* "Iterate to a fixed point": the iteration ends.
Terminates == <>(phase = "done")
=============================================================================
