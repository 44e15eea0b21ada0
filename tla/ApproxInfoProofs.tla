-------------------------- MODULE ApproxInfoProofs --------------------------
(***************************************************************************)
(* The two analyses of pass/approxinfo.cpp, for every function and every   *)
(* module.                                                                 *)
(*                                                                         *)
(* The escape analysis blocks what must block, and nothing that needs not, *)
(* for every region of a function and every order in which its             *)
(* instructions are visited.                                               *)
(*                                                                         *)
(* The purity analysis is sound: what the cache holds as pure is closed    *)
(* under calls at every moment, since the functions that are still under   *)
(* analysis, each of them once, count as impure.                           *)
(***************************************************************************)
EXTENDS EscapeCheck, Purity, FiniteSetTheorems, SequenceTheorems, TLAPS

-----------------------------------------------------------------------------
(* The escape analysis.                                                    *)

Acquires(is) == {i \in is : Is(i, "acquire")}
Releases(is) == {i \in is : Is(i, "release")}
Excess(is) == Cardinality(Acquires(is)) - Cardinality(Releases(is))

\* Nothing is marked before the analysis begins, and a pass ends when every
\* instruction has been visited.
Begun ==
  /\ phase = "mark" => flags = {} /\ left = {} /\ changes = 0
  /\ phase = "done" => left = {}

\* Each change of a pass is due to another visit.
Counted == changes <= Cardinality(Insts \ left)

\* What an instruction is flagged for.
FlagsAreDue ==
  \A i \in flags :
    \/ ApproxOrLocal(i)
    \/ At(i).op \in {"return", "acquire", "release"}
    \/ Is(i, "store") /\ ~StoreEscapes(i)

\* An acquire and a release are flagged together.
Balanced == Excess(Blockers) = Excess(Insts)

\* What an instruction is still a blocker for, once it has been visited.  That the
\* acquire found no release to be paired with is true ever after, since a flag is
\* never taken back.
BlockersAreDue ==
  phase # "mark" =>
    /\ \A i \in Blockers : ~ApproxOrLocal(i)
    /\ \A i \in Blockers \ left :
         \/ At(i).op \in {"impure", "capture", "release", "outside"}
         \/ Is(i, "store") /\ StoreEscapes(i)
         \/ Is(i, "acquire") /\ Unpaired = {}

EscapeInv == TypeOK /\ Begun /\ Counted /\ FlagsAreDue /\ Balanced /\ BlockersAreDue

-----------------------------------------------------------------------------
(* The operators of the analysis.                                          *)

\* A region is finite.
LEMMA InstsAreFinite ==
  ASSUME TypeOK
  PROVE  /\ IsFiniteSet(Insts)
         /\ \A S \in SUBSET Insts : IsFiniteSet(S) /\ Cardinality(S) \in Nat
                                    /\ Cardinality(S) <= Cardinality(Insts)
         /\ Cardinality(Insts) \in Nat
<1>1. IsFiniteSet(DOMAIN graph) /\ IsFiniteSet(1..MaxLen)
  BY BodiesAssumption, RegionsAssumption, FS_Interval DEF TypeOK
<1>2. IsFiniteSet((DOMAIN graph) \X (1..MaxLen))
  BY <1>1, FS_Product
<1>3. IsFiniteSet(Insts)
  BY <1>2, FS_Subset DEF Insts, Places
<1>4. Cardinality(Insts) \in Nat
  BY <1>3, FS_CardinalityType
<1>5. ASSUME NEW S \in SUBSET Insts
      PROVE  IsFiniteSet(S) /\ Cardinality(S) \in Nat /\ Cardinality(S) <= Cardinality(Insts)
  BY <1>3, FS_Subset, FS_CardinalityType
<1>. QED
  BY <1>3, <1>4, <1>5

\* The function and the region stay, and so does what is said of them alone.
LEMMA SameFunction ==
  ASSUME UNCHANGED <<graph, code, region>>
  PROVE  /\ Places' = Places /\ Insts' = Insts
         /\ \A i : At(i)' = At(i)
         /\ \A i, op : Is(i, op)' <=> Is(i, op)
         /\ \A i : ApproxOrLocal(i)' <=> ApproxOrLocal(i)
         /\ \A i : StoreEscapes(i)' <=> StoreEscapes(i)
         /\ \A S : Acquires(S)' = Acquires(S) /\ Releases(S)' = Releases(S)
<1>1. Places' = Places /\ Insts' = Insts
  BY DEF Places, Insts
<1>2. /\ \A i : At(i)' = At(i)
      /\ \A i, op : Is(i, op)' <=> Is(i, op)
  BY DEF At, Is
<1>3. \A i : ApproxOrLocal(i)' <=> ApproxOrLocal(i)
  BY <1>2 DEF ApproxOrLocal
<1>4. \A S : Acquires(S)' = Acquires(S) /\ Releases(S)' = Releases(S)
  BY <1>2 DEF Acquires, Releases
<1>5. \A b : SuccessorsOf(b)' = SuccessorsOf(b)
  BY DEF SuccessorsOf, Reached
<1>6. \A i, j : SeenBy(i, j)' <=> SeenBy(i, j)
  BY <1>1, <1>2 DEF SeenBy
<1>7. PointerCaptured' <=> PointerCaptured
  BY <1>1, <1>2 DEF PointerCaptured
<1>8. \A i : StoreEscapes(i)' <=> StoreEscapes(i)
  BY <1>1, <1>2, <1>5, <1>6, <1>7 DEF StoreEscapes
<1>. QED
  BY <1>1, <1>2, <1>3, <1>4, <1>8

\* What follows a node by two edges or more is behind it too.
LEMMA ReachedIsClosed ==
  ASSUME NEW edges, NEW node \in DOMAIN edges,
         \A n \in DOMAIN edges : edges[n] \subseteq DOMAIN edges
  PROVE  /\ edges[node] \subseteq Reached(edges, node)
         /\ \A n \in Reached(edges, node) : edges[n] \subseteq Reached(edges, node)
<1>1. edges[node] \subseteq Reached(edges, node)
  BY DEF Reached
<1>2. ASSUME NEW n \in Reached(edges, node), NEW m \in edges[n]
      PROVE  m \in Reached(edges, node)
  <2>1. n \in DOMAIN edges /\ m \in DOMAIN edges
    BY DEF Reached
  <2>. QED
    BY <2>1 DEF Reached
<1>. QED
  BY <1>1, <1>2

\* It is the least such set: a set that holds the successors of a node, and with
\* each node its successors, holds all that is behind the node.
LEMMA ReachedIsLeast ==
  ASSUME NEW edges, NEW node, NEW S,
         edges[node] \subseteq S, \A n \in S \cap DOMAIN edges : edges[n] \subseteq S,
         edges[node] \subseteq DOMAIN edges,
         \A n \in DOMAIN edges : edges[n] \subseteq DOMAIN edges
  PROVE  Reached(edges, node) \subseteq S
<1> DEFINE T == S \cap DOMAIN edges
<1>1. T \in SUBSET DOMAIN edges /\ edges[node] \subseteq T /\ \A n \in T : edges[n] \subseteq T
  OBVIOUS
<1> HIDE DEF T
<1>2. Reached(edges, node) \subseteq T
  BY <1>1 DEF Reached
<1>. QED
  BY <1>2 DEF T

\* What is executed after an instruction stands behind it in its block, or in one
\* of the blocks that the analysis looks at.
LEMMA LaterIsBehind ==
  ASSUME TypeOK, NEW i \in Places
  PROVE  Later(i) \subseteq {j \in Places : \/ j[1] = i[1] /\ j[2] > i[2]
                                            \/ j[1] \in SuccessorsOf(i[1])}
<1> DEFINE Behind == {j \in Places : \/ j[1] = i[1] /\ j[2] > i[2]
                                     \/ j[1] \in SuccessorsOf(i[1])}
           steps == [j \in Places |-> Follows(j)]
<1>1. /\ \A j \in Places : j[1] \in DOMAIN graph /\ j[2] \in Nat
      /\ \A b \in DOMAIN graph : graph[b] \subseteq DOMAIN graph
  BY RegionsAssumption, BodiesAssumption DEF Places, TypeOK
<1>2. /\ graph[i[1]] \subseteq SuccessorsOf(i[1])
      /\ \A b \in SuccessorsOf(i[1]) : graph[b] \subseteq SuccessorsOf(i[1])
  BY <1>1, ReachedIsClosed DEF SuccessorsOf
<1>3. \A j \in Places : steps[j] = Follows(j) /\ Follows(j) \subseteq Places
  BY DEF Follows
<1>4. Follows(i) \subseteq Behind
  BY <1>1, <1>2 DEF Follows
<1>5. \A j \in Behind : Follows(j) \subseteq Behind
  BY <1>1, <1>2 DEF Follows
<1>6. DOMAIN steps = Places /\ \A j \in Behind : j \in Places
  OBVIOUS
<1>7. Later(i) = Reached(steps, i)
  BY DEF Later
<1> HIDE DEF Behind, steps
<1>8. Reached(steps, i) \subseteq Behind
  BY <1>3, <1>4, <1>5, <1>6, ReachedIsLeast
<1>. QED
  BY <1>7, <1>8 DEF Behind

-----------------------------------------------------------------------------
(* The invariant.                                                          *)

LEMMA InitEscapeInv == Init => EscapeInv
<1> SUFFICES ASSUME Init PROVE EscapeInv
  OBVIOUS
<1>1. /\ graph \in Graphs /\ code \in [DOMAIN graph -> Bodies] /\ region \in Regions
      /\ flags = {} /\ left = {} /\ changes = 0 /\ phase = "mark"
  BY DEF Init
<1>2. TypeOK
  <2>1. IsFiniteSet(Insts) /\ Cardinality(Insts) \in Nat
    <3>1. IsFiniteSet(DOMAIN graph) /\ IsFiniteSet(1..MaxLen)
      BY <1>1, BodiesAssumption, RegionsAssumption, FS_Interval
    <3>2. IsFiniteSet((DOMAIN graph) \X (1..MaxLen))
      BY <3>1, FS_Product
    <3>3. IsFiniteSet(Insts)
      BY <3>2, FS_Subset DEF Insts, Places
    <3>. QED
      BY <3>3, FS_CardinalityType
  <2>. QED
    BY <1>1, <2>1 DEF TypeOK
<1>3. Begun /\ FlagsAreDue /\ BlockersAreDue
  BY <1>1 DEF Begun, FlagsAreDue, BlockersAreDue
<1>4. Counted /\ Balanced
  <2>1. Insts \ left \in SUBSET Insts /\ Blockers = Insts
    BY <1>1 DEF Blockers
  <2>. QED
    BY <1>1, <1>2, <2>1, InstsAreFinite DEF Counted, Balanced
<1>. QED
  BY <1>2, <1>3, <1>4 DEF EscapeInv

\* At first what is approximate or only read is flagged: no acquire and no release.
LEMMA MarkEscapeInv == EscapeInv /\ Mark => EscapeInv'
<1> SUFFICES ASSUME EscapeInv, Mark PROVE EscapeInv'
  OBVIOUS
<1>1. /\ UNCHANGED <<graph, code, region>>
      /\ flags' = {i \in Insts : ApproxOrLocal(i)}
      /\ left' = Insts /\ changes' = 0 /\ phase' = "scan" /\ flags = {}
  BY DEF Mark, EscapeInv, Begun
<1>2. /\ Insts' = Insts
      /\ \A i : At(i)' = At(i)
      /\ \A i : ApproxOrLocal(i)' <=> ApproxOrLocal(i)
      /\ \A S : Acquires(S)' = Acquires(S) /\ Releases(S)' = Releases(S)
  BY <1>1, SameFunction
<1>3. TypeOK'
  BY <1>1, <1>2, InstsAreFinite DEF EscapeInv, TypeOK
<1>4. Begun' /\ FlagsAreDue' /\ Blockers' = Insts \ flags' /\ Blockers = Insts
  BY <1>1, <1>2 DEF Begun, FlagsAreDue, Blockers
<1>5. BlockersAreDue'
  BY <1>1, <1>2, <1>4 DEF BlockersAreDue
<1>6. Counted'
  <2>1. Insts \ left \in SUBSET Insts /\ (Insts \ left)' \in SUBSET Insts
    BY <1>2
  <2>. QED
    BY <1>1, <2>1, InstsAreFinite DEF EscapeInv, Counted
<1>7. Balanced'
  <2>1. Acquires(Blockers') = Acquires(Insts) /\ Releases(Blockers') = Releases(Insts)
    BY <1>1, <1>4 DEF Acquires, Releases, Is, ApproxOrLocal
  <2>. QED
    BY <1>2, <2>1 DEF Balanced, Excess
<1>. QED
  BY <1>3, <1>4, <1>5, <1>6, <1>7 DEF EscapeInv

\* A visit leaves one instruction less to be visited, and pays for one change.
LEMMA VisitCounts ==
  ASSUME EscapeInv, NEW i \in left, Visit(i), changes' = changes \/ changes' = changes + 1
  PROVE  /\ Counted' /\ changes' \in 0..Cardinality(Insts)
         /\ phase = "scan" /\ i \in Insts /\ (Insts \ left)' = (Insts \ left) \cup {i}
<1>1. UNCHANGED <<graph, code, region, phase>> /\ left' = left \ {i} /\ phase = "scan"
  BY DEF Visit
<1>2. Insts' = Insts /\ i \in Insts
  BY <1>1, SameFunction DEF EscapeInv, TypeOK
<1>3. (Insts \ left)' = (Insts \ left) \cup {i}
  BY <1>1, <1>2
<1> DEFINE seen == Insts \ left
<1>4. IsFiniteSet(seen) /\ Cardinality(seen) \in Nat /\ i \notin seen
  <2>1. seen \in SUBSET Insts
    OBVIOUS
  <2>. QED
    BY <2>1, InstsAreFinite DEF EscapeInv
<1>5. Cardinality(seen \cup {i}) = Cardinality(seen) + 1
  <2> HIDE DEF seen
  <2>. QED
    BY <1>4, FS_AddElement
<1>6. changes <= Cardinality(seen) /\ changes \in Nat
  BY InstsAreFinite DEF EscapeInv, Counted, TypeOK
<1>7. changes' \in Nat /\ changes' <= Cardinality(seen \cup {i})
  BY <1>4, <1>5, <1>6
<1>8. Cardinality(seen \cup {i}) <= Cardinality(Insts)
  <2>1. seen \cup {i} \in SUBSET Insts
    BY <1>2
  <2>. QED
    BY <2>1, InstsAreFinite DEF EscapeInv
<1>9. Counted'
  BY <1>3, <1>7 DEF Counted
<1>10. changes' \in 0..Cardinality(Insts)
  <2>1. Cardinality(seen \cup {i}) \in Nat /\ Cardinality(Insts) \in Nat
    BY <1>4, <1>5, InstsAreFinite DEF EscapeInv
  <2> HIDE DEF seen
  <2>. QED
    BY <1>7, <1>8, <2>1
<1>. QED
  BY <1>1, <1>2, <1>3, <1>9, <1>10

\* An instruction that keeps its mark is visited, and is a blocker for what it is.
LEMMA KeepEscapeInv == ASSUME EscapeInv, NEW i \in left, KeepFlag(i) PROVE EscapeInv'
<1>1. /\ UNCHANGED <<graph, code, region, flags, changes, phase>> /\ left' = left \ {i}
      /\ i \in flags \/ At(i).op \in {"impure", "capture", "release", "outside"}
         \/ (Is(i, "store") /\ StoreEscapes(i))
      /\ Visit(i)
  BY DEF KeepFlag, Visit
<1>2. /\ Insts' = Insts /\ \A j : At(j)' = At(j)
      /\ \A j, op : Is(j, op)' <=> Is(j, op)
      /\ \A j : ApproxOrLocal(j)' <=> ApproxOrLocal(j)
      /\ \A j : StoreEscapes(j)' <=> StoreEscapes(j)
      /\ \A S : Acquires(S)' = Acquires(S) /\ Releases(S)' = Releases(S)
  BY <1>1, SameFunction
<1>3. Counted' /\ phase = "scan" /\ i \in Insts
  BY <1>1, VisitCounts
<1>4. TypeOK'
  BY <1>1, <1>2 DEF EscapeInv, TypeOK
<1>5. Begun'
  BY <1>1, <1>3 DEF Begun
<1>6. Blockers' = Blockers /\ Unpaired' = Unpaired
  BY <1>1, <1>2 DEF Blockers, Unpaired
<1>7. FlagsAreDue' /\ Balanced'
  BY <1>1, <1>2, <1>6 DEF EscapeInv, FlagsAreDue, Balanced, Excess
<1>8. BlockersAreDue'
  <2>1. \A j \in Blockers \ left' : j \in Blockers \ left \/ j = i
    BY <1>1
  <2>2. i \notin flags \/ i \notin Blockers
    BY DEF Blockers
  <2>. QED
    BY <1>1, <1>2, <1>3, <1>6, <2>1, <2>2 DEF EscapeInv, BlockersAreDue
<1>. QED
  BY <1>3, <1>4, <1>5, <1>7, <1>8 DEF EscapeInv

\* What is cleared is neither an acquire nor a release.
LEMMA ClearEscapeInv == ASSUME EscapeInv, NEW i \in left, ClearBlocker(i) PROVE EscapeInv'
<1>1. /\ UNCHANGED <<graph, code, region, phase>> /\ left' = left \ {i}
      /\ flags' = flags \cup {i} /\ changes' = changes + 1 /\ i \notin flags
      /\ (Is(i, "store") /\ ~StoreEscapes(i)) \/ Is(i, "return")
      /\ Visit(i)
  BY DEF ClearBlocker, Visit
<1>2. /\ Insts' = Insts /\ \A j : At(j)' = At(j)
      /\ \A j, op : Is(j, op)' <=> Is(j, op)
      /\ \A j : ApproxOrLocal(j)' <=> ApproxOrLocal(j)
      /\ \A j : StoreEscapes(j)' <=> StoreEscapes(j)
      /\ \A S : Acquires(S)' = Acquires(S) /\ Releases(S)' = Releases(S)
  BY <1>1, SameFunction
<1>3. Counted' /\ changes' \in 0..Cardinality(Insts) /\ phase = "scan" /\ i \in Insts
  BY <1>1, VisitCounts
<1>4. TypeOK'
  BY <1>1, <1>2, <1>3 DEF EscapeInv, TypeOK
<1>5. Begun'
  BY <1>1, <1>3 DEF Begun
<1>6. Blockers' = Blockers \ {i} /\ Unpaired' \subseteq Unpaired
  BY <1>1, <1>2 DEF Blockers, Unpaired
<1>7. FlagsAreDue'
  BY <1>1, <1>2 DEF EscapeInv, FlagsAreDue, Is
<1>8. Balanced'
  <2>1. Acquires(Blockers') = Acquires(Blockers) /\ Releases(Blockers') = Releases(Blockers)
    BY <1>1, <1>6 DEF Acquires, Releases, Is
  <2>. QED
    BY <1>2, <2>1 DEF EscapeInv, Balanced, Excess
<1>9. BlockersAreDue'
  <2>1. \A j \in Blockers' \ left' : j \in Blockers \ left
    BY <1>1, <1>6
  <2>. QED
    BY <1>1, <1>2, <1>3, <1>6, <2>1 DEF EscapeInv, BlockersAreDue
<1>. QED
  BY <1>3, <1>4, <1>5, <1>7, <1>8, <1>9 DEF EscapeInv

\* A pair takes one acquire and one release from the blockers; an acquire that finds
\* no release leaves things as they are.
LEMMA PairEscapeInv == ASSUME EscapeInv, NEW i \in left, PairLock(i) PROVE EscapeInv'
<1>1. /\ UNCHANGED <<graph, code, region, phase, changes>> /\ left' = left \ {i}
      /\ i \notin flags /\ Is(i, "acquire") /\ Visit(i)
      /\ \/ Unpaired = {} /\ flags' = flags
         \/ \E j \in Unpaired : flags' = flags \cup {i, j}
  BY DEF PairLock, Visit
<1>2. /\ Insts' = Insts /\ \A j : At(j)' = At(j)
      /\ \A j, op : Is(j, op)' <=> Is(j, op)
      /\ \A j : ApproxOrLocal(j)' <=> ApproxOrLocal(j)
      /\ \A j : StoreEscapes(j)' <=> StoreEscapes(j)
      /\ \A S : Acquires(S)' = Acquires(S) /\ Releases(S)' = Releases(S)
  BY <1>1, SameFunction
<1>3. Counted' /\ phase = "scan" /\ i \in Insts
  BY <1>1, VisitCounts
<1>4. TypeOK' /\ Begun'
  BY <1>1, <1>2, <1>3 DEF EscapeInv, TypeOK, Begun, Unpaired
<1>5. CASE Unpaired = {} /\ flags' = flags
  <2>1. Blockers' = Blockers /\ Unpaired' = Unpaired
    BY <1>2, <1>5 DEF Blockers, Unpaired
  <2>2. FlagsAreDue' /\ Balanced'
    BY <1>2, <1>5, <2>1 DEF EscapeInv, FlagsAreDue, Balanced, Excess
  <2>3. \A j \in Blockers' \ left' : j \in Blockers \ left \/ j = i
    BY <1>1, <2>1
  <2>4. BlockersAreDue'
    BY <1>1, <1>2, <1>3, <1>5, <2>1, <2>3 DEF EscapeInv, BlockersAreDue
  <2>. QED
    BY <1>3, <1>4, <2>2, <2>4 DEF EscapeInv
<1>6. ASSUME NEW j \in Unpaired, flags' = flags \cup {i, j} PROVE EscapeInv'
  <2>1. j \in Insts /\ j \notin flags /\ Is(j, "release") /\ i # j
    BY <1>1 DEF Unpaired, Is
  <2>2. Blockers' = Blockers \ {i, j} /\ Unpaired' \subseteq Unpaired
    BY <1>2, <1>6 DEF Blockers, Unpaired
  <2>3. FlagsAreDue'
    BY <1>1, <1>2, <1>6, <2>1 DEF EscapeInv, FlagsAreDue, Is
  <2>4. Balanced'
    <3>1. /\ Acquires(Blockers') = Acquires(Blockers) \ {i} /\ i \in Acquires(Blockers)
          /\ Releases(Blockers') = Releases(Blockers) \ {j} /\ j \in Releases(Blockers)
      BY <1>1, <1>3, <2>1, <2>2 DEF Acquires, Releases, Blockers, Is
    <3>2. /\ Acquires(Blockers) \in SUBSET Insts /\ Releases(Blockers) \in SUBSET Insts
          /\ Acquires(Insts) \in SUBSET Insts /\ Releases(Insts) \in SUBSET Insts
      BY DEF Acquires, Releases, Blockers
    <3>3. /\ IsFiniteSet(Acquires(Blockers)) /\ Cardinality(Acquires(Blockers)) \in Nat
          /\ IsFiniteSet(Releases(Blockers)) /\ Cardinality(Releases(Blockers)) \in Nat
          /\ Cardinality(Acquires(Insts)) \in Nat /\ Cardinality(Releases(Insts)) \in Nat
      BY <3>2, InstsAreFinite DEF EscapeInv
    <3>4. \A S, e : IsFiniteSet(S) /\ e \in S => Cardinality(S \ {e}) = Cardinality(S) - 1
      BY FS_RemoveElement
    <3>5. Cardinality(Acquires(Blockers')) = Cardinality(Acquires(Blockers)) - 1
      BY <3>1, <3>3, <3>4
    <3>6. Cardinality(Releases(Blockers')) = Cardinality(Releases(Blockers)) - 1
      BY <3>1, <3>3, <3>4
    <3>. QED
      BY <1>2, <3>3, <3>5, <3>6 DEF EscapeInv, Balanced, Excess
  <2>5. \A k \in Blockers' \ left' : k \in Blockers \ left
    BY <1>1, <2>2
  <2>6. BlockersAreDue'
    BY <1>1, <1>2, <1>3, <2>2, <2>5 DEF EscapeInv, BlockersAreDue
  <2>. QED
    BY <1>3, <1>4, <2>3, <2>4, <2>6 DEF EscapeInv
<1>. QED
  BY <1>1, <1>5, <1>6

\* A pass ends, and the next one or nothing is left to do.
LEMMA EndPassEscapeInv == EscapeInv /\ EndPass => EscapeInv'
<1> SUFFICES ASSUME EscapeInv, EndPass PROVE EscapeInv'
  OBVIOUS
<1>1. /\ UNCHANGED <<graph, code, region, flags>> /\ left = {} /\ phase = "scan"
      /\ changes' = 0
      /\ \/ left' = Insts /\ phase' = "scan"
         \/ left' = {} /\ phase' = "done"
  BY DEF EndPass
<1>2. /\ Insts' = Insts /\ \A j : At(j)' = At(j)
      /\ \A j, op : Is(j, op)' <=> Is(j, op)
      /\ \A j : ApproxOrLocal(j)' <=> ApproxOrLocal(j)
      /\ \A j : StoreEscapes(j)' <=> StoreEscapes(j)
      /\ \A S : Acquires(S)' = Acquires(S) /\ Releases(S)' = Releases(S)
  BY <1>1, SameFunction
<1>3. TypeOK' /\ Begun'
  BY <1>1, <1>2, InstsAreFinite DEF EscapeInv, TypeOK, Begun
<1>4. Blockers' = Blockers /\ Unpaired' = Unpaired
  BY <1>1, <1>2 DEF Blockers, Unpaired
<1>5. FlagsAreDue' /\ Balanced'
  BY <1>1, <1>2, <1>4 DEF EscapeInv, FlagsAreDue, Balanced, Excess
<1>6. BlockersAreDue'
  BY <1>1, <1>2, <1>4 DEF EscapeInv, BlockersAreDue
<1>7. Counted'
  <2>1. (Insts \ left)' \in SUBSET Insts
    BY <1>2
  <2>. QED
    BY <1>1, <2>1, InstsAreFinite DEF EscapeInv, Counted
<1>. QED
  BY <1>3, <1>5, <1>6, <1>7 DEF EscapeInv

LEMMA StepEscapeInv == EscapeInv /\ [Next]_vars => EscapeInv'
<1> SUFFICES ASSUME EscapeInv, [Next]_vars PROVE EscapeInv'
  OBVIOUS
<1>1. CASE UNCHANGED vars
  <2>1. /\ UNCHANGED <<graph, code, region>>
        /\ flags' = flags /\ left' = left /\ changes' = changes /\ phase' = phase
    BY <1>1 DEF vars
  <2>2. /\ Insts' = Insts /\ \A j : At(j)' = At(j)
        /\ \A j, op : Is(j, op)' <=> Is(j, op)
        /\ \A j : ApproxOrLocal(j)' <=> ApproxOrLocal(j)
        /\ \A j : StoreEscapes(j)' <=> StoreEscapes(j)
        /\ \A S : Acquires(S)' = Acquires(S) /\ Releases(S)' = Releases(S)
    BY <2>1, SameFunction
  <2>3. Blockers' = Blockers /\ Unpaired' = Unpaired
    BY <2>1, <2>2 DEF Blockers, Unpaired
  <2>4. TypeOK' /\ Begun' /\ Counted'
    BY <2>1, <2>2 DEF EscapeInv, TypeOK, Begun, Counted
  <2>5. FlagsAreDue' /\ Balanced' /\ BlockersAreDue'
    BY <2>1, <2>2, <2>3 DEF EscapeInv, FlagsAreDue, Balanced, Excess, BlockersAreDue
  <2>. QED
    BY <2>4, <2>5 DEF EscapeInv
<1>. QED
  BY <1>1, MarkEscapeInv, EndPassEscapeInv, KeepEscapeInv, ClearEscapeInv, PairEscapeInv DEF Next

\* The inductive invariant, which the theorems below rest on.
THEOREM EscapeInvariance == Spec => []EscapeInv
BY InitEscapeInv, StepEscapeInv, PTL DEF Spec

\* The variables keep their types: a pass changes no more flags than there are
\* instructions.
THEOREM EscapeTypeCorrect == Spec => []TypeOK
BY EscapeInvariance, PTL DEF EscapeInv

-----------------------------------------------------------------------------
(* What the analysis is for.                                               *)

\* Each local variable is stored to and read through one and the same pointer.
OnePointerEach ==
  \A stored, read \in Bodies : \A m \in 1..Len(stored), n \in 1..Len(read) :
    stored[m].op = "store" /\ read[n].op = "load"
      /\ SameVariable(read[n].ptr, stored[m].ptr) => read[n].ptr = stored[m].ptr

\* A store that is observed escapes: where the pointer was kept, lent elsewhere, or
\* read through behind the store.
LEMMA ObservedEscapes ==
  ASSUME TypeOK, OnePointerEach, NEW i \in Insts, Is(i, "store"), Observed(i)
  PROVE  StoreEscapes(i)
<1>1. /\ i \in Places /\ At(i) \in Instructions
      /\ \A j \in Places : /\ code[j[1]] \in Bodies /\ j[2] \in 1..Len(code[j[1]])
                           /\ At(j) \in Instructions
  <2>1. i \in Places
    BY DEF Insts
  <2>2. ASSUME NEW j \in Places
        PROVE  code[j[1]] \in Bodies /\ j[2] \in 1..Len(code[j[1]]) /\ At(j) \in Instructions
    <3>1. code[j[1]] \in Bodies /\ j[2] \in 1..Len(code[j[1]])
      BY BodiesAssumption DEF Places, TypeOK
    <3>. QED
      BY <3>1, BodiesAssumption DEF At
  <2>. QED
    BY <2>1, <2>2
<1>2. CASE At(i).ptr = "argument"
  BY <1>2 DEF StoreEscapes
<1>3. At(i).ptr \in Pointers
  BY <1>1 DEF Is, Instructions
<1>4. ASSUME At(i).ptr # "argument", NEW j \in Later(i) \ Insts, Is(j, "load"),
             SameVariable(At(j).ptr, At(i).ptr)
      PROVE  StoreEscapes(i)
  <2>1. /\ j \in Places
        /\ (j[1] = i[1] /\ j[2] > i[2]) \/ j[1] \in SuccessorsOf(i[1])
    BY <1>1, <1>4, LaterIsBehind
  <2>2. At(j).ptr = At(i).ptr
    BY <1>1, <1>4, <2>1 DEF OnePointerEach, At, Is
  <2>3. SeenBy(j, i)
    BY <1>4, <2>2 DEF SeenBy
  <2>. QED
    BY <2>1, <2>3 DEF StoreEscapes
<1>5. ASSUME At(i).ptr # "argument", NEW j \in Later(i) \ Insts, Is(j, "lend"),
             SameVariable(At(j).ptr, At(i).ptr)
      PROVE  StoreEscapes(i)
  <2>1. j \in Places /\ At(j).ptr \in {"alloca", "cast"}
    BY <1>1, <1>3, <1>5, LaterIsBehind DEF SameVariable, Pointers
  <2>. QED
    BY <1>5, <2>1 DEF StoreEscapes, PointerCaptured
<1>6. ASSUME At(i).ptr # "argument", NEW j \in Places, Is(j, "capture"),
             SameVariable(At(j).ptr, At(i).ptr)
      PROVE  StoreEscapes(i)
  <2>1. At(j).ptr \in {"alloca", "cast"}
    BY <1>3, <1>6 DEF SameVariable, Pointers
  <2>. QED
    BY <1>6, <2>1 DEF StoreEscapes, PointerCaptured
<1>. QED
  BY <1>2, <1>4, <1>5, <1>6 DEF Observed, Is

\* A region without blockers stores nothing precise that code outside of it reads,
\* has no effect and no unbalanced locking, in whichever order the instructions were
\* visited (lines 351-478 of pass/approxinfo.cpp), as long as no local variable is
\* stored to through one pointer and read through a cast of it: that is the case in
\* which the analysis errs.
THEOREM NothingEscapes == OnePointerEach => (Spec => []EscapesBlock)
<1> SUFFICES ASSUME OnePointerEach PROVE Spec => []EscapesBlock
  OBVIOUS
<1>1. EscapeInv => EscapesBlock
  <2> SUFFICES ASSUME EscapeInv PROVE ObservedStoresBlock /\ EffectsBlock
    BY DEF EscapesBlock
  <2>1. ObservedStoresBlock
    <3> SUFFICES ASSUME NEW i \in Insts, Is(i, "store"), Observed(i), i \in flags PROVE FALSE
      BY DEF ObservedStoresBlock, Blockers
    <3>1. StoreEscapes(i)
      BY ObservedEscapes DEF EscapeInv
    <3>. QED
      BY <3>1 DEF EscapeInv, FlagsAreDue, ApproxOrLocal, Is
  <2>2. \A i \in Insts : At(i).op \in {"impure", "capture", "outside"} => i \in Blockers
    BY DEF EscapeInv, FlagsAreDue, ApproxOrLocal, Is, Blockers
  <2>3. EffectsBlock
    BY <2>2 DEF EscapeInv, Balanced, Excess, Acquires, Releases, EffectsBlock
  <2>. QED
    BY <2>1, <2>3
<1>. QED
  BY <1>1, EscapeInvariance, PTL

\* Nothing else keeps a region from being approximate: an acquire and a release are
\* never left side by side, and a store is left for a reason.
THEOREM HarmlessIsPassed == Spec => []HarmlessPasses
<1>1. EscapeInv => HarmlessPasses
  <2> SUFFICES ASSUME EscapeInv, phase = "done", NEW i \in Blockers
               PROVE  \/ At(i).op \in {"impure", "capture", "outside"}
                      \/ Is(i, "acquire") /\ ~\E j \in Blockers : Is(j, "release")
                      \/ Is(i, "release") /\ ~\E j \in Blockers : Is(j, "acquire")
                      \/ Is(i, "store")
                           /\ (At(i).ptr = "argument" \/ PointerCaptured
                               \/ \E load \in Places \ Insts :
                                    Is(load, "load") /\ At(load).ptr = At(i).ptr)
    BY DEF HarmlessPasses
  <2>1. \A j \in Blockers :
          \/ At(j).op \in {"impure", "capture", "release", "outside"}
          \/ Is(j, "store") /\ StoreEscapes(j)
          \/ Is(j, "acquire") /\ Unpaired = {}
    BY DEF EscapeInv, Begun, BlockersAreDue
  <2>2. Unpaired = {j \in Blockers : Is(j, "release")}
    BY DEF Unpaired, Blockers
  <2>3. CASE Is(i, "release")
    BY <2>1, <2>2, <2>3 DEF Is
  <2>4. CASE Is(i, "store") /\ StoreEscapes(i)
    BY <2>4 DEF StoreEscapes, SeenBy
  <2>. QED
    BY <2>1, <2>2, <2>3, <2>4 DEF Is
<1>. QED
  BY <1>1, EscapeInvariance, PTL

-----------------------------------------------------------------------------
(* The purity analysis.                                                    *)

Provisional ==
  \A i \in 1..Len(stack) :
    /\ program.source[stack[i]] = "defined"
    /\ functionPurity[stack[i]] = "impure"

EnteredOnce ==
  \A i, j \in 1..Len(stack) : i # j => stack[i] # stack[j]

PurityInv == PurityTypeOK /\ Provisional /\ EnteredOnce /\ Closed(Pure)

-----------------------------------------------------------------------------

\* At first nothing is known, and nothing is under analysis.
LEMMA InitPurityInv == PurityInit => PurityInv
<1> SUFFICES ASSUME PurityInit PROVE PurityInv
  OBVIOUS
<1>1. PurityTypeOK
  BY ProgramsAssumption DEF PurityInit, PurityTypeOK
<1>2. Provisional /\ EnteredOnce
  BY DEF PurityInit, Provisional, EnteredOnce
<1>3. Pure = {}
  BY DEF PurityInit, Pure
<1>. QED
  BY <1>1, <1>2, <1>3 DEF PurityInv, Closed

\* Entering a function can only add it to the pure ones if it is trusted, and it
\* was not under analysis, since its verdict was unknown.
LEMMA EnterPurityInv ==
  ASSUME PurityInv, NEW f \in Functions, Enter(f)
  PROVE  PurityInv'
<1> USE DEF PurityInv
<1>1. /\ program' = program /\ asked' = asked
      /\ functionPurity[f] = "unknown" /\ program.source[f] \in Sources
  BY DEF Enter, Known, PurityTypeOK, Program
<1>2. stack' = stack \/ (stack' = Append(stack, f) /\ program.source[f] = "defined")
  BY DEF Enter
<1>3. PurityTypeOK'
  <2>1. functionPurity' \in [Functions -> {"unknown", "pure", "impure"}]
    BY DEF Enter, PurityTypeOK
  <2>2. stack' \in Seq(Functions)
    BY <1>2 DEF PurityTypeOK
  <2>. QED
    BY <1>1, <2>1, <2>2 DEF PurityTypeOK
<1>4. \A g \in Functions : g # f => functionPurity'[g] = functionPurity[g]
  BY DEF Enter, PurityTypeOK
<1>5. \A i \in 1..Len(stack) : stack[i] \in Functions /\ stack[i] # f
  BY <1>1 DEF Provisional, PurityTypeOK
<1>6. Provisional' /\ EnteredOnce'
  <2>1. CASE stack' = stack
    BY <1>1, <1>4, <1>5, <2>1 DEF Provisional, EnteredOnce
  <2>2. CASE stack' = Append(stack, f) /\ program.source[f] = "defined"
    <3>1. /\ Len(stack') = Len(stack) + 1 /\ stack'[Len(stack) + 1] = f
          /\ \A i \in 1..Len(stack) : stack'[i] = stack[i]
      BY <2>2 DEF PurityTypeOK
    <3>2. functionPurity'[f] = "impure"
      BY <2>2 DEF Enter, PurityTypeOK
    <3>3. Len(stack) \in Nat
      BY DEF PurityTypeOK
    <3>. QED
      BY <1>1, <1>4, <1>5, <2>2, <3>1, <3>2, <3>3 DEF Provisional, EnteredOnce
  <2>. QED
    BY <1>2, <2>1, <2>2
<1>7. Closed(Pure)'
  <2>1. Pure \subseteq Pure'
    BY <1>1, <1>4 DEF Pure
  <2>2. \A g \in Pure' : g \in Pure \/ Trusted(g)
    <3> SUFFICES ASSUME NEW g \in Pure', g \notin Pure PROVE Trusted(g)
      OBVIOUS
    <3>1. g = f /\ functionPurity'[f] = "pure"
      BY <1>4 DEF Pure
    <3>. QED
      BY <1>1, <3>1 DEF Enter, PurityTypeOK, Trusted
  <2>. QED
    BY <1>1, <2>1, <2>2 DEF Closed, Trusted
<1>. QED
  BY <1>3, <1>6, <1>7

\* A conclusion changes one provisional verdict.  The function on top of the
\* stack occurs there once, so the others remain provisional; and it is not in
\* the set of pure functions that it is judged by.
LEMMA ConcludePurityInv == PurityInv /\ Conclude => PurityInv'
<1> SUFFICES ASSUME PurityInv, Conclude PROVE PurityInv'
  OBVIOUS
<1> USE DEF PurityInv
<1> DEFINE n == Len(stack)
<1>1. /\ program' = program /\ asked' = asked
      /\ functionPurity' = [functionPurity EXCEPT ![Top] =
                              IF BlockerFree(Top) THEN "pure" ELSE "impure"]
      /\ stack' = SubSeq(stack, 1, n - 1) /\ stack # << >>
  BY DEF Conclude
<1>2. n \in Nat /\ n >= 1 /\ Top = stack[n] /\ Top \in Functions
  BY <1>1 DEF PurityTypeOK, Top
<1>3. /\ stack' \in Seq(Functions) /\ Len(stack') = n - 1
      /\ \A i \in 1..(n - 1) : stack'[i] = stack[i]
  <2>1. \A i \in 1..(n - 1) : stack[i] \in Functions
    BY <1>2 DEF PurityTypeOK
  <2>2. n - 1 \in Int
    BY <1>2
  <2> DEFINE front == SubSeq(stack, 1, n - 1)
  <2>3. /\ front \in Seq(Functions)
        /\ Len(front) = IF 1 <= n - 1 THEN n - 1 - 1 + 1 ELSE 0
        /\ \A i \in 1..(n - 1 - 1 + 1) : front[i] = stack[1 + i - 1]
    BY <2>1, <2>2, SubSeqProperties
  <2>4. stack' = front
    BY <1>1
  <2> HIDE DEF front, n
  <2>5. Len(front) = n - 1
    <3>1. n \in Nat /\ n >= 1
      BY <1>2
    <3>2. Len(front) = IF 1 <= n - 1 THEN n - 1 - 1 + 1 ELSE 0
      BY <2>3
    <3>. QED
      BY <3>1, <3>2
  <2>6. \A i \in 1..(n - 1) : front[i] = stack[i]
    BY <1>2, <2>3
  <2>. QED
    BY <2>3, <2>4, <2>5, <2>6
<1>4. PurityTypeOK'
  BY <1>1, <1>2, <1>3 DEF PurityTypeOK
<1>5. \A g \in Functions : g # Top => functionPurity'[g] = functionPurity[g]
  BY <1>1, <1>2 DEF PurityTypeOK
<1>6. \A i \in 1..(n - 1) : stack[i] \in Functions /\ stack[i] # Top
  BY <1>2 DEF PurityTypeOK, EnteredOnce
<1>7. Provisional'
  BY <1>1, <1>2, <1>3, <1>5, <1>6 DEF Provisional
<1>8. EnteredOnce'
  BY <1>2, <1>3 DEF EnteredOnce
<1>9. Closed(Pure)'
  <2>1. functionPurity[Top] = "impure" /\ program.source[Top] = "defined"
    BY <1>2 DEF Provisional
  <2>2. Pure \subseteq Pure'
    BY <1>5, <2>1 DEF Pure
  <2>3. \A g \in Pure' : g \in Pure \/ (g = Top /\ BlockerFree(Top))
    <3> SUFFICES ASSUME NEW g \in Pure', g \notin Pure
                 PROVE  g = Top /\ BlockerFree(Top)
      OBVIOUS
    <3>1. g = Top /\ functionPurity'[Top] = "pure"
      BY <1>5 DEF Pure
    <3>. QED
      BY <1>1, <1>2, <3>1 DEF PurityTypeOK
  <2>. QED
    BY <1>1, <2>1, <2>2, <2>3 DEF Closed, BlockerFree, Trusted
<1>. QED
  BY <1>4, <1>7, <1>8, <1>9

LEMMA StepPurityInv == PurityInv /\ [PurityNext]_purityVars => PurityInv'
<1> SUFFICES ASSUME PurityInv, [PurityNext]_purityVars PROVE PurityInv'
  OBVIOUS
<1>1. CASE Conclude
  BY <1>1, ConcludePurityInv
<1>2. ASSUME NEW f \in Functions, NextFunction(f) PROVE PurityInv'
  BY <1>2, EnterPurityInv DEF NextFunction
<1>3. ASSUME NEW f \in Functions, AskCallee(f) PROVE PurityInv'
  BY <1>3, EnterPurityInv DEF AskCallee
<1>4. ASSUME NEW f \in Functions, LookUpCallee(f) PROVE PurityInv'
  <2>1. /\ program' = program /\ functionPurity' = functionPurity /\ stack' = stack
        /\ asked' = [asked EXCEPT ![Top] = @ \cup {f}]
    BY <1>4 DEF LookUpCallee
  <2>2. PurityTypeOK'
    BY <2>1 DEF PurityInv, PurityTypeOK
  <2>. QED
    BY <2>1, <2>2 DEF PurityInv, Provisional, EnteredOnce, Closed, Pure, Trusted
<1>5. CASE UNCHANGED purityVars
  BY <1>5 DEF purityVars, PurityInv, PurityTypeOK, Provisional, EnteredOnce, Closed, Pure, Trusted
<1>. QED
  BY <1>1, <1>2, <1>3, <1>4, <1>5 DEF PurityNext

THEOREM PurityInvariance == PuritySpec => []PurityInv
BY InitPurityInv, StepPurityInv, PTL DEF PuritySpec

\* The cache, the stack and the calls looked at keep their types.
THEOREM PurityTypeCorrect == PuritySpec => []PurityTypeOK
BY PurityInvariance, PTL DEF PurityInv

\* What the cache calls pure is pure: the pure functions themselves are a set
\* closed under calls (lines 700-702 and 723 of pass/approxinfo.cpp).
THEOREM Soundness == PuritySpec => []PureIsSound
<1>1. PurityInv => PureIsSound
  BY DEF PurityInv, PureIsSound, GenuinelyPure, Pure
<1>. QED
  BY <1>1, PurityInvariance, PTL

\* No step changes a verdict other than that of the innermost function.
LEMMA StepKeeps == PurityInv /\ [PurityNext]_purityVars => KeepsVerdicts
<1> SUFFICES ASSUME PurityInv, [PurityNext]_purityVars,
                    NEW f \in Functions \ UnderAnalysis, Known(f)
             PROVE  functionPurity'[f] = functionPurity[f]
  BY DEF KeepsVerdicts
<1>1. CASE Conclude
  <2>1. stack \in Seq(Functions) /\ stack # << >>
    BY <1>1 DEF Conclude, PurityInv, PurityTypeOK
  <2>2. Top \in UnderAnalysis
    BY <2>1 DEF Top, UnderAnalysis
  <2>. QED
    BY <1>1, <2>2 DEF Conclude, PurityInv, PurityTypeOK
<1>2. ASSUME NEW g \in Functions, Enter(g) PROVE functionPurity'[f] = functionPurity[f]
  BY <1>2 DEF Enter, Known, PurityInv, PurityTypeOK
<1>3. ASSUME NEW g \in Functions, LookUpCallee(g)
      PROVE  functionPurity'[f] = functionPurity[f]
  BY <1>3 DEF LookUpCallee
<1>4. CASE UNCHANGED purityVars
  BY <1>4 DEF purityVars
<1>. QED
  BY <1>1, <1>2, <1>3, <1>4 DEF PurityNext, NextFunction, AskCallee

\* A verdict in the cache is final once its function is off the stack.
THEOREM VerdictsAreFinal == PuritySpec => VerdictsStand
BY PurityInvariance, StepKeeps, PTL DEF PuritySpec, VerdictsStand

-----------------------------------------------------------------------------
(* The analysis errs for recursive functions only.                         *)

\* The functions under analysis are a path of calls, and a callee that has been
\* asked for is in the cache.
StackIsPath ==
  \A i, j \in 1..Len(stack) : i <= j => stack[j] \in Reach(stack[i])
AskedAreKnown == \A f \in Functions : \A g \in asked[f] : Known(g)

TrustedArePure == \A f \in Functions : Known(f) /\ Trusted(f) => f \in Pure

\* In a set of functions which is good as a whole and free of recursion, none has
\* been judged impure for good.  By such sets, and not by the single callee, the
\* verdict of a function follows from those of the functions it calls: the sets
\* are closed under calls, so the callee that spoils one lies in all of them.
FreeOfRecursion(S) == \A f \in S : ~Recursive(f)
GoodSetsArePure ==
  \A S \in SUBSET Functions :
    Closed(S) /\ FreeOfRecursion(S)
      => \A f \in S : Known(f) /\ f \notin UnderAnalysis => f \in Pure

Decided == StackIsPath /\ AskedAreKnown /\ TrustedArePure /\ GoodSetsArePure

\* A function reaches itself, and what it reaches is closed under calls.
LEMMA ReachIsClosed ==
  ASSUME PurityTypeOK, NEW f \in Functions
  PROVE  f \in Reach(f) /\ ClosedUnderCalls(Reach(f)) /\ Reach(f) \subseteq Functions
<1>1. f \in Reach(f) /\ Reach(f) \subseteq Functions
  BY DEF Reach
<1>2. ASSUME NEW g \in Reach(f), NEW h \in program.calls[g] PROVE h \in Reach(f)
  <2>1. g \in Functions /\ h \in Functions
    BY <1>1, <1>2 DEF PurityTypeOK, Program
  <2>. QED
    BY <1>2, <2>1 DEF Reach, ClosedUnderCalls
<1>. QED
  BY <1>1, <1>2 DEF ClosedUnderCalls

\* The calls of a program do not change, and so neither does what they lead to.
LEMMA SameProgram ==
  ASSUME program' = program
  PROVE  /\ \A f : Reach(f)' = Reach(f) /\ (Recursive(f) <=> Recursive(f)')
         /\ \A S : Closed(S)' <=> Closed(S)
         /\ \A f : Trusted(f)' <=> Trusted(f)
BY DEF Reach, ClosedUnderCalls, Recursive, Closed, Trusted

LEMMA InitDecided == PurityInit => Decided
BY DEF PurityInit, Decided, StackIsPath, AskedAreKnown, TrustedArePure, GoodSetsArePure, Known

\* Whoever is entered is called by the innermost function, or is the only one.
\* If it is settled at once it is trusted, and pure, or in no good set.
LEMMA EnterDecided ==
  ASSUME PurityInv, Decided, NEW f \in Functions, NextFunction(f) \/ AskCallee(f)
  PROVE  Decided'
<1>1. Enter(f)
  BY DEF NextFunction, AskCallee
<1>2. /\ program' = program /\ asked' = asked /\ ~Known(f)
      /\ program.source[f] \in Sources
      /\ functionPurity' =
           [functionPurity EXCEPT ![f] =
              IF program.source[f] \in {"readonly", "whitelisted"} THEN "pure" ELSE "impure"]
  BY <1>1 DEF Enter, PurityInv, PurityTypeOK, Program
<1>3. /\ \A g \in Functions : g # f => functionPurity'[g] = functionPurity[g]
      /\ functionPurity'[f] = IF Trusted(f) THEN "pure" ELSE "impure"
  BY <1>2 DEF PurityInv, PurityTypeOK, Trusted
<1>4. /\ \A g \in Functions : g # f => (Known(g)' <=> Known(g)) /\ (g \in Pure' <=> g \in Pure)
      /\ Known(f)' /\ (f \in Pure' <=> Trusted(f))
  BY <1>3 DEF Known, Pure
<1>5. /\ \A g : Reach(g)' = Reach(g) /\ (Recursive(g) <=> Recursive(g)')
      /\ \A S : Closed(S)' <=> Closed(S)
      /\ \A g : Trusted(g)' <=> Trusted(g)
  BY <1>2, SameProgram
<1>6. StackIsPath' /\ UnderAnalysis \subseteq UnderAnalysis'
      /\ (program.source[f] = "defined" => f \in UnderAnalysis')
  <2>1. stack \in Seq(Functions)
    BY DEF PurityInv, PurityTypeOK
  <2>2. CASE stack' = stack /\ program.source[f] # "defined"
    BY <1>5, <2>2 DEF Decided, StackIsPath, UnderAnalysis
  <2>3. CASE stack' = Append(stack, f)
    <3>1. /\ Len(stack') = Len(stack) + 1 /\ stack'[Len(stack) + 1] = f
          /\ \A i \in 1..Len(stack) : stack'[i] = stack[i]
          /\ Len(stack) \in Nat
      BY <2>1, <2>3
    <3>2. ASSUME NEW i \in 1..Len(stack) PROVE f \in Reach(stack[i])
      <4>1. stack[i] \in Functions /\ stack # << >> /\ Len(stack) >= 1
        BY <2>1, <3>1
      <4>2. f \in program.calls[Top]
        BY <4>1 DEF NextFunction, AskCallee, Asks
      <4>3. Top \in Reach(stack[i])
        BY <3>1, <4>1 DEF Decided, StackIsPath, Top
      <4>. QED
        BY <4>1, <4>2, <4>3, ReachIsClosed DEF PurityInv, ClosedUnderCalls
    <3>3. f \in Reach(f)
      BY ReachIsClosed DEF PurityInv
    <3>4. StackIsPath'
      BY <1>5, <3>1, <3>2, <3>3 DEF Decided, StackIsPath
    <3>5. \A i \in 1..Len(stack) : i \in 1..Len(stack')
      BY <3>1
    <3>6. DOMAIN stack = 1..Len(stack) /\ DOMAIN stack' = 1..Len(stack')
      BY <2>1, <2>3
    <3>7. Len(stack) + 1 \in 1..Len(stack')
      BY <3>1
    <3>. QED
      BY <3>1, <3>4, <3>5, <3>6, <3>7 DEF UnderAnalysis
  <2>. QED
    BY <1>1, <2>2, <2>3 DEF Enter
<1>7. AskedAreKnown' /\ TrustedArePure'
  <2>1. AskedAreKnown'
    BY <1>2, <1>4 DEF Decided, AskedAreKnown, PurityInv, PurityTypeOK
  <2>2. TrustedArePure'
    BY <1>4, <1>5 DEF Decided, TrustedArePure
  <2>. QED
    BY <2>1, <2>2
<1>8. GoodSetsArePure'
  <2> SUFFICES ASSUME NEW S \in SUBSET Functions, Closed(S), FreeOfRecursion(S),
                      NEW g \in S, Known(g)', g \notin UnderAnalysis'
               PROVE  g \in Pure'
    BY <1>5 DEF GoodSetsArePure, FreeOfRecursion
  <2>1. CASE g # f
    BY <1>4, <1>6, <2>1 DEF Decided, GoodSetsArePure
  <2>2. CASE g = f
    BY <1>4, <1>6, <2>2 DEF Closed
  <2>. QED
    BY <2>1, <2>2
<1>. QED
  BY <1>6, <1>7, <1>8 DEF Decided

\* If the innermost function belongs to a good set, so does the callee that makes
\* it impure; this callee is then still under analysis, and the function calls one
\* that it is reached from.
LEMMA ConcludeDecided == PurityInv /\ PurityInv' /\ Decided /\ Conclude => Decided'
<1> SUFFICES ASSUME PurityInv, PurityInv', Decided, Conclude PROVE Decided'
  OBVIOUS
<1> DEFINE n == Len(stack)
<1>1. /\ program' = program /\ asked' = asked /\ asked[Top] = program.calls[Top]
      /\ functionPurity' = [functionPurity EXCEPT ![Top] =
                              IF BlockerFree(Top) THEN "pure" ELSE "impure"]
      /\ stack' = SubSeq(stack, 1, n - 1) /\ stack # << >>
      /\ stack \in Seq(Functions)
  BY DEF Conclude, PurityInv, PurityTypeOK
<1>2. n \in Nat /\ n >= 1 /\ Top = stack[n] /\ Top \in Functions
  BY <1>1 DEF Top
<1>3. /\ Len(stack') = n - 1 /\ \A i \in 1..(n - 1) : stack'[i] = stack[i]
      /\ DOMAIN stack = 1..n /\ DOMAIN stack' = 1..(n - 1)
  <2>1. \A i \in 1..(n - 1) : stack[i] \in Functions
    BY <1>1, <1>2
  <2>2. stack' \in Seq(Functions)
    BY DEF PurityInv, PurityTypeOK
  <2>3. Len(stack') = IF 1 <= n - 1 THEN n - 1 - 1 + 1 ELSE 0
    BY <1>1, <1>2, <2>1, SubSeqProperties
  <2>4. \A i \in 1..(n - 1 - 1 + 1) : stack'[i] = stack[1 + i - 1]
    BY <1>1, <1>2, <2>1, SubSeqProperties
  <2>5. Len(stack') = n - 1
    BY <1>2, <2>3
  <2>. QED
    BY <1>1, <1>2, <2>2, <2>4, <2>5
<1>4. /\ \A g \in Functions : g # Top => functionPurity'[g] = functionPurity[g]
      /\ functionPurity'[Top] = IF BlockerFree(Top) THEN "pure" ELSE "impure"
      /\ functionPurity[Top] = "impure" /\ program.source[Top] = "defined"
  BY <1>1, <1>2 DEF PurityInv, PurityTypeOK, Provisional
<1> HIDE DEF n
<1>5. /\ \A g \in Functions : (Known(g)' <=> Known(g)) /\ (g \in Pure => g \in Pure')
      /\ ~Trusted(Top) /\ (BlockerFree(Top) => Top \in Pure')
  BY <1>2, <1>4 DEF Known, Pure, Trusted
<1>6. /\ \A g : Reach(g)' = Reach(g) /\ (Recursive(g) <=> Recursive(g)')
      /\ \A S : Closed(S)' <=> Closed(S)
      /\ \A g : Trusted(g)' <=> Trusted(g)
  BY <1>1, SameProgram
<1>7. StackIsPath'
  BY <1>2, <1>3, <1>6 DEF Decided, StackIsPath, n
<1>8. AskedAreKnown' /\ TrustedArePure'
  <2>1. AskedAreKnown'
    BY <1>1, <1>5 DEF Decided, AskedAreKnown, PurityInv, PurityTypeOK
  <2>2. TrustedArePure'
    BY <1>5, <1>6 DEF Decided, TrustedArePure
  <2>. QED
    BY <2>1, <2>2
<1>9. UnderAnalysis \subseteq UnderAnalysis' \cup {Top}
  <2>1. \A i \in 1..n : i = n \/ i \in 1..(n - 1)
    BY <1>2
  <2>. QED
    BY <1>2, <1>3, <2>1 DEF UnderAnalysis
<1>10. GoodSetsArePure'
  <2> SUFFICES ASSUME NEW S \in SUBSET Functions, Closed(S), FreeOfRecursion(S),
                      NEW g \in S, Known(g)', g \notin UnderAnalysis'
               PROVE  g \in Pure'
    BY <1>6 DEF GoodSetsArePure, FreeOfRecursion
  <2>1. CASE g # Top
    BY <1>5, <1>9, <2>1 DEF Decided, GoodSetsArePure
  <2>2. CASE g = Top
    <3>1. Top \notin program.blocked /\ program.calls[Top] \subseteq S
      BY <1>5, <2>2 DEF Closed
    <3> SUFFICES ASSUME NEW c \in program.calls[Top], c \notin Pure PROVE FALSE
      BY <1>5, <2>2, <3>1 DEF BlockerFree
    <3>2. c \in S /\ c \in Functions /\ Known(c)
      BY <1>1, <1>2, <3>1 DEF Decided, AskedAreKnown
    <3>3. c \in UnderAnalysis
      BY <3>2 DEF Decided, GoodSetsArePure
    <3>4. PICK i \in 1..n : c = stack[i]
      BY <1>3, <3>3 DEF UnderAnalysis
    <3>5. Top \in Reach(c)
      BY <1>2, <3>4 DEF Decided, StackIsPath, n
    <3>. QED
      BY <2>2, <3>5 DEF FreeOfRecursion, Recursive
  <2>. QED
    BY <2>1, <2>2
<1>. QED
  BY <1>7, <1>8, <1>10 DEF Decided

LEMMA StepDecided == PurityInv /\ PurityInv' /\ Decided /\ [PurityNext]_purityVars => Decided'
<1> SUFFICES ASSUME PurityInv, PurityInv', Decided, [PurityNext]_purityVars PROVE Decided'
  OBVIOUS
<1>1. CASE Conclude
  BY <1>1, ConcludeDecided
<1>2. ASSUME NEW f \in Functions, NextFunction(f) \/ AskCallee(f) PROVE Decided'
  BY <1>2, EnterDecided
<1>3. CASE UNCHANGED purityVars \/ \E f \in Functions : LookUpCallee(f)
  <2>1. program' = program /\ functionPurity' = functionPurity /\ stack' = stack
    BY <1>3 DEF purityVars, LookUpCallee
  <2>2. AskedAreKnown'
    <3>1. CASE UNCHANGED purityVars
      BY <3>1 DEF purityVars, Decided, AskedAreKnown, Known
    <3>2. ASSUME NEW f \in Functions, LookUpCallee(f) PROVE AskedAreKnown'
      BY <2>1, <3>2 DEF LookUpCallee, Decided, AskedAreKnown, Known, PurityInv, PurityTypeOK
    <3>. QED
      BY <1>3, <3>1, <3>2
  <2>3. /\ \A g : Reach(g)' = Reach(g) /\ (Recursive(g) <=> Recursive(g)')
        /\ \A S : Closed(S)' <=> Closed(S)
        /\ \A g : Trusted(g)' <=> Trusted(g)
        /\ \A g : Known(g)' <=> Known(g)
        /\ Pure' = Pure /\ UnderAnalysis' = UnderAnalysis
    BY <2>1, SameProgram DEF Known, Pure, UnderAnalysis
  <2>. QED
    BY <2>1, <2>2, <2>3 DEF Decided, StackIsPath, TrustedArePure, GoodSetsArePure,
                            FreeOfRecursion
<1>. QED
  BY <1>1, <1>2, <1>3 DEF PurityNext

\* At the end every function that is pure as a matter of fact, and cannot reach a
\* cycle of calls, has the verdict it deserves: what it reaches of the set that
\* makes it pure is such a set itself.
LEMMA DecidedAtTheEnd == PurityInv /\ Decided => OnlyRecursionIsUndecided
<1> SUFFICES ASSUME PurityInv, Decided, Finished, NEW f \in Functions, GenuinelyPure(f),
                    \A g \in Reach(f) : ~Recursive(g)
             PROVE  f \in Pure
  BY DEF OnlyRecursionIsUndecided
<1>1. PICK S \in SUBSET Functions : f \in S /\ Closed(S)
  BY DEF GenuinelyPure
<1> DEFINE R == S \cap Reach(f)
<1>2. f \in R /\ R \in SUBSET Functions /\ FreeOfRecursion(R)
  BY <1>1, ReachIsClosed DEF PurityInv, FreeOfRecursion
<1>3. Closed(R)
  BY <1>1, ReachIsClosed DEF PurityInv, Closed, ClosedUnderCalls
<1>4. Known(f) /\ f \notin UnderAnalysis
  BY DEF Finished, UnderAnalysis
<1> HIDE DEF R
<1>. QED
  BY <1>2, <1>3, <1>4 DEF Decided, GoodSetsArePure

\* The provisional verdict for a function under analysis (line 689 of
\* pass/approxinfo.cpp) does harm only where calls are recursive: a pure function
\* that leads to no cycle of calls is found to be pure, in whichever order the
\* functions of the module are analysed.
THEOREM OnlyRecursionMisleads == PuritySpec => []OnlyRecursionIsUndecided
<1>1. PuritySpec => []Decided
  <2>1. PurityInv /\ PurityInv' /\ Decided /\ [PurityNext]_purityVars => Decided'
    BY StepDecided
  <2>. QED
    BY <2>1, InitDecided, PurityInvariance, PTL DEF PuritySpec
<1>2. PurityInv /\ Decided => OnlyRecursionIsUndecided
  BY DecidedAtTheEnd
<1>. QED
  BY <1>1, <1>2, PurityInvariance, PTL
=============================================================================
