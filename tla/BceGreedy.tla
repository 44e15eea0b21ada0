----------------------------- MODULE BceGreedy -----------------------------
(***************************************************************************)
(* bce_greedy of accept/core.py: a greedy approximation of the knapsack    *)
(* problem that composes measured configurations.  The components are      *)
(* considered in the order of their value per unit of error; one that      *)
(* enables a site of components already chosen may evict them.             *)
(*                                                                         *)
(* Components are appended when they are considered and evictions keep the *)
(* order of the rest, so the list knapsack of the code is the set chosen,  *)
(* in the order of consideration.  Values (1 - 1/speedup) and errors are   *)
(* integers here; a loss is an error without unit.                         *)
(***************************************************************************)
EXTENDS ConfigSpace, FiniteSets, Functions, SequencesExt

CONSTANTS
  Levels,     \* the parameters that components may have
  Values,     \* the values 1 - 1/speedup of components
  Losses,     \* the errors of components
  N,          \* how many components there are
  MaxError    \* the error budget of the call

ASSUME BudgetAssumption ==
  /\ N \in Nat \ {0} /\ MaxError \in Nat
  /\ Levels \subseteq Nat /\ Values \subseteq Nat /\ Losses \subseteq Nat

VARIABLES
  components,  \* what is known of each component
  order,       \* the list scored, after its sort
  pos,         \* the position in scored
  chosen,      \* the members of knapsack
  curError     \* cur_error

greedyVars == <<components, order, pos, chosen, curError>>

Indices == 1..N
Component == [config : [Sites -> Levels], value : Values, error : Losses]

ValueOf(is) == SumFunctionOnSet([i \in Indices |-> components[i].value], is)
ErrorOf(is) == SumFunctionOnSet([i \in Indices |-> components[i].error], is)

\* The score is value / max(error, 0.001); equal scores sort by index.  The unit
\* of the errors is that 0.001.
Weight(i) == IF components[i].error = 0 THEN 1 ELSE components[i].error
Before(i, j) ==
  LET si == components[i].value * Weight(j)
      sj == components[j].value * Weight(i)
  IN si > sj \/ (si = sj /\ i > j)

Sorted(o) == \A p, q \in Indices : p < q => Before(o[p], o[q])

GreedyTypeOK ==
  /\ components \in [Indices -> Component]
  /\ order \in [Indices -> Indices]
  /\ pos \in 1..(N + 1)
  /\ chosen \in SUBSET Indices
  /\ curError \in Nat

GreedyInit ==
  /\ components \in [Indices -> Component]
  /\ order \in [Indices -> Indices] /\ Sorted(order)
  /\ pos = 1 /\ chosen = {} /\ curError = 0

Considered == order[pos]

\* Changed: only equal configurations conflict.
ConflictsIfEqual(i) == {j \in chosen : components[i].config = components[j].config}

Conflicts(i) ==
  {j \in chosen : ConfigsConflict(components[i].config, components[j].config)}

\* Changed: what is evicted goes on counting.
NewErrorOfAll(i) == curError + components[i].error

NewError(i) == curError + components[i].error - ErrorOf(Conflicts(i))

\* A component that is worth less than what it would evict is passed over.
Outweighed(i) ==
  Conflicts(i) # {} /\ components[i].value < ValueOf(Conflicts(i))

Advance == pos \in Indices /\ pos' = pos + 1

\* The first component enters the knapsack, whatever its error.
AddFirst ==
  /\ Advance /\ chosen = {}
  /\ chosen' = {Considered}
  /\ curError' = components[Considered].error
  /\ UNCHANGED <<components, order>>

PassOver ==
  /\ Advance /\ chosen # {}
  /\ Outweighed(Considered) \/ NewError(Considered) > MaxError
  /\ UNCHANGED <<components, order, chosen, curError>>

\* Changed: the budget is compared with the error so far.
TakeWhileAffordable ==
  /\ Advance /\ chosen # {}
  /\ ~Outweighed(Considered) /\ curError <= MaxError
  /\ chosen' = (chosen \ Conflicts(Considered)) \cup {Considered}
  /\ curError' = NewError(Considered)
  /\ UNCHANGED <<components, order>>

Take ==
  /\ Advance /\ chosen # {}
  /\ ~Outweighed(Considered) /\ NewError(Considered) <= MaxError
  /\ chosen' = (chosen \ Conflicts(Considered)) \cup {Considered}
  /\ curError' = NewError(Considered)
  /\ UNCHANGED <<components, order>>

GreedyNext == AddFirst \/ PassOver \/ Take

GreedySpec == GreedyInit /\ [][GreedyNext]_greedyVars

\* The generator yields the combination of every prefix of the knapsack.
Rank(i) == CHOOSE p \in Indices : order[p] = i
Knapsack == SetToSortSeq(chosen, LAMBDA i, j : Rank(i) < Rank(j))
Prefix(num) == [n \in 1..num |-> components[Knapsack[n]].config]
Yielded == {CombineConfigs(Prefix(num)) : num \in 1..Len(Knapsack)}

-----------------------------------------------------------------------------
(* Properties.                                                             *)

\* No two components of the knapsack enable the same site.
ChosenAreDisjoint ==
  \A i, j \in chosen :
    i # j => ~ConfigsConflict(components[i].config, components[j].config)

\* cur_error, maintained by addition and subtraction, is the sum of the errors
\* of what is in the knapsack.
ErrorIsTracked == curError = ErrorOf(chosen)

\* Only the very first component can break the budget, and only alone.
BudgetIsKept == curError <= MaxError \/ chosen = {order[1]}

\* An eviction never makes the knapsack worth less.
WorthNeverDrops == [][ValueOf(chosen') >= ValueOf(chosen)]_greedyVars

\* A composite keeps every parameter of every component it is made of: combining
\* the prefixes loses nothing, and each prefix yields a configuration of its own.
CompositesAreFaithful ==
  \A num \in 1..Len(Knapsack) : \A n \in 1..num : \A s \in Sites :
    LET c == components[Knapsack[n]].config
    IN c[s] # 0 => CombineConfigs(Prefix(num))[s] = c[s]

\* The docstring: results are chosen under a maximum error constraint.  The
\* first component is taken without a look at it.
WithinMaxError == pos = N + 1 => ErrorOf(chosen) <= MaxError
=============================================================================
