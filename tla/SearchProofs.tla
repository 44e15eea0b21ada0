---------------------------- MODULE SearchProofs ----------------------------
(***************************************************************************)
(* Composition: what holds of composing configurations for any sites,      *)
(* components and budgets.                                                 *)
(*                                                                         *)
(* The relaxation search, for every set of sites and whatever the runs     *)
(* measure: it asks for no job that was not submitted, it climbs from      *)
(* parameter to parameter without leaving one out, it goes on until there  *)
(* is a reason to end, it composes what was good on its own, and a main    *)
(* run drops nothing that is better than what it returns.                  *)
(***************************************************************************)
EXTENDS BceGreedy, Evaluation, InductionLemmas

-----------------------------------------------------------------------------
(* Composition.                                                            *)

\* Combining configurations that are pairwise disjoint loses no parameter: the
\* order in which combine_configs overrides does not matter.
THEOREM CombineKeeps ==
  ASSUME NEW cs \in Seq(Config), NEW n \in DOMAIN cs, NEW s \in Sites,
         \A i, j \in DOMAIN cs : i # j => ~ConfigsConflict(cs[i], cs[j]),
         cs[n][s] # 0
  PROVE  CombineConfigs(cs)[s] = cs[n][s]
<1>1. Enabling(cs, s) = {n}
  BY DEF Enabling, ConfigsConflict
<1>2. n \in Nat
  OBVIOUS
<1>3. Latest({n}) = n
  BY <1>2 DEF Latest
<1>4. QED
  BY <1>1, <1>3 DEF CombineConfigs

\* A combination enables no site that none of its parts enables.
THEOREM CombineAddsNothing ==
  ASSUME NEW cs \in Seq(Config), cs # << >>, NEW s \in Sites,
         \A i \in DOMAIN cs : cs[i][s] = 0
  PROVE  CombineConfigs(cs)[s] = 0
  BY DEF CombineConfigs, Enabling

-----------------------------------------------------------------------------
\* The part of the type invariant that the knapsack needs.
KnapsackTyped ==
  /\ components \in [Indices -> Component]
  /\ order \in [Indices -> Indices]
  /\ chosen \subseteq Indices

\* Until the first component is taken the knapsack is empty, and it never is
\* again; past the budget it holds that component alone.
FirstInv == (chosen = {} => pos = 1) /\ (chosen = {} => curError = 0)

\* What is in the knapsack has been considered, and the sort leaves no component
\* for a second time.
ConsideredOnce ==
  /\ \A p, q \in Indices : p # q => order[p] # order[q]
  /\ \A i \in chosen : \E p \in Indices : p < pos /\ order[p] = i

GreedyInv ==
  /\ KnapsackTyped /\ pos \in 1..(N + 1) /\ ConsideredOnce
  /\ FirstInv /\ ChosenAreDisjoint /\ BudgetIsKept /\ ErrorIsTracked

\* Sums over components: of nothing, of a set without what is evicted, and of one
\* with what is added.
LEMMA SumsAdd ==
  ASSUME NEW f \in [Indices -> Nat], NEW is \in SUBSET Indices
  PROVE  /\ SumFunctionOnSet(f, is) \in Nat
         /\ \A es \in SUBSET is : SumFunctionOnSet(f, is \ es)
                                    = SumFunctionOnSet(f, is) - SumFunctionOnSet(f, es)
         /\ \A i \in Indices \ is : SumFunctionOnSet(f, is \cup {i})
                                      = SumFunctionOnSet(f, is) + f[i]
<1>1. \A es \in SUBSET Indices : IsFiniteSet(es)
  <2>1. IsFiniteSet(1..N)
    BY BudgetAssumption, FS_Interval
  <2>. QED  BY <2>1, FS_Subset DEF Indices
<1>2. SumFunctionOnSet(f, is) \in Nat
  BY <1>1, SumOfNaturals
<1>3. ASSUME NEW es \in SUBSET is
      PROVE  SumFunctionOnSet(f, is \ es) = SumFunctionOnSet(f, is) - SumFunctionOnSet(f, es)
  <2>1. IsFiniteSet(is) /\ \A i \in is : f[i] \in Int
    BY <1>1
  <2>. QED  BY <2>1, SumWithout
<1>4. ASSUME NEW i \in Indices \ is
      PROVE  SumFunctionOnSet(f, is \cup {i}) = SumFunctionOnSet(f, is) + f[i]
  <2>1. is \cup {i} \in SUBSET Indices /\ (is \cup {i}) \ {i} = is
    OBVIOUS
  <2>2. IsFiniteSet(is \cup {i}) /\ \A x \in is \cup {i} : f[x] \in Int
    BY <1>1, <2>1
  <2>3. SumFunctionOnSet(f, is \cup {i})
          = f[i] + SumFunctionOnSet(f, (is \cup {i}) \ {i})
    BY <2>2, SumTakesOut
  <2>4. SumFunctionOnSet(f, is) \in Int /\ f[i] \in Int
    BY <1>2
  <2>5. SumFunctionOnSet(f, is \cup {i}) = f[i] + SumFunctionOnSet(f, is)
    BY <2>1, <2>3, Zenon
  <2>. QED  BY <2>4, <2>5
<1>. QED  BY <1>2, <1>3, <1>4

LEMMA ErrorsAdd ==
  ASSUME KnapsackTyped, NEW is \in SUBSET Indices
  PROVE  /\ ErrorOf(is) \in Nat
         /\ \A es \in SUBSET is : ErrorOf(is \ es) = ErrorOf(is) - ErrorOf(es)
         /\ \A i \in Indices \ is : ErrorOf(is \cup {i}) = ErrorOf(is) + components[i].error
<1>. DEFINE f == [i \in Indices |-> components[i].error]
<1>1. f \in [Indices -> Nat] /\ \A i \in Indices : f[i] = components[i].error
  BY BudgetAssumption DEF KnapsackTyped, Component
<1>2. \A es : ErrorOf(es) = SumFunctionOnSet(f, es)
  BY DEF ErrorOf
<1>. HIDE DEF f
<1>. QED  BY <1>1, <1>2, SumsAdd

LEMMA ValuesAdd ==
  ASSUME KnapsackTyped, NEW is \in SUBSET Indices
  PROVE  /\ ValueOf(is) \in Nat
         /\ \A es \in SUBSET is : ValueOf(is \ es) = ValueOf(is) - ValueOf(es)
         /\ \A i \in Indices \ is : ValueOf(is \cup {i}) = ValueOf(is) + components[i].value
<1>. DEFINE f == [i \in Indices |-> components[i].value]
<1>1. f \in [Indices -> Nat] /\ \A i \in Indices : f[i] = components[i].value
  BY BudgetAssumption DEF KnapsackTyped, Component
<1>2. \A es : ValueOf(es) = SumFunctionOnSet(f, es)
  BY DEF ValueOf
<1>. HIDE DEF f
<1>. QED  BY <1>1, <1>2, SumsAdd

LEMMA ConflictIsSymmetric ==
  ASSUME NEW a, NEW b, ConfigsConflict(a, b) PROVE ConfigsConflict(b, a)
  BY DEF ConfigsConflict

LEMMA InitGreedyInv == GreedyInit => GreedyInv
<1>. SUFFICES ASSUME GreedyInit PROVE GreedyInv
  OBVIOUS
<1>. USE BudgetAssumption DEF GreedyInit
<1>1. KnapsackTyped /\ pos \in 1..(N + 1) /\ FirstInv
  BY DEF KnapsackTyped, FirstInv
<1>2. ChosenAreDisjoint /\ BudgetIsKept
  BY DEF ChosenAreDisjoint, BudgetIsKept
<1>3. ErrorIsTracked
  BY SumOfNothing DEF ErrorIsTracked, ErrorOf
<1>4. ConsideredOnce
  <2>1. \A i \in Indices : ~Before(i, i)
    <3>. SUFFICES ASSUME NEW i \in Indices PROVE ~Before(i, i)
      OBVIOUS
    <3>1. components[i].value \in Nat /\ Weight(i) \in Nat
      BY DEF Component, Weight
    <3>2. components[i].value * Weight(i) \in Nat
      BY <3>1
    <3>3. i \in Nat
      BY DEF Indices
    <3>. QED  BY <3>2, <3>3 DEF Before
  <2>2. ASSUME NEW p \in Indices, NEW q \in Indices, p # q PROVE order[p] # order[q]
    <3>1. p < q \/ q < p
      BY <2>2 DEF Indices
    <3>2. Before(order[p], order[q]) \/ Before(order[q], order[p])
      BY <3>1 DEF Sorted
    <3>. QED  BY <2>1, <3>2
  <2>. QED  BY <2>2 DEF ConsideredOnce
<1>. QED  BY <1>1, <1>2, <1>3, <1>4 DEF GreedyInv

LEMMA NewcomerIsNew ==
  ASSUME GreedyInv, pos \in Indices
  PROVE  Considered \in Indices \ chosen
BY BudgetAssumption DEF GreedyInv, KnapsackTyped, ConsideredOnce, Considered, Indices

\* Evicting and adding changes the error as NewError says.
LEMMA TakeTracksError ==
  ASSUME GreedyInv, Take
  PROVE  ErrorIsTracked'
<1>. DEFINE es == Conflicts(Considered)
            rest == chosen \ es
<1>1. /\ KnapsackTyped /\ chosen \in SUBSET Indices /\ curError = ErrorOf(chosen)
      /\ Considered \in Indices \ chosen
  BY NewcomerIsNew DEF GreedyInv, ErrorIsTracked, KnapsackTyped, Take, Advance
<1>2. es \in SUBSET chosen /\ rest \in SUBSET Indices /\ Considered \notin rest
  BY <1>1 DEF Conflicts
<1>3. /\ chosen' = rest \cup {Considered} /\ components' = components
      /\ curError' = curError + components[Considered].error - ErrorOf(es)
  BY DEF Take, NewError
<1>. HIDE DEF rest
<1>4. ErrorOf(rest \cup {Considered}) = ErrorOf(rest) + components[Considered].error
  BY <1>1, <1>2, ErrorsAdd
<1>. HIDE DEF es
<1>5. ErrorOf(rest) = ErrorOf(chosen) - ErrorOf(es)
  BY <1>1, <1>2, ErrorsAdd DEF rest
<1>6. /\ ErrorOf(chosen) \in Nat /\ ErrorOf(es) \in Nat
      /\ components[Considered].error \in Nat
  <2>1. es \in SUBSET Indices
    BY <1>1, <1>2
  <2>2. ErrorOf(chosen) \in Nat /\ ErrorOf(es) \in Nat
    BY <1>1, <2>1, ErrorsAdd
  <2>. QED  BY <1>1, <2>2, BudgetAssumption DEF KnapsackTyped, Component
<1>7. curError' = ErrorOf(rest \cup {Considered})
  BY <1>1, <1>3, <1>4, <1>5, <1>6
<1>. QED  BY <1>3, <1>7 DEF ErrorIsTracked, ErrorOf

LEMMA StepGreedyInv == GreedyInv /\ [GreedyNext]_greedyVars => GreedyInv'
<1> SUFFICES ASSUME GreedyInv, [GreedyNext]_greedyVars PROVE GreedyInv'
  OBVIOUS
<1> USE BudgetAssumption DEF GreedyInv, KnapsackTyped, FirstInv, Indices
<1>1. CASE AddFirst
  <2>1. Considered \in Indices
    BY <1>1 DEF AddFirst, Advance, Considered
  <2>2. ChosenAreDisjoint' /\ BudgetIsKept'
    BY <1>1 DEF AddFirst, Considered, ChosenAreDisjoint, BudgetIsKept
  <2>3. KnapsackTyped' /\ FirstInv' /\ pos' \in 1..(N + 1)
    <3>1. /\ chosen' = {Considered} /\ pos' = pos + 1 /\ pos \in 1..N
          /\ curError' = components[Considered].error
          /\ UNCHANGED <<components, order>>
      BY <1>1 DEF AddFirst, Advance
    <3>. QED  BY <2>1, <3>1
  <2>4. ConsideredOnce'
    BY <1>1, <2>1 DEF AddFirst, Advance, Considered, ConsideredOnce
  <2>5. ErrorIsTracked'
    <3>1. ErrorOf({} \cup {Considered}) = ErrorOf({}) + components[Considered].error
      BY <2>1, ErrorsAdd
    <3>2. ErrorOf({}) = 0
      BY SumOfNothing DEF ErrorOf
    <3>3. components[Considered].error \in Nat
      BY <2>1 DEF Component
    <3>4. {} \cup {Considered} = {Considered}
      OBVIOUS
    <3>5. ErrorOf({Considered}) = components[Considered].error
      BY <3>1, <3>2, <3>3, <3>4
    <3>. QED  BY <1>1, <3>5 DEF AddFirst, ErrorIsTracked, ErrorOf
  <2>6. QED  BY <2>2, <2>3, <2>4, <2>5
<1>2. CASE PassOver
  <2>1. pos' \in 1..(N + 1)
    BY <1>2 DEF PassOver, Advance
  <2>2. KnapsackTyped' /\ ChosenAreDisjoint' /\ BudgetIsKept'
    BY <1>2 DEF PassOver, ChosenAreDisjoint, BudgetIsKept
  <2>3. FirstInv'
    BY <1>2 DEF PassOver
  <2>4. ConsideredOnce'
    BY <1>2 DEF PassOver, Advance, ConsideredOnce
  <2>5. ErrorIsTracked'
    BY <1>2 DEF PassOver, ErrorIsTracked, ErrorOf
  <2>6. QED  BY <2>1, <2>2, <2>3, <2>4, <2>5
<1>3. CASE Take
  <2>1. Considered \in Indices
    BY <1>3 DEF Take, Advance, Considered
  <2>2. ChosenAreDisjoint'
    <3>1. SUFFICES ASSUME NEW i \in chosen', NEW j \in chosen', i # j
                   PROVE  ~ConfigsConflict(components[i].config, components[j].config)
      BY <1>3 DEF ChosenAreDisjoint, Take
    <3>2. CASE i = Considered
      BY <1>3, <3>1, <3>2 DEF Take, Conflicts
    <3>3. CASE j = Considered
      BY <1>3, <3>1, <3>3, ConflictIsSymmetric DEF Take, Conflicts
    <3>4. CASE i # Considered /\ j # Considered
      BY <1>3, <3>1, <3>4 DEF Take, ChosenAreDisjoint
    <3>5. QED  BY <3>2, <3>3, <3>4
  <2>3. BudgetIsKept'
    BY <1>3 DEF Take, BudgetIsKept
  <2>4. pos' \in 1..(N + 1)
    BY <1>3 DEF Take, Advance
  <2>5. KnapsackTyped' /\ FirstInv'
    BY <1>3, <2>1 DEF Take
  <2>6. ConsideredOnce'
    BY <1>3, <2>1 DEF Take, Advance, Considered, ConsideredOnce
  <2>7. QED  BY <1>3, <2>2, <2>3, <2>4, <2>5, <2>6, TakeTracksError
<1>4. CASE UNCHANGED greedyVars
  <2>1. ErrorIsTracked' /\ ConsideredOnce'
    BY <1>4 DEF greedyVars, ErrorIsTracked, ErrorOf, ConsideredOnce
  <2>2. QED  BY <1>4, <2>1 DEF greedyVars, ChosenAreDisjoint, BudgetIsKept
<1>5. QED
  BY <1>1, <1>2, <1>3, <1>4 DEF GreedyNext

\* The inductive invariant of the knapsack, which the theorems below rest on.
THEOREM GreedyInvariance == GreedySpec => []GreedyInv
  BY InitGreedyInv, StepGreedyInv, PTL DEF GreedySpec

\* The variables keep their types: in spite of what is subtracted, the error is
\* never negative.
THEOREM GreedyTypeCorrect == GreedySpec => []GreedyTypeOK
<1>1. GreedyInv => GreedyTypeOK
  BY ErrorsAdd DEF GreedyInv, KnapsackTyped, ErrorIsTracked, GreedyTypeOK
<1>2. QED  BY GreedyInvariance, <1>1, PTL

\* The error that additions and evictions maintain is the sum of the errors of the
\* components in the knapsack.
THEOREM ErrorTracked == GreedySpec => []ErrorIsTracked
<1>1. GreedyInv => ErrorIsTracked  BY DEF GreedyInv
<1>2. QED  BY GreedyInvariance, <1>1, PTL

\* An eviction never makes the knapsack worth less.
THEOREM WorthGrows == GreedySpec => WorthNeverDrops
<1>1. GreedyInv /\ [GreedyNext]_greedyVars => [ValueOf(chosen') >= ValueOf(chosen)]_greedyVars
  <2>. SUFFICES ASSUME GreedyInv, GreedyNext PROVE ValueOf(chosen') >= ValueOf(chosen)
    OBVIOUS
  <2>0. /\ KnapsackTyped /\ chosen \in SUBSET Indices /\ ValueOf(chosen) \in Nat
        /\ pos \in Indices => Considered \in Indices \ chosen
    BY ValuesAdd, NewcomerIsNew DEF GreedyInv, KnapsackTyped
  <2>1. CASE AddFirst
    <3>1. chosen' \in SUBSET Indices /\ chosen = {}
      BY <2>0, <2>1 DEF AddFirst, Advance
    <3>2. ValueOf(chosen') \in Nat /\ ValueOf(chosen) = 0
      BY <2>0, <3>1, ValuesAdd, SumOfNothing DEF ValueOf
    <3>. QED  BY <3>2
  <2>2. CASE PassOver
    BY <2>0, <2>2 DEF PassOver
  <2>3. CASE Take
    <3>. DEFINE es == Conflicts(Considered)
                rest == chosen \ es
                v == components[Considered].value
    <3>1. es \in SUBSET chosen /\ rest \in SUBSET Indices /\ Considered \in Indices \ rest
      BY <2>0, <2>3 DEF Conflicts, Take, Advance
    <3>2. chosen' = rest \cup {Considered} /\ (es # {} => ~(v < ValueOf(es)))
      BY <2>3 DEF Take, Outweighed
    <3>3. v \in Nat
      BY <3>1, <2>0, BudgetAssumption DEF KnapsackTyped, Component
    <3>. HIDE DEF v
    <3>4. ValueOf(rest \cup {Considered}) = ValueOf(rest) + v
      <4>. HIDE DEF rest
      <4>. QED  BY <2>0, <3>1, ValuesAdd DEF v
    <3>. HIDE DEF es
    <3>5. ValueOf(rest) = ValueOf(chosen) - ValueOf(es)
      BY <2>0, <3>1, ValuesAdd
    <3>6. ValueOf(es) \in Nat /\ (es = {} => ValueOf(es) = 0)
      BY <2>0, <3>1, ValuesAdd, SumOfNothing DEF ValueOf
    <3>. HIDE DEF rest
    <3>. QED  BY <2>0, <3>2, <3>3, <3>4, <3>5, <3>6
  <2>. QED  BY <2>1, <2>2, <2>3 DEF GreedyNext
<1>2. QED  BY GreedyInvariance, <1>1, PTL DEF GreedySpec, WorthNeverDrops

\* The knapsack never holds two components that enable the same site.
THEOREM KnapsackIsDisjoint == GreedySpec => []ChosenAreDisjoint
<1>1. GreedyInv => ChosenAreDisjoint  BY DEF GreedyInv
<1>2. QED  BY GreedyInvariance, <1>1, PTL

\* The error budget is broken by the first component alone, if at all.
THEOREM BudgetKept == GreedySpec => []BudgetIsKept
<1>1. GreedyInv => BudgetIsKept  BY DEF GreedyInv
<1>2. QED  BY GreedyInvariance, <1>1, PTL

-----------------------------------------------------------------------------
(* The search: its invariant.                                              *)

Singles == {Single(s, p) : s \in Sites, p \in Nat \ {0}}

\* A parameter of a site that the search may go on from: measured, safe, and not
\* slower than the next weaker by more than the noise.
Climbed(s, p) ==
  /\ Single(s, p) \in DOMAIN measured /\ Safe(Single(s, p))
  /\ p > 1 => /\ Single(s, p - 1) \in DOMAIN measured
              /\ ~Slower(measured, Single(s, p), Single(s, p - 1))

\* The baseline of an input was submitted when its output is known, and that of the
\* training input while a run is under way.
Submitted ==
  /\ \A test \in Inputs : pout[test] # "none" => test \in baselines
  /\ phase \in {"base", "search", "composite", "report", "test"} => FALSE \in baselines
  /\ phase # "keyerror"

\* Whatever was measured of a site alone, in this run or an earlier one, was climbed to.
WeakerWereClimbed ==
  \A s \in Sites : \A p \in Nat \ {0} :
    Single(s, p) \in DOMAIN measured
      => p <= ParamMax[s] /\ \A q \in 1..(p - 1) : Climbed(s, q)

TunedWereClimbed ==
  \A c \in tuned :
    \E s \in Sites : \E p \in 1..ParamMax[s] :
      c = Single(s, p) /\ Climbed(s, p) /\ (p > 1 => Single(s, p - 1) \in tuned)

\* The survivors all have the parameter of their generation.
SurvivorsAreOfGeneration ==
  /\ phase = "base" => generation = 0
  /\ phase = "search" =>
       /\ opts.tuned
       /\ \A c \in survivors : c \in tuned /\ \E s \in Sites : c = Single(s, generation + 1)

BaseIsSingle == \A c \in base : \E s \in Sites : c = Single(s, 1)

Done(s, p) ==
  \/ p = ParamMax[s]
  \/ /\ Single(s, p + 1) \in DOMAIN measured
     /\ \/ Single(s, p + 1) \in tuned \/ ~Safe(Single(s, p + 1))
        \/ Slower(measured, Single(s, p + 1), Single(s, p))

\* The search is done with a parameter, or the parameter is about to be increased.
Searched ==
  phase \in {"search", "composite", "report", "test"} =>
    /\ base \subseteq DOMAIN measured
    /\ opts.tuned =>
         /\ \A c \in base : Safe(c) => c \in tuned
         /\ \A s \in Sites : \A p \in 1..ParamMax[s] :
              Single(s, p) \in tuned
                => (phase = "search" /\ Single(s, p) \in survivors) \/ Done(s, p)

Reported == phase = "test" => opts.tuned /\ base \cup tuned \subseteq results

Search ==
  /\ Submitted /\ WeakerWereClimbed /\ TunedWereClimbed /\ SurvivorsAreOfGeneration
  /\ BaseIsSingle /\ Searched /\ Reported /\ CompositesAreOfGood

IInv == TypeOK /\ Search

-----------------------------------------------------------------------------
(* Configurations of one site.                                             *)

LEMMA SingleFacts ==
  ASSUME NEW s \in Sites, NEW p \in Nat
  PROVE  /\ Single(s, p) \in Config
         /\ Single(s, p)[s] = p
         /\ \A t \in Sites : t # s => Single(s, p)[t] = 0
         /\ p # 0 => Enabled(Single(s, p)) = {s}
BY DEF Single, Null, Config, Enabled

LEMMA SinglesDiffer ==
  ASSUME NEW s \in Sites, NEW t \in Sites, NEW p \in Nat \ {0}, NEW q \in Nat \ {0},
         Single(s, p) = Single(t, q)
  PROVE  s = t /\ p = q
<1>1. {s} = {t} /\ Single(s, p)[s] = p /\ Single(t, q)[t] = q
  BY SingleFacts
<1>. QED
  BY <1>1

\* A configuration that enables one site is determined by its parameter.
LEMMA SingleOf ==
  ASSUME NEW c \in Config, NEW s \in Sites, Enabled(c) = {s}
  PROVE  c[s] \in Nat \ {0} /\ c = Single(s, c[s])
<1>1. c[s] \in Nat \ {0} /\ \A t \in Sites : t # s => c[t] = 0
  BY DEF Enabled, Config
<1>2. Single(s, c[s]) \in Config /\ Single(s, c[s])[s] = c[s]
      /\ \A t \in Sites : t # s => Single(s, c[s])[t] = 0
  BY <1>1, SingleFacts
<1>. QED
  BY <1>1, <1>2 DEF Config

LEMMA PermuteIsSingle == PermuteConfig(Null) = {Single(s, 1) : s \in Sites}
BY DEF PermuteConfig, Single

\* increase_config and cap_config, on a configuration of one site.
LEMMA IncreasedSingle ==
  ASSUME NEW s \in Sites, NEW p \in 1..ParamMax[s]
  PROVE  /\ p < ParamMax[s] => Increased(Single(s, p)) = Single(s, p + 1)
         /\ p = ParamMax[s] => Increased(Single(s, p)) = Single(s, p)
<1>1. ParamMax[s] \in Nat \ {0} /\ \A t \in Sites : ParamMax[t] \in Nat \ {0}
  BY SitesAssumption
<1> DEFINE c == Single(s, p)
<1>2. c \in Config /\ c[s] = p /\ \A t \in Sites : t # s => c[t] = 0
  BY <1>1, SingleFacts
<1> HIDE DEF c
<1>3. /\ IncreaseConfig(c) \in Config /\ IncreaseConfig(c)[s] = p + 1
      /\ \A t \in Sites : t # s => IncreaseConfig(c)[t] = 0
  BY <1>1, <1>2 DEF IncreaseConfig, Config
<1>4. /\ Increased(c) \in Config
      /\ Increased(c)[s] = IF p < ParamMax[s] THEN p + 1 ELSE ParamMax[s]
      /\ \A t \in Sites : t # s => Increased(c)[t] = 0
  BY <1>1, <1>3 DEF Increased, CapConfig, Config
<1>5. CASE p < ParamMax[s]
  <2>1. /\ Single(s, p + 1) \in Config /\ Single(s, p + 1)[s] = p + 1
        /\ \A t \in Sites : t # s => Single(s, p + 1)[t] = 0
    BY <1>1, SingleFacts
  <2>2. \A t \in Sites : Increased(c)[t] = Single(s, p + 1)[t]
    BY <1>4, <1>5, <2>1
  <2>3. Increased(c) = Single(s, p + 1)
    BY <1>4, <2>1, <2>2 DEF Config
  <2>. QED
    BY <1>5, <2>3 DEF c
<1>6. CASE p = ParamMax[s]
  <2>0. Increased(c)[s] = p
    BY <1>1, <1>4, <1>6
  <2>1. \A t \in Sites : Increased(c)[t] = c[t]
    BY <1>2, <1>4, <2>0
  <2>2. Increased(c) = c
    BY <1>2, <1>4, <2>1 DEF Config
  <2>. QED
    BY <1>6, <2>2 DEF c
<1>. QED
  BY <1>1, <1>5, <1>6

\* What is composed of configurations of one site has the parameters that these have;
\* if it enables one site only it is one of them.
LEMMA ComposedOfSingles ==
  ASSUME NEW cs \in SUBSET Singles, NEW configs \in Composed(cs), NEW c \in configs
  PROVE  c \in Config /\ \A s \in Enabled(c) : Single(s, c[s]) \in cs
<1>1. cs # {}
  BY DEF Composed
<1>2. PICK f \in [Budgets -> Chains(cs)] : configs = UNION {ChainComposites(f[b]) : b \in Budgets}
  BY <1>1 DEF Composed
<1>3. PICK b \in Budgets : c \in ChainComposites(f[b])
  BY <1>2
<1> DEFINE q == f[b]
<1>4. PICK n \in 1..Len(q) : c = CombineConfigs(SubSeq(q, 1, n))
  BY <1>3 DEF ChainComposites
<1>5. /\ q \in Seq(cs) /\ \A i \in 1..Len(q) : q[i] \in cs
      /\ \A i, j \in 1..Len(q) : i # j => ~ConfigsConflict(q[i], q[j])
  <2>1. q \in Chains(cs)
    BY <1>2
  <2>2. PICK m \in 1..Cardinality(Sites) : q \in [1..m -> cs]
    BY <2>1 DEF Chains
  <2>3. m \in Nat
    BY <2>2
  <2>4. q \in Seq(cs) /\ DOMAIN q = 1..m
    BY <2>2, <2>3
  <2>5. DOMAIN q = 1..Len(q)
    BY <2>4
  <2>. QED
    BY <2>1, <2>4, <2>5 DEF Chains
<1> HIDE DEF q
<1> DEFINE e == SubSeq(q, 1, n)
<1>6. DOMAIN e = 1..n /\ \A i \in 1..n : e[i] = q[i] /\ e[i] \in cs
  <2>1. Len(q) \in Nat /\ n \in 1..Len(q)
    BY <1>4, <1>5
  <2>. QED
    BY <1>5, <2>1
<1> HIDE DEF e
<1>7. \A i \in 1..n : e[i] \in Config
  BY <1>6, SingleFacts DEF Singles
<1>8. ASSUME NEW s \in Sites
      PROVE  \/ c[s] = 0
             \/ \E i \in 1..n : c[s] = e[i][s] /\ c[s] # 0
  <2>1. c[s] = IF Enabling(e, s) = {} THEN e[1][s] ELSE e[Latest(Enabling(e, s))][s]
    BY <1>4 DEF CombineConfigs, e
  <2>2. CASE Enabling(e, s) = {}
    <3>1. 1 \in DOMAIN e
      BY <1>4, <1>6
    <3>. QED
      BY <2>1, <2>2, <3>1 DEF Enabling
  <2>3. CASE Enabling(e, s) # {}
    <3>1. PICK i \in 1..n : i \in Enabling(e, s)
      BY <1>6, <2>3 DEF Enabling
    <3>2. \A j \in Enabling(e, s) : j = i
      <4> SUFFICES ASSUME NEW j \in Enabling(e, s), j # i PROVE FALSE
        OBVIOUS
      <4>1. j \in 1..n /\ e[j][s] # 0 /\ e[i][s] # 0
        BY <1>6, <3>1 DEF Enabling
      <4>2. ConfigsConflict(q[i], q[j])
        BY <1>6, <4>1 DEF ConfigsConflict
      <4>3. i \in 1..Len(q) /\ j \in 1..Len(q)
        BY <1>4, <1>5, <4>1
      <4>. QED
        BY <1>5, <4>2, <4>3
    <3>3. Latest(Enabling(e, s)) = i
      <4>1. \E k \in Enabling(e, s) : \A j \in Enabling(e, s) : j <= k
        BY <3>1, <3>2
      <4>2. Latest(Enabling(e, s)) \in Enabling(e, s)
        BY <4>1, Zenon DEF Latest
      <4>. QED
        BY <3>2, <4>2
    <3>. QED
      BY <2>1, <2>3, <3>1, <3>3 DEF Enabling
  <2>. QED
    BY <2>2, <2>3
<1>9. c \in Config
  <2>1. DOMAIN c = Sites /\ c = [s \in Sites |-> c[s]]
    BY <1>4 DEF CombineConfigs
  <2>2. ASSUME NEW s \in Sites PROVE c[s] \in Nat
    <3>1. \A i \in 1..n : e[i][s] \in Nat
      BY <1>7 DEF Config
    <3>. QED
      BY <1>8, <3>1
  <2>. QED
    BY <2>1, <2>2 DEF Config
<1>10. ASSUME NEW s \in Enabled(c) PROVE Single(s, c[s]) \in cs
  <2>1. PICK i \in 1..n : c[s] = e[i][s] /\ c[s] # 0
    BY <1>8 DEF Enabled
  <2>2. PICK t \in Sites, p \in Nat \ {0} : e[i] = Single(t, p)
    BY <1>6 DEF Singles
  <2>3. t = s /\ c[s] = p
    BY <2>1, <2>2, SingleFacts DEF Enabled
  <2>. QED
    BY <1>6, <2>2, <2>3
<1>. QED
  BY <1>9, <1>10

-----------------------------------------------------------------------------
(* Measurements.                                                           *)

\* Whatever has been measured stays.
LEMMA MeasureGrows ==
  ASSUME NEW cs, Measure(cs)
  PROVE  /\ DOMAIN measured' = cs \cup DOMAIN measured
         /\ \A c \in DOMAIN measured : measured'[c] = measured[c]
         /\ \A c \in cs \ DOMAIN measured : measured'[c] \in Outcome
BY DEF Measure

LEMMA ClimbedStays ==
  ASSUME DOMAIN measured \subseteq DOMAIN measured',
         \A c \in DOMAIN measured : measured'[c] = measured[c],
         NEW s, NEW p, Climbed(s, p)
  PROVE  Climbed(s, p)'
BY DEF Climbed, Safe, Slower

\* On the training input, whose baseline was submitted when the run was set up, a run
\* gets what it asks for.
LEMMA BaselineIsThere ==
  ASSUME NEW cs \in SUBSET Config, NEW next, TypeOK,
         RunApprox(cs, FALSE, next, FALSE), FALSE \in baselines
  PROVE  /\ phase' = next \/ phase' = "usererror"
         /\ baselines' = baselines
         /\ submitted' \subseteq Config \X Inputs
         /\ ptimes' \subseteq Inputs
<1>1. baselines' = baselines
  BY DEF RunApprox
<1>2. phase' = next \/ phase' = "usererror"
  BY <1>1 DEF RunApprox
<1>3. submitted' = submitted \cup {<<c, FALSE>> : c \in cs}
  BY DEF RunApprox
<1>4. \A c \in cs : <<c, FALSE>> \in Config \X Inputs
  BY Zenon DEF Inputs
<1>5. submitted' \subseteq Config \X Inputs
  <2>1. submitted \subseteq Config \X Inputs
    BY DEF TypeOK
  <2>. QED
    BY <1>3, <1>4, <2>1, Zenon
<1>6. ptimes' = ptimes \cup {FALSE} \/ ptimes' = ptimes
  BY DEF RunApprox
<1>7. ptimes' \subseteq Inputs
  BY <1>6 DEF TypeOK, Inputs
<1>. QED
  BY <1>1, <1>2, <1>5, <1>7

-----------------------------------------------------------------------------
(* The actions.                                                            *)

LEMMA InitIInv == Init => IInv
<1> SUFFICES ASSUME Init PROVE IInv
  OBVIOUS
<1>1. TypeOK
  BY EvaluationAssumption DEF Init, TypeOK, Inputs
<1>2. Search
  BY DEF Init, Search, Submitted, WeakerWereClimbed, TunedWereClimbed, Inputs,
         SurvivorsAreOfGeneration, BaseIsSingle, Searched, Reported, CompositesAreOfGood
<1>. QED
  BY <1>1, <1>2 DEF IInv

\* setup leaves an input's output only behind its baseline.
LEMMA SetupSubmits ==
  ASSUME IInv, NEW test \in Inputs, Setup(test)
  PROVE  /\ baselines' \subseteq Inputs
         /\ pout' \in [Inputs -> {"none", "empty", "output"}]
         /\ \A t \in Inputs : pout'[t] # "none" => t \in baselines'
         /\ test \in baselines'
<1>1. /\ baselines' = baselines \cup IF pout[test] = "output" THEN {} ELSE {test}
      /\ pout' = [pout EXCEPT ![test] =
                    IF precise[test] = "fail" THEN "none" ELSE precise[test]]
  BY DEF Setup
<1>2. pout[test] = "output" => test \in baselines
  BY DEF IInv, Search, Submitted
<1>3. test \in baselines' /\ baselines \subseteq baselines' /\ baselines' \subseteq Inputs
  BY <1>1, <1>2 DEF IInv, TypeOK
<1>4. pout' \in [Inputs -> {"none", "empty", "output"}]
      /\ \A t \in Inputs : t # test => pout'[t] = pout[t]
  BY <1>1 DEF IInv, TypeOK
<1>. QED
  BY <1>3, <1>4 DEF IInv, Search, Submitted

\* A run begins with one parameter of each of its sites, and forgets the run before.
LEMMA StartRunIInv == IInv /\ StartRun => IInv'
<1> SUFFICES ASSUME IInv, StartRun PROVE IInv'
  OBVIOUS
<1>1. /\ Setup(FALSE) /\ phase' = "base"
      /\ survivors' = {} /\ tuned' = {} /\ generation' = 0 /\ composites' = {}
      /\ UNCHANGED <<opts, precise, submitted, ptimes, measured, results>>
      /\ todo' \subseteq todo
      /\ \E run \in todo : base' = RunConfigs(run)
  BY DEF StartRun
<1>2. \A c \in base' : \E s \in Sites : c = Single(s, 1)
  BY <1>1, PermuteIsSingle DEF RunConfigs
<1>3. base' \subseteq Config
  BY <1>2, SingleFacts
<1>4. /\ baselines' \subseteq Inputs
      /\ pout' \in [Inputs -> {"none", "empty", "output"}]
      /\ \A t \in Inputs : pout'[t] # "none" => t \in baselines'
      /\ FALSE \in baselines'
  BY <1>1, SetupSubmits DEF Inputs
<1>5. TypeOK'
  BY <1>1, <1>3, <1>4, EvaluationAssumption DEF IInv, TypeOK, Inputs
<1>6. Submitted'
  BY <1>1, <1>4 DEF Submitted, Inputs
<1>7. WeakerWereClimbed'
  BY <1>1 DEF IInv, Search, WeakerWereClimbed, Climbed, Safe
<1>8. /\ TunedWereClimbed' /\ SurvivorsAreOfGeneration' /\ BaseIsSingle'
      /\ Searched' /\ Reported' /\ CompositesAreOfGood'
  BY <1>1, <1>2 DEF TunedWereClimbed, SurvivorsAreOfGeneration, BaseIsSingle,
                    Searched, Reported, CompositesAreOfGood
<1>. QED
  BY <1>5, <1>6, <1>7, <1>8 DEF IInv, Search

\* Each site is measured with its first parameter.
LEMMA BasePhaseIInv == IInv /\ BasePhase => IInv'
<1> SUFFICES ASSUME IInv, BasePhase PROVE IInv'
  OBVIOUS
<1> DEFINE next == IF opts.tuned THEN "search" ELSE "composite"
<1>1. /\ phase = "base" /\ RunApprox(base, FALSE, next, FALSE) /\ Measure(base)
      /\ survivors' = {c \in base : measured'[c].safe}
      /\ tuned' = IF opts.tuned THEN survivors' ELSE {}
      /\ UNCHANGED <<opts, todo, precise, pout, base, generation, composites, results>>
  BY DEF BasePhase
<1>2. /\ phase' = next \/ phase' = "usererror"
      /\ baselines' = baselines
      /\ submitted' \subseteq Config \X Inputs /\ ptimes' \subseteq Inputs
  <2>1. FALSE \in baselines /\ base \in SUBSET Config /\ TypeOK
    BY <1>1 DEF IInv, Search, Submitted, TypeOK
  <2> HIDE DEF next
  <2>. QED
    BY <1>1, <2>1, BaselineIsThere
<1>3. /\ DOMAIN measured' = base \cup DOMAIN measured
      /\ \A c \in DOMAIN measured : measured'[c] = measured[c]
      /\ \A c \in base \ DOMAIN measured : measured'[c] \in Outcome
  BY <1>1, MeasureGrows
<1>4. \A c \in base : \E s \in Sites : c = Single(s, 1)
  BY DEF IInv, Search, BaseIsSingle
<1>5. /\ base \subseteq Config
      /\ \A s \in Sites, p \in Nat \ {0} : Single(s, p) \in base => p = 1
  <2>1. \A s \in Sites, p \in Nat \ {0} : Single(s, p) \in base => p = 1
    BY <1>4, SinglesDiffer
  <2>. QED
    BY <2>1 DEF IInv, TypeOK
<1>6. TypeOK'
  <2>1. /\ phase' \in {"search", "composite", "usererror"}
        /\ baselines' \subseteq Inputs
    BY <1>2 DEF IInv, TypeOK
  <2>2. DOMAIN measured' \subseteq Config /\ \A c \in DOMAIN measured' : measured'[c] \in Outcome
    BY <1>3, <1>5 DEF IInv, TypeOK
  <2>3. survivors' \subseteq Config /\ tuned' \subseteq Config
    BY <1>1, <1>5
  <2>. QED
    BY <1>1, <1>2, <2>1, <2>2, <2>3 DEF IInv, TypeOK, Final
<1>7. Submitted'
  BY <1>1, <1>2 DEF IInv, Search, Submitted
<1>8. \A s \in Sites, p \in Nat : Climbed(s, p) => Climbed(s, p)'
  BY <1>3, ClimbedStays
<1>9. WeakerWereClimbed'
  <2> SUFFICES ASSUME NEW s \in Sites, NEW p \in Nat \ {0}, Single(s, p) \in DOMAIN measured'
               PROVE  p <= ParamMax[s] /\ \A q \in 1..(p - 1) : Climbed(s, q)'
    BY DEF WeakerWereClimbed
  <2>1. CASE Single(s, p) \in DOMAIN measured
    BY <1>8, <2>1 DEF IInv, Search, WeakerWereClimbed
  <2>2. CASE Single(s, p) \in base
    BY <1>5, <2>2, SitesAssumption
  <2>. QED
    BY <1>3, <2>1, <2>2
<1>10. \A c \in tuned' : c \in base /\ Safe(c)'
  BY <1>1 DEF Safe
<1>11. TunedWereClimbed'
  <2> SUFFICES ASSUME NEW c \in tuned'
               PROVE  \E s \in Sites : \E p \in 1..ParamMax[s] :
                        c = Single(s, p) /\ Climbed(s, p)' /\ (p > 1 => Single(s, p - 1) \in tuned')
    BY DEF TunedWereClimbed
  <2>1. PICK s \in Sites : c = Single(s, 1)
    BY <1>4, <1>10
  <2>2. Climbed(s, 1)'
    BY <1>3, <1>10, <2>1 DEF Climbed
  <2>3. 1 \in 1..ParamMax[s]
    BY SitesAssumption
  <2>. QED
    BY <2>1, <2>2, <2>3
<1>12. SurvivorsAreOfGeneration'
  <2>1. generation = 0
    BY <1>1 DEF IInv, Search, SurvivorsAreOfGeneration
  <2>. QED
    BY <1>1, <1>2, <1>4, <2>1 DEF SurvivorsAreOfGeneration
<1>13. BaseIsSingle' /\ Reported'
  BY <1>1, <1>2, <1>4 DEF BaseIsSingle, Reported
<1>14. Searched'
  <2>1. base' \subseteq DOMAIN measured'
    BY <1>1, <1>3
  <2>2. opts'.tuned => /\ phase' # "composite" /\ phase' # "report" /\ phase' # "test"
                       /\ \A c \in base' : Safe(c)' => c \in tuned'
                       /\ tuned' \subseteq survivors'
    BY <1>1, <1>2 DEF Safe
  <2>. QED
    BY <2>1, <2>2 DEF Searched
<1>15. CompositesAreOfGood'
  BY <1>1, <1>3 DEF IInv, Search, CompositesAreOfGood
<1>. QED
  BY <1>6, <1>7, <1>9, <1>11, <1>12, <1>13, <1>14, <1>15 DEF IInv, Search

\* A generation: each survivor is measured one step further.  If it is not kept there,
\* the search is done with it.
LEMMA GenerationIInv == IInv /\ Generation => IInv'
<1> SUFFICES ASSUME IInv, Generation PROVE IInv'
  OBVIOUS
<1> DEFINE configs == {Increased(c) : c \in Parents}
<1>1. /\ phase = "search" /\ generation <= MaxGenerations /\ generation' = generation + 1
      /\ RunApprox(configs, FALSE, "search", FALSE) /\ Measure(configs)
      /\ survivors' = {Increased(c) : c \in {p \in Parents :
                         /\ measured'[Increased(p)].safe
                         /\ ~Slower(measured', Increased(p), p)}}
      /\ tuned' = tuned \cup survivors'
      /\ UNCHANGED <<opts, todo, precise, pout, base, composites, results>>
  BY DEF Generation
<1>0. PICK g : g = generation
  OBVIOUS
<1>2. /\ g \in Nat /\ generation' = g + 1 /\ generation' \in 0..(MaxGenerations + 1)
      /\ opts.tuned /\ FALSE \in baselines
  <2>1. generation \in 0..(MaxGenerations + 1) /\ MaxGenerations \in Nat
    BY EvaluationAssumption DEF IInv, TypeOK
  <2>2. opts.tuned /\ FALSE \in baselines
    BY <1>1 DEF IInv, Search, Submitted, SurvivorsAreOfGeneration
  <2>3. generation <= MaxGenerations /\ generation' = generation + 1
    BY <1>1
  <2>4. g \in Nat /\ generation' = g + 1 /\ generation' \in 0..(MaxGenerations + 1)
    BY <1>0, <2>1, <2>3
  <2>. QED
    BY <2>2, <2>4, Zenon
\* A survivor is a configuration of one site, with the parameter of the generation.
<1>3. \A c \in survivors : \E s \in Sites :
        /\ c = Single(s, g + 1) /\ c \in tuned
        /\ g + 1 \in 1..ParamMax[s] /\ Climbed(s, g + 1)
  <2> SUFFICES ASSUME NEW c \in survivors
               PROVE  \E s \in Sites :
                        /\ c = Single(s, g + 1) /\ c \in tuned
                        /\ g + 1 \in 1..ParamMax[s] /\ Climbed(s, g + 1)
    OBVIOUS
  <2>1. PICK s \in Sites : c = Single(s, g + 1)
    BY <1>0, <1>1 DEF IInv, Search, SurvivorsAreOfGeneration
  <2>2. c \in tuned
    BY <1>1 DEF IInv, Search, SurvivorsAreOfGeneration
  <2>3. PICK t \in Sites : \E p \in 1..ParamMax[t] : c = Single(t, p) /\ Climbed(t, p)
    BY <2>2 DEF IInv, Search, TunedWereClimbed
  <2> PICK p \in 1..ParamMax[t] : c = Single(t, p) /\ Climbed(t, p)
    BY <2>3
  <2>4. s = t /\ p = g + 1
    <3>1. g + 1 \in Nat \ {0} /\ p \in Nat \ {0} /\ Single(s, g + 1) = Single(t, p)
      BY <1>2, <2>1
    <3>2. \A x, y \in Nat \ {0} : Single(s, x) = Single(t, y) => s = t /\ x = y
      BY SinglesDiffer
    <3>. QED
      BY <3>1, <3>2
  <2>. QED
    BY <2>1, <2>2, <2>4
\* A parent is one that can be increased.
<1>4. \A c \in Parents : \E s \in Sites :
        /\ c = Single(s, g + 1) /\ c \in tuned /\ Climbed(s, g + 1)
        /\ Increased(c) = Single(s, g + 2) /\ g + 2 \in 1..ParamMax[s]
  <2> SUFFICES ASSUME NEW c \in Parents
               PROVE  \E s \in Sites :
                        /\ c = Single(s, g + 1) /\ c \in tuned
                        /\ Climbed(s, g + 1)
                        /\ Increased(c) = Single(s, g + 2)
                        /\ g + 2 \in 1..ParamMax[s]
    OBVIOUS
  <2>1. c \in survivors /\ Increased(c) # c
    BY DEF Parents, Increased
  <2>2. PICK s \in Sites : /\ c = Single(s, g + 1) /\ c \in tuned
                           /\ g + 1 \in 1..ParamMax[s] /\ Climbed(s, g + 1)
    BY <1>3, <2>1
  <2>3. ParamMax[s] \in Nat
    BY SitesAssumption
  <2>4. /\ g + 1 < ParamMax[s]
             => Increased(Single(s, g + 1)) = Single(s, g + 1 + 1)
        /\ g + 1 = ParamMax[s]
             => Increased(Single(s, g + 1)) = Single(s, g + 1)
    BY <2>2, IncreasedSingle
  <2>5. g + 1 < ParamMax[s] /\ g + 1 + 1 = g + 2
    BY <1>2, <2>1, <2>2, <2>3, <2>4
  <2>6. g + 2 \in 1..ParamMax[s]
    BY <1>2, <2>3, <2>5
  <2>7. Increased(c) = Single(s, g + 2)
    BY <2>2, <2>4, <2>5
  <2>. QED
    BY <2>2, <2>6, <2>7
<1>5. configs \subseteq Config /\ survivors' \subseteq configs
  <2>1. \A c \in Parents : Increased(c) \in Config
    BY <1>2, <1>4, SingleFacts
  <2>. QED
    BY <1>1, <2>1
<1>6. \A c \in configs : \E s \in Sites :
        /\ c = Single(s, g + 2) /\ Single(s, g + 1) \in tuned
        /\ Climbed(s, g + 1) /\ g + 2 \in 1..ParamMax[s]
  BY <1>4
<1>7. \A c \in survivors' : \E s \in Sites :
        /\ c = Single(s, g + 2) /\ Single(s, g + 1) \in tuned
        /\ Climbed(s, g + 1) /\ g + 2 \in 1..ParamMax[s]
        /\ measured'[c].safe /\ ~Slower(measured', c, Single(s, g + 1))
  BY <1>1, <1>4
<1>8. \A c \in survivors :
        \/ Increased(c) = c
        \/ /\ c \in Parents /\ Increased(c) \in configs
           /\ \/ Increased(c) \in tuned' \/ ~measured'[Increased(c)].safe
              \/ Slower(measured', Increased(c), c)
  BY <1>1 DEF Parents, Increased
<1> HIDE DEF configs
<1>9. /\ phase' = "search" \/ phase' = "usererror"
      /\ baselines' = baselines
      /\ submitted' \subseteq Config \X Inputs /\ ptimes' \subseteq Inputs
  <2>1. FALSE \in baselines /\ configs \in SUBSET Config /\ TypeOK
    BY <1>2, <1>5 DEF IInv
  <2>. QED
    BY <1>1, <2>1, BaselineIsThere
<1>10. /\ DOMAIN measured' = configs \cup DOMAIN measured
       /\ \A c \in DOMAIN measured : measured'[c] = measured[c]
       /\ \A c \in configs \ DOMAIN measured : measured'[c] \in Outcome
  BY <1>1, MeasureGrows
<1>11. TypeOK'
  <2>1. /\ phase' \in {"search", "usererror"}
        /\ baselines' \subseteq Inputs
    BY <1>9 DEF IInv, TypeOK
  <2>2. DOMAIN measured' \subseteq Config /\ \A c \in DOMAIN measured' : measured'[c] \in Outcome
    BY <1>5, <1>10 DEF IInv, TypeOK
  <2>3. survivors' \subseteq Config /\ tuned' \subseteq Config
    BY <1>1, <1>5 DEF IInv, TypeOK
  <2>. QED
    BY <1>1, <1>2, <1>9, <2>1, <2>2, <2>3 DEF IInv, TypeOK, Final
<1>12. Submitted'
  BY <1>1, <1>9 DEF IInv, Search, Submitted
<1>13. \A s, p : Climbed(s, p) => Climbed(s, p)'
  BY <1>10, ClimbedStays
<1>14. WeakerWereClimbed'
  <2> SUFFICES ASSUME NEW s \in Sites, NEW p \in Nat \ {0}, Single(s, p) \in DOMAIN measured'
               PROVE  p <= ParamMax[s] /\ \A q \in 1..(p - 1) : Climbed(s, q)'
    BY DEF WeakerWereClimbed
  <2>1. CASE Single(s, p) \in DOMAIN measured
    BY <1>13, <2>1 DEF IInv, Search, WeakerWereClimbed
  <2>2. CASE Single(s, p) \in configs
    <3>1. PICK t \in Sites :
            /\ Single(s, p) = Single(t, g + 2)
            /\ Climbed(t, g + 1) /\ g + 2 \in 1..ParamMax[t]
      BY <1>6, <2>2
    <3>2. s = t /\ p = g + 2
      <4>1. g + 2 \in Nat \ {0}
        BY <1>2
      <4>. QED
        BY <3>1, <4>1, SinglesDiffer
    <3>3. Single(s, g + 1) \in DOMAIN measured
      BY <3>1, <3>2 DEF Climbed
    <3>4. \A q \in 1..g : Climbed(s, q)
      <4>1. g + 1 \in Nat \ {0} /\ g + 1 - 1 = g
        BY <1>2
      <4>2. \A q \in 1..(g + 1 - 1) : Climbed(s, q)
        <5>1. PICK x \in Nat \ {0} : x = g + 1
          BY <4>1
        <5>2. Single(s, x) \in DOMAIN measured
          BY <3>3, <5>1
        <5>3. \A y \in Nat \ {0} : Single(s, y) \in DOMAIN measured
                                   => \A q \in 1..(y - 1) : Climbed(s, q)
          BY DEF IInv, Search, WeakerWereClimbed
        <5>4. \A q \in 1..(x - 1) : Climbed(s, q)
          BY <5>2, <5>3
        <5>5. x - 1 = g + 1 - 1
          BY <1>2, <5>1
        <5>. QED
          BY <5>4, <5>5
      <4>. QED
        BY <4>1, <4>2
    <3>5. \A q \in 1..(p - 1) : Climbed(s, q)
      <4>1. \A q \in 1..(p - 1) : q = g + 1 \/ q \in 1..g
        BY <1>2, <3>2
      <4>. QED
        BY <3>1, <3>2, <3>4, <4>1
    <3>6. p <= ParamMax[s]
      BY <3>1, <3>2, <1>2
    <3>. QED
      BY <1>13, <3>5, <3>6
  <2>. QED
    BY <1>10, <2>1, <2>2
<1>15. TunedWereClimbed'
  <2> SUFFICES ASSUME NEW c \in tuned'
               PROVE  \E s \in Sites : \E p \in 1..ParamMax[s] :
                        c = Single(s, p) /\ Climbed(s, p)' /\ (p > 1 => Single(s, p - 1) \in tuned')
    BY DEF TunedWereClimbed
  <2>1. CASE c \in tuned
    <3>1. \E s \in Sites : \E p \in 1..ParamMax[s] :
            c = Single(s, p) /\ Climbed(s, p) /\ (p > 1 => Single(s, p - 1) \in tuned)
      BY <2>1 DEF IInv, Search, TunedWereClimbed
    <3>. QED
      BY <1>1, <1>13, <3>1
  <2>2. CASE c \in survivors'
    <3>1. PICK s \in Sites :
            /\ c = Single(s, g + 2) /\ Single(s, g + 1) \in tuned
            /\ Climbed(s, g + 1) /\ g + 2 \in 1..ParamMax[s]
            /\ measured'[c].safe /\ ~Slower(measured', c, Single(s, g + 1))
      BY <1>7, <2>2
    <3>2. g + 2 - 1 = g + 1
      BY <1>2
    <3>3. Climbed(s, g + 2)'
      <4>1. Single(s, g + 2) \in DOMAIN measured'
        BY <1>5, <1>10, <2>2, <3>1
      <4>2. Single(s, g + 1) \in DOMAIN measured'
        BY <1>10, <3>1 DEF Climbed
      <4>. QED
        BY <3>1, <3>2, <4>1, <4>2, <1>2 DEF Climbed, Safe, Slower
    <3>4. PICK p \in 1..ParamMax[s] : p = g + 2
      BY <3>1
    <3>5. c = Single(s, p) /\ Climbed(s, p)' /\ Single(s, p - 1) \in tuned'
      <4>1. p - 1 = g + 1
        BY <1>2, <3>2, <3>4
      <4>2. Single(s, p - 1) \in tuned'
        BY <1>1, <3>1, <4>1
      <4>3. c = Single(s, p)
        BY <3>1, <3>4
      <4>4. Climbed(s, p)'
        BY <3>3, <3>4
      <4>. QED
        BY <4>2, <4>3, <4>4
    <3>. QED
      BY <3>5
  <2>. QED
    BY <1>1, <2>1, <2>2
<1>16. SurvivorsAreOfGeneration'
  <2>1. g + 2 = generation' + 1
    BY <1>1, <1>2
  <2>. QED
    BY <1>1, <1>2, <1>7, <1>9, <2>1 DEF SurvivorsAreOfGeneration
<1>17. BaseIsSingle' /\ Reported'
  BY <1>1, <1>9 DEF IInv, Search, BaseIsSingle, Reported
<1>18. Searched'
  <2> SUFFICES ASSUME phase' = "search"
               PROVE  /\ base' \subseteq DOMAIN measured'
                      /\ \A c \in base' : Safe(c)' => c \in tuned'
                      /\ \A s \in Sites : \A p \in 1..ParamMax[s] :
                           Single(s, p) \in tuned' => Single(s, p) \in survivors' \/ Done(s, p)'
    BY <1>9 DEF Searched
  <2>1. /\ base \subseteq DOMAIN measured
        /\ \A c \in base : Safe(c) => c \in tuned
        /\ \A s \in Sites : \A p \in 1..ParamMax[s] :
             Single(s, p) \in tuned => Single(s, p) \in survivors \/ Done(s, p)
    BY <1>1, <1>2 DEF IInv, Search, Searched
  <2>2. base' \subseteq DOMAIN measured' /\ \A c \in base' : Safe(c)' => c \in tuned'
    BY <1>1, <1>10, <2>1 DEF Safe
  <2>3. ASSUME NEW s \in Sites, NEW p \in 1..ParamMax[s], Single(s, p) \in tuned'
        PROVE  Single(s, p) \in survivors' \/ Done(s, p)'
    <3>0. Single(s, p) \in tuned => Single(s, p) \in DOMAIN measured
      BY DEF IInv, Search, TunedWereClimbed, Climbed
    <3>1. CASE Single(s, p) \in survivors'
      BY <3>1
    <3>2. CASE Single(s, p) \in tuned /\ Done(s, p)
      BY <1>1, <1>10, <3>0, <3>2 DEF Done, Safe, Slower
    <3>3. CASE Single(s, p) \in survivors /\ Single(s, p) \in tuned
      <4>1. /\ p < ParamMax[s] => Increased(Single(s, p)) = Single(s, p + 1)
            /\ p = ParamMax[s] => Increased(Single(s, p)) = Single(s, p)
        BY IncreasedSingle
      <4>2. CASE p = ParamMax[s]
        BY <4>2 DEF Done
      <4>3. CASE p < ParamMax[s]
        <5>1. Single(s, p + 1) # Single(s, p)
          <6>1. p \in Nat \ {0} /\ p + 1 \in Nat \ {0}
            BY SitesAssumption
          <6>. QED
            BY <6>1, SinglesDiffer
        <5>2. /\ Single(s, p + 1) \in configs
              /\ \/ Single(s, p + 1) \in tuned' \/ ~measured'[Single(s, p + 1)].safe
                 \/ Slower(measured', Single(s, p + 1), Single(s, p))
          BY <1>8, <3>3, <4>1, <4>3, <5>1
        <5>. QED
          BY <1>10, <5>2 DEF Done, Safe, Slower
      <4>. QED
        BY <4>2, <4>3, SitesAssumption
    <3>. QED
      BY <1>1, <2>1, <2>3, <3>1, <3>2, <3>3
  <2>. QED
    BY <2>2, <2>3, <1>1
<1>19. CompositesAreOfGood'
  BY <1>1, <1>10 DEF IInv, Search, CompositesAreOfGood
<1>. QED
  BY <1>11, <1>12, <1>14, <1>15, <1>16, <1>17, <1>18, <1>19 DEF IInv, Search

\* Steps that measure nothing keep what was measured and searched as it is.
LEMMA QuietStep ==
  ASSUME IInv, UNCHANGED <<opts, measured, searchVars>>
  PROVE  /\ WeakerWereClimbed' /\ TunedWereClimbed' /\ BaseIsSingle' /\ CompositesAreOfGood'
         /\ \A c : Safe(c)' <=> Safe(c)
         /\ \A s, p : Done(s, p)' <=> Done(s, p)
<1>1. /\ opts' = opts /\ measured' = measured /\ base' = base /\ survivors' = survivors
      /\ tuned' = tuned /\ generation' = generation /\ composites' = composites
  BY DEF searchVars
<1>2. \A s, p : Climbed(s, p)' <=> Climbed(s, p)
  BY <1>1 DEF Climbed, Safe
<1>3. WeakerWereClimbed' /\ TunedWereClimbed'
  BY <1>1, <1>2 DEF IInv, Search, WeakerWereClimbed, TunedWereClimbed
<1>4. BaseIsSingle' /\ CompositesAreOfGood'
  BY <1>1 DEF IInv, Search, BaseIsSingle, CompositesAreOfGood
<1>5. \A c : Safe(c)' <=> Safe(c)
  BY <1>1 DEF Safe
<1>6. \A s, p : Done(s, p)' <=> Done(s, p)
  BY <1>1 DEF Done, Safe
<1>. QED
  BY <1>3, <1>4, <1>5, <1>6

\* When the search ends it is done with every parameter: nobody survives, or the
\* survivors have come to the largest.
LEMMA EndSearchIInv == IInv /\ EndSearch => IInv'
<1> SUFFICES ASSUME IInv, EndSearch PROVE IInv'
  OBVIOUS
<1>1. /\ phase = "search" /\ phase' = "composite"
      /\ survivors = {} \/ generation > MaxGenerations
      /\ UNCHANGED <<opts, measured, searchVars>>
      /\ UNCHANGED <<todo, precise, baselines, submitted, pout, ptimes, results>>
  BY DEF EndSearch
<1>2. /\ base' = base /\ survivors' = survivors /\ tuned' = tuned
      /\ generation' = generation /\ composites' = composites
  BY <1>1 DEF searchVars
<1>3. TypeOK'
  BY <1>1, <1>2 DEF IInv, TypeOK
<1>4. /\ WeakerWereClimbed' /\ TunedWereClimbed' /\ BaseIsSingle' /\ CompositesAreOfGood'
      /\ \A c : Safe(c)' <=> Safe(c)
      /\ \A s, p : Done(s, p)' <=> Done(s, p)
  BY <1>1, QuietStep
<1>5. Submitted' /\ SurvivorsAreOfGeneration' /\ Reported'
  BY <1>1 DEF IInv, Search, Submitted, SurvivorsAreOfGeneration, Reported
<1>6. Searched'
  <2>1. opts.tuned /\ base \subseteq DOMAIN measured /\ \A c \in base : Safe(c) => c \in tuned
    BY <1>1 DEF IInv, Search, Searched, SurvivorsAreOfGeneration
  <2>2. ASSUME NEW s \in Sites, NEW p \in 1..ParamMax[s], Single(s, p) \in tuned
        PROVE  Done(s, p)
    <3>1. Single(s, p) \in survivors \/ Done(s, p)
      BY <1>1, <2>1, <2>2 DEF IInv, Search, Searched
    <3>2. CASE Single(s, p) \in survivors
      <4>1. PICK t \in Sites : Single(s, p) = Single(t, generation + 1)
        BY <1>1, <3>2 DEF IInv, Search, SurvivorsAreOfGeneration
      <4>2. generation \in Nat /\ MaxGenerations \in Nat /\ generation > MaxGenerations
        BY <1>1, <3>2, EvaluationAssumption DEF IInv, TypeOK
      <4>3. p = generation + 1
        <5>1. generation + 1 \in Nat \ {0} /\ p \in Nat \ {0}
          BY <4>2
        <5>. QED
          BY <4>1, <5>1, SinglesDiffer
      <4>4. ParamMax[s] <= MaxGenerations + 2 /\ p <= ParamMax[s] /\ ParamMax[s] \in Nat
        BY GenerationsAssumption, SitesAssumption
      <4>5. p = ParamMax[s]
        BY <4>2, <4>3, <4>4
      <4>. QED
        BY <4>5 DEF Done
    <3>. QED
      BY <3>1, <3>2
  <2>. QED
    BY <1>1, <1>2, <1>4, <2>1, <2>2 DEF Searched
<1>. QED
  BY <1>3, <1>4, <1>5, <1>6 DEF IInv, Search

\* What is composed has the parameters of good configurations of one site, and nothing
\* new is measured of a site alone.
LEMMA CompositePhaseIInv == IInv /\ CompositePhase => IInv'
<1> SUFFICES ASSUME IInv, CompositePhase PROVE IInv'
  OBVIOUS
<1> DEFINE cs == GoodOf(IF opts.tuned THEN tuned ELSE base)
<1>1. PICK configs \in Composed(cs) :
        composites' = configs /\ RunApprox(configs, FALSE, "report", FALSE) /\ Measure(configs)
  BY DEF CompositePhase
<1>2. /\ phase = "composite"
      /\ UNCHANGED <<opts, todo, precise, pout, base, survivors, tuned, generation, results>>
  BY DEF CompositePhase
<1>3. cs \in SUBSET Singles /\ \A c \in cs : c \in DOMAIN measured /\ measured[c].good
  <2>1. \A c \in tuned : c \in Singles /\ c \in DOMAIN measured
    <3> SUFFICES ASSUME NEW c \in tuned PROVE c \in Singles /\ c \in DOMAIN measured
      OBVIOUS
    <3>1. PICK s \in Sites : \E p \in 1..ParamMax[s] : c = Single(s, p) /\ Climbed(s, p)
      BY DEF IInv, Search, TunedWereClimbed
    <3>2. \A p \in 1..ParamMax[s] : p \in Nat \ {0}
      OBVIOUS
    <3>. QED
      BY <3>1, <3>2 DEF Singles, Climbed
  <2>2. \A c \in base : c \in Singles /\ c \in DOMAIN measured
    <3>1. base \subseteq DOMAIN measured
      BY <1>2 DEF IInv, Search, Searched
    <3>2. 1 \in Nat \ {0}
      OBVIOUS
    <3>. QED
      BY <3>1, <3>2 DEF IInv, Search, BaseIsSingle, Singles
  <2>. QED
    BY <2>1, <2>2 DEF GoodOf
<1> HIDE DEF cs
<1>4. \A c \in configs : c \in Config /\ \A s \in Enabled(c) : Single(s, c[s]) \in cs
  BY <1>3, ComposedOfSingles
<1>5. /\ phase' = "report" \/ phase' = "usererror"
      /\ baselines' = baselines
      /\ submitted' \subseteq Config \X Inputs /\ ptimes' \subseteq Inputs
  <2>1. FALSE \in baselines /\ configs \in SUBSET Config /\ TypeOK
    BY <1>2, <1>4 DEF IInv, Search, Submitted
  <2>. QED
    BY <1>1, <2>1, BaselineIsThere
<1>6. /\ DOMAIN measured' = configs \cup DOMAIN measured
      /\ \A c \in DOMAIN measured : measured'[c] = measured[c]
      /\ \A c \in configs \ DOMAIN measured : measured'[c] \in Outcome
  BY <1>1, MeasureGrows
<1>7. TypeOK'
  <2>1. DOMAIN measured' \subseteq Config /\ \A c \in DOMAIN measured' : measured'[c] \in Outcome
    BY <1>4, <1>6 DEF IInv, TypeOK
  <2>2. composites' \subseteq Config
    BY <1>1, <1>4
  <2>3. /\ phase' \in {"report", "usererror"}
        /\ baselines' \subseteq Inputs
    BY <1>5 DEF IInv, TypeOK
  <2>. QED
    BY <1>2, <1>5, <2>1, <2>2, <2>3 DEF IInv, TypeOK, Final
<1>8. Submitted'
  BY <1>2, <1>5 DEF IInv, Search, Submitted
<1>9. \A s, p : Climbed(s, p) => Climbed(s, p)'
  BY <1>6, ClimbedStays
<1>10. \A s \in Sites, p \in Nat \ {0} :
         Single(s, p) \in DOMAIN measured' => Single(s, p) \in DOMAIN measured
  <2> SUFFICES ASSUME NEW s \in Sites, NEW p \in Nat \ {0}, Single(s, p) \in configs
               PROVE  Single(s, p) \in DOMAIN measured
    BY <1>6
  <2>1. s \in Enabled(Single(s, p)) /\ Single(s, p)[s] = p
    BY SingleFacts
  <2>. QED
    BY <1>3, <1>4, <2>1
<1>11. WeakerWereClimbed'
  BY <1>9, <1>10 DEF IInv, Search, WeakerWereClimbed
<1>12. TunedWereClimbed'
  BY <1>2, <1>9 DEF IInv, Search, TunedWereClimbed
<1>13. SurvivorsAreOfGeneration' /\ BaseIsSingle' /\ Reported'
  BY <1>2, <1>5 DEF IInv, Search, SurvivorsAreOfGeneration, BaseIsSingle, Reported
<1>14. Searched'
  <2>1. base' \subseteq DOMAIN measured'
    BY <1>2, <1>6 DEF IInv, Search, Searched
  <2> SUFFICES ASSUME opts.tuned
               PROVE  /\ \A c \in base' : Safe(c)' => c \in tuned'
                      /\ \A s \in Sites : \A p \in 1..ParamMax[s] :
                           Single(s, p) \in tuned' => Done(s, p)'
    BY <1>2, <2>1 DEF Searched
  <2>2. /\ base \subseteq DOMAIN measured /\ \A c \in base : Safe(c) => c \in tuned
        /\ \A s \in Sites : \A p \in 1..ParamMax[s] :
             Single(s, p) \in tuned => Done(s, p)
    BY <1>2 DEF IInv, Search, Searched
  <2>3. \A c \in base' : Safe(c)' => c \in tuned'
    BY <1>2, <1>6, <2>2 DEF Safe
  <2>4. ASSUME NEW s \in Sites, NEW p \in 1..ParamMax[s], Single(s, p) \in tuned'
        PROVE  Done(s, p)'
    <3>1. Single(s, p) \in tuned /\ Done(s, p)
      BY <1>2, <2>2, <2>4
    <3>2. Single(s, p) \in DOMAIN measured
      BY <3>1 DEF IInv, Search, TunedWereClimbed, Climbed
    <3>. QED
      BY <1>2, <1>6, <3>1, <3>2 DEF Done, Safe, Slower
  <2>. QED
    BY <2>3, <2>4
<1>15. CompositesAreOfGood'
  BY <1>1, <1>3, <1>4, <1>6 DEF CompositesAreOfGood
<1>. QED
  BY <1>7, <1>8, <1>11, <1>12, <1>13, <1>14, <1>15 DEF IInv, Search

\* The steps between the phases.
LEMMA OtherStepsIInv ==
  IInv /\ (SkipMain \/ NoCompositePhase \/ Report \/ JobFails) => IInv'
<1> SUFFICES ASSUME IInv, SkipMain \/ NoCompositePhase \/ Report \/ JobFails PROVE IInv'
  OBVIOUS
<1>1. UNCHANGED <<opts, todo, precise, submitted, ptimes, measured, searchVars>>
  BY DEF SkipMain, NoCompositePhase, Report, JobFails
<1>2. /\ opts' = opts /\ measured' = measured /\ base' = base /\ survivors' = survivors
      /\ tuned' = tuned /\ generation' = generation /\ composites' = composites
  BY <1>1 DEF searchVars
<1>3. /\ WeakerWereClimbed' /\ TunedWereClimbed' /\ BaseIsSingle' /\ CompositesAreOfGood'
      /\ \A c : Safe(c)' <=> Safe(c)
      /\ \A s, p : Done(s, p)' <=> Done(s, p)
  BY <1>1, QuietStep
<1>4. /\ baselines' \subseteq Inputs
      /\ pout' \in [Inputs -> {"none", "empty", "output"}]
      /\ \A t \in Inputs : pout'[t] # "none" => t \in baselines'
      /\ ~SkipMain => UNCHANGED <<baselines, pout>>
  <2>1. CASE SkipMain
    BY <2>1, SetupSubmits DEF SkipMain, Inputs
  <2>2. CASE NoCompositePhase \/ Report \/ JobFails
    <3>1. UNCHANGED <<baselines, pout>>
      BY <2>2 DEF NoCompositePhase, Report, JobFails
    <3>. QED
      BY <3>1 DEF IInv, TypeOK, Search, Submitted
  <2>. QED
    BY <2>1, <2>2
<1>5. \/ phase' \in {"unbound", "failed"} /\ results' = results
      \/ phase = "composite" /\ phase' = "report" /\ results' = results
      \/ phase = "report" /\ phase' = "test" /\ opts.tuned /\ results' = base \cup tuned \cup composites
  BY DEF SkipMain, NoCompositePhase, Report, JobFails
<1>6. TypeOK'
  <2>1. results' \subseteq Config
    BY <1>5 DEF IInv, TypeOK
  <2>2. phase' \in {"unbound", "failed", "report", "test"}
    BY <1>5
  <2>. QED
    BY <1>1, <1>2, <1>4, <2>1, <2>2 DEF IInv, TypeOK, Final
<1>7. Submitted'
  <2>1. phase' \in {"report", "test"} => FALSE \in baselines'
    BY <1>4, <1>5 DEF IInv, Search, Submitted, SkipMain
  <2>. QED
    BY <1>4, <1>5, <2>1 DEF Submitted
<1>8. SurvivorsAreOfGeneration'
  BY <1>5 DEF SurvivorsAreOfGeneration
<1>9. Searched' /\ Reported'
  <2>1. CASE phase' \in {"unbound", "failed"}
    BY <2>1 DEF Searched, Reported
  <2>2. CASE phase \in {"composite", "report"} /\ phase' \in {"report", "test"}
    <3>1. Searched'
      BY <1>2, <1>3, <2>2 DEF IInv, Search, Searched
    <3>2. Reported'
      BY <1>2, <1>5, <2>2 DEF Reported
    <3>. QED
      BY <3>1, <3>2
  <2>. QED
    BY <1>5, <2>1, <2>2
<1>. QED
  BY <1>3, <1>6, <1>7, <1>8, <1>9 DEF IInv, Search

\* The testing input gets its baseline unless it has one.
LEMMA TestResultsIInv == IInv /\ TestResults => IInv'
<1> SUFFICES ASSUME IInv, TestResults PROVE IInv'
  OBVIOUS
<1> DEFINE after == IF todo = {} THEN "done" ELSE "idle"
           withSetup == pout[TRUE] # "output"
<1>1. /\ phase = "test"
      /\ \/ phase' = after /\ UNCHANGED <<baselines, submitted, pout, ptimes>>
         \/ /\ RunApprox(GoodOf(results), TRUE, after, withSetup)
            /\ pout' = [pout EXCEPT ![TRUE] =
                          IF precise[TRUE] = "fail" THEN "none" ELSE precise[TRUE]]
      /\ UNCHANGED <<opts, todo, precise, measured, searchVars, results>>
  BY DEF TestResults
<1>2. /\ opts' = opts /\ measured' = measured /\ base' = base /\ survivors' = survivors
      /\ tuned' = tuned /\ generation' = generation /\ composites' = composites
  BY <1>1 DEF searchVars
<1>3. /\ WeakerWereClimbed' /\ TunedWereClimbed' /\ BaseIsSingle' /\ CompositesAreOfGood'
  BY <1>1, QuietStep
<1>4. after \in {"done", "idle"}
  OBVIOUS
<1> HIDE DEF after
<1>5. /\ phase' \in {"done", "idle", "usererror"}
      /\ baselines' \subseteq Inputs /\ submitted' \subseteq Config \X Inputs
      /\ ptimes' \subseteq Inputs /\ pout' \in [Inputs -> {"none", "empty", "output"}]
      /\ \A t \in Inputs : pout'[t] # "none" => t \in baselines'
  <2>1. CASE phase' = after /\ UNCHANGED <<baselines, submitted, pout, ptimes>>
    BY <1>4, <2>1 DEF IInv, TypeOK, Search, Submitted
  <2>2. CASE /\ RunApprox(GoodOf(results), TRUE, after, withSetup)
             /\ pout' = [pout EXCEPT ![TRUE] =
                           IF precise[TRUE] = "fail" THEN "none" ELSE precise[TRUE]]
    <3>1. /\ baselines' = baselines \cup IF withSetup THEN {TRUE} ELSE {}
          /\ submitted' = submitted \cup {<<c, TRUE>> : c \in GoodOf(results)}
          /\ ptimes' = ptimes \/ ptimes' = ptimes \cup {TRUE}
      BY <2>2 DEF RunApprox
    <3>2. TRUE \in baselines'
      <4>1. ~withSetup => TRUE \in baselines
        BY DEF IInv, Search, Submitted, Inputs
      <4>. QED
        BY <3>1, <4>1
    <3>3. phase' = after \/ phase' = "usererror"
      BY <2>2, <3>2 DEF RunApprox
    <3>4. submitted' \subseteq Config \X Inputs
      <4>1. submitted \subseteq Config \X Inputs /\ GoodOf(results) \subseteq Config
        BY DEF IInv, TypeOK, GoodOf
      <4>2. \A c \in GoodOf(results) : <<c, TRUE>> \in Config \X Inputs
        BY <4>1, Zenon DEF Inputs
      <4>. QED
        BY <3>1, <4>1, <4>2, Zenon
    <3>5. ptimes' \subseteq Inputs
      BY <3>1 DEF IInv, TypeOK, Inputs
    <3>6. baselines \subseteq baselines' /\ baselines' \subseteq Inputs
      BY <3>1 DEF IInv, TypeOK, Inputs
    <3>7. /\ pout' \in [Inputs -> {"none", "empty", "output"}]
          /\ \A t \in Inputs : t # TRUE => pout'[t] = pout[t]
      BY <2>2 DEF IInv, TypeOK, Inputs
    <3>8. \A t \in Inputs : pout'[t] # "none" => t \in baselines'
      BY <3>2, <3>6, <3>7 DEF IInv, Search, Submitted
    <3>. QED
      BY <1>4, <3>3, <3>4, <3>5, <3>6, <3>7, <3>8
  <2>. QED
    BY <1>1, <2>1, <2>2
<1>6. TypeOK'
  BY <1>1, <1>2, <1>5 DEF IInv, TypeOK, Final
<1>7. Submitted' /\ SurvivorsAreOfGeneration' /\ Searched' /\ Reported'
  BY <1>5 DEF Submitted, SurvivorsAreOfGeneration, Searched, Reported
<1>. QED
  BY <1>3, <1>6, <1>7 DEF IInv, Search

LEMMA StepIInv == IInv /\ [Next]_vars => IInv'
<1> SUFFICES ASSUME IInv, [Next]_vars PROVE IInv'
  OBVIOUS
<1>1. CASE UNCHANGED vars
  <2>1. /\ UNCHANGED <<opts, measured, searchVars>>
        /\ UNCHANGED <<phase, todo, precise, baselines, submitted, pout, ptimes, results>>
    BY <1>1 DEF vars, searchVars
  <2>2. /\ base' = base /\ survivors' = survivors /\ tuned' = tuned
        /\ generation' = generation /\ composites' = composites
    BY <2>1 DEF searchVars
  <2>3. /\ WeakerWereClimbed' /\ TunedWereClimbed' /\ BaseIsSingle' /\ CompositesAreOfGood'
        /\ \A c : Safe(c)' <=> Safe(c)
        /\ \A s, p : Done(s, p)' <=> Done(s, p)
    BY <2>1, QuietStep
  <2>4. TypeOK'
    BY <2>1, <2>2 DEF IInv, TypeOK
  <2>5. Submitted' /\ SurvivorsAreOfGeneration' /\ Reported'
    BY <2>1, <2>2 DEF IInv, Search, Submitted, SurvivorsAreOfGeneration, Reported
  <2>6. Searched'
    BY <2>1, <2>2, <2>3 DEF IInv, Search, Searched
  <2>. QED
    BY <2>3, <2>4, <2>5, <2>6 DEF IInv, Search
<1>. QED
  BY <1>1, StartRunIInv, BasePhaseIInv, GenerationIInv, EndSearchIInv, CompositePhaseIInv,
     OtherStepsIInv, TestResultsIInv DEF Next

-----------------------------------------------------------------------------
(* What the search promises.                                               *)

\* The inductive invariant, which the theorems below rest on.
THEOREM Invariance == Spec => []IInv
BY InitIInv, StepIInv, PTL DEF Spec

\* The variables keep their types: the search takes one generation more than its limit
\* says, and no further.
THEOREM TypeCorrect == Spec => []TypeOK
BY Invariance, PTL DEF IInv

\* No result is asked for that was not submitted before, however often the set-up is
\* repeated and whichever precise runs fail (setup and run_approx of accept/core.py).
THEOREM NoKeyError == Spec => []GetsFollowSubmits
<1>1. IInv => GetsFollowSubmits
  BY DEF IInv, Search, Submitted, GetsFollowSubmits
<1>. QED
  BY <1>1, Invariance, PTL

\* What the parameter search keeps, it has climbed to.
THEOREM Climbs == Spec => []SearchClimbs
<1>1. IInv => SearchClimbs
  <2> SUFFICES ASSUME IInv, NEW c \in tuned, NEW s \in Enabled(c)
               PROVE  /\ Safe(c)
                      /\ c[s] > 1 => /\ Single(s, c[s] - 1) \in tuned
                                     /\ ~Slower(measured, c, Single(s, c[s] - 1))
    BY DEF SearchClimbs
  <2>1. PICK t \in Sites : \E p \in 1..ParamMax[t] :
          c = Single(t, p) /\ Climbed(t, p) /\ (p > 1 => Single(t, p - 1) \in tuned)
    BY DEF IInv, Search, TunedWereClimbed
  <2>2. PICK p \in 1..ParamMax[t] :
          c = Single(t, p) /\ Climbed(t, p) /\ (p > 1 => Single(t, p - 1) \in tuned)
    BY <2>1
  <2>3. s = t /\ c[s] = p
    <3>1. p \in Nat /\ p # 0
      OBVIOUS
    <3>. QED
      BY <2>2, <3>1, SingleFacts
  <2>. QED
    BY <2>2, <2>3 DEF Climbed
<1>. QED
  BY <1>1, Invariance, PTL

\* The search ends for a reason at every site, and never for its limit: MAX_GENERATIONS
\* is large enough for PARAM_MAX.
THEOREM IsExhaustive == Spec => []SearchIsExhaustive
<1>1. IInv => SearchIsExhaustive
  <2> SUFFICES ASSUME IInv, phase \in {"composite", "report"}, opts.tuned,
                      NEW c \in tuned, NEW s \in Enabled(c)
               PROVE  \/ c[s] = ParamMax[s]
                      \/ /\ Single(s, c[s] + 1) \in DOMAIN measured
                         /\ Single(s, c[s] + 1) \in tuned
                              \/ ~Safe(Single(s, c[s] + 1))
                              \/ Slower(measured, Single(s, c[s] + 1), c)
    BY DEF SearchIsExhaustive
  <2>1. PICK t \in Sites : \E p \in 1..ParamMax[t] : c = Single(t, p)
    BY DEF IInv, Search, TunedWereClimbed
  <2>2. PICK p \in 1..ParamMax[t] : c = Single(t, p)
    BY <2>1
  <2>3. s = t /\ c[s] = p
    <3>1. p \in Nat /\ p # 0
      OBVIOUS
    <3>. QED
      BY <2>2, <3>1, SingleFacts
  <2>4. Done(t, p)
    BY <2>2 DEF IInv, Search, Searched
  <2>. QED
    BY <2>2, <2>3, <2>4 DEF Done
<1>. QED
  BY <1>1, Invariance, PTL

\* Each parameter in a composite was measured to be good on its own site, whatever chains
\* of good configurations are composed.
THEOREM CompositesAreSound == Spec => []CompositesAreOfGood
BY Invariance, PTL DEF IInv, Search

\* If a site was measured further than the search of this run went, the search stopped
\* there for the noise: at the first parameter that it did not keep.
LEMMA FirstThatIsNotKept ==
  ASSUME IInv, phase = "test",
         NEW s \in Sites, NEW p \in Nat \ {0}, Single(s, 1) \in base,
         Single(s, p) \in DOMAIN measured, Single(s, p) \notin tuned, Safe(Single(s, p))
  PROVE  /\ p > 1 /\ Single(s, p - 1) \in tuned
         /\ Slower(measured, Single(s, p), Single(s, p - 1))
<1> DEFINE Unkept == {q \in Nat \ {0} : Single(s, q) \notin tuned}
<1>1. PICK q \in Unkept : \A r \in Unkept : q <= r
  <2>1. p \in Unkept
    OBVIOUS
  <2>2. Unkept \in SUBSET Nat /\ Unkept # {}
    BY <2>1
  <2> HIDE DEF Unkept
  <2>. QED
    BY <2>2, LeastNatural
<1>2. q \in Nat \ {0} /\ q <= p /\ Single(s, q) \notin tuned
  BY <1>1
<1>3. opts.tuned /\ \A c \in base : Safe(c) => c \in tuned
  BY DEF IInv, Search, Reported, Searched
\* The weaker ones were climbed to, in this run or in another.
<1>4. p <= ParamMax[s] /\ \A r \in 1..(p - 1) : Climbed(s, r)
  BY DEF IInv, Search, WeakerWereClimbed
<1>5. q < p => Climbed(s, q)
  <2>1. q < p => q \in 1..(p - 1)
    BY <1>2
  <2>. QED
    BY <1>4, <2>1
<1>6. Safe(Single(s, q))
  <2>1. q = p \/ q < p
    BY <1>2
  <2>. QED
    BY <1>5, <2>1 DEF Climbed
<1>7. q # 1
  BY <1>2, <1>3, <1>6
<1>8. q - 1 \in Nat \ {0} /\ Single(s, q - 1) \in tuned /\ q - 1 + 1 = q
  <2>1. q - 1 \in Nat \ {0} /\ ~(q <= q - 1) /\ q - 1 + 1 = q
    BY <1>2, <1>7
  <2>2. q - 1 \notin Unkept
    BY <1>1, <2>1
  <2>. QED
    BY <2>1, <2>2
<1>9. PICK r : r = q - 1
  OBVIOUS
<1>10. r \in 1..ParamMax[s] /\ r # ParamMax[s] /\ r + 1 = q
  <2>1. ParamMax[s] \in Nat
    BY SitesAssumption
  <2>. QED
    BY <1>2, <1>4, <1>8, <1>9, <2>1
<1>11. Done(s, r)
  BY <1>3, <1>8, <1>9, <1>10 DEF IInv, Search, Searched
<1>12. Slower(measured, Single(s, q), Single(s, q - 1))
  BY <1>2, <1>6, <1>9, <1>10, <1>11 DEF Done
<1>13. ~(q < p)
  <2>1. q < p => ~Slower(measured, Single(s, q), Single(s, q - 1))
    BY <1>2, <1>5, <1>7 DEF Climbed
  <2>. QED
    BY <1>12, <2>1
<1>14. q = p
  BY <1>2, <1>13
<1>. QED
  BY <1>2, <1>7, <1>8, <1>12, <1>14

\* Whatever was measured of a site, by this run or an earlier one, is returned, is
\* unsafe, or is slower than a safe result of the same site that is returned.
THEOREM NothingBetterIsLost == Spec => []NothingBetterIsDropped
<1>1. IInv => NothingBetterIsDropped
  <2> SUFFICES ASSUME IInv, phase = "test", NEW c \in Explored, c \notin results, Safe(c)
               PROVE  \E d \in results : Safe(d) /\ Slower(measured, c, d)
    BY DEF NothingBetterIsDropped
  <2>1. c \in DOMAIN measured /\ c \in Config
    BY DEF Explored, IInv, TypeOK
  <2>2. PICK b \in base : Enabled(c) = Enabled(b)
    BY DEF Explored
  <2>3. PICK s \in Sites : b = Single(s, 1)
    BY DEF IInv, Search, BaseIsSingle
  <2>4. Enabled(c) = {s}
    BY <2>2, <2>3, SingleFacts
  <2>5. PICK p \in Nat \ {0} : c = Single(s, p)
    BY <2>1, <2>4, SingleOf
  <2>6. base \cup tuned \subseteq results
    BY DEF IInv, Search, Reported
  <2>7. p > 1 /\ Single(s, p - 1) \in tuned /\ Slower(measured, c, Single(s, p - 1))
    BY <2>1, <2>3, <2>5, <2>6, FirstThatIsNotKept
  <2>8. Safe(Single(s, p - 1))
    <3>1. p - 1 \in 1..(p - 1)
      BY <2>7
    <3>2. Climbed(s, p - 1)
      BY <2>1, <2>5, <3>1 DEF IInv, Search, WeakerWereClimbed
    <3>. QED
      BY <3>2 DEF Climbed
  <2>. QED
    BY <2>6, <2>7, <2>8
<1>. QED
  BY <1>1, Invariance, PTL
=============================================================================
