------------------------------- MODULE Triage -------------------------------
(***************************************************************************)
(* Result.evaluate and triage_results of accept/core.py, with the interval *)
(* order of accept/uncertain.py: each result is judged by its replicas and *)
(* the good ones are split into optimal and suboptimal.                    *)
(*                                                                         *)
(* The mean error of a result is kept exactly, as the sum and the sum of   *)
(* the squares of its replicas; the standard error is compared by squaring.*)
(* The speedup is an uncertain number given by its value and its error.    *)
(***************************************************************************)
EXTENDS Integers, Sequences, FiniteSets, SequencesExt, Functions

CONSTANTS
  N,            \* how many results are triaged
  Reps,         \* replicas per result
  Scores,       \* the errors the score function may return
  Speedups,     \* the speedups: records of a value and an error
  FullError,    \* the error 1.0, that of a NaN score
  MaxError,     \* MAX_ERROR, in the unit of FullError
  EpsError,     \* EPSILON_ERROR, times Reps
  EpsSpeedup,   \* EPSILON_SPEEDUP
  NoSpeedup,    \* the speedup 1.0
  Simulate      \* ignore_performance

ASSUME TriageAssumption ==
  /\ N \in Nat \ {0} /\ Reps \in Nat \ {0}
  /\ {FullError, MaxError, EpsError, EpsSpeedup, NoSpeedup} \subseteq Nat
  /\ Scores \subseteq 0..FullError
  /\ Speedups \subseteq [v : Nat, e : Nat]
  /\ Simulate \in BOOLEAN

VARIABLES
  results,     \* the evaluated Result objects, in the order they were run
  pos,         \* the loop of triage_results over the results
  optimal, suboptimal,
  tested       \* what test_results runs on the testing input

triageVars == <<results, pos, optimal, suboptimal, tested>>

-----------------------------------------------------------------------------
(* Uncertain numbers.                                                      *)

\* umean of integers, times Reps, and its squared standard error, times Reps^3.
Umean(xs) ==
  LET sum == SumFunction(xs)
      squares == SumFunction([i \in DOMAIN xs |-> xs[i] * xs[i]])
  IN [sum |-> sum, var |-> Reps * squares - sum * sum]

\* __gt__ with a plain number: value - error > x.
ErrorExceeds(a, x) ==
  LET d == a.sum - Reps * x IN d > 0 /\ Reps * d * d > a.var

\* __lt__: value + error < other.value - other.error.
ErrorLess(a, b) ==
  LET d == b.sum - a.sum
      r == Reps * d * d - a.var - b.var
  IN d > 0 /\ r > 0 /\ r * r > 4 * a.var * b.var

Faster(a, b) == a.v - a.e > b.v + b.e

Distance(x, y) == IF x > y THEN x - y ELSE y - x

-----------------------------------------------------------------------------
(* Result.evaluate.                                                        *)

\* One run of the program: how it ended, what scoring its output did, and the
\* score where there is a number.  A run of status "ok" has a duration: that the
\* branch for a missing one (core.py:606) is never taken is StatusTellsTheTruth of
\* module BuildExecute.
Replica ==
  [status : {"timeout", "status"}, scored : {"no"}, score : {0}]
  \cup [status : {"ok"}, scored : {"raise", "nan"}, score : {0}]
  \cup [status : {"ok"}, scored : {"number"}, score : Scores]

Result ==
  [good : BOOLEAN, safe : BOOLEAN,
   desc : {"timeout", "status", "score", "error", "slow", "good"},
   error : [sum : Nat, var : Nat], speedup : [v : Nat, e : Nat]]

NoError == [sum |-> 0, var |-> 0]
Rejected(desc) ==
  [good |-> FALSE, safe |-> FALSE, desc |-> desc, error |-> NoError,
   speedup |-> [v |-> 0, e |-> 0]]

FirstFailure(rs) ==
  LET failing == {i \in DOMAIN rs : rs[i].status # "ok"}
  IN rs[CHOOSE i \in failing : \A j \in failing : i <= j].status

Evaluate(rs, speedup) ==
  LET error == Umean([i \in DOMAIN rs |->
                        IF rs[i].scored = "nan" THEN FullError ELSE rs[i].score])
      slow == ~Simulate /\ ~(speedup.v - speedup.e > NoSpeedup)
  IN CASE \E i \in DOMAIN rs : rs[i].status # "ok" -> Rejected(FirstFailure(rs))
       [] (\A i \in DOMAIN rs : rs[i].status = "ok")
            /\ \E i \in DOMAIN rs : rs[i].scored = "raise" -> Rejected("score")
       [] OTHER ->
            [good |-> ~ErrorExceeds(error, MaxError) /\ ~slow,
             safe |-> ~ErrorExceeds(error, MaxError),
             desc |-> IF ErrorExceeds(error, MaxError) THEN "error"
                      ELSE IF slow THEN "slow" ELSE "good",
             error |-> error, speedup |-> speedup]

EvaluateNext ==
  /\ Len(results) < N
  /\ \E rs \in [1..Reps -> Replica], speedup \in Speedups :
       results' = Append(results, Evaluate(rs, speedup))
  /\ UNCHANGED <<pos, optimal, suboptimal, tested>>

-----------------------------------------------------------------------------
(* triage_results.                                                         *)

\* The list good keeps the order of the results: the loop over it is one over all
\* of them that passes over the bad ones.
Good == {i \in DOMAIN results : results[i].good}

Dominates(a, b) ==
  /\ ErrorLess(results[a].error, results[b].error)
  /\ Faster(results[a].speedup, results[b].speedup)

Similar(a, b) ==
  /\ Distance(results[a].error.sum, results[b].error.sum) < EpsError
  /\ Distance(results[a].speedup.v, results[b].speedup.v) < EpsSpeedup

\* Changed: only the optimal results so far are compared; all good ones are.
SetAsideForOptimal(i) ==
  \E j \in ToSet(optimal) : Dominates(j, i) \/ Similar(j, i)

SetAsideForAny(i) ==
  \E j \in Good \ {i} : Dominates(j, i) \/ Similar(j, i)

\* A result is set aside for one that dominates it, or for one that is already
\* among the optimal and is hardly different.
SetAside(i) ==
  \E j \in Good :
    Dominates(j, i) \/ (j \in ToSet(optimal) /\ Similar(j, i))

PlaceNext ==
  /\ Len(results) = N /\ pos \in 1..N
  /\ pos' = pos + 1
  /\ \/ pos \notin Good /\ UNCHANGED <<optimal, suboptimal>>
     \/ /\ pos \in Good /\ SetAside(pos)
        /\ suboptimal' = Append(suboptimal, pos) /\ UNCHANGED optimal
     \/ /\ pos \in Good /\ ~SetAside(pos)
        /\ optimal' = Append(optimal, pos) /\ UNCHANGED suboptimal
  /\ UNCHANGED <<results, tested>>

Swiftest(i, j) ==
  \/ results[i].speedup.v > results[j].speedup.v
  \/ results[i].speedup.v = results[j].speedup.v /\ i < j

\* The optimal results are sorted by speedup; pos is past the end afterwards.
SortOptimal ==
  /\ Len(results) = N /\ pos = N + 1
  /\ pos' = pos + 1
  /\ optimal' \in [DOMAIN optimal -> ToSet(optimal)]
  /\ ToSet(optimal') = ToSet(optimal)
  /\ \A m, n \in DOMAIN optimal : m < n => Swiftest(optimal'[m], optimal'[n])
  /\ UNCHANGED <<results, suboptimal, tested>>

\* test_results: everything good is run on the testing input.
TestResults ==
  /\ Len(results) = N /\ pos = N + 2 /\ Good # {}
  /\ tested = << >> /\ tested' = optimal \o suboptimal
  /\ UNCHANGED <<results, pos, optimal, suboptimal>>

TriageInit ==
  /\ results = << >> /\ pos = 1
  /\ optimal = << >> /\ suboptimal = << >> /\ tested = << >>

TriageNext == EvaluateNext \/ PlaceNext \/ SortOptimal \/ TestResults

TriageSpec == TriageInit /\ [][TriageNext]_triageVars

-----------------------------------------------------------------------------
(* Properties.                                                             *)

Triaged == Len(results) = N /\ pos = N + 2
Bad == {i \in 1..Len(results) : ~results[i].good}

TriageTypeOK ==
  /\ results \in Seq(Result)
  /\ pos \in 1..(N + 2)
  /\ {optimal, suboptimal, tested} \subseteq Seq(1..N)

\* The assertion at the end of triage_results, made sharper: every result is in
\* exactly one of the three lists, once.
IsPartition ==
  Triaged =>
    /\ Len(optimal) + Len(suboptimal) + Cardinality(Bad) = N
    /\ ToSet(optimal) \cup ToSet(suboptimal) \cup Bad = 1..N

\* What is reported as optimal is a front: nothing measured dominates a member,
\* and no two members are hardly different.
OptimalIsFront ==
  Triaged =>
    \A i \in ToSet(optimal) :
      /\ \A j \in Good : ~Dominates(j, i)
      /\ \A j \in ToSet(optimal) \ {i} : ~Similar(i, j)

\* Everything good is accounted for by what is shown: a good result, or one that
\* dominates it, is optimal or hardly different from an optimal one.  Domination
\* has no cycles, and the test for similarity only refers to results that stay.
GoodIsCovered ==
  Triaged =>
    \A i \in Good :
      \E j \in Good :
        /\ j = i \/ Dominates(j, i)
        /\ \E k \in ToSet(optimal) : k = j \/ Similar(k, j)

\* The docstring of test_results: the testing results are for the optimal
\* configurations.
OnlyOptimalAreTested == ToSet(tested) \subseteq ToSet(optimal)
=============================================================================
