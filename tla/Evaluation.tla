----------------------------- MODULE Evaluation -----------------------------
(***************************************************************************)
(* The relaxation search of accept/core.py (class Evaluation) as the       *)
(* command `accept exp` drives it (run_experiments of accept/commands.py): *)
(* a main run over all optimization sites, then one run per kind of        *)
(* optimization, each in three phases (base, tuned, composite) and each    *)
(* followed by runs on the testing input.                                  *)
(*                                                                         *)
(* The client memoizes, so what was measured of a configuration stays: a   *)
(* Result is identified with its configuration.  The replicas of one       *)
(* configuration are submitted and collected together and count as one     *)
(* job.  How one result is judged is the matter of module Triage, how the  *)
(* composites are chosen that of module BceGreedy: here a chain of good    *)
(* configurations no two of which conflict, for each of the error budgets. *)
(***************************************************************************)
EXTENDS ConfigSpace, FiniteSets

CONSTANTS
  Kinds,           \* OPT_KINDS
  KindOf,          \* the kind of each site
  Options,         \* the option --only and the arguments tuned and composite
  MaxGenerations,  \* MAX_GENERATIONS
  Durations,       \* how long runs may take
  Noise,           \* the errors of two durations, added
  Budgets          \* the calls of bce_greedy in evaluate_composites

ASSUME EvaluationAssumption ==
  /\ KindOf \in [Sites -> Kinds] /\ "main" \notin Kinds
  /\ Options \subseteq [only : SUBSET (Kinds \cup {"main"}),
                       tuned : BOOLEAN, composite : BOOLEAN]
  /\ MaxGenerations \in Nat /\ Durations \subseteq Nat /\ Noise \in Nat

\* MAX_GENERATIONS and the largest PARAM_MAX are both 10: the search, which goes on
\* for one generation more, can raise a parameter from 1 to the largest.
ASSUME GenerationsAssumption == \A s \in Sites : ParamMax[s] <= MaxGenerations + 2

VARIABLES
  opts,        \* the options of this command
  phase,       \* what the workflow does next
  todo,        \* the runs that run_experiments has ahead
  precise,     \* what precise runs do, by input: fail, or their output
  baselines,   \* the inputs whose precise runs are submitted
  submitted,   \* the other jobs submitted so far: a configuration and an input
  pout,        \* pout and test_pout
  ptimes,      \* the inputs whose ptimes (test_ptimes) are collected
  measured,    \* what training runs gave: self.results, once collected
  base,        \* base_results
  survivors,   \* of the parameter search
  tuned,       \* all_results of the parameter search
  generation,
  composites,  \* composite_results
  results      \* what run returned last

vars == <<opts, phase, todo, precise, baselines, submitted, pout, ptimes, measured, base,
          survivors, tuned, generation, composites, results>>

searchVars == <<base, survivors, tuned, generation, composites>>

Final == {"done", "failed", "usererror", "keyerror", "unbound"}

\* The training input is FALSE, the testing input TRUE, as the argument `test`.
Inputs == BOOLEAN

-----------------------------------------------------------------------------
(* Results.                                                                *)

Outcome ==
  [safe : {FALSE}, good : {FALSE}, duration : {0}]
  \cup [safe : {TRUE}, good : BOOLEAN, duration : Durations]

Safe(c) == measured[c].safe
GoodOf(cs) == {c \in cs : measured[c].good}

\* Uncertain.__gt__ on two durations.
Slower(m, c, d) == m[c].duration > m[d].duration + Noise

-----------------------------------------------------------------------------
(* setup and run_approx.                                                   *)

\* The runs of cs are submitted, with the baseline if it was not; the precise
\* times, if still missing, and then the runs are collected.  A failed precise
\* run is a UserError, a job nobody submitted a KeyError.  One step: the driver waits
\* for its runs, and how submits and gets mix with the client thread is module CWMemo.
RunApprox(cs, test, next, withSetup) ==
  LET times == test \notin ptimes
  IN /\ baselines' = baselines \cup IF withSetup THEN {test} ELSE {}
     /\ submitted' = submitted \cup {<<c, test>> : c \in cs}
     /\ ptimes' = IF times /\ precise[test] # "fail"
                  THEN ptimes \cup {test} ELSE ptimes
     /\ phase' = IF times /\ test \notin baselines' THEN "keyerror"
                 ELSE IF times /\ precise[test] = "fail" THEN "usererror"
                 ELSE next

Measure(cs) ==
  \E m \in [cs \ DOMAIN measured -> Outcome] :
    measured' = [c \in cs \cup DOMAIN measured |->
                   IF c \in DOMAIN measured THEN measured[c] ELSE m[c]]

-----------------------------------------------------------------------------
(* run.                                                                    *)

RunConfigs(run) ==
  {c \in PermuteConfig(Null) :
     run = "main" \/ \A s \in Sites : c[s] # 0 => KindOf[s] = run}

\* setup runs again as long as the output it got is empty.
Setup(test) ==
  /\ baselines' = baselines \cup IF pout[test] = "output" THEN {} ELSE {test}
  /\ pout' = [pout EXCEPT ![test] =
                IF precise[test] = "fail" THEN "none" ELSE precise[test]]

MainIsSkipped == opts.only # {} /\ "main" \notin opts.only

StartRun ==
  /\ phase = "idle" /\ ~MainIsSkipped
  /\ \E run \in todo :
       /\ "main" \in todo => run = "main"
       /\ todo' = todo \ {run}
       /\ base' = RunConfigs(run)
  /\ Setup(FALSE)
  /\ phase' = "base"
  /\ survivors' = {} /\ tuned' = {} /\ generation' = 0 /\ composites' = {}
  /\ UNCHANGED <<opts, precise, submitted, ptimes, measured, results>>

\* run_experiments without its main run: it sets up, and then uses main_stats.
SkipMain ==
  /\ phase = "idle" /\ MainIsSkipped
  /\ Setup(FALSE)
  /\ phase' = "unbound"
  /\ UNCHANGED <<opts, todo, precise, submitted, ptimes, measured, searchVars,
                 results>>

BasePhase ==
  /\ phase = "base"
  /\ RunApprox(base, FALSE, IF opts.tuned THEN "search" ELSE "composite", FALSE)
  /\ Measure(base)
  /\ survivors' = {c \in base : measured'[c].safe}
  /\ tuned' = IF opts.tuned THEN survivors' ELSE {}
  /\ UNCHANGED <<opts, todo, precise, pout, base, generation, composites, results>>

\* Changed: the maximum itself is never reached.
ParentsBelowMax == {c \in survivors : \A s \in Sites : IncreaseConfig(c)[s] < ParamMax[s]}

\* parameter_search.
Parents == {c \in survivors : CapConfig(IncreaseConfig(c)) # c}
Increased(c) == CapConfig(IncreaseConfig(c))

Generation ==
  /\ phase = "search" /\ survivors # {} /\ generation <= MaxGenerations
  /\ generation' = generation + 1
  /\ LET configs == {Increased(c) : c \in Parents}
     IN /\ RunApprox(configs, FALSE, "search", FALSE)
        /\ Measure(configs)
  /\ survivors' = {Increased(c) : c \in {p \in Parents :
                     /\ measured'[Increased(p)].safe
                     /\ ~Slower(measured', Increased(p), p)}}
  /\ tuned' = tuned \cup survivors'
  /\ UNCHANGED <<opts, todo, precise, pout, base, composites, results>>

EndSearch ==
  /\ phase = "search" /\ (survivors = {} \/ generation > MaxGenerations)
  /\ phase' = "composite"
  /\ UNCHANGED <<opts, todo, precise, baselines, submitted, pout, ptimes, measured, searchVars,
                 results>>

\* evaluate_composites.
Chains(cs) ==
  {q \in UNION {[1..n -> cs] : n \in 1..Cardinality(Sites)} :
     \A i, j \in DOMAIN q : i # j => ~ConfigsConflict(q[i], q[j])}
ChainComposites(q) == {CombineConfigs(SubSeq(q, 1, n)) : n \in 1..Len(q)}
Composed(cs) ==
  IF cs = {} THEN {{}}
  ELSE {UNION {ChainComposites(f[b]) : b \in Budgets} : f \in [Budgets -> Chains(cs)]}

CompositePhase ==
  /\ phase = "composite" /\ opts.composite
  /\ \E configs \in Composed(GoodOf(IF opts.tuned THEN tuned ELSE base)) :
       /\ composites' = configs
       /\ RunApprox(configs, FALSE, "report", FALSE)
       /\ Measure(configs)
  /\ UNCHANGED <<opts, todo, precise, pout, base, survivors, tuned, generation, results>>

NoCompositePhase ==
  /\ phase = "composite" /\ ~opts.composite
  /\ phase' = "report"
  /\ UNCHANGED <<opts, todo, precise, baselines, submitted, pout, ptimes, measured, searchVars,
                 results>>

\* Changed: the second phase is left out of the list.
ReportForgetsTuned ==
  /\ phase = "report"
  /\ IF opts.tuned /\ opts.composite
     THEN phase' = "test" /\ results' = base \cup composites
     ELSE phase' = "unbound" /\ UNCHANGED results
  /\ UNCHANGED <<opts, todo, precise, baselines, submitted, pout, ptimes, measured, searchVars>>

\* The end of run: the lists of all three phases are merged, whether or not
\* their phases were asked for.
Report ==
  /\ phase = "report"
  /\ IF opts.tuned /\ opts.composite
     THEN /\ phase' = "test"
          /\ results' = base \cup tuned \cup composites
     ELSE phase' = "unbound" /\ UNCHANGED results
  /\ UNCHANGED <<opts, todo, precise, baselines, submitted, pout, ptimes, measured, searchVars>>

\* Changed: the output of the training input decides about the set-up.
TestResultsByTraining ==
  /\ phase = "test"
  /\ LET after == IF todo = {} THEN "done" ELSE "idle"
     IN IF GoodOf(results) = {}
        THEN phase' = after /\ UNCHANGED <<baselines, submitted, pout, ptimes>>
        ELSE /\ RunApprox(GoodOf(results), TRUE, after, pout[FALSE] # "output")
             /\ UNCHANGED pout
  /\ UNCHANGED <<opts, todo, precise, measured, searchVars, results>>

\* test_results, on what triage calls good: only if there is some, the baseline
\* is set up for the testing input, again as long as its output is empty.
TestResults ==
  /\ phase = "test"
  /\ LET after == IF todo = {} THEN "done" ELSE "idle"
     IN IF GoodOf(results) = {}
        THEN phase' = after /\ UNCHANGED <<baselines, submitted, pout, ptimes>>
        ELSE /\ RunApprox(GoodOf(results), TRUE, after, pout[TRUE] # "output")
             /\ pout' = [pout EXCEPT ![TRUE] =
                           IF precise[TRUE] = "fail" THEN "none" ELSE precise[TRUE]]
  /\ UNCHANGED <<opts, todo, precise, measured, searchVars, results>>

\* A get raises the exception of a failed job, and the command ends with it.
JobFails ==
  /\ phase \in {"base", "search", "composite", "test"}
  /\ phase' = "failed"
  /\ UNCHANGED <<opts, todo, precise, baselines, submitted, pout, ptimes, measured, searchVars,
                 results>>

Init ==
  /\ phase = "idle"
  /\ opts \in Options
  /\ todo = IF opts.only = {} THEN Kinds \cup {"main"} ELSE opts.only
  /\ precise \in [Inputs -> {"fail", "empty", "output"}]
  /\ baselines = {} /\ submitted = {} /\ pout = [test \in Inputs |-> "none"] /\ ptimes = {}
  /\ measured = << >>
  /\ base = {} /\ survivors = {} /\ tuned = {} /\ generation = 0
  /\ composites = {} /\ results = {}

Next ==
  \/ SkipMain \/ StartRun \/ BasePhase \/ Generation \/ EndSearch
  \/ CompositePhase \/ NoCompositePhase \/ Report \/ TestResults \/ JobFails

Spec == Init /\ [][Next]_vars

-----------------------------------------------------------------------------
(* Properties.                                                             *)

Enabled(c) == {s \in Sites : c[s] # 0}
Single(s, p) == [Null EXCEPT ![s] = p]

\* The single-site configurations measured of the sites of this run.
Explored ==
  {c \in DOMAIN measured : \E b \in base : Enabled(c) = Enabled(b)}

TypeOK ==
  /\ opts \in Options
  /\ phase \in {"idle", "base", "search", "composite", "report", "test"} \cup Final
  /\ todo \subseteq Kinds \cup {"main"}
  /\ precise \in [Inputs -> {"fail", "empty", "output"}]
  /\ baselines \subseteq Inputs /\ submitted \subseteq Config \X Inputs
  /\ pout \in [Inputs -> {"none", "empty", "output"}]
  /\ ptimes \subseteq Inputs
  /\ DOMAIN measured \subseteq Config /\ \A c \in DOMAIN measured : measured[c] \in Outcome
  /\ \A cs \in {base, survivors, tuned, composites, results} : cs \subseteq Config
  /\ generation \in 0..(MaxGenerations + 1)

\* get is only ever called for a job that was submitted: whichever run comes
\* first and however often setup is repeated, the baseline of an input is there
\* before its precise times are asked for.
GetsFollowSubmits == phase # "keyerror"

\* The search climbs without leaving a step out: what it keeps of a site is safe,
\* and so is the next weaker parameter, which was kept and is not faster by more
\* than the noise.
SearchClimbs ==
  \A c \in tuned : \A s \in Enabled(c) :
    /\ Safe(c)
    /\ c[s] > 1 => /\ Single(s, c[s] - 1) \in tuned
                   /\ ~Slower(measured, c, Single(s, c[s] - 1))

\* No generation limit cuts the search off: it ends because nobody survives,
\* with every site at its maximum, unsafe there, or slower there.
SearchIsExhaustive ==
  (phase \in {"composite", "report"} /\ opts.tuned) =>
    \A c \in tuned : \A s \in Enabled(c) :
      \/ c[s] = ParamMax[s]
      \/ /\ Single(s, c[s] + 1) \in DOMAIN measured
         /\ Single(s, c[s] + 1) \in tuned
              \/ ~Safe(Single(s, c[s] + 1))
              \/ Slower(measured, Single(s, c[s] + 1), c)

\* A composite only applies what was measured to be good on its own.
CompositesAreOfGood ==
  \A c \in composites : \A s \in Enabled(c) :
    Single(s, c[s]) \in DOMAIN measured /\ measured[Single(s, c[s])].good

\* What a main run measured and does not return was unsafe, or slower than a safe
\* configuration that it does return.
NothingBetterIsDropped ==
  (phase = "test" /\ "main" \notin todo) =>
    \A c \in Explored :
      \/ c \in results \/ ~Safe(c)
      \/ \E d \in results : Safe(d) /\ Slower(measured, c, d)

\* The docstring of run: the second and third phases run if `tuned` and
\* `composite` are true.  Without them it uses lists it never made.
OptionsAreHonoured == phase # "unbound"

\* The docstring of parameter_search: it returns all safe results found.
SearchReturnsAllSafe ==
  (phase = "composite" /\ opts.tuned) =>
    \A c \in Explored : Safe(c) => c \in tuned

\* The comment in parameter_search: a configuration that offers no speedup over
\* its parent is eliminated.
SurvivorsAreFaster ==
  phase = "search" =>
    \A c \in survivors : \A s \in Enabled(c) :
      c[s] > 1 => measured[c].duration < measured[Single(s, c[s] - 1)].duration
=============================================================================
