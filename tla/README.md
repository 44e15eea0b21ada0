# Verification of ACCEPT

ACCEPT is a compiler and a tuning loop for approximate programs. A programmer
marks data as `APPROX`; a Clang plugin (the EnerC checker) keeps approximate data
apart from precise data; an LLVM pass finds places where the program may be relaxed
(loops that may skip iterations, locks and barriers that may go, regions a neural
accelerator may compute) and lists them in a configuration file; and a Python
driver builds the program under many configurations, runs them, judges the results
and composes the best ones.

This directory holds TLA+ modules of the parts of ACCEPT that decide something,
TLC configurations that check them on small instances, and TLAPS proofs of what
can be proved for every instance. `PROJECT.json` relates every definition to the
source lines it stands for.

    tlc -config MCCWMemo.cfg MCCWMemo        # a run
    tlapm CWMemoProofs.tla                   # a proof

## 1. The system: an inventory

| Component | Source | State | Operations | Module |
|---|---|---|---|---|
| EnerC type checker | `checker/EnerCTypeChecker.cpp`, `checkerlib/` | the types of declarations and expressions, the errors reported | the visit of each kind of expression, statement and declaration | `EnerC` |
| Escape analysis | `pass/approxinfo.cpp` | the flag of each instruction of a region | marking, the fixed point over the flags, the list of blockers | `EscapeCheck` |
| Purity analysis | `pass/approxinfo.cpp` | `functionPurity`, the call stack of the analysis | `isPrecisePure`, run for each function of a module | `Purity` |
| Lock and barrier elision | `pass/desync.cpp`, `pass/transform.cpp` | the code, `relaxConfig`, the configuration file between two builds | `findCritSec`, `optimizeSync`, `optimizeAcquire`, `optimizeBarrier`, dump and load of the file | `SyncElision` |
| Loop perforation | `pass/loopperf.cpp` | the code of each loop, `relaxConfig`, the clone of a body; at run time the loop counter and the values saved for the clone | `tryToOptimizeLoop`, `perforateLoop`, `preserveBody` | `Perforation`, `Preservation` |
| Neural acceleration | `pass/npu.cpp` | the calls found and their loops, carried from loop to loop; at run time the buffers of inputs, outputs, addresses and delayed stores, and the positions in them | `tryToOptimizeLoop`, the search for calls; `pre_pos_call_dependency_check`, `tryToNPU`, the batching of a call | `NpuSelection`, `NpuBatch` |
| Error injection | `pass/error.cpp` | the parameters of blocks and instructions, by their numbers | `instructionErrorInjection`, `injectErrorInst`, `injectErrorRegion`, `injectHooks` | `Injection` |
| Job execution | `accept/core.py` | working directory, sandboxes, links and files, the result | `sandbox`, `build`, `execute`, `build_and_execute` | `BuildExecute` |
| Memoizing client | `accept/cwmemo.py` | database, job dictionary, `fresh`, condition variable | `submit`, `get`, `completion`, entry and exit | `CWMemo`, `MemoFutures` |
| Configurations, composition | `accept/core.py` | the knapsack and its error | the operators on configurations, `bce_greedy` | `ConfigSpace`, `BceGreedy` |
| Judging and triage | `accept/core.py`, `accept/uncertain.py` | results and their sorted lists | `Result.evaluate`, `triage_results`, comparison of uncertain numbers | `Triage` |
| Relaxation search | `accept/core.py`, `accept/commands.py` | baselines, results, survivors, the phase | `setup`, `run`, its three phases, `test_results`, `run_experiments` | `Evaluation` |
| Command line, log, timers, build rules | `accept/commands.py`, `pass/log.cpp`, `rt/`, `accept.mk` | none that another part decides by | parsing, formatting, two calls around the timed region, make rules | only as their effects in `BuildExecute` |
| Alias analysis | `pass/acceptaa.cpp` | none | registration is commented out: not part of the build | not modelled |

How they interact: the checker runs inside the compiler and rejects a program or
annotates it. The pass runs on the annotated code, once without relaxation
(`build_orig`, which writes the configuration file with every site it found) and
then with it (`build_opt`, which reads the file and rewrites the code): the file is
the only memory between the two builds, and it names sites by source line. The
escape analysis is asked by everything that relaxes; it asks the purity analysis
about calls, which asks it about callees. The driver's `Evaluation` submits jobs to
the memoizing client, which runs `build_and_execute` in the process or on a cluster
of workers; the client calls back from a thread of its own.

What is hard about it, and so what the properties are about:

- **Two threads and a database.** `completion` runs in the client's thread while
  the main thread submits and gets; the database is written outside the lock, the
  process may stop anywhere, and `force` must not trust what an earlier process left.
- **Exceptions as control flow.** A failed job raises through context managers that
  have no `finally`, in a worker that lives on.
- **A directory that is shared through links.** Jobs that run at the same time read
  the application through links that `make clean` is supposed to cut.
- **Orders that are not total.** Results have intervals; domination and similarity
  are neither transitive nor symmetric in general, and the outcome of triage depends
  on the order.
- **Recursive analyses with a cache**, fixed points over maps sorted by address, and
  pairings that must not depend on that order.
- **Names that are not unique**, or not stable. Two sites may share a line, a block is
  searched only up to its first elision, and the sites of error injection are numbered
  anew in each build, after the elision of locks has changed the code.
- **Rewritten control flow** with a counter that wraps around, and clones of code that
  repeat what an earlier iteration computed.
- **Rules that compose.** Each typing rule is a line; the question is whether any
  sequence of legal steps carries approximate data into precise data.

## 2. The modules

### EnerC: the checker, and what it lets through

One step is one visit of `TyperVisitor`: `NodeTyper::process` computes a type from
those of the operands, `typeForExpr` and `checkStmt` compare them. The same step
executes the expression in two memories that differ in approximate data only; an
additional step changes approximate data in one of them. Types are sequences of
qualifiers, outermost first; `withQuals`, `copyQuals`, `compatible` and `qualsEqual`
act on them as in the code. What the parser alone has typed is unqualified, which is
what makes conditional expressions and chained assignments go wrong.

Operands that were visited wait in `temps` until their parent is visited, in any
order; the program is not fixed in advance, so that *every* program over the given
variables is explored, of any length, with at most three waiting operands. A branch
that is taken is the steps that follow.

`gap` names the first place where the rules say nothing: `?:`, the value of a
pointer assignment, the second argument of `pow` and its kind, an approximate index,
a call through a pointer, `memcpy`, an initializer list, `ENDORSE` of a pointer (a
trusted cast), and the left operand of `&&` and `||`. The model stops there, unless
the gap is in `Followed`. So `PreciseAgrees` is the statement that this list is
complete: *what the checker accepts and meets none of these never lets approximate
data reach a precise variable, a pointer, or a condition.*

### CWMemo and MemoFutures: the memoizing client

Two processes of control: the main thread (`pc`, `cur`) and the client's thread
(`thread`, `landing`). Every acquisition and release of `jobs_cond` that another
thread can tell apart is a step: `completion` pops the job under the lock
(`CompletionPop`), writes the database after it (`CompletionStore`) and is followed
by the notification (`ClientNotify`). `GetWaits` is the test of the loop in `get`;
a waiter goes through `blocked` and `woken` back to the test. `Restart` ends the
process anywhere and keeps the database only. `MemoFutures` is what the object
promises, with one action per promise: a call is owed, lands, and is stored; an
exception of any job is raised by any get. `CWMemo` implements it under the mapping
of `Futures`.

### BuildExecute: a job in its sandbox

Each worker runs `build_and_execute` step by step. A file of a sandbox is a link into
the application directory or a file of its own; a write through a link lands in the
shared directory. `clean`, writing the configuration, building, running (with a
timeout that may leave the program running as an orphan), `load` and `score` are
steps that may fail the way the code lets them fail. The exit of a context manager
is part of the path on which the code reaches it, and missing from the path on
which it does not.

### ConfigSpace and BceGreedy: composition

`ConfigSpace` holds the operators of `core.py` on configurations, as functions from
sites to parameters. `BceGreedy` is the loop of `bce_greedy`: the components in the
order of their score, one action each for the first component, for taking, evicting
and leaving one. The knapsack is a set, which is exact since the list keeps its order.

### Triage

`Result.evaluate` and `triage_results`, on exact fractions: means and standard errors
are compared by sums and squares in place of floating point. One step judges a
result, one step compares it with all others.

### Evaluation: the search

The driver of one `accept exp` command: baselines, the base phase, the generations of
the parameter search, the composites, the report and the testing runs, for the main
run and for one run per kind. What a configuration measures is chosen when it is
first collected and never changes, since the client memoizes. Module `Triage` and
module `BceGreedy` stand for the two decisions inside; here their outcome is any that
they may have.

### EscapeCheck and Purity

`EscapeCheck` takes a function as a control-flow graph of instructions with effects
and a region, and runs `preciseEscapeCheck` on it: the marking, and passes over the
flags in any order, since the map that holds them is sorted by address. Its
properties speak of execution paths, which the code never computes. `Purity` is the
recursion of `isPrecisePure` over all call graphs, with the stack of the analysis,
and takes the effects inside one function as given.

### SyncElision and Injection

Both model the two builds around the configuration file. `SyncElision` pairs acquires
and releases by dominance and post-dominance, as `findCritSec` does, and judges the
result by walks through the graph. `findCritSec` never compares the mutexes of the two
calls, so an acquire of one may be paired with a release of another: the properties are
about functions with one mutex (`OneMutex`). Nor does it look at the instructions before an
acquire in its own block, where a loop may come back while the lock is held:
`BeforeElided` sets them apart. `Injection` extends it by the pass that follows in
both builds: `EndDumpInject` is the end of the precise build with the sites that
`injectErrorInst` and `injectErrorRegion` list, and `Inject` the last step of the
relaxed one, in which what has a parameter under its *present* name gets a hook. A name
is the number of a block and a number in it, counted over what elision has left
(`Number`). The parameters of injection are chosen in `Inject`, since nothing reads them
earlier, though they stand in the same file as those of the locks. A call through a
pointer stops the pass (`EndDumpCrash`: the called function is asked for its name, and
is `NULL`). What a hook is passed, and the injected functions, are not modelled: they
are supplied by the user of the pass.

### Perforation and Preservation

`Perforation` is the two builds and the rewritten loop, `perforateLoop`'s blocks as
places where control may be, with a counter of a few bits. `Preservation` extends it by
what is in the body, for builds with `-accept-perf-preserve`: a body is a sequence of
instructions as the compiler emits them without optimization, on local variables and one
array. `Code` says what the compiler guarantees of it: operands are results of earlier
instructions, and a branch leads forward. `preserveBody` is a few definitions on that sequence: `Assignment` finds the
operation of a compound assignment through loads and the stores that went before
(`MostRecentStore`), `Slice` what addresses and conditions are computed from, and `Clone`
what is kept in the clone and what each kept store repeats. Where the code recurses, a step (`LoadsOf`,
`AssignmentOf`, `Sources`) is given the solution for earlier instructions. Where the code goes through a
map that is sorted by address, any order is possible (`owner`). `Evaluate` runs an
instruction of the body and saves what the clone will need (`Save`), `Replay` its clone;
an iteration is one step. Integers wrap around at a few bits, and a division by zero
stops the program, in the source's code or in code that was added. A conditional
statement is a branch that skips forward; switches, a branch whose *second* successor is
the latch, and the joining of values at the end of a body (there are none before
`mem2reg`) are left out. A while-like loop gets a second latch by its clone, and
`getLoopLatch` then returns `NULL`: the build fails.

### NpuSelection and NpuBatch

`NpuSelection` builds a program twice: the precise build lists the names of loops, the
search gives some of them a parameter (`Configure`), and the relaxed build replaces calls.
Each step is the visit of one loop by `tryToOptimizeLoop`: it is skipped, meets inline assembly (`Reject`) or a
call through a pointer (`Crash`), or all calls that wait are tried (`List`, `Relax`).
`found` is the pair of vectors `loops_to_npu` and `calls_to_npu`: they are members of the
pass, and cleared only at the end of a visit, so that what was found in a rejected loop is
tried with the next one, under its name (`npu.cpp:257`). If the next loop is in another function, the
`Loop` has been freed with the analysis it belongs to (`FollowDangling`). A call that was
replaced leaves inline assembly behind, which keeps the loops around it from being
rewritten, and a loop in which a call was replaced fails the check for ways around the call
(`OnEveryPath`), as does a perforated one. `Start` and `Run` take the loop of a
call, as it was built, into `NpuBatch`, which the module extends.

`NpuBatch` is the loop that `tryToNPU` rewrites, as it runs. `FirstPart` is a trip up to the call: it
buffers the inputs, the addresses of the outputs (`BufferAddresses`, one for each output argument,
in a buffer with a place for each input) and the precise stores that are integers or floats (`BufferStores`;
of another type there is only a warning), and goes to the latch unless the buffer is full. The buffers are functions on the
positions that were written so far, since the code allocates them and does not initialize them: to read
another position (`At`) is to read `Unset`. `Call` is the accelerator and the block
around it that resets the positions. `Replay` restores the stores of one buffered trip
(`Unbuffered`), reads its output and runs the rest of the trip; `Check` is `npu_checkBB` and
the block that zeroes the positions. A loop that fails the dependency check goes through
`LastPart` as it was written. The last part records what it sees, so that the properties
compare the two loops.

The rewriting gets some of it wrong, and the model does what the code does. Each store of a trip
writes a value of its own (`Written`), and those that dominate the call are buffered with it and replayed in the order
of a set of addresses (`npu.cpp:508`, `1362`): of two stores to one variable the older may win.
The address of a float is looked up with the sum of both positions (`npu.cpp:1377`): it may be that of another trip, or one
that nobody has written. A double or a pointer is not buffered (`npu.cpp:1142`) and keeps the value of the last
trip of the batch. `Restored` says which variables come out right, variable by variable
(`Kept`), and the properties are about every loop. They say nothing of a behaviour once
`wild` is set, that is after a store through an address that nobody has written or
an address put beyond the end of its buffer, since the code's behaviour is undefined from there on.
The dependency check looks at stores and loads (`npu.cpp:456`, `469`): a loop whose last part feeds the first through a
call or a `memcpy` (`feeds = "call"`) is rewritten, and its calls see what they should not.
Registers of the first part are not buffered (`BUFFER_LOOP_DEPS` is 0, `npu.cpp:22`).

## 3. What each run checks

| Run | Instance | What it shows |
|---|---|---|
| `memo` | 2 calls, 2 job ids, 2 processes, 2 sessions each, jobs may fail | no submitted call is lost (`NoCallIsLost`), `force` is honoured (`ForceAnswersFresh`, `OnlyForceForgets`), a clean exit has all results (`CleanExitIsComplete`), the futures are implemented (`ImplementsFutures`), and a get waits forever only for a job that failed in an earlier session (`GetTerminates`) |
| `memo_race` | one session, no failure | *violated*: a get between the pop and the store of `completion` raises `KeyError` for a call that was submitted |
| `job` | 2 workers, 2 approximate jobs and a precise one, every file left over from earlier runs | results are the job's own (`ResultsAreOwn`, `ApplicationUntouched`), the status tells the truth, and a worker always stands in its sandbox |
| `greedy` | 3 components over 2 sites, values 1 and 2, errors 1 and 3, budget 2 | the knapsack is disjoint, its error is tracked through evictions, and only the first component can exceed the budget |
| `triage` | 3 results of 2 replicas | the optimal results are a front; everything good is covered by what is shown |
| `search` | a loop with 3 parameters and a lock, 5 sets of options, durations 1 and 3 | gets follow submits; the search climbs without gaps and to the end; what is dropped is worse than something returned |
| `escape` | functions of 3 blocks in 4 graphs, 5 regions | a store that is observed outside of the region blocks, as does any other effect (`EscapesBlock`); harmless code passes; the fixed point is reached |
| `purity` | every call graph of 3 functions | verdicts are sound, final, decided but for recursion, and reached |
| `sync` | functions of up to 4 blocks in 5 graphs, with up to 6 instructions, every choice of locks and barriers and up to 2 injected sites | in a function with one mutex, locks stay balanced where no release serves two acquires (`PairedLocksStayBalanced`); precise code keeps its lock and its barrier unless it stands before what was elided in the same block (`PreciseStaysGuarded`); elision moves hooks within its own block only, and never makes more of them than were asked for (`HooksStayWithTheirBlock`) |
| `perforation` | without clones, 2 loops of 11 kinds on one or two lines; with them, one loop with each of about 170 bodies of one to three statements. Parameters up to 2, a counter of 2 bits, 0, 1, 4 or 5 iterations, 2 entries, integers of 4 bits | the body runs in one iteration of 2^param (`BodyRunsOneInFactor`) and the loop ends (`LoopEnds`); a clone without branches uses nothing that is not there (`ClonesAreDefined`), stores to the places that the body would have stored to (`SamePlaces`), and adds to a variable what the last evaluated iteration added (`IncrementsAreHeld`) |
| `npu` | programs of three loops, side by side, nested or in two functions, on two or three lines, with two or three calls; then loops with up to three precise stores before the call (integers, floats and what is not buffered, twice to one variable too), in every order of their addresses, 1, 2 or 4 inputs in a buffer of 4, up to 2 outputs, 1, 4 or 5 trips, a break, entered twice | no loop is rewritten twice, and one without inline assembly is rewritten as its own name says (`LoopsAreRewrittenAsNamed`); as long as no store goes astray, a delayed rest sees the restored variables, the call and the addresses of its own trip (`ReplaysAreInOrder`), the loop goes on with what is restored or untouched (`StateGoesOn`), and only a last incomplete batch is lost (`OnlyATailIsLost`) |
| `enerc` | 2 precise integers in an array, an approximate one, a pointer to either kind, 3 waiting operands; the first gap ends a behaviour | approximate data does not flow into precise data (`PreciseAgrees`), and no pointer leads to data of the other kind (`AliasesAgree`) |

Every module states its type invariant; they are proved for the modules of section 4, and
the others hold on the instances above, where no run repeats them. So do a few more
statements that are kept in the modules without a run of their own:
`AnsweredJobsAreKnown`, `LeaksOnlyByException`, `WorthNeverDrops`, `IsPartition` and
`CompositesAreOfGood` (all proved), `CompositesAreFaithful` (it follows from
`CombineKeeps`, which is proved) and `PerforatedIsListed`.

Bounds, and why they are enough. Two calls make each other's exceptions and notifications;
two job ids let both be pending at once, and two processes with two sessions each let a
value or a job of an earlier one be met. Two workers interleave through the shared
directory, and the third job meets what a failed one left behind. Three components
are the least with which one evicts two. Three results are the least for which
similarity and domination chain. The loop's three parameters let the climb go on, stop
in the middle and reach the end; the lock is a site of another kind to compose with.
Three blocks hold a region, what is before it and what is after it; the loop graphs
make what is before come after. Three functions hold a cycle and a caller of it. Four
blocks hold two critical sections or a branch and a join. A counter of two bits wraps
around within five iterations, and lets a saved value be used by one, two or three clones
before it is saved again. Four bits are enough for sums, products and quotients to wrap
and to be zero. A body of three statements is the least in which a value goes through
two variables to an address. Two injected sites, before and after an elided lock, are
the least that can trade places. In `enerc` the stored values are bits: only equality
and truth matter to flows; every rule has at most three operands. The constraint `Going`
keeps a state in which the checker has reported an error or a gap was met from being
stored: it has no successor, and its invariants are checked all the same. In `npu` two
loops are enough for calls that wait and a third for a loop around both; the last loop may
be in another function. A buffer
of four holds one, two or four calls, and four and five trips fill it without and with a
rest; a break at the third trip leaves a batch in the middle, and the second entry meets
what the first left behind.

### Where the code departs from its own words

One departure, `memo_race`, is among the runs. The modules also state what a comment, a docstring
or the manual says in the following cases, each with a configuration that finds it
violated:

| Configuration | Statement | What the code does |
|---|---|---|
| `MCBuildExecuteDepartures` | `SandboxIsCleanedUp`: "Afterwards, change back and clean up" (`core.py:95`) | `sandbox` has no `finally`: an exception leaves the directory |
| | `DirectoryIsRestored`: "temporary changes the working directory" (`core.py:67`) | nor has `chdir`: the worker stays in the sandbox |
| `MCBceGreedyBudget` | "Given a set of results and a maximum error constraint" (`core.py:513`) | the first component is taken unseen |
| `MCTriageTests` | "testing results for the optimal configurations" (`core.py:1010`) | `optimal + good` are run |
| `MCEvaluationDepartures` | `SurvivorsAreFaster`: "offers no speedup over its parent" is eliminated (`core.py:910`) | only a clear slowdown is |
| | `OptionsAreHonoured`: "Tuned single-site configurations, if `tuned` is true" (`core.py:941`) | without its phase the list is unbound |
| | `SearchReturnsAllSafe`: "Returns all safe results found" (`core.py:888`) | a safe one slower than its parent is not returned |
| `MCEscapeCheckCast` | "Conservatively check" (`approxinfo.cpp:344`) | loads are compared with the cast, not the variable |
| `MCInjectionLocks` | `ConfigIsApplied`: the file determines what is enabled (`docs/hack.md:23`) | one elision per block |
| | `LocksStayBalanced`: "a corresponding release call" (`desync.cpp:70`) | a release of two acquires is erased with one |
| `MCInjectionBarrier` | "all the instructions between" (`desync.cpp:70`) | not those that a loop comes back to, before the barrier or acquire in its block |
| `MCInjectionNames` | `HooksAreWhatWasChosen`: the parameter of an instruction site is passed to its hook (`docs/hack.md:119`) | behind an elided lock another instruction has the name |
| | `InjectionBuilds`: of code with calls through pointers too | `getCalledFunction()` is `NULL` and is dereferenced (`error.cpp:474`) |
| `MCPreservationDepartures` | `PerforatedIsElidable`: "should already be validated" (`loopperf.cpp:182`) | loops that share a line share the verdict |
| | `LoopStillExits`: "instead of the body" (`loopperf.cpp:289`) | successor 0 is replaced, be it the exit |
| | `LoadsWhatWasSaved`: "store and load values saved from evaluated iterations" (`loopperf.cpp:865`) | a store under a condition may not have been evaluated: the clone loads what nobody saved |
| | `NoTrapIsAdded`: validated as perforatable (`loopperf.cpp:182`) | the net factor of several is a quotient, of which the divisor may be zero (`loopperf.cpp:1040`) |
| | `RelaxedBuildIsMade`: while-like loops are perforated too (`loopperf.cpp:600`) | with a clone they have two latches, and the one to put the counter into is `NULL` (`loopperf.cpp:246`) |
| `MCEnerCAlias` | "all qualifiers must be *equal*", against aliases of different types (`EnerCTypeChecker.cpp:143`) | `p = q = &a` is accepted: an assignment as an operand has lost the qualifier of what it points to, and a pointer to precise data leads to approximate data |
| `MCNpuSelectionDepartures` | `OnlyNamedAreRewritten`: the file determines what is enabled (`docs/hack.md:23`) | a call that was found in a rejected loop is replaced if the next loop has a parameter |
| | `NoStoresInLoops`: "No escaping stores inside loops allowed for now" (`npu.cpp:570`) | the loop is looked up in the caller's `LoopInfo`, which has none of the callee's (`npu.cpp:568`) |
| | `BuildIsDefined`: the build of a program does not depend on what was freed | a waiting `Loop` of an earlier function is dereferenced (`npu.cpp:537`) |
| | `IndirectCallsAreBuilt`: loops with calls through pointers too | `getCalledFunction()` is `NULL` and is dereferenced (`npu.cpp:237`) |
| | `DependenciesAreBuffered`: "An auxiliary buffer to store register dependencies" (`npu.cpp:851`) | the buffer is allocated and never written |
| | `LatchIsSatisfied`: the latch finds what depends on the first instructions as they left it (`npu.cpp:286`) | of two stores to one variable the older may be replayed last |
| | `MemoryIsBuffered`: "buffering something of unknown type" (`npu.cpp:1143`) | it is not buffered: a replay sees the double or the pointer of a later trip |
| | `AddressesFit`: "An auxiliary buffer to store function arguments' addresses" (`npu.cpp:838`) | it has a place for each input, and a function may have more outputs |

A configuration with several statements has all but the first in comments: take one at
a time. Three further limits of the clones have a place in the properties' conditions: an
operation that serves two assignments repeats the increment of one of them, whichever the
map has last (`Accumulates`, in `IncrementsAreHeld`); a store of an element is taken for what a later
load of it finds if both use one address *instruction*, though a store between them through another
instruction may have gone to the same element (`findMostRecentStoreInst`, `loopperf.cpp:331`), so that what is
saved is not what the variable has gained (`ReadsBackTheLast`, there); and an address that is computed from what is repeated
is not the one the body would have used (`Exact`, in `SamePlaces`). One disagreement is
not modelled: the manual calls parameters unsigned 64-bit integers (`docs/hack.md:119`),
and `loadRelaxConfig` reads an `int` (`transform.cpp:154`), so that a greater number ends
the loading.

### Fairness

`CWMemo!FairSpec`: the cluster answers every job and the client's thread runs
(`WF` of `Client`), and a thread that was notified gets the lock back
(`WF` of the woken get): both are promises of `threading` and of the client library,
and `completion` never blocks but for the lock. Nothing is assumed of the main thread.
`EscapeCheck` and `Purity` are sequential programs: weak fairness of
the whole next-state relation says that they go on. `Preservation!FairSpecBody` says the
same of a perforated loop, in terms of `Perforation!Next`: a step of the loop is enabled
whatever its body holds, and an iteration that does not end at a trap is such a step. The other specifications have
none, and no liveness property. Deadlock is not checked where a program ends.

## 4. What is proved

The proofs hold for all values of the constants that satisfy the named assumptions of
the module: any number of jobs, workers, results, functions, sites or blocks. Each is an
inductive invariant (`IInv`, mostly) with three lemmas (it holds at first, each action keeps it, it
implies what is wanted), and the actions have one step each.

**`CWMemoProofs`.** `IInv` adds to the type invariant what the two threads rely on: the
jobs the client runs are in the dictionary, a call that was started is starting,
pending, landing or stored, and under `force` what is stored of a fresh call is of this
process. It is needed because `NoCallIsLost` by itself says nothing of how a job
gets from the dictionary to the database. From it: `TypeCorrect`, `NoCallLost`,
`AnsweredKnown`, `ForceIsFresh`, `CleanExit`, the action property
`OnlyForceMayForget`, and `Refinement`, in which each action of `CWMemo` is shown to be
an action of `MemoFutures` or to change none of its variables.

**`ResultProofs`, job execution.** Any workers and jobs. `Base` says that two workers never have
the same job. On it stand three invariants: `SandboxInv` (a job that has not begun has no
sandbox), for `WorkersStandInTheirSandbox` and `OnlyExceptionsLeak`; `FilesInv` (what a
sandbox holds of its own is of its own job, and after `make clean` no link is left), for
`ResultsAreTheirOwn` and the action property `ApplicationIsLeftAlone`; and `StatusInv`,
which says for each step of a job what of the result is filled in already, for
`StatusesAreTrue`. `ResultsAreOwn` cannot be proved alone: that a program writes into its
own sandbox is true only because the links were cut, in another step, before.

**`ResultProofs`, triage.** Any number of results. The invariant (`TriageInv`) says of the results before `pos`
in which list they are (`Placed`, `Counted`), that the optimal ones so far are a front
(`FrontSoFar`), and why each of the others is not among them (`Explained`). With it
`AssertionHolds` and `OptimalFront`. `GoodCovered` needs, besides, that each dominated
result is dominated by one that nothing dominates: domination is transitive, and who dominates
has the smaller sum of errors (`ErrorLessIsTransitive`, `DominationIsOrder`,
`BestDominator`). The statistics
themselves are in the proof: a mean is a sum over the replicas, and the inequality between the
sum of squares and the square of the sum makes the variance a number
(`SquareOfSum`).

**`SearchProofs`, composition.** `CombineKeeps` and `CombineAddsNothing`: combining configurations of
which no two conflict keeps each parameter of each and invents none. For `bce_greedy`:
`KnapsackIsDisjoint`, `BudgetKept`, `ErrorTracked` (the running error is the sum over the
knapsack, whatever is evicted) and the action property `WorthGrows`, from an invariant
(`GreedyInv`) that says that what is in the knapsack was considered, once.

**`SearchProofs`, the search.** Any sites, options and measurements. The invariant `Search` names
what holds between the phases: what was measured was submitted; what was tried above the
weakest parameter has its weaker neighbour among what is kept (`WeakerWereClimbed`,
`TunedWereClimbed`); all survivors are of the present generation. `NoKeyError`,
`Climbs`, `IsExhaustive`, `CompositesAreSound` and `NothingBetterIsLost` follow.
`IsExhaustive` needs `GenerationsAssumption`: no parameter may need more generations than
the search allows (`core.py:29-36`: both are ten). `NothingBetterIsLost` follows a chain
of ever slower configurations down to one that is returned, which is an induction over
the parameter.

**`ApproxInfoProofs`, the escape analysis.** Any function, region and order of visits. The invariant
`EscapeInv` says that each flag that is set was due (`FlagsAreDue`), that each blocker that this pass has
visited has a reason that no later flag removes (`BlockersAreDue`), and that acquires and
releases are flagged in pairs (`Balanced`). `HarmlessIsPassed` follows, and
`NothingEscapes`: under the condition `OnePointerEach`, which says that each local is stored to
and read through one pointer. The condition excludes exactly the case in which the code
errs (`MCEscapeCheckCast`, in the table above). What is behind a store on an execution path
is in a block that the code's search for successors reaches (`LaterIsBehind`).

**`ApproxInfoProofs`, the purity analysis.** `PurityInv` says that the pure functions are closed (each has no
blocker and calls pure functions only) and that the functions under analysis, each of them
once, have a provisional verdict. From it `PurityTypeCorrect`, `Soundness` (with the set of
all pure functions as the witness) and `VerdictsAreFinal`. `OnlyRecursionMisleads` needs in addition
that the stack is a path of calls, and a statement on whole sets of functions
(`GoodSetsArePure`): as long as no cycle can be reached, nobody is ever told a provisional verdict.

**`EnerCProofs`.** Any variables, arrays, number of operands that wait for their use, and order of
visits. The invariant has two parts. `ShapeInv` holds in every program, accepted or not: the
value of an operand has as many levels as its type, and so has the content of a variable. `FlowInv`
is about programs that were accepted so far and met no gap: each operand and each variable
is `Sound`, which means that the two executions agree on an rvalue whose type begins
with a precise level, that they agree on the address of an lvalue, whose type is that of
the variable it names, and that the variable a pointer leads to was declared with the type that
the pointer's type has below its first level. The last is what `QualsEqual` is for, and without it
`PreciseAgrees` is not inductive: a pointer of the wrong kind does no harm before it
is written through. `PreciseStaysPrecise` and `AliasesStayTyped` follow. That the information flow rule preserves
soundness is the lemma `CompatibleCarries`. Each rule that the checker lacks is a gap: its step can
break soundness, and the proof shows that the nine gaps are the only such steps.

**`PassProofs`, elision and injection.** Any control-flow graphs, functions, choices of sites and of hooks, for the
two passes together. `IInv` has four parts: types; what is erased synchronizes, and nothing
precise is inside of an erased acquire or barrier and its end (`Covers`, in `ErasedInv`); erased acquires and
releases come in pairs, of which one dominates the other (`Paired`); names are those of the function as it
was listed (`HookInv`). These are facts about code. The properties are about walks, so a second
induction follows, over the steps of a walk (`WalksStay`). For `PreciseIsGuarded` a walk
that has lost a lock or a barrier is in the `Region` of what was erased, which no step
leaves but through its end (`RegionIsClosed`). `PreciseStaysGuarded` had been stated for blocks
outside of loops, which was not enough for locks: the proof failed at a body that releases a lock and acquires it at
its end, around a loop, and TLC confirms it; the exception `BeforeElided` is the one the proof
needs. For `LocksBalance` the two ways to hold locks, in the function as written and as
relaxed, are the same or the walk is in the region of an erased pair (`Balanced`); that a walk at an
erased release comes from its acquire is dominance (`FirstPass`, `ReleaseIsReached`) and `OneToOne`.
That the function is well locked is assumed of it as written (`Init`), where nothing is
erased; `WalksOnPaths` and `PathsOfWalks` show that this does not depend on what is erased.
`HooksStay` follows from counting: the hooks of a block are mapped one to one to choices (`HooksHaveChoices`).

**`PassProofs`, the batches of the accelerator.** Any loops with any number and order of stores, any number of
trips, and any size of the buffer that is a multiple of the number of inputs (which the code assumes in a
comment, `npu.cpp:1162`); the stores may be of any type, several to one variable, and in any order of their
addresses. `BatchBase` is about where the control is, how many calls are
buffered, that the positions of integers and of floats are the same multiple of what a trip
stores, and those of the addresses that of what a call returns. `NpuTypeCorrect` follows: the code allocates a place
for each store of each trip, in each of its buffers for stores; for the addresses it allocates one for each
input, so that they stay within it if a call has no more outputs than inputs.
`TameInv` is what holds as long as no store has gone astray (`~wild`). `ReplaysAreInOrder`
is a statement about the past and says nothing of what is still buffered, so the invariant has to:
every buffered trip has its own addresses and its own integers at its own
positions (`Keeps`), whatever has been done to the variables since; the calls in the buffers are those of
the trips that follow the last one replayed (`CallsInv`); and the current trip is the last one
buffered (`TripInv`). Nothing is said of the floats but that each goes to a variable that some float is buffered of
(`MemoryType`, `FloatTargets`): this is why an integer that was restored is not overwritten by a float that was
sent to the wrong place. The facts about code that everything rests on are the lemmas `ReplayRestores`
(doing the buffered stores of a trip again yields the memory of that trip in what is `Kept`, from any memory) and
`BufferingAdds` (buffering a trip leaves those before it alone). In the first, each
variable is decided by its last buffered store in the order of addresses, which is what the two disjuncts of `Restored` are
about; that none of their conditions can be dropped was tried with TLC.
`LastPartsInOrder`, `MemoryGoesOn` and `TailIsLost` follow, for every loop. The proof needed
two assumptions that were not written down: the latch stores to the loop variable, and
nothing else does.

**`PassProofs`, the selection of calls.** Any programs. `WaitInv` says what of the vectors survives from
one visit to the next: a call waits only for a loop around it that has been visited and
rejected, for assembly in it (`Rejected`), and rejected it stays. `DecidedInv` says that every visited loop is decided
as `NamesDecide` wants it for the whole program. At the visit of a loop that is looked at to its end none of its
own calls can be waiting: it would wait for a loop around this one, and those are visited later
(`AroundComesLater`). So all of them are found now, in order (`RelaxLooksAtAll`,
`InOrderIsOrder`); the first that suits is replaced (`ReplacingTakesTheFirst`), and what else is replaced in
the visit belongs to rejected loops. `NamesDecideLoops` is the result. `NpuInv` puts the two together: until the
loop runs, its buffers are as `BatchInit` leaves them.

**`PerforationProofs`.** Any programs, bodies, parameters, numbers of iterations and width of the counter; the
theorems are stated of `Spec` and of `SpecBody`, whose steps are all steps of one loop that may also trap
(`BodiesGoOn`). Three parts: `TypeInv`; `BuildInv`, on what the file holds and what the
relaxed build has made of it, from which `RewrittenAreListed` follows and that a loop with a clone has a latch
of its own; and `RunInv`, which says for each place of the loop how often its body has run by then, as a
function of the iterations counted (`Expected`). `OneInFactor` is the case of the exit. What it needs of
arithmetic is proved first: the wrapped counter has the remainders of the true one, since the factor divides
2^width (`PowersDivide`, `RemainderOfMultiple`, `NextRemainder`), and the rounded quotient grows at the multiples
of the factor (`NextCeiling`). The provers know nothing of exponentiation, which is why the
module defines the powers of two itself (`Pow2`). The assumption that a for-like loop is not its own latch was
needed, and was only a comment before.

**`PerforationProofs`, the clones.** Any bodies that are `Code`, any inputs and any width of the integers, of `SpecBody`.
What `preserveBody` finds is defined by recursion over the instructions, and what an iteration does is a recursive
function too, so each is first shown to have a solution (`LoadsUnfold`, `AssignmentUnfolds`, `SlicesUnfold`,
`EvaluatedStepwise`, `ReplayedStepwise`); then come the facts about it that hold by induction over the instructions of a
body, as a set of naturals: a slice is closed under what its members use (`SlicesAreClosed`), and what is found
for a compound assignment is an operation before it (`AssignmentsAreOperations`). `EvaluateExecutes` and `ReplayExecutes` say what
one instruction does to an environment in either kind of iteration. `BodyInv` relates the clone to the body
and says where a clone can run. Then one induction for each property:

- `ClonesStoreAlike` runs the evaluated and the skipped iteration side by side (`Agree`, `AgreeStep`): what is in a slice
  has the same result in both, the branches go the same way, and a local whose last store is in a slice has the
  same content (`Steady`). A branch may leave such a store out of both or of neither, which is why `Exact` excludes stores
  that are optional.
- `ClonesUseWhatIsThere` needs an invariant of the loop (`DefinedInv`): wherever an iteration can be skipped, one
  has been evaluated since the loop was entered (`Saves`: the counter is zero at first, and zero is a multiple of everything,
  `SkipsLater`), and it has saved for every store of the clone; besides, a divisor that is saved alone is one that an
  evaluated iteration has divided by, hence not zero (`DivisorIsSaved`).
- `ClonesRepeatIncrements` rests on `HeldInv`: what is saved for an assignment is, modulo the width, what its variable has gained.
  For the evaluated iteration (`GainIsSaved`) the operation that was found through loads and stores must be shown to compute
  what is stored (`LoadsAreLoaded`, `AssignmentsArePassed`: a value is followed from store to load, where
  `ReadsBackTheLast` is needed), and a difference of wrapped integers must be the wrapped difference
  (`WrapsCancel`). For the skipped one (`SkippedRepeats`) the single store of the variable must come after the
  operation that repeats it. That memory holds integers at all is an invariant of its own (`NumInv`).
- `BodyTypeCorrect` is the type invariant.

The proofs corrected the model in two places. `IncrementsAreHeld` had been stated without `ReadsBackTheLast`, and is
false without it: no body among the instances read an element back. And the assumption on `Bodies` was only that they are
sequences of instructions, with which operands could have been missing.

**`InductionLemmas`.** The induction theorems of the library take a predicate as a parameter,
which the provers cannot instantiate. The module states induction over the
naturals and over finite sets in terms of *sets* instead (a set that holds the least element
and each next one holds all), derived from the well-foundedness of `<` and `\subseteq`, and from that
the existence of what a recursion over the naturals defines (`Iteration`, for the walks, for `Pow2` and for the calls that are tried in turn) and the laws of sums over finite sets that `SearchProofs` and `ResultProofs` cite: a sum is a
number, an element can be taken out, and the order of taking out does not matter.
For the same reason the modules that are proved about define what can be reached as the
*least set* that is closed (`Reach` in `Purity`, `Reached` in `EscapeCheck` and `SyncElision`, `Around` in `NpuSelection`).

Only model-checked: liveness (`GetTerminates`, `Terminates`, `EndsWithVerdicts`, `LoopEnds`), which is beyond
the prover. Every invariant and every action property that a run checks is also stated by a theorem.

## 5. What is not modelled

- The functions that error injection calls and what it passes them; in a cloned body,
  switches and branches whose second successor is the latch; in `npu.cpp`, matrices, the conversion to floats, functions
  with more than five outputs or without inputs, integers that are wider or narrower than the 32 bits of their buffer, and stores under a
  condition: a precise store before the call is done in every trip, and the last part does not store to the same
  variable; pointers that are copied, in `pointerCaptured` (a call that
  keeps or only uses an address is modelled).
- The C++ forms of the checker, records, redeclarations, and casts between pointers and
  integers.
- Formatting and parsing: the command line, the log, the configuration file's text (its
  content is modelled), the pretty-printing of results.
- External code: the cluster client, `make`, the compiler, LLVM's dominator trees and
  alias analysis. They appear as what the code in `src/` relies on.
- The branch of `Result.evaluate` for a missing duration (`core.py:606`): a run without one has a
  status (`StatusTellsTheTruth`), for which `evaluate` has returned before. How the submits and gets of one call of
  `run_approx` mix with the client thread is part of `CWMemo` and not repeated in `Evaluation`.
- Floating point: `Triage` is exact, `BceGreedy` uses integers.

## 6. Plan

Done, in this order: `CWMemo`, `MemoFutures` and their proofs; `BuildExecute`;
`ConfigSpace`, `BceGreedy` and `SearchProofs`; `Triage`; `Evaluation`; `EscapeCheck`;
`Purity`; `SyncElision`; `Perforation`; `EnerC`; `NpuBatch`;
`Preservation`; `Injection`; `NpuSelection`; `ResultProofs` and `InductionLemmas`,
`ApproxInfoProofs`, `SearchProofs` again (the search), `EnerCProofs`, `PerforationProofs`,
`PassProofs`.

Next, model:
1. An abstract relaxation of which `SyncElision` and `Perforation` are refinements:
   only approximate data may differ from the precise build.
2. `pointerCaptured` with copies of pointers, and the composition of `EscapeCheck` with `Purity`.
3. `shouldSkipFunc` and the markers of the EnerC library, which decide what is looked at at all.
4. Records and casts in `EnerC`.

Next, prove:
1. What of liveness is safety: measures that every step of a loop, or of an analysis, decreases.
2. `ClonesAreDefined` and `IncrementsAreHeld` for bodies with branches, under a condition on what is optional.
