---------------------------- MODULE Perforation ----------------------------
(***************************************************************************)
(* Loop perforation (pass/loopperf.cpp): the precise build lists the loops *)
(* that may skip iterations, by the source line they begin on; the relaxed *)
(* build rewrites the loops whose line has a parameter; and the rewritten  *)
(* loop runs.                                                              *)
(*                                                                         *)
(* A loop is a header, which holds its condition, a body and a latch,      *)
(* which counts the iterations here; the body of a while-like loop may     *)
(* itself be the latch.  With -accept-perf-preserve a skipped iteration    *)
(* runs a clone of the body (module Preservation) instead of nothing.      *)
(***************************************************************************)
EXTENDS Integers, FiniteSets

CONSTANTS
  Ids,       \* the loops of the program
  Kinds,     \* what the loops may be
  Programs,  \* the programs, and whether they are built with preservation
  MaxParam,  \* PARAM_MAX of loops
  Width,     \* the bits of the counter, a native integer
  Trips,     \* how often a loop may run when entered
  Entries    \* how often a loop is entered

Kind ==
  [line : Nat,
   forLike : BOOLEAN,      \* its header is called for.cond
   forbidden : BOOLEAN,    \* marked ACCEPT_FORBID
   candidate : BOOLEAN,    \* has header, latch, preheader, and code in its body
   bodyExits : BOOLEAN,    \* leaves the loop from its body
   blockers : BOOLEAN,     \* preciseEscapeCheck finds some in the body
   condExits : BOOLEAN,    \* the header ends with a branch to the only exit
   exitFirst : BOOLEAN,    \* which is the first successor of that branch
   latchIsBody : BOOLEAN]  \* never so in a for-like loop

ASSUME PerforationAssumption ==
  /\ Kinds \subseteq Kind
  /\ Programs \subseteq [loops : [Ids -> Kinds], preserve : BOOLEAN]
  /\ MaxParam \in Nat \ {0} /\ Width \in Nat /\ MaxParam <= Width
  /\ Trips \subseteq Nat /\ Entries \in Nat \ {0}
  /\ \A k \in Kinds : k.forLike => ~k.latchIsBody
  /\ Ids # {}

VARIABLES
  loops,        \* the program
  preserve,     \* enablePreservation
  phase,        \* "dump", "relax" or "run", or "failed" if the compiler crashes
  pending,      \* the loops this build has still to look at
  relaxConfig,  \* the parameters of the lines that are listed
  perforated,   \* how each loop was rewritten, 0 if it was not
  now,          \* the loop that runs
  at,           \* where control is in it
  trips,        \* for how many iterations its condition holds
  done,         \* the iterations it has completed
  counter,      \* accept_counter
  runs,         \* how often its body ran
  entries       \* how often it was entered

vars == <<loops, preserve, phase, pending, relaxConfig, perforated, now, at, trips, done,
          counter, runs, entries>>
runVars == <<now, at, trips, done, counter, runs, entries>>

Name(l) == loops[l].line

\* The powers of two: the mask of the counter is one less than such a power.
Pow2[n \in Nat] == IF n = 0 THEN 1 ELSE 2 * Pow2[n - 1]

-----------------------------------------------------------------------------
(* tryToOptimizeLoop.                                                      *)

Considered(l) == ~loops[l].forbidden /\ loops[l].candidate
Elidable(l) == Considered(l) /\ ~loops[l].bodyExits /\ ~loops[l].blockers

\* The precise build: an elidable loop is listed with the parameter 0.
Assess(l) ==
  /\ phase = "dump" /\ l \in pending
  /\ pending' = pending \ {l}
  /\ relaxConfig' = IF Elidable(l) THEN relaxConfig \cup {<<Name(l), 0>>}
                                   ELSE relaxConfig
  /\ UNCHANGED <<loops, preserve, phase, perforated, runVars>>

\* The search chooses parameters for what is listed.
Configure ==
  /\ phase = "dump" /\ pending = {}
  /\ \E param \in [relaxConfig -> 0..MaxParam] :
       relaxConfig' = {<<entry[1], param[entry]>> : entry \in relaxConfig}
  /\ phase' = "relax" /\ pending' = Ids
  /\ UNCHANGED <<loops, preserve, perforated, runVars>>

ParamOf(l) ==
  IF \E entry \in relaxConfig : entry[1] = Name(l)
  THEN (CHOOSE entry \in relaxConfig : entry[1] = Name(l))[2] ELSE 0

\* The relaxed build goes by the name, and by what perforateLoop looks at.  The
\* clone of a while-like loop leads back to the header, so that the loop has two
\* latches, and getLoopLatch none to put the increment of the counter into.
NewParam(l) == IF Considered(l) /\ loops[l].condExits THEN ParamOf(l) ELSE 0
Relax(l) ==
  /\ phase = "relax" /\ l \in pending
  /\ pending' = pending \ {l}
  /\ perforated' = [perforated EXCEPT ![l] = NewParam(l)]
  /\ phase' = IF NewParam(l) # 0 /\ preserve /\ ~loops[l].forLike
              THEN "failed" ELSE phase
  /\ UNCHANGED <<loops, preserve, relaxConfig, runVars>>

-----------------------------------------------------------------------------
(* The rewritten loop.                                                     *)

\* Changed: the counter is initialized once.
PreheaderOnce(l, n) ==
  /\ now' = l /\ at' = "header" /\ trips' = n
  /\ done' = 0 /\ counter' = (IF entries = 0 THEN 0 ELSE counter)
  /\ runs' = 0 /\ entries' = entries + 1

\* The preheader initializes the counter.
Preheader(l, n) ==
  /\ now' = l /\ at' = "header" /\ trips' = n
  /\ done' = 0 /\ counter' = 0 /\ runs' = 0 /\ entries' = entries + 1

Start ==
  /\ phase = "relax" /\ pending = {}
  /\ phase' = "run"
  /\ \E l \in Ids, n \in Trips : loops[l].condExits /\ Preheader(l, n)
  /\ UNCHANGED <<loops, preserve, pending, relaxConfig, perforated>>

Reenter ==
  /\ phase = "run" /\ at = "exit" /\ entries < Entries
  /\ \E n \in Trips : Preheader(now, n)
  /\ UNCHANGED <<loops, preserve, phase, pending, relaxConfig, perforated>>

Goto(from, to) ==
  /\ phase = "run" /\ at = from /\ at' = to
  /\ UNCHANGED <<loops, preserve, phase, pending, relaxConfig, perforated, now, trips, entries>>

\* The condition: successor 0 of its branch was replaced by accept_cond.
Target(successor) ==
  IF perforated[now] # 0 /\ successor = 0 THEN "check"
  ELSE IF (successor = 0) = loops[now].exitFirst THEN "exit" ELSE "body"

Header ==
  /\ Goto("header",
          Target(IF (done < trips) = loops[now].exitFirst THEN 1 ELSE 0))
  /\ UNCHANGED <<done, counter, runs>>

\* Changed: a skipped iteration does not reach the latch.
CheckSkipsLatch ==
  /\ Goto("check", IF counter % Pow2[perforated[now]] = 0 THEN "body" ELSE "header")
  /\ UNCHANGED <<done, counter, runs>>

\* accept_cond: the body runs if the low bits of the counter are zero, and
\* otherwise its clone if there is one; the latch follows in any case.
SkipDest ==
  IF preserve THEN "clone" ELSE IF loops[now].latchIsBody THEN "body" ELSE "latch"
Check ==
  /\ Goto("check", IF counter % Pow2[perforated[now]] = 0 THEN "body" ELSE SkipDest)
  /\ UNCHANGED <<done, counter, runs>>

\* What they do, and whether they stop the program at a trap, is up to the code in
\* them.
BodyTo(next) == Goto("body", next) /\ runs' = runs + 1 /\ UNCHANGED <<done, counter>>
CloneTo(next) == Goto("clone", next) /\ UNCHANGED <<done, counter, runs>>

Latch ==
  /\ Goto("latch", "header")
  /\ done <= trips
  /\ done' = done + 1 /\ UNCHANGED runs
  /\ counter' = IF perforated[now] # 0 THEN (counter + 1) % Pow2[Width] ELSE counter

Init ==
  /\ \E p \in Programs : loops = p.loops /\ preserve = p.preserve
  /\ phase = "dump" /\ pending = Ids /\ relaxConfig = {}
  /\ perforated = [l \in Ids |-> 0]
  /\ now = CHOOSE l \in Ids : TRUE
  /\ at = "exit" /\ trips = 0 /\ done = 0 /\ counter = 0 /\ runs = 0 /\ entries = 0

Build == Configure \/ \E l \in Ids : Assess(l) \/ Relax(l)
Run == Reenter \/ Header \/ Check \/ Latch
Next == Build \/ Start \/ Run \/ BodyTo("latch") \/ CloneTo("latch")

Spec == Init /\ [][Next]_vars

-----------------------------------------------------------------------------
(* Properties.                                                             *)

TypeOK ==
  /\ [loops |-> loops, preserve |-> preserve] \in Programs
  /\ phase \in {"dump", "relax", "run", "failed"}
  /\ pending \subseteq Ids
  /\ \A entry \in relaxConfig : entry[1] \in Nat /\ entry[2] \in 0..MaxParam
  /\ perforated \in [Ids -> 0..MaxParam]
  /\ now \in Ids /\ at \in {"header", "check", "body", "clone", "latch", "exit", "trap"}
  /\ trips \in Trips \cup {0} /\ done \in 0..(trips + 1)
  /\ counter \in 0..(Pow2[Width] - 1) /\ runs \in 0..(trips + 2)
  /\ entries \in 0..Entries

\* The header of loopperf.cpp's perforateLoop: a loop that is rewritten was
\* validated as perforatable.
PerforatedIsElidable == \A l \in Ids : perforated[l] # 0 => Elidable(l)

\* What holds of it: nothing forbidden is rewritten, and nothing on a line where
\* no loop was found to be perforatable.
PerforatedIsListed ==
  \A l \in Ids :
    perforated[l] # 0 =>
      /\ ~loops[l].forbidden
      /\ \E m \in Ids : Name(m) = Name(l) /\ Elidable(m)

\* A perforated loop runs its body in one iteration of 2^param, beginning with
\* the first, each time it is entered and also when the counter wraps around; a
\* loop whose body is its latch does not skip anything.
CeilingOf(n, d) == (n + d - 1) \div d
BodyRunsOneInFactor ==
  (phase = "run" /\ at = "exit" /\ ~loops[now].exitFirst) =>
    runs = IF loops[now].latchIsBody THEN trips
           ELSE CeilingOf(trips, Pow2[perforated[now]])

\* The comment on the last rewriting step: the condition block points to the new
\* condition instead of the body.  Then the loop still exits when it did.
LoopStillExits == done <= trips

\* It does, however often it is entered and with a clone or without, if the exit
\* is the second successor and no trap stops the program.
LoopEnds ==
  \A l \in Ids :
    (now = l /\ at = "header" /\ ~loops[l].exitFirst) ~>
      (at = "trap" \/ (at = "exit" /\ done = trips))

\* The comments on shortcutDest: while-like loops are perforated too, and their
\* shortcut is the header.  Then the relaxed build is made of them as well.
RelaxedBuildIsMade == phase # "failed"
=============================================================================
