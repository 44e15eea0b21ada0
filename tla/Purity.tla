------------------------------- MODULE Purity -------------------------------
(***************************************************************************)
(* isPrecisePure of pass/approxinfo.cpp, as doInitialization runs it over  *)
(* the functions of a module: which functions affect only approximate      *)
(* memory.  The analysis of a function asks for each function that it      *)
(* calls, by recursion; results are cached, and while a function is being  *)
(* analysed the cache has it as impure.                                    *)
(*                                                                         *)
(* What preciseEscapeCheck finds in a function apart from its calls is     *)
(* given (see module EscapeCheck).  It asks for a callee again in each of  *)
(* its rounds; the answer is the one of the first time, since a callee     *)
(* that was under analysis then still is.                                  *)
(***************************************************************************)
EXTENDS Naturals, Sequences, FiniteSets

CONSTANTS
  Functions,  \* the functions of the module
  Programs    \* the modules considered

\* LLVM knows it to be read-only, it is on the whitelist of pure library
\* functions, it has no definition, or it is analysed.
Sources == {"readonly", "whitelisted", "external", "defined"}

\* Of each function: its source, whether it has a blocker other than a call, and
\* what it calls on lines that are not marked ACCEPT_PERMIT.
Program ==
  [source : [Functions -> Sources], blocked : SUBSET Functions,
   calls : [Functions -> SUBSET Functions]]

ASSUME ProgramsAssumption == Programs \subseteq Program

VARIABLES
  program,
  functionPurity,  \* the cache
  stack,           \* the functions under analysis, the innermost last
  asked            \* of each of them, the callees it has been told about

purityVars == <<program, functionPurity, stack, asked>>

Known(f) == functionPurity[f] # "unknown"
Pure == {f \in Functions : functionPurity[f] = "pure"}

PurityInit ==
  /\ program \in Programs
  /\ functionPurity = [f \in Functions |-> "unknown"]
  /\ stack = << >> /\ asked = [f \in Functions |-> {}]

EnterUnlisted(f) ==
  /\ ~Known(f)
  /\ functionPurity' = [functionPurity EXCEPT ![f] =
                          IF program.source[f] = "readonly" THEN "pure" ELSE "impure"]
  /\ stack' = IF program.source[f] = "defined" THEN Append(stack, f) ELSE stack
  /\ UNCHANGED <<program, asked>>

\* The cases that are settled at once; a defined function is entered, and counts
\* as impure for now.
Enter(f) ==
  /\ ~Known(f)
  /\ functionPurity' =
       [functionPurity EXCEPT ![f] =
          IF program.source[f] \in {"readonly", "whitelisted"} THEN "pure" ELSE "impure"]
  /\ stack' = IF program.source[f] = "defined" THEN Append(stack, f) ELSE stack
  /\ UNCHANGED <<program, asked>>

Top == stack[Len(stack)]
Asks(f) == stack # << >> /\ f \in program.calls[Top] \ asked[Top]

\* Changed: doInitialization analyses every function anew.
NextFunctionAnew(f) ==
  /\ stack = << >> /\ program.source[f] = "defined"
  /\ functionPurity' = [functionPurity EXCEPT ![f] = "impure"]
  /\ stack' = <<f>>
  /\ UNCHANGED <<program, asked>>

\* doInitialization goes through the module.
NextFunction(f) == stack = << >> /\ Enter(f)

\* preciseEscapeCheck asks for a callee; it is entered, or the cache answers.
AskCallee(f) == Asks(f) /\ Enter(f)

\* Changed: the provisional verdict of a caller is not an answer.
LookUpSettledCallee(f) ==
  /\ Asks(f) /\ Known(f) /\ \A n \in DOMAIN stack : stack[n] # f
  /\ asked' = [asked EXCEPT ![Top] = @ \cup {f}]
  /\ UNCHANGED <<program, functionPurity, stack>>

LookUpCallee(f) ==
  /\ Asks(f) /\ Known(f)
  /\ asked' = [asked EXCEPT ![Top] = @ \cup {f}]
  /\ UNCHANGED <<program, functionPurity, stack>>

\* Changed: a call back to a function under analysis is taken to be pure.
BlockerFreeForNow(f) ==
  /\ f \notin program.blocked
  /\ program.calls[f] \subseteq Pure \cup {stack[n] : n \in DOMAIN stack}

\* A call blocks unless its callee is pure.
BlockerFree(f) == f \notin program.blocked /\ program.calls[f] \subseteq Pure

\* All instructions are flagged: the verdict replaces the provisional one.
Conclude ==
  /\ stack # << >> /\ asked[Top] = program.calls[Top]
  /\ functionPurity' = [functionPurity EXCEPT ![Top] =
                          IF BlockerFree(Top) THEN "pure" ELSE "impure"]
  /\ stack' = SubSeq(stack, 1, Len(stack) - 1)
  /\ UNCHANGED <<program, asked>>

PurityNext ==
  \/ Conclude
  \/ \E f \in Functions : NextFunction(f) \/ AskCallee(f) \/ LookUpCallee(f)

PuritySpec == PurityInit /\ [][PurityNext]_purityVars
PurityFairSpec == PuritySpec /\ WF_purityVars(PurityNext)

-----------------------------------------------------------------------------
(* Properties.                                                             *)

UnderAnalysis == {stack[i] : i \in DOMAIN stack}
Finished == stack = << >> /\ \A f \in Functions : Known(f)

PurityTypeOK ==
  /\ program \in Program
  /\ functionPurity \in [Functions -> {"unknown", "pure", "impure"}]
  /\ stack \in Seq(Functions)
  /\ asked \in [Functions -> SUBSET Functions]

\* What makes a function pure: it, and all that it calls, and so on, is known to
\* be pure or has no blocker.
Trusted(f) == program.source[f] \in {"readonly", "whitelisted"}
Closed(S) ==
  \A f \in S : Trusted(f) \/ /\ program.source[f] = "defined"
                             /\ f \notin program.blocked
                             /\ program.calls[f] \subseteq S
GenuinelyPure(f) == \E S \in SUBSET Functions : f \in S /\ Closed(S)

\* The analysis is sound at all times, whatever the recursion in the module and
\* the order of its functions: a provisional verdict never makes a caller pure.
PureIsSound == \A f \in Pure : GenuinelyPure(f)

\* It is conservative for recursive functions only: a function that cannot reach
\* a cycle of calls gets the verdict that it deserves.
ClosedUnderCalls(S) == \A g \in S : program.calls[g] \subseteq S
Reach(f) ==
  {g \in Functions : \A S \in SUBSET Functions : f \in S /\ ClosedUnderCalls(S) => g \in S}
Recursive(f) == \E g \in program.calls[f] : f \in Reach(g)

OnlyRecursionIsUndecided ==
  Finished => \A f \in Functions :
    GenuinelyPure(f) /\ (\A g \in Reach(f) : ~Recursive(g)) => f \in Pure

\* A verdict that is in the cache stays, but for the provisional ones of the
\* functions under analysis: nobody is told two things of the same function.
KeepsVerdicts ==
  \A f \in Functions \ UnderAnalysis :
    Known(f) => functionPurity'[f] = functionPurity[f]
VerdictsStand == [][KeepsVerdicts]_purityVars

\* "This avoids an infinite loop for recursive function calls": the analysis ends
\* with a verdict for every function.
EndsWithVerdicts == <>[]Finished
=============================================================================
