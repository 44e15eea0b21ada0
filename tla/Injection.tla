------------------------------ MODULE Injection ------------------------------
(***************************************************************************)
(* Error injection (pass/error.cpp, option -accept-inject): the pass comes *)
(* after the elision of locks and barriers, in both builds, and works on   *)
(* what that has left of the function.  The precise build lists the sites  *)
(* that errors can be injected into; in the relaxed build those with a     *)
(* parameter get a hook, a call of injectInst or of injectRegion.          *)
(*                                                                         *)
(* A site has no line in its name: an instruction is named by the number   *)
(* of its block and its number in it, counted anew in each build.          *)
(***************************************************************************)
EXTENDS SyncElision

CONSTANT MaxEnabled   \* how many sites the file may give a parameter

ASSUME MaxEnabledAssumption == MaxEnabled \in Nat

VARIABLES
  listed,    \* the sites that the precise build has listed: their names
  enabled,   \* the listed ones with a parameter, in the file between the builds
  hooked     \* the instructions that got a hook

injectionVars == <<listed, enabled, hooked>>

-----------------------------------------------------------------------------
(* Names and sites.                                                        *)

\* Changed: the numbers go on from block to block.
NumberOfFunction(i) == Cardinality({j \in Present : Earlier(j, i)})

\* icounter: what still stands before the instruction in its block.
Number(i) == Cardinality({n \in 1..(i[2] - 1) : <<i[1], n>> \notin erased})

Name(i) ==
  [kind |-> IF Op(i) = "region" THEN "coarse" ELSE "instruction",
   block |-> i[1], number |-> Number(i)]

IsApprox(i) == Op(i) \in {"approx", "plain"}

\* What injectErrorInst lists: regions, and approximate instructions whether or
\* not injectHooks knows what to do with them.
CanInject(i) == IsApprox(i) \/ Op(i) = "region"

\* injectHooks returns without a hook for anything but a load, a store or a
\* binary operator on numbers.
HasHook(i) == Op(i) \in {"approx", "region"}

\* The called function of a call through a pointer is NULL.
Crashes == \E i \in Present : Op(i) = "indirect"

-----------------------------------------------------------------------------
(* The two builds.                                                         *)

\* The precise build goes on with injection, before it writes its file.
EndDumpInject ==
  /\ EndDump
  /\ listed' = {Name(i) : i \in {j \in Present : CanInject(j)}}
  /\ UNCHANGED <<enabled, hooked>>

\* The same, where the names meet an instruction that the build stops at.
EndDumpCrash ==
  /\ phase = "dump" /\ Ahead(Entries) = {} /\ Crashes
  /\ phase' = "crashed"
  /\ UNCHANGED <<graph, code, here, relaxConfig, erased, injectionVars>>

\* An instruction gets a hook if its name, as it now is, has a parameter.
Hooked(file) ==
  {i \in Present : CanInject(i) /\ HasHook(i) /\ Name(i) \in file}

\* The relaxed build.  The parameters of the instructions are in the same file
\* as those of the locks and barriers; nothing has read them before.
Inject ==
  /\ phase = "done" /\ phase' = "injected"
  /\ enabled' \in {file \in SUBSET listed : Cardinality(file) <= MaxEnabled}
  /\ hooked' = Hooked(enabled')
  /\ UNCHANGED <<graph, code, here, relaxConfig, erased, listed>>

InitInjection ==
  /\ Init
  /\ listed = {} /\ enabled = {} /\ hooked = {}

NextInjection ==
  \/ (DumpSite \/ KeepSite \/ ElideSite \/ EndRelax) /\ UNCHANGED injectionVars
  \/ ~Crashes /\ EndDumpInject
  \/ EndDumpCrash
  \/ Inject

SpecInjection == InitInjection /\ [][NextInjection]_<<vars, injectionVars>>

-----------------------------------------------------------------------------
(* Properties.                                                             *)

TypeOKInjection ==
  /\ phase \in {"dump", "relax", "done", "injected", "crashed"}
  /\ relaxConfig \subseteq Places /\ erased \subseteq Places
  /\ listed \subseteq
       [kind : {"coarse", "instruction"}, block : DOMAIN graph, number : 0..MaxLen]
  /\ enabled \subseteq listed /\ hooked \subseteq Places

\* The name under which the precise build has listed an instruction.
NameAsListed(i) == [Name(i) EXCEPT !.number = i[2] - 1]
Chosen(i) == CanInject(i) /\ NameAsListed(i) \in enabled

\* Elision behind the back of injection: what it does to one block does not reach
\* into another.  Where nothing was erased before it in its block, an instruction
\* gets a hook exactly if it was chosen; elsewhere a hook still answers to a
\* choice in the same block, and to one of its own.
HooksStayWithTheirBlock ==
  phase = "injected" =>
    /\ \A i \in Present :
         (\A j \in erased : j[1] = i[1] => j[2] > i[2]) =>
           (i \in hooked <=> Chosen(i) /\ HasHook(i))
    /\ \A b \in DOMAIN graph :
         Cardinality({i \in hooked : i[1] = b})
           <= Cardinality({i \in Places : i[1] = b /\ Chosen(i)})

\* docs/hack.md: the parameter of an instruction site in the file is what its
\* hook is called with.  Behind an elided lock another instruction has its name.
HooksAreWhatWasChosen ==
  phase = "injected" => \A i \in Present : i \in hooked <=> Chosen(i) /\ HasHook(i)

\* Code with calls through pointers can be built with injection.
InjectionBuilds == phase # "crashed"
=============================================================================
