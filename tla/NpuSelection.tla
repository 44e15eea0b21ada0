----------------------------- MODULE NpuSelection -----------------------------
(***************************************************************************)
(* What LoopNPU (pass/npu.cpp) looks for: calls of precise-pure functions  *)
(* in loops.  It visits the loops of the program, inner ones first, in the *)
(* precise build, which lists those with a call that could be replaced,    *)
(* and in the relaxed build, which replaces the calls of the loops that    *)
(* have a parameter.  Then a loop with such a call runs (module NpuBatch). *)
(*                                                                         *)
(* The calls that are found wait in two vectors of the pass until a loop   *)
(* is reached that has no inline assembly, which may be another loop.      *)
(***************************************************************************)
EXTENDS NpuBatch

CONSTANT Programs   \* the programs considered

LoopSite ==
  [function : Nat,
   line : Nat,            \* of its first instruction, which is its name
   parent : Nat,          \* the loop around it, which is visited later, or 0
   skipped : BOOLEAN,     \* ACCEPT_FORBID, an array constructor, or shouldSkipFunc
   sound : BOOLEAN,       \* it has a latch and a preheader
   perforated : BOOLEAN]  \* LoopPerfPass has rewritten it in the relaxed build

CallSite ==
  [home : Nat \ {0},      \* the innermost loop around it
   \* "pure": of a precise-pure function that has a body; "asm": inline assembly;
   \* "indirect": through a pointer; "other": any other call
   kind : {"pure", "asm", "indirect", "other"},
   fits : BOOLEAN,        \* a type that is supported, and no dependency in the way
   storesInLoop : BOOLEAN] \* the function has an escaping store in a loop of its own

ASSUME ProgramsAssumption ==
  \A p \in Programs :
    /\ p \in [loops : Seq(LoopSite), calls : Seq(CallSite)]
    /\ \A l \in DOMAIN p.loops : p.loops[l].parent \in {0} \cup (l + 1)..Len(p.loops)
    /\ \A c \in DOMAIN p.calls : p.calls[c].home \in DOMAIN p.loops

VARIABLES
  source,      \* the program: its loops as they are visited, its calls as they stand
  build,     \* "dump" or "relax", then "built", then what runs; or how a build failed
  site,      \* the loop that is visited next
  found,     \* loops_to_npu and calls_to_npu
  named,     \* relaxConfig: the lines listed, and then those with a parameter
  replaced   \* the calls replaced, with the loop each was replaced in

buildVars == <<source, build, site, found, named, replaced>>

Line(l) == source.loops[l].line
Kind(c) == source.calls[c].kind
Home(c) == source.calls[c].home

\* The loops around a loop, and itself.
Closed(S) == \A k \in S : source.loops[k].parent \in S \cup {0}
Around(l) ==
  {k \in DOMAIN source.loops :
     \A S \in SUBSET DOMAIN source.loops : l \in S /\ Closed(S) => k \in S}
CallsIn(l) == {c \in DOMAIN source.calls : l \in Around(Home(c))}

-----------------------------------------------------------------------------
(* tryToNPU.                                                               *)

\* Changed: only the dependencies of the call itself are looked at.
NoWayAround(tried, done) == TRUE

\* BB_INTERSECTION: on the way to the call nothing leads to the latch, and nothing
\* behind it leads back.  So it is unless the call is in a loop within the loop,
\* perforation has put a way to the latch there, or the batch of another call has.
OnEveryPath(tried, done) ==
  /\ tried.loop = Home(tried.call)
  /\ ~(build = "relax" /\ source.loops[tried.loop].perforated)
  /\ \A other \in done : other.loop # tried.loop

\* The loops of the function are looked up among those of its caller, and are not
\* found there.
CanReplace(tried, done) ==
  /\ source.loops[tried.loop].sound
  /\ source.calls[tried.call].fits
  /\ OnEveryPath(tried, done)

\* The calls are tried in turn, under the name of the loop that is visited.
Replacing(waits) ==
  LET done[n \in 0..Len(waits)] ==
        IF n = 0 THEN replaced
        ELSE LET before == done[n - 1]
             IN IF CanReplace(waits[n], before) THEN before \cup {waits[n]} ELSE before
  IN done[Len(waits)]

-----------------------------------------------------------------------------
(* tryToOptimizeLoop.                                                      *)

Visiting == build \in {"dump", "relax"} /\ site \in DOMAIN source.loops

\* What has replaced a call is inline assembly, in a block that was added to the
\* loop and to those around it, behind all others.
Replaced == {tried.call : tried \in replaced}
HasAssembly(l) == \E c \in CallsIn(l) : Kind(c) = "asm" \/ c \in Replaced

\* The calls that are looked at: those before the first inline assembly.
LookedAt(l) ==
  {c \in CallsIn(l) \ Replaced : \A a \in CallsIn(l) : Kind(a) = "asm" => c < a}

\* find_inst: a call that still waits is not taken again.
Waiting == {found[n].call : n \in DOMAIN found}
InOrder(S) ==
  CHOOSE s \in [1..Cardinality(S) -> S] : \A m, n \in DOMAIN s : m < n => s[m] < s[n]
Found ==
  LET new == InOrder({c \in LookedAt(site) : Kind(c) = "pure"} \ Waiting)
  IN found \o [n \in DOMAIN new |-> [loop |-> site, call |-> new[n]]]

Skip ==
  /\ Visiting /\ source.loops[site].skipped
  /\ site' = site + 1
  /\ UNCHANGED <<source, build, found, named, replaced>>

\* The called function of a call through a pointer is NULL, and has no name.
Considered == Visiting /\ ~source.loops[site].skipped
HasIndirect == \E c \in LookedAt(site) : Kind(c) = "indirect"
Crash ==
  /\ Considered /\ HasIndirect
  /\ build' = "crashed"
  /\ UNCHANGED <<source, site, found, named, replaced>>

\* The visit ends at inline assembly; what was found until then goes on waiting.
Reject ==
  /\ Considered /\ ~HasIndirect /\ HasAssembly(site)
  /\ found' = Found /\ site' = site + 1
  /\ UNCHANGED <<source, build, named, replaced>>

\* A loop of an earlier function is gone with the analysis that had found it.
Dangling(waits) ==
  \E n \in DOMAIN waits :
    source.loops[waits[n].loop].function # source.loops[site].function

Tries == Considered /\ ~HasIndirect /\ ~HasAssembly(site)
FollowDangling ==
  /\ Tries /\ Dangling(Found)
  /\ build' = "undefined"
  /\ UNCHANGED <<source, site, found, named, replaced>>

\* Changed: what was tried goes on waiting.
KeepWaiting(waits) == waits

\* calls_to_npu and loops_to_npu are cleared.
Clear(waits) == <<>>

List ==
  /\ Tries /\ ~Dangling(Found) /\ build = "dump"
  /\ named' = IF \E n \in DOMAIN Found : CanReplace(Found[n], {})
              THEN named \cup {Line(site)} ELSE named
  /\ found' = Clear(Found) /\ site' = site + 1
  /\ UNCHANGED <<source, build, replaced>>

Relax ==
  /\ Tries /\ ~Dangling(Found) /\ build = "relax"
  /\ replaced' = IF Line(site) \in named THEN Replacing(Found) ELSE replaced
  /\ found' = Clear(Found) /\ site' = site + 1
  /\ UNCHANGED <<source, build, named>>

-----------------------------------------------------------------------------
(* The two builds, and what runs.                                          *)

AtEnd == site = Len(source.loops) + 1

\* The search gives some of the listed lines a parameter; the pass starts anew.
Configure ==
  /\ build = "dump" /\ AtEnd
  /\ named' \in SUBSET named
  /\ build' = "relax" /\ site' = 1 /\ found' = <<>>
  /\ UNCHANGED <<source, replaced>>

EndBuild ==
  /\ build = "relax" /\ AtEnd
  /\ build' = "built"
  /\ UNCHANGED <<source, site, found, named, replaced>>

\* The loop of one of the calls is taken, and what the compiler knew is gone.
Start ==
  /\ build = "built"
  /\ \E c \in DOMAIN source.calls :
       Kind(c) = "pure" /\ build' = IF c \in Replaced THEN "rewritten" ELSE "as it was"
  /\ source' = [loops |-> <<>>, calls |-> <<>>] /\ site' = 1
  /\ found' = <<>> /\ named' = {} /\ replaced' = {}

\* It runs, as it was built.
Run ==
  /\ build \in {"rewritten", "as it was"} /\ build' = "run"
  /\ loop' \in Loops /\ Rewritten' = (build = "rewritten")
  /\ UNCHANGED <<entry, trip, mem, reg, feed, effects, wild, pc, buffers, output>>
  /\ UNCHANGED <<source, site, found, named, replaced>>

InitSelection ==
  /\ loop = CHOOSE l \in Loops : TRUE
  /\ BatchInit
  /\ source \in Programs /\ build = "dump" /\ site = 1
  /\ found = <<>> /\ named = {} /\ replaced = {}

Build == Skip \/ Crash \/ Reject \/ FollowDangling \/ List \/ Relax \/ Configure \/ EndBuild \/ Start

NextSelection ==
  \/ Build /\ UNCHANGED batchVars
  \/ Run
  \/ build = "run" /\ BatchNext /\ UNCHANGED buildVars

SpecSelection == InitSelection /\ [][NextSelection]_<<batchVars, buildVars>>

-----------------------------------------------------------------------------
(* Properties.                                                             *)

TypeOKSelection ==
  /\ BatchTypeOK
  /\ build \in {"dump", "relax", "built", "rewritten", "as it was", "run",
                "crashed", "undefined"}
  /\ site \in 1..(Len(source.loops) + 1)
  /\ found \in Seq([loop : DOMAIN source.loops, call : DOMAIN source.calls])
  /\ replaced \subseteq [loop : DOMAIN source.loops, call : DOMAIN source.calls]

\* A loop that was changed stays as it was made: each is rewritten once at most, by one of
\* the two passes and for one of its own calls.
Fitting(c) ==
  /\ Kind(c) = "pure" /\ source.calls[c].fits
  /\ source.loops[Home(c)].sound /\ ~source.loops[Home(c)].perforated
RewritesDoNotMeet ==
  \A tried \in replaced :
    /\ tried.loop = Home(tried.call) /\ Fitting(tried.call)
    /\ \A other \in replaced : other.loop = tried.loop => other = tried

\* A loop that is looked at to its end is rewritten if its own name has a parameter,
\* and only then, for the first of its calls that can be replaced; so it is whatever
\* calls of other loops were still waiting.
NamesDecide ==
  \A l \in DOMAIN source.loops :
    LET fitting == {c \in CallsIn(l) : Home(c) = l /\ Fitting(c)}
        rewritten == {tried.call : tried \in {e \in replaced : e.loop = l}}
    IN (/\ ~source.loops[l].skipped
        /\ \A c \in CallsIn(l) : Kind(c) # "asm"
        /\ \A tried \in replaced : l \in Around(tried.loop) => tried.loop = l) =>
       rewritten = IF Line(l) \notin named THEN {}
                   ELSE {c \in fitting : \A d \in fitting : c <= d}

\* What the relaxed build makes of a program: no loop is rewritten twice, and a loop
\* without inline assembly in it, written or inserted there, is rewritten as its own
\* name says, for the first call that can be replaced, whatever else was waiting.
LoopsAreRewrittenAsNamed == RewritesDoNotMeet /\ (build = "built" => NamesDecide)

\* docs/hack.md: the configuration file determines which optimizations are enabled.
\* Then a call is replaced only if the name of its own loop has a parameter.
OnlyNamedAreRewritten ==
  build = "built" => \A tried \in replaced : Line(tried.loop) \in named

\* The comment in tryToNPU: no escaping stores inside loops are allowed for now.
NoStoresInLoops == \A tried \in replaced : ~source.calls[tried.call].storesInLoop

\* A program is either built or rejected by its compiler, never by chance.
BuildIsDefined == build # "undefined"

\* Loops with calls through pointers can be built.
IndirectCallsAreBuilt == build # "crashed"
=============================================================================
