---------------------------- MODULE SyncElision ----------------------------
(***************************************************************************)
(* Elision of locks and barriers (pass/desync.cpp), over the two builds    *)
(* that share a configuration file (pass/transform.cpp): the precise build *)
(* lists the sites whose critical section is approximate, the relaxed one  *)
(* erases those that have a parameter in the file.                         *)
(*                                                                         *)
(* A function is a control-flow graph whose block 1 is the entry; its      *)
(* blocks are numbered in their order in the function.  Every instruction  *)
(* is a source line of its own.  What is not synchronization is a blocker  *)
(* of preciseEscapeCheck (a precise instruction, a call of an ACCEPTRegion *)
(* or through a pointer) or none (an approximate instruction: one with an  *)
(* operation that errors can be injected into, or a plain one without).    *)
(***************************************************************************)
EXTENDS Integers, Sequences, FiniteSets

CONSTANTS
  Graphs,    \* control-flow graphs: functions from blocks to sets of blocks
  Bodies,    \* sequences of instructions that a block may hold
  Mutexes,
  MaxLen     \* how long a block may be

Instructions ==
  [op : {"acquire", "release"}, mutex : Mutexes]
  \cup [op : {"barrier", "precise", "region", "indirect", "approx", "plain"},
        mutex : {"none"}]

ASSUME ConstantsAssumption ==
  /\ MaxLen \in Nat
  /\ \A g \in Graphs : g \in Seq(SUBSET DOMAIN g) /\ g # << >>
  /\ \A c \in Bodies : c \in Seq(Instructions) /\ Len(c) \in 1..MaxLen

VARIABLES
  graph, code,   \* the function
  phase,         \* "dump", "relax" or "done"
  here,          \* the instruction that optimizeSync looks at
  relaxConfig,   \* the sites with a parameter, in the file between the builds
  erased         \* the instructions the relaxed build has erased

vars == <<graph, code, phase, here, relaxConfig, erased>>

\* An instruction is named by its place.
Places == {i \in (DOMAIN graph) \X (1..MaxLen) : i[2] <= Len(code[i[1]])}
Present == Places \ erased
Op(i) == code[i[1]][i[2]].op
Mutex(i) == code[i[1]][i[2]].mutex
IsSync(i) == Op(i) \in {"acquire", "release", "barrier"}
Blocks(i) == Op(i) \in {"precise", "region", "indirect"}

Earlier(i, j) == i[1] < j[1] \/ (i[1] = j[1] /\ i[2] < j[2])

\* What lies behind a set of nodes of a graph: the least set that holds them and
\* what its own edges lead to.
Reached(edges, starts) ==
  LET closed == {T \in SUBSET DOMAIN edges :
                   starts \subseteq T /\ \A s \in T : edges[s] \subseteq T}
  IN {b \in DOMAIN edges : \A T \in closed : b \in T}

\* The graph without the edges out of some blocks.
Stopped(bs) == [b \in DOMAIN graph |-> IF b \in bs THEN {} ELSE graph[b]]
Exits == {b \in DOMAIN graph : graph[b] = {}}

-----------------------------------------------------------------------------
(* findCritSec.                                                            *)

\* Dominance of instructions, and post-dominance of their blocks.
BlockDominates(a, b) == a = b \/ b \notin Reached(Stopped({a}), {1})
Dominates(i, j) ==
  IF i[1] = j[1] THEN i[2] < j[2] ELSE BlockDominates(i[1], j[1])
PostDominates(a, b) == a = b \/ Reached(Stopped({a}), {b}) \cap (Exits \ {a}) = {}

\* instructionsBetween: the rest of the first block, and the blocks behind it up
\* to the end; the first block is not visited again, nor anything behind the end.
Between(start, end) ==
  IF end[1] = start[1]
  THEN {i \in Present : i[1] = start[1] /\ i[2] \in (start[2] + 1)..(end[2] - 1)}
  ELSE LET visited == Reached(Stopped({start[1], end[1]}), graph[start[1]]) \ {start[1]}
       IN {i \in Present :
             \/ i[1] = start[1] /\ i[2] > start[2]
             \/ i[1] \in visited /\ (i[1] = end[1] => i[2] < end[2])}

Matching(start) ==
  {end \in Present \ {start} :
     /\ Op(end) = IF Op(start) = "acquire" THEN "release" ELSE "barrier"
     /\ Dominates(start, end) /\ PostDominates(end[1], start[1])
     /\ \A i \in Between(start, end) : ~IsSync(i)}

First(is) == CHOOSE i \in is : \A j \in is \ {i} : Earlier(i, j)

\* Changed: what is between is looked at for barriers only.
IsBarrierSite(start) ==
  /\ Matching(start) # {}
  /\ Op(start) = "barrier" =>
       \A i \in Between(start, First(Matching(start))) : ~Blocks(i)

\* findApproxCritSec: the first match, and nothing precise before it.
IsSite(start) ==
  /\ Matching(start) # {}
  /\ \A i \in Between(start, First(Matching(start))) : ~Blocks(i)

-----------------------------------------------------------------------------
(* The two builds.                                                         *)

Entries == {i \in Present : Op(i) \in {"acquire", "barrier"}}
Ahead(is) == {i \in is : here = <<0, 0>> \/ Earlier(here, i)}
NoPlace == <<0, 0>>

\* The loop of optimizeSync comes to the next acquire or barrier.
Visit(i) == i \in Ahead(Entries) /\ \A j \in Ahead(Entries) \ {i} : Earlier(i, j)

\* optimizeAcquire and optimizeBarrier in the precise build, which lists a site
\* with the parameter 0.  The file then gives any of them a parameter.
DumpSite ==
  /\ phase = "dump"
  /\ \E i \in Entries :
       /\ Visit(i) /\ here' = i
       /\ relaxConfig' = IF IsSite(i) THEN relaxConfig \cup {i} ELSE relaxConfig
  /\ UNCHANGED <<graph, code, phase, erased>>

EndDump ==
  /\ phase = "dump" /\ Ahead(Entries) = {}
  /\ phase' = "relax" /\ here' = NoPlace
  /\ relaxConfig' \in SUBSET relaxConfig
  /\ UNCHANGED <<graph, code, erased>>

KeepSite ==
  /\ phase = "relax"
  /\ \E i \in Entries :
       Visit(i) /\ here' = i /\ (i \notin relaxConfig \/ ~IsSite(i))
  /\ UNCHANGED <<graph, code, phase, relaxConfig, erased>>

\* Changed: the release stays.
ElidedAlone(i) == {i}

\* An acquire goes with its release, a barrier alone; the loop leaves the block.
Elided(i) == IF Op(i) = "acquire" THEN {i, First(Matching(i))} ELSE {i}

ElideSite ==
  /\ phase = "relax"
  /\ \E i \in Entries :
       /\ Visit(i) /\ i \in relaxConfig /\ IsSite(i)
       /\ erased' = erased \cup Elided(i)
       /\ here' = <<i[1], MaxLen>>
  /\ UNCHANGED <<graph, code, phase, relaxConfig>>

EndRelax ==
  /\ phase = "relax" /\ Ahead(Entries) = {}
  /\ phase' = "done"
  /\ UNCHANGED <<graph, code, here, relaxConfig, erased>>

-----------------------------------------------------------------------------
(* What the function does, for the properties: the walks through its code. *)

After(i) ==
  {j \in Places : \/ i[1] = j[1] /\ j[2] = i[2] + 1
                  \/ i[2] = Len(code[i[1]]) /\ j[2] = 1 /\ j[1] \in graph[i[1]]}

\* A point of a walk: the instruction ahead, the mutexes held there by the code
\* as written and by the code without the erased instructions, and the last
\* acquire and barrier behind.
Holds(held, i) ==
  CASE Op(i) = "acquire" -> held \cup {Mutex(i)}
    [] Op(i) = "release" -> held \ {Mutex(i)}
    [] OTHER -> held
Misuse(held, i) ==
  \/ Op(i) = "acquire" /\ Mutex(i) \in held
  \/ Op(i) = "release" /\ Mutex(i) \notin held
AtExit(i) == i[1] \in Exits /\ i[2] = Len(code[i[1]])

Steps(w) ==
  {[at |-> j, held |-> Holds(w.held, w.at),
    kept |-> IF w.at \in erased THEN w.kept ELSE Holds(w.kept, w.at),
    acquire |-> IF Op(w.at) = "acquire" THEN w.at ELSE w.acquire,
    barrier |-> IF Op(w.at) = "barrier" THEN w.at ELSE w.barrier] : j \in After(w.at)}

Entrance ==
  [at |-> <<1, 1>>, held |-> {}, kept |-> {}, acquire |-> NoPlace, barrier |-> NoPlace]
Walks ==
  LET grow[n \in Nat] ==
        IF n = 0 THEN [seen |-> {Entrance}, new |-> {Entrance}]
        ELSE LET w == grow[n - 1]
                 more == (UNION {Steps(v) : v \in w.new}) \ w.seen
             IN [seen |-> w.seen \cup more, new |-> more]
  IN grow[3 * Cardinality(Places)].seen

WellLocked ==
  \A w \in Walks :
    ~Misuse(w.held, w.at) /\ (AtExit(w.at) => Holds(w.held, w.at) = {})

Init ==
  /\ graph \in Graphs /\ code \in [DOMAIN graph -> Bodies]
  /\ phase = "dump" /\ here = NoPlace
  /\ relaxConfig = {} /\ erased = {}
  /\ WellLocked

Next == DumpSite \/ EndDump \/ KeepSite \/ ElideSite \/ EndRelax

Spec == Init /\ [][Next]_vars

-----------------------------------------------------------------------------
(* Properties.                                                             *)

TypeOK ==
  /\ graph \in Graphs /\ code \in [DOMAIN graph -> Bodies]
  /\ phase \in {"dump", "relax", "done"}
  /\ here \in (DOMAIN graph) \X (1..MaxLen) \/ here = NoPlace
  /\ relaxConfig \subseteq Places /\ erased \subseteq Places

\* The comment on findCritSec: what is erased with an acquire is a corresponding
\* release.  A function that uses its mutexes well then still does, on every path
\* and whichever sites are chosen.
LocksStayBalanced ==
  phase = "done" =>
    \A w \in Walks :
      w.at \notin erased =>
        /\ ~Misuse(w.kept, w.at)
        /\ AtExit(w.at) => Holds(w.kept, w.at) = {}

\* So it does if it has one mutex and no release serves two acquires.
OneMutex ==
  \A i, j \in Places :
    {Op(i), Op(j)} \subseteq {"acquire", "release"} => Mutex(i) = Mutex(j)
OneToOne ==
  LET releases == {w \in Walks : Op(w.at) = "release"}
  IN \A v, w \in releases : v.at = w.at => v.acquire = w.acquire
PairedLocksStayBalanced == phase = "done" /\ OneMutex /\ OneToOne => LocksStayBalanced

\* The comment on findCritSec: everything between a barrier and the next one is
\* looked at.  Then no precise instruction loses the barrier that it runs behind.
PreciseStaysBehindBarrier ==
  phase = "done" => \A w \in Walks : Blocks(w.at) => w.barrier \notin erased

\* In a function with one mutex, on no path, and whichever sites are chosen, does a
\* precise instruction lose the lock it was written under or the barrier that it
\* runs behind, unless it stands in the block of an elided acquire or barrier, before
\* it: a loop can come back to it there.
BeforeElided(i) ==
  \E j \in erased : Op(j) # "release" /\ j[1] = i[1] /\ i[2] < j[2]
PreciseStaysGuarded ==
  phase = "done" /\ OneMutex =>
    \A w \in Walks :
      Blocks(w.at) /\ ~BeforeElided(w.at) =>
        w.held \subseteq w.kept /\ w.barrier \notin erased

\* docs/hack.md: the configuration file determines which optimizations are
\* enabled in the relaxed build.
ConfigIsApplied == phase = "done" => relaxConfig \subseteq erased
=============================================================================
