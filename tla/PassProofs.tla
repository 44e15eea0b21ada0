----------------------------- MODULE PassProofs -----------------------------
(***************************************************************************)
(* What holds of three passes of the compiler, for any programs:           *)
(*  - the elision of locks and barriers, and error injection behind it:    *)
(*    precise code keeps its locks and barriers, and hooks stay in their   *)
(*    blocks;                                                              *)
(*  - the selection of the calls that the accelerator replaces: a loop is  *)
(*    rewritten once, as its own name says;                                *)
(*  - the batches of a loop that was rewritten: what is restored for the   *)
(*    rest of a trip has the values of its own trip.                       *)
(***************************************************************************)
EXTENDS Injection, NpuSelection, InductionLemmas

-----------------------------------------------------------------------------
(* Synchronization and injection.                                          *)

\* What names the instructions of the function when nothing is erased.
Listing == {NameAsListed(i) : i \in {j \in Places : CanInject(j)}}

TypeInv ==
  /\ graph \in Graphs /\ code \in [DOMAIN graph -> Bodies]
  /\ phase \in {"dump", "relax", "done", "injected", "crashed"}
  /\ relaxConfig \subseteq Places /\ erased \subseteq Places

\* What runs from an instruction to another one on paths that do not come back to the
\* block of the first, without the two.
Inside(a, r) ==
  IF r[1] = a[1]
  THEN {x \in Places : x[1] = a[1] /\ a[2] < x[2] /\ x[2] < r[2]}
  ELSE {x \in Places :
          \/ x[1] = a[1] /\ a[2] < x[2]
          \/ /\ x[1] \in Reached(Stopped({a[1], r[1]}), graph[a[1]]) \ {a[1]}
             /\ x[1] = r[1] => x[2] < r[2]}

\* An elided acquire or barrier has an end, and nothing precise is inside.
Covers(a, r) ==
  /\ Op(r) = IF Op(a) = "acquire" THEN "release" ELSE "barrier"
  /\ r[1] = a[1] => a[2] < r[2]
  /\ \A x \in Inside(a, r) : ~Blocks(x)

ErasedInv ==
  /\ phase = "dump" => erased = {}
  /\ \A a \in erased : IsSync(a) /\ (Op(a) # "release" => \E r \in Places : Covers(a, r))

\* An acquire and a release that were erased together: the one dominates the other,
\* and what synchronizes inside has been erased.
Paired(a, r) ==
  /\ Op(a) = "acquire" /\ Covers(a, r) /\ Dominates(a, r)
  /\ \A x \in Inside(a, r) : IsSync(x) => x \in erased

PairInv ==
  /\ \A a \in erased : Op(a) = "acquire" => \E r \in erased : Paired(a, r)
  /\ \A r \in erased : Op(r) = "release" => \E a \in erased : Paired(a, r)

HookInv ==
  /\ phase \in {"dump", "crashed"} => listed = {}
  /\ phase \in {"relax", "done", "injected"} => listed = Listing
  /\ phase # "injected" => enabled = {} /\ hooked = {}
  /\ phase = "injected" => enabled \subseteq listed /\ hooked = Hooked(enabled)

IInv == TypeInv /\ ErasedInv /\ PairInv /\ HookInv

-----------------------------------------------------------------------------
(* The function.                                                           *)

\* Places are numbered from 1, their blocks are those of the graph, and the first
\* block has a first instruction.
LEMMA PlacesAreNumbered ==
  ASSUME TypeInv
  PROVE  /\ \A i \in Places : /\ i = <<i[1], i[2]>> /\ i[1] \in DOMAIN graph
                              /\ i[1] \in Nat \ {0} /\ i[2] \in Nat \ {0}
                              /\ i[2] <= Len(code[i[1]]) /\ i[2] <= MaxLen
         /\ \A b \in DOMAIN graph : /\ graph[b] \subseteq DOMAIN graph
                                    /\ Len(code[b]) \in Nat \ {0} /\ <<b, 1>> \in Places
         /\ 1 \in DOMAIN graph
         /\ NoPlace \notin Places
         /\ IsFiniteSet(Places)
<1>1. /\ graph \in Seq(SUBSET DOMAIN graph) /\ graph # << >>
      /\ \A b \in DOMAIN graph : /\ code[b] \in Seq(Instructions)
                                 /\ Len(code[b]) \in 1..MaxLen
      /\ MaxLen \in Nat
  BY ConstantsAssumption DEF TypeInv
<1>2. PICK n \in Nat \ {0} : DOMAIN graph = 1..n
  <2>1. Len(graph) \in Nat /\ DOMAIN graph = 1..Len(graph) /\ Len(graph) # 0
    BY <1>1
  <2>. QED  BY <2>1
<1>3. \A b \in DOMAIN graph : Len(code[b]) \in Nat \ {0} /\ <<b, 1>> \in Places
  BY <1>1 DEF Places
<1>4. \A b \in DOMAIN graph : graph[b] \subseteq DOMAIN graph
  BY <1>1
<1>5. ASSUME NEW i \in Places
      PROVE  /\ i = <<i[1], i[2]>> /\ i[1] \in DOMAIN graph
             /\ i[1] \in Nat \ {0} /\ i[2] \in Nat \ {0}
             /\ i[2] <= Len(code[i[1]]) /\ i[2] <= MaxLen
  BY <1>1, <1>2 DEF Places
<1>6. NoPlace \notin Places
  BY <1>5 DEF NoPlace
<1>7. IsFiniteSet(Places)
  <2>1. IsFiniteSet(1..n) /\ IsFiniteSet(1..MaxLen)
    BY <1>1, FS_Interval
  <2>2. IsFiniteSet((1..n) \X (1..MaxLen))
    BY <2>1, FS_Product
  <2>. QED  BY <1>2, <2>2, FS_Subset DEF Places
<1>. QED  BY <1>2, <1>3, <1>4, <1>5, <1>6, <1>7

\* The function stays, and so does what is said of it alone.
LEMMA SameFunction ==
  ASSUME UNCHANGED <<graph, code>>
  PROVE  /\ Places' = Places
         /\ \A i : Op(i)' = Op(i) /\ Mutex(i)' = Mutex(i)
         /\ \A i : (IsSync(i)' <=> IsSync(i)) /\ (Blocks(i)' <=> Blocks(i))
         /\ \A i : CanInject(i)' <=> CanInject(i)
         /\ \A a, r : /\ Inside(a, r)' = Inside(a, r)
                      /\ Covers(a, r)' <=> Covers(a, r)
                      /\ Dominates(a, r)' <=> Dominates(a, r)
         /\ Listing' = Listing
<1>1. Places' = Places
  BY DEF Places
<1>2. \A i : Op(i)' = Op(i) /\ Mutex(i)' = Mutex(i)
  BY DEF Op, Mutex
<1>3. \A i : (IsSync(i)' <=> IsSync(i)) /\ (Blocks(i)' <=> Blocks(i))
  BY <1>2 DEF IsSync, Blocks
<1>4. \A i : CanInject(i)' <=> CanInject(i)
  BY <1>2 DEF CanInject, IsApprox
<1>5. \A a, r : Inside(a, r)' = Inside(a, r)
  BY <1>1 DEF Inside, Reached, Stopped
<1>6. \A a, r : Covers(a, r)' <=> Covers(a, r)
  BY <1>2, <1>3, <1>5 DEF Covers
<1>7. \A i : NameAsListed(i)' = NameAsListed(i)
  BY <1>2 DEF NameAsListed, Name
<1>8. Listing' = Listing
  BY <1>1, <1>4, <1>7 DEF Listing
<1>9. \A a, r : Dominates(a, r)' <=> Dominates(a, r)
  BY DEF Dominates, BlockDominates, Reached, Stopped
<1>. QED  BY <1>1, <1>2, <1>3, <1>4, <1>5, <1>6, <1>8, <1>9

\* More may be erased: what was paired stays so.
LEMMA PairsStay ==
  ASSUME UNCHANGED <<graph, code>>, erased \subseteq erased'
  PROVE  \A a, r : Paired(a, r) => Paired(a, r)'
BY SameFunction DEF Paired

\* A set of places has a first one.
LEMMA FirstIsOne ==
  ASSUME TypeInv, NEW S \in SUBSET Places, S # {}
  PROVE  First(S) \in S
<1>. DEFINE bs == {i[1] : i \in S}
<1>1. \A i \in S : i = <<i[1], i[2]>> /\ i[1] \in Nat /\ i[2] \in Nat
  BY PlacesAreNumbered
<1>2. PICK b \in bs : \A c \in bs : b <= c
  <2>1. bs \in SUBSET Nat /\ bs # {}
    BY <1>1
  <2>. HIDE DEF bs
  <2>. QED  BY <2>1, LeastNatural
<1>. DEFINE ns == {n \in Nat : <<b, n>> \in S}
<1>3. PICK n \in ns : \A m \in ns : n <= m
  <2>1. ns \in SUBSET Nat /\ ns # {}
    BY <1>1
  <2>. HIDE DEF ns
  <2>. QED  BY <2>1, LeastNatural
<1>4. <<b, n>> \in S
  OBVIOUS
<1>5. ASSUME NEW j \in S \ {<<b, n>>} PROVE Earlier(<<b, n>>, j)
  <2>1. b <= j[1] /\ b \in Nat /\ j[1] \in Nat /\ j[2] \in Nat /\ j = <<j[1], j[2]>>
    BY <1>1, <1>2
  <2>2. CASE b = j[1]
    <3>1. j[2] \in ns
      BY <2>1, <2>2
    <3>2. n <= j[2] /\ n # j[2] /\ n \in Nat
      BY <1>3, <2>1, <2>2, <3>1
    <3>3. <<b, n>>[1] = j[1] /\ <<b, n>>[2] < j[2]
      BY <2>1, <2>2, <3>2
    <3>. QED  BY <3>3 DEF Earlier
  <2>3. CASE b # j[1]
    BY <2>1, <2>3 DEF Earlier
  <2>. QED  BY <2>2, <2>3
<1>. HIDE DEF bs, ns
<1>. QED  BY <1>4, <1>5 DEF First

-----------------------------------------------------------------------------
(* The steps.                                                              *)

\* Where a site is elided, nothing precise is inside: what Between leaves out of it
\* has been erased, and only synchronization is.
LEMMA SitesCover ==
  ASSUME IInv, NEW i \in Entries, IsSite(i)
  PROVE  LET r == First(Matching(i))
         IN  /\ r \in Places /\ Covers(i, r) /\ Dominates(i, r)
             /\ \A x \in Inside(i, r) : IsSync(x) => x \in erased
<1>. DEFINE r == First(Matching(i))
<1>1. Matching(i) \subseteq Places /\ Matching(i) # {}
  BY DEF Matching, Present, IsSite
<1>2. r \in Matching(i)
  BY <1>1, FirstIsOne DEF IInv
<1>3. \A x \in Between(i, r) : ~Blocks(x) /\ ~IsSync(x)
  BY <1>2 DEF IsSite, Matching
<1>4. Op(i) \in {"acquire", "barrier"}
  BY DEF Entries
<1>. HIDE DEF r
<1>5. /\ r \in Places /\ i \in Places
      /\ Op(r) = IF Op(i) = "acquire" THEN "release" ELSE "barrier"
      /\ Dominates(i, r)
  BY <1>2 DEF Matching, Present, Entries
<1>6. r[1] = i[1] => i[2] < r[2]
  BY <1>5 DEF Dominates
<1>7. ASSUME NEW x \in Inside(i, r), x \notin Between(i, r) PROVE x \in erased
  <2>1. /\ x \in Places /\ x[2] \in Nat /\ i[2] \in Nat /\ r[2] \in Nat
    BY <1>5, PlacesAreNumbered DEF IInv, Inside
  <2>2. CASE r[1] = i[1]
    <3>1. x[2] \in (i[2] + 1)..(r[2] - 1)
      BY <2>1, <2>2 DEF Inside
    <3>. QED  BY <2>1, <2>2, <3>1, <1>7 DEF Inside, Between, Present
  <2>3. CASE r[1] # i[1]
    BY <2>1, <2>3, <1>7 DEF Inside, Between, Present
  <2>. QED  BY <2>2, <2>3
<1>8. ASSUME NEW x \in erased PROVE ~Blocks(x)
  BY DEF IInv, ErasedInv, IsSync, Blocks
<1>9. Covers(i, r)
  BY <1>3, <1>5, <1>6, <1>7, <1>8 DEF Covers
<1>. QED  BY <1>3, <1>5, <1>7, <1>9 DEF r

LEMMA InitIInv == InitInjection => IInv
BY DEF InitInjection, Init, IInv, TypeInv, ErasedInv, PairInv, HookInv, Places

\* The steps of both builds that erase nothing.
LEMMA LookIInv ==
  ASSUME IInv, DumpSite \/ KeepSite \/ EndRelax, UNCHANGED injectionVars
  PROVE  IInv'
<1>1. UNCHANGED <<graph, code, erased>>
  BY DEF DumpSite, KeepSite, EndRelax
<1>2. TypeInv'
  BY <1>1, SameFunction
     DEF IInv, TypeInv, DumpSite, KeepSite, EndRelax, Entries, Present
<1>3. ErasedInv' /\ PairInv'
  BY <1>1, SameFunction, PairsStay
     DEF IInv, ErasedInv, PairInv, DumpSite, KeepSite, EndRelax
<1>4. HookInv'
  <2>1. \/ phase = "dump" /\ phase' = "dump"
        \/ phase = "relax" /\ phase' \in {"relax", "done"}
    <3>1. DumpSite => phase = "dump" /\ phase' = phase
      BY DEF DumpSite
    <3>2. KeepSite => phase = "relax" /\ phase' = phase
      BY DEF KeepSite
    <3>3. EndRelax => phase = "relax" /\ phase' = "done"
      BY DEF EndRelax
    <3>. QED  BY <3>1, <3>2, <3>3
  <2>2. phase' # "injected" /\ phase # "injected"
    BY <2>1
  <2>. QED  BY <1>1, <2>1, <2>2, SameFunction DEF IInv, HookInv, injectionVars
<1>. QED  BY <1>2, <1>3, <1>4 DEF IInv

LEMMA ElideIInv ==
  ASSUME IInv, ElideSite, UNCHANGED injectionVars
  PROVE  IInv'
<1>1. UNCHANGED <<graph, code, phase, relaxConfig, injectionVars>> /\ phase = "relax"
  BY DEF ElideSite
<1>2. PICK i \in Entries : IsSite(i) /\ erased' = erased \cup Elided(i)
  BY DEF ElideSite
<1>. PICK r : r = First(Matching(i))
  OBVIOUS
<1>3. /\ r \in Places /\ Covers(i, r) /\ Dominates(i, r)
      /\ \A x \in Inside(i, r) : IsSync(x) => x \in erased
      /\ i \in Places /\ Op(i) \in {"acquire", "barrier"}
  BY <1>2, SitesCover DEF Entries, Present
<1>4. Elided(i) = IF Op(i) = "acquire" THEN {i, r} ELSE {i}
  BY DEF Elided
<1>5. TypeInv'
  BY <1>1, <1>2, <1>3, <1>4, SameFunction DEF IInv, TypeInv
<1>6. ErasedInv'
  <2>1. \A a \in Elided(i) : IsSync(a) /\ (Op(a) # "release" => a = i)
    BY <1>3, <1>4 DEF Covers, IsSync
  <2>2. \A a \in erased' : IsSync(a) /\ (Op(a) # "release" => \E e \in Places : Covers(a, e))
    BY <1>2, <1>3, <2>1 DEF IInv, ErasedInv
  <2>. QED  BY <1>1, <2>2, SameFunction DEF ErasedInv
<1>7. HookInv'
  BY <1>1, SameFunction DEF IInv, HookInv, injectionVars
<1>8. PairInv'
  <2>1. \A a, e \in erased : Paired(a, e) => Paired(a, e)'
    BY <1>1, <1>2, PairsStay
  <2>2. CASE Op(i) = "acquire"
    <3>1. erased' = erased \cup {i, r} /\ Op(r) = "release"
      BY <1>2, <1>3, <1>4, <2>2 DEF Covers
    <3>2. Paired(i, r)
      BY <1>3, <2>2 DEF Paired
    <3>3. Paired(i, r)'
      BY <1>1, <3>1, <3>2, PairsStay
    <3>. QED  BY <1>1, <2>1, <2>2, <3>1, <3>3, SameFunction DEF IInv, PairInv
  <2>3. CASE Op(i) = "barrier"
    <3>1. erased' = erased \cup {i}
      BY <1>2, <1>4, <2>3
    <3>. QED  BY <1>1, <2>1, <2>3, <3>1, SameFunction DEF IInv, PairInv
  <2>. QED  BY <1>3, <2>2, <2>3
<1>. QED  BY <1>5, <1>6, <1>7, <1>8 DEF IInv

LEMMA EndDumpIInv ==
  ASSUME IInv, EndDumpInject
  PROVE  IInv'
<1>1. /\ UNCHANGED <<graph, code, erased>> /\ phase = "dump" /\ phase' = "relax"
      /\ relaxConfig' \subseteq relaxConfig
  BY DEF EndDumpInject, EndDump
<1>2. TypeInv'
  BY <1>1, SameFunction DEF IInv, TypeInv
<1>3. ErasedInv' /\ PairInv'
  BY <1>1, SameFunction, PairsStay DEF IInv, ErasedInv, PairInv
<1>4. erased = {} /\ Present = Places
  BY <1>1 DEF IInv, ErasedInv, Present
<1>5. ASSUME NEW i \in Places PROVE Name(i) = NameAsListed(i)
  <2>1. i[2] \in Nat \ {0}
    BY PlacesAreNumbered DEF IInv
  <2>2. {n \in 1..(i[2] - 1) : <<i[1], n>> \notin erased} = 1..(i[2] - 1)
    BY <1>4
  <2>3. Cardinality(1..(i[2] - 1)) = i[2] - 1
    <3>. DEFINE n == i[2] - 1
    <3>1. n \in Int /\ (1 > n => n = 0) /\ n - 1 + 1 = n
      BY <2>1
    <3>. HIDE DEF n
    <3>2. Cardinality(1..n) = IF 1 > n THEN 0 ELSE n - 1 + 1
      BY <3>1, FS_Interval
    <3>3. Cardinality(1..n) = n
      BY <3>1, <3>2
    <3>. QED  BY <3>3 DEF n
  <2>4. Number(i) = i[2] - 1
    BY <2>2, <2>3 DEF Number
  <2>. QED  BY <2>4 DEF NameAsListed, Name
<1>6. listed' = Listing
  BY <1>4, <1>5 DEF EndDumpInject, Listing
<1>7. HookInv'
  BY <1>1, <1>6, SameFunction DEF IInv, HookInv, EndDumpInject
<1>. QED  BY <1>2, <1>3, <1>7 DEF IInv

LEMMA InjectIInv ==
  ASSUME IInv, Inject
  PROVE  IInv'
<1>1. /\ UNCHANGED <<graph, code, relaxConfig, erased, listed>>
      /\ phase = "done" /\ phase' = "injected"
      /\ enabled' \subseteq listed /\ hooked' = Hooked(enabled')
  BY DEF Inject
<1>2. TypeInv' /\ ErasedInv' /\ PairInv'
  BY <1>1, SameFunction, PairsStay DEF IInv, TypeInv, ErasedInv, PairInv
<1>3. Hooked(enabled)' = Hooked(enabled')
  BY <1>1 DEF Hooked, Present, Places, CanInject, IsApprox, HasHook, Name, Number, Op
<1>4. HookInv'
  BY <1>1, <1>3, SameFunction DEF IInv, HookInv
<1>. QED  BY <1>2, <1>4 DEF IInv

LEMMA StepIInv == IInv /\ [NextInjection]_<<vars, injectionVars>> => IInv'
<1>. SUFFICES ASSUME IInv, [NextInjection]_<<vars, injectionVars>> PROVE IInv'
  OBVIOUS
<1>1. CASE (DumpSite \/ KeepSite \/ EndRelax) /\ UNCHANGED injectionVars
  BY <1>1, LookIInv
<1>2. CASE ElideSite /\ UNCHANGED injectionVars
  BY <1>2, ElideIInv
<1>3. CASE EndDumpInject
  BY <1>3, EndDumpIInv
<1>4. CASE EndDumpCrash
  <2>1. /\ UNCHANGED <<graph, code, relaxConfig, erased, injectionVars>>
        /\ phase = "dump" /\ phase' = "crashed"
    BY <1>4 DEF EndDumpCrash
  <2>. QED
    BY <2>1, SameFunction, PairsStay
       DEF IInv, TypeInv, ErasedInv, PairInv, HookInv, injectionVars
<1>5. CASE Inject
  BY <1>5, InjectIInv
<1>6. CASE UNCHANGED <<vars, injectionVars>>
  <2>1. UNCHANGED <<graph, code, phase, relaxConfig, erased, listed, enabled, hooked>>
    BY <1>6 DEF vars, injectionVars
  <2>2. Hooked(enabled)' = Hooked(enabled)
    BY <2>1 DEF Hooked, Present, Places, CanInject, IsApprox, HasHook, Name, Number, Op
  <2>. QED
    BY <2>1, <2>2, SameFunction, PairsStay
       DEF IInv, TypeInv, ErasedInv, PairInv, HookInv
<1>. QED  BY <1>1, <1>2, <1>3, <1>4, <1>5, <1>6 DEF NextInjection

\* Whatever the function and the choice of sites: only synchronization is erased,
\* what is erased covers no precise instruction, names are those of the function
\* as written, and hooks are where the names point to.
THEOREM Invariance == SpecInjection => []IInv
<1>. QED  BY InitIInv, StepIInv, PTL DEF SpecInjection

\* The places and the names are those of the function, and few enough.
THEOREM TypeCorrect == SpecInjection => []TypeOKInjection
<1>1. IInv => TypeOKInjection
  <2>. SUFFICES ASSUME IInv PROVE TypeOKInjection
    OBVIOUS
  <2>1. ASSUME NEW i \in Places, CanInject(i)
        PROVE  NameAsListed(i) \in
                 [kind : {"coarse", "instruction"}, block : DOMAIN graph, number : 0..MaxLen]
    <3>1. i[1] \in DOMAIN graph /\ i[2] - 1 \in 0..MaxLen
      BY PlacesAreNumbered, ConstantsAssumption DEF IInv
    <3>2. NameAsListed(i) =
            [kind |-> IF Op(i) = "region" THEN "coarse" ELSE "instruction",
             block |-> i[1], number |-> i[2] - 1]
      BY DEF NameAsListed, Name
    <3>. QED  BY <3>1, <3>2
  <2>2. listed \in {{}, Listing} /\ enabled \subseteq listed
    BY DEF IInv, TypeInv, HookInv
  <2>3. hooked \subseteq Places
    BY DEF IInv, TypeInv, HookInv, Hooked, Present
  <2>. QED  BY <2>1, <2>2, <2>3 DEF IInv, TypeInv, TypeOKInjection, Listing
<1>. QED  BY <1>1, Invariance, PTL

-----------------------------------------------------------------------------
(* Walks.                                                                  *)

Points ==
  [at : Places, held : SUBSET {Mutex(i) : i \in Places},
   kept : SUBSET {Mutex(i) : i \in Places},
   acquire : Places \cup {NoPlace}, barrier : Places \cup {NoPlace}]

\* A walk stays in the function.
LEMMA PointsAreClosed ==
  ASSUME TypeInv
  PROVE  Entrance \in Points /\ \A w \in Points : Steps(w) \subseteq Points
<1>. DEFINE M == {Mutex(i) : i \in Places}
<1>1. Entrance \in Points
  BY PlacesAreNumbered DEF Entrance, Points
<1>2. ASSUME NEW w \in Points, NEW v \in Steps(w) PROVE v \in Points
  <2>1. PICK y \in After(w.at) :
          v = [at |-> y, held |-> Holds(w.held, w.at),
               kept |-> IF w.at \in erased THEN w.kept ELSE Holds(w.kept, w.at),
               acquire |-> IF Op(w.at) = "acquire" THEN w.at ELSE w.acquire,
               barrier |-> IF Op(w.at) = "barrier" THEN w.at ELSE w.barrier]
    BY DEF Steps
  <2>2. w.at \in Places /\ y \in Places
    BY DEF Points, After
  <2>3. \A held \in SUBSET M : Holds(held, w.at) \in SUBSET M
    BY <2>2 DEF Holds
  <2>4. w.held \in SUBSET M /\ w.kept \in SUBSET M
    BY DEF Points
  <2>. HIDE DEF M
  <2>5. /\ v.at \in Places /\ v.held \in SUBSET M /\ v.kept \in SUBSET M
    BY <2>1, <2>2, <2>3, <2>4
  <2>6. v.acquire \in Places \cup {NoPlace} /\ v.barrier \in Places \cup {NoPlace}
    BY <2>1, <2>2 DEF Points
  <2>. QED  BY <2>1, <2>5, <2>6 DEF Points, M
<1>. QED  BY <1>1, <1>2

\* The walks of a number of steps at most, for each number.
Growth(g) ==
  /\ g[0] = {Entrance}
  /\ \A n \in Nat :
       /\ g[n] \subseteq Points /\ g[n] \subseteq g[n + 1]
       /\ \A w \in g[n] : Steps(w) \subseteq g[n + 1]
       /\ \A w \in g[n + 1] \ g[n] : \E v \in g[n] : w \in Steps(v)

Depth == 3 * Cardinality(Places)

\* Walks are those of enough steps.
LEMMA WalksGrow ==
  ASSUME TypeInv
  PROVE  \E g : /\ Growth(g) /\ Depth \in Nat /\ Walks = g[Depth]
                /\ \A n \in Nat : n <= Depth => g[n] \subseteq Walks
<1>. DEFINE U == {z \in [seen : SUBSET Points, new : SUBSET Points] :
                    /\ z.new \subseteq z.seen
                    /\ \A w \in z.seen \ z.new : Steps(w) \subseteq z.seen}
            start == [seen |-> {Entrance}, new |-> {Entrance}]
            more(w) == (UNION {Steps(v) : v \in w.new}) \ w.seen
            next(w) == [seen |-> w.seen \cup more(w), new |-> more(w)]
            F == [w \in U |-> next(w)]
            Grows(g) == g = [n \in Nat |-> IF n = 0 THEN start ELSE next(g[n - 1])]
            grow == CHOOSE g : Grows(g)
<1>1. start \in U
  BY PointsAreClosed
<1>2. \A w \in U : next(w) \in U
  <2>. TAKE w \in U
  <2>1. w.new \subseteq Points /\ w.seen \subseteq Points
    OBVIOUS
  <2>2. more(w) \subseteq Points
    BY <2>1, PointsAreClosed
  <2>3. \A v \in w.new : Steps(v) \subseteq w.seen \cup more(w)
    OBVIOUS
  <2>. QED  BY <2>1, <2>2, <2>3
<1>3. F \in [U -> U]
  BY <1>2
<1>4. PICK g \in [Nat -> U] : g[0] = start /\ \A n \in Nat : g[n + 1] = F[g[n]]
  <2>. HIDE DEF U, start, next, more, F
  <2>. QED  BY <1>1, <1>3, Iteration
<1>5. \A n \in Nat : g[n + 1] = next(g[n])
  BY <1>4
<1>6. Grows(g)
  <2>. HIDE DEF start, next, U
  <2>1. ASSUME NEW n \in Nat PROVE g[n] = IF n = 0 THEN start ELSE next(g[n - 1])
    <3>1. CASE n = 0
      BY <1>4, <3>1
    <3>2. CASE n # 0
      <4>1. n - 1 \in Nat /\ (n - 1) + 1 = n
        BY <3>2
      <4>2. g[(n - 1) + 1] = next(g[n - 1])
        BY <1>5, <4>1
      <4>. QED  BY <3>2, <4>1, <4>2
    <3>. QED  BY <3>1, <3>2
  <2>. QED  BY <1>4, <2>1
<1>7. Grows(grow)
  <2>. HIDE DEF Grows
  <2>. QED  BY <1>6
<1>8. grow[0] = start /\ \A n \in Nat : grow[n + 1] = next(grow[n])
  <2>. HIDE DEF start, next, grow
  <2>1. ASSUME NEW n \in Nat PROVE grow[n + 1] = next(grow[n])
    <3>1. n + 1 \in Nat /\ n + 1 # 0 /\ (n + 1) - 1 = n
      OBVIOUS
    <3>. QED  BY <1>7, <3>1
  <2>. QED  BY <1>7, <2>1
<1>. DEFINE A == {n \in Nat : grow[n] \in U}
<1>9. A = Nat
  <2>. HIDE DEF start, next, U, grow
  <2>1. 0 \in A
    BY <1>1, <1>8
  <2>2. ASSUME NEW n \in A PROVE n + 1 \in A
    BY <1>2, <1>8, <2>2
  <2>3. A \in SUBSET Nat
    OBVIOUS
  <2>. HIDE DEF A
  <2>. QED  BY <2>1, <2>2, <2>3, Induction
<1>10. Depth \in Nat
  BY PlacesAreNumbered, FS_CardinalityType DEF Depth
<1>11. Walks = grow[Depth].seen
  BY Zenon DEF Walks, Depth
<1>. DEFINE h == [n \in Nat |-> grow[n].seen]
<1>12. Growth(h)
  <2>. HIDE DEF grow
  <2>1. h[0] = {Entrance}
    BY <1>8
  <2>2. ASSUME NEW n \in Nat
        PROVE  /\ h[n] \subseteq Points /\ h[n] \subseteq h[n + 1]
               /\ \A w \in h[n] : Steps(w) \subseteq h[n + 1]
               /\ \A w \in h[n + 1] \ h[n] : \E v \in h[n] : w \in Steps(v)
    <3>. DEFINE z == grow[n]
    <3>1. z \in U
      BY <1>9
    <3>2. h[n] = z.seen /\ h[n + 1] = z.seen \cup more(z)
      <4>1. grow[n + 1] = next(z) /\ n + 1 \in Nat
        <5>. HIDE DEF next
        <5>. QED  BY <1>8
      <4>2. next(z).seen = z.seen \cup more(z)
        BY Zenon
      <4>. HIDE DEF z, more, next
      <4>3. h[n + 1] = next(z).seen
        BY <4>1
      <4>4. h[n] = z.seen
        BY DEF z
      <4>. QED  BY <4>2, <4>3, <4>4
    <3>. HIDE DEF z, h
    <3>3. /\ z.seen \subseteq Points /\ z.new \subseteq z.seen
          /\ \A w \in z.seen \ z.new : Steps(w) \subseteq z.seen
      BY <3>1
    <3>4. \A w \in z.new : Steps(w) \subseteq z.seen \cup more(z)
      OBVIOUS
    <3>. QED  BY <3>2, <3>3, <3>4
  <2>. HIDE DEF h
  <2>. QED  BY <2>1, <2>2 DEF Growth
<1>13. Walks = h[Depth]
  BY <1>10, <1>11
<1>. HIDE DEF h
<1>14. ASSUME NEW n \in Nat, n <= Depth PROVE h[n] \subseteq Walks
  <2>. DEFINE B == {m \in Nat : n <= m => h[n] \subseteq h[m]}
  <2>1. 0 \in B
    <3>1. n <= 0 => n = 0
      OBVIOUS
    <3>. QED  BY <3>1
  <2>2. ASSUME NEW m \in B PROVE m + 1 \in B
    <3>1. n <= m + 1 => n = m + 1 \/ n <= m
      OBVIOUS
    <3>2. h[m] \subseteq h[m + 1]
      BY <1>12 DEF Growth
    <3>. QED  BY <3>1, <3>2
  <2>3. B \in SUBSET Nat
    OBVIOUS
  <2>. HIDE DEF B
  <2>4. B = Nat
    BY <2>1, <2>2, <2>3, Induction
  <2>. QED  BY <1>10, <1>13, <1>14, <2>4 DEF B
<1>. QED  BY <1>10, <1>12, <1>13, <1>14

StaysIn(Good) ==
  Entrance \in Good /\ \A w \in Good \cap Walks : Steps(w) \cap Walks \subseteq Good

\* What holds at the entrance and is kept by each step holds on all walks.
LEMMA WalksStay ==
  ASSUME TypeInv, NEW Good, StaysIn(Good)
  PROVE  Walks \subseteq Good
<1>1. PICK g : /\ Growth(g) /\ Depth \in Nat /\ Walks = g[Depth]
               /\ \A n \in Nat : n <= Depth => g[n] \subseteq Walks
  BY WalksGrow
<1>. DEFINE A == {n \in Nat : n <= Depth => g[n] \subseteq Good}
<1>2. 0 \in A
  BY <1>1 DEF Growth, StaysIn
<1>3. ASSUME NEW n \in A PROVE n + 1 \in A
  <2>. SUFFICES ASSUME n + 1 <= Depth PROVE g[n + 1] \subseteq Good
    BY <1>3
  <2>1. n <= Depth /\ n \in Nat /\ n + 1 \in Nat
    BY <1>1, <1>3
  <2>2. g[n] \subseteq Good /\ g[n] \subseteq Walks /\ g[n + 1] \subseteq Walks
    BY <1>1, <1>3, <2>1
  <2>3. \A w \in g[n + 1] \ g[n] : \E v \in g[n] : w \in Steps(v)
    BY <1>1, <2>1 DEF Growth
  <2>. QED  BY <2>2, <2>3 DEF StaysIn
<1>4. A = Nat
  <2>1. A \in SUBSET Nat
    OBVIOUS
  <2>. HIDE DEF A
  <2>. QED  BY <1>2, <1>3, <2>1, Induction
<1>. QED  BY <1>1, <1>4

\* What lies behind some nodes holds them, and what the edges of each member lead to.
LEMMA ReachedIsClosed ==
  ASSUME NEW edges, NEW starts \in SUBSET DOMAIN edges,
         \A b \in DOMAIN edges : edges[b] \subseteq DOMAIN edges
  PROVE  /\ starts \subseteq Reached(edges, starts)
         /\ \A b \in Reached(edges, starts) :
              b \in DOMAIN edges /\ edges[b] \subseteq Reached(edges, starts)
<1>1. starts \subseteq Reached(edges, starts)
  BY DEF Reached
<1>2. ASSUME NEW b \in Reached(edges, starts), NEW c \in edges[b]
      PROVE  c \in Reached(edges, starts)
  <2>1. b \in DOMAIN edges /\ c \in DOMAIN edges
    BY DEF Reached
  <2>. QED  BY <2>1 DEF Reached
<1>. QED  BY <1>1, <1>2 DEF Reached

\* What a walk can come to behind an elided instruction before it gets to its end: a
\* loop may lead back to the beginning of the block.
Region(a, r) ==
  Inside(a, r) \cup {r} \cup {x \in Places : x[1] = a[1] /\ x[2] <= a[2]}

LEMMA RegionIsClosed ==
  ASSUME TypeInv, NEW a \in Places, NEW r \in Places, Covers(a, r),
         NEW x \in Region(a, r), x # r, NEW y \in After(x)
  PROVE  y \in Region(a, r)
<1>. DEFINE edges == Stopped({a[1], r[1]})
            visited == Reached(edges, graph[a[1]]) \ {a[1]}
<1>1. x \in Places /\ y \in Places
  BY DEF Region, Inside, After
<1>2. /\ a[2] \in Nat \ {0} /\ r[2] \in Nat \ {0} /\ x[2] \in Nat \ {0} /\ y[2] \in Nat \ {0}
      /\ a = <<a[1], a[2]>> /\ r = <<r[1], r[2]>> /\ x = <<x[1], x[2]>>
      /\ a[1] \in DOMAIN graph /\ r[2] <= Len(code[r[1]]) /\ Len(code[r[1]]) \in Nat
      /\ r[1] \in DOMAIN graph /\ x[1] \in DOMAIN graph
  BY <1>1, PlacesAreNumbered
<1>3. r[1] = a[1] => a[2] < r[2]
  BY DEF Covers
<1>4. /\ graph[a[1]] \ {a[1]} \subseteq visited
      /\ \A b \in visited \ {r[1]} : graph[b] \ {a[1]} \subseteq visited
  <2>1. /\ DOMAIN edges = DOMAIN graph
        /\ \A b \in DOMAIN graph : edges[b] \subseteq DOMAIN graph
        /\ \A b \in DOMAIN graph \ {a[1], r[1]} : edges[b] = graph[b]
        /\ graph[a[1]] \subseteq DOMAIN graph
    BY <1>2, PlacesAreNumbered DEF Stopped
  <2>. HIDE DEF edges
  <2>2. /\ graph[a[1]] \subseteq Reached(edges, graph[a[1]])
        /\ \A b \in Reached(edges, graph[a[1]]) :
              b \in DOMAIN graph /\ edges[b] \subseteq Reached(edges, graph[a[1]])
    BY <2>1, ReachedIsClosed
  <2>. QED  BY <2>1, <2>2
<1>5. Inside(a, r) =
        IF r[1] = a[1]
        THEN {p \in Places : p[1] = a[1] /\ a[2] < p[2] /\ p[2] < r[2]}
        ELSE {p \in Places : \/ p[1] = a[1] /\ a[2] < p[2]
                             \/ p[1] \in visited /\ (p[1] = r[1] => p[2] < r[2])}
  BY DEF Inside
<1>6. x[1] \notin visited => x[1] = a[1] \/ x = r
  BY <1>5 DEF Region
<1>7. a[1] \notin visited
  OBVIOUS
<1>. HIDE DEF edges, visited
\* Within a block.
<1>8. CASE x[1] = y[1] /\ y[2] = x[2] + 1
  <2>1. CASE x[1] = a[1]
    <3>1. CASE r[1] = a[1]
      <4>1. x[2] # r[2]
        BY <1>2, <2>1, <3>1
      <4>2. x[2] < r[2]
        BY <1>2, <1>3, <1>5, <3>1, <4>1 DEF Region
      <4>3. y[2] <= r[2]
        BY <1>2, <1>8, <4>2
      <4>4. CASE y[2] = r[2]
        <5>1. y = r
          BY <1>1, <1>2, <1>8, <2>1, <3>1, <4>4, PlacesAreNumbered
        <5>. QED  BY <5>1 DEF Region
      <4>5. CASE y[2] # r[2]
        <5>1. y[2] < r[2] /\ (y[2] <= a[2] \/ a[2] < y[2])
          BY <1>2, <4>3, <4>5
        <5>. QED  BY <1>1, <1>5, <1>8, <2>1, <3>1, <5>1 DEF Region
      <4>. QED  BY <4>4, <4>5
    <3>2. CASE r[1] # a[1]
      <4>1. y[2] <= a[2] \/ a[2] < y[2]
        BY <1>2
      <4>. QED  BY <1>1, <1>5, <1>8, <2>1, <3>2, <4>1 DEF Region
    <3>. QED  BY <3>1, <3>2
  <2>2. CASE x[1] # a[1]
    <3>1. x \in Inside(a, r) /\ r[1] # a[1] /\ x[1] \in visited
      BY <1>5, <2>2 DEF Region
    <3>2. CASE x[1] = r[1]
      <4>1. x[2] < r[2]
        BY <1>5, <2>2, <3>1, <3>2
      <4>2. y[2] = r[2] \/ y[2] < r[2]
        BY <1>2, <1>8, <4>1
      <4>3. y[2] = r[2] => y = r
        BY <1>1, <1>2, <1>8, <3>2, PlacesAreNumbered
      <4>4. y[2] < r[2] => y \in Inside(a, r)
        BY <1>1, <1>5, <1>8, <3>1
      <4>. QED  BY <4>2, <4>3, <4>4 DEF Region
    <3>3. CASE x[1] # r[1]
      BY <1>1, <1>5, <1>8, <3>1, <3>3 DEF Region
    <3>. QED  BY <3>2, <3>3
  <2>. QED  BY <2>1, <2>2
\* From the end of one to the beginning of another.
<1>9. CASE x[2] = Len(code[x[1]]) /\ y[2] = 1 /\ y[1] \in graph[x[1]]
  <2>1. x[1] # r[1]
    <3>. SUFFICES ASSUME x[1] = r[1] PROVE FALSE
      OBVIOUS
    <3>1. x[2] # r[2] /\ r[2] <= x[2]
      BY <1>2, <1>9
    <3>2. r[2] < x[2] /\ ~(x[2] < r[2])
      BY <1>2, <3>1
    <3>3. CASE r[1] = a[1]
      <4>1. x[2] <= a[2]
        BY <1>5, <3>2, <3>3 DEF Region
      <4>. QED  BY <1>2, <1>3, <3>2, <3>3, <4>1
    <3>4. CASE r[1] # a[1]
      BY <1>5, <3>2, <3>4 DEF Region
    <3>. QED  BY <3>3, <3>4
  <2>2. CASE y[1] = a[1]
    <3>1. y[2] <= a[2]
      BY <1>2, <1>9
    <3>. QED  BY <1>1, <2>2, <3>1 DEF Region
  <2>3. CASE y[1] # a[1]
    <3>1. x[1] = a[1] \/ x[1] \in visited \ {r[1]}
      BY <1>6, <2>1
    <3>2. y[1] \in visited
      BY <1>4, <1>9, <2>3, <3>1
    <3>3. CASE r[1] = a[1]
      <4>1. x[1] # a[1]
        BY <2>1, <3>3
      <4>. QED  BY <1>5, <3>3, <4>1, <2>1 DEF Region
    <3>4. CASE r[1] # a[1]
      <4>1. CASE y[1] = r[1] /\ r[2] = 1
        <5>1. y = r
          BY <1>1, <1>2, <1>9, <4>1, PlacesAreNumbered
        <5>. QED  BY <5>1 DEF Region
      <4>2. CASE y[1] = r[1] => r[2] # 1
        <5>1. y[1] = r[1] => y[2] < r[2]
          BY <1>2, <1>9, <4>2
        <5>. QED  BY <1>1, <1>5, <3>2, <3>4, <5>1 DEF Region
      <4>. QED  BY <4>1, <4>2
    <3>. QED  BY <3>3, <3>4
  <2>. QED  BY <2>2, <2>3
<1>. QED  BY <1>8, <1>9 DEF After
-----------------------------------------------------------------------------
(* Precise code and what guards it.                                        *)

\* A walk behind an erased barrier, with no other one since, is still in its region.
BarrierSeen(w) ==
  w.barrier \in erased =>
    /\ Op(w.barrier) = "barrier"
    /\ \E r \in Places : Covers(w.barrier, r) /\ w.at \in Region(w.barrier, r)

\* A walk that lacks a lock is in the region of an erased acquire of it.
LossSeen(w) ==
  \A m \in w.held \ w.kept :
    \E a \in erased, r \in Places :
      /\ Op(a) = "acquire" /\ Mutex(a) = m
      /\ Covers(a, r) /\ w.at \in Region(a, r)

Guarded == {w \in Points : BarrierSeen(w) /\ LossSeen(w)}

\* An erased acquire or barrier has a region, and what runs next is in it.
LEMMA ErasedHasRegion ==
  ASSUME IInv, NEW a \in erased, Op(a) # "release", NEW y \in After(a)
  PROVE  \E r \in Places : Covers(a, r) /\ y \in Region(a, r)
<1>1. a \in Places /\ a[2] <= a[2]
  BY PlacesAreNumbered DEF IInv, TypeInv
<1>2. PICK r \in Places : Covers(a, r)
  BY DEF IInv, ErasedInv
<1>3. a # r
  <2>. SUFFICES ASSUME a = r PROVE FALSE
    OBVIOUS
  <2>1. a[2] < a[2]
    BY <1>2 DEF Covers
  <2>. QED  BY <1>1, <2>1, PlacesAreNumbered DEF IInv
<1>4. a \in Region(a, r)
  BY <1>1 DEF Region
<1>. QED  BY <1>1, <1>2, <1>3, <1>4, RegionIsClosed DEF IInv

LEMMA StepsStayGuarded ==
  ASSUME IInv, OneMutex, NEW w \in Guarded, NEW v \in Steps(w)
  PROVE  v \in Guarded
<1>1. /\ w.at \in Places /\ w \in Points
      /\ erased \subseteq Places
  BY DEF Guarded, Points, IInv, TypeInv
<1>2. PICK y \in After(w.at) :
        v = [at |-> y, held |-> Holds(w.held, w.at),
             kept |-> IF w.at \in erased THEN w.kept ELSE Holds(w.kept, w.at),
             acquire |-> IF Op(w.at) = "acquire" THEN w.at ELSE w.acquire,
             barrier |-> IF Op(w.at) = "barrier" THEN w.at ELSE w.barrier]
  BY DEF Steps
<1>3. y \in Places
  BY DEF After
<1>4. v \in Points
  BY <1>1, PointsAreClosed DEF IInv
<1>5. BarrierSeen(v)
  <2>. SUFFICES ASSUME v.barrier \in erased
                PROVE  /\ Op(v.barrier) = "barrier"
                       /\ \E r \in Places : Covers(v.barrier, r) /\ y \in Region(v.barrier, r)
    BY <1>2 DEF BarrierSeen
  <2>1. CASE Op(w.at) = "barrier"
    <3>1. v.barrier = w.at
      BY <1>2, <2>1
    <3>. QED  BY <2>1, <3>1, ErasedHasRegion
  <2>2. CASE Op(w.at) # "barrier"
    <3>1. v.barrier = w.barrier
      BY <1>2, <2>2
    <3>2. PICK r \in Places : Covers(w.barrier, r) /\ w.at \in Region(w.barrier, r)
      BY <3>1 DEF Guarded, BarrierSeen
    <3>3. Op(w.barrier) = "barrier" /\ w.barrier \in Places
      BY <1>1, <3>1 DEF Guarded, BarrierSeen
    <3>4. w.at # r
      BY <2>2, <3>2, <3>3 DEF Covers
    <3>5. y \in Region(w.barrier, r)
      BY <3>2, <3>3, <3>4, RegionIsClosed DEF IInv
    <3>. QED  BY <3>1, <3>2, <3>3, <3>5
  <2>. QED  BY <2>1, <2>2
<1>6. LossSeen(v)
  <2>. SUFFICES ASSUME NEW m \in v.held \ v.kept
                PROVE  \E a \in erased, r \in Places :
                         /\ Op(a) = "acquire" /\ Mutex(a) = m
                         /\ Covers(a, r) /\ y \in Region(a, r)
    BY <1>2 DEF LossSeen
  <2>1. /\ m \in Holds(w.held, w.at)
        /\ m \notin IF w.at \in erased THEN w.kept ELSE Holds(w.kept, w.at)
    BY <1>2
  <2>2. CASE m \in w.held \ w.kept
    <3>1. PICK a \in erased, r \in Places :
             /\ Op(a) = "acquire" /\ Mutex(a) = m
             /\ Covers(a, r) /\ w.at \in Region(a, r)
      BY <2>2 DEF Guarded, LossSeen
    <3>2. w.at # r
      <4>. SUFFICES ASSUME w.at = r PROVE FALSE
        OBVIOUS
      <4>1. Op(w.at) = "release"
        BY <3>1 DEF Covers
      <4>2. Mutex(w.at) = m
        BY <1>1, <3>1, <4>1 DEF OneMutex
      <4>. QED  BY <2>1, <4>1, <4>2 DEF Holds
    <3>3. y \in Region(a, r)
      BY <1>1, <3>1, <3>2, RegionIsClosed DEF IInv
    <3>. QED  BY <3>1, <3>3
  <2>3. CASE m \notin w.held \ w.kept
    <3>1. w.at \in erased /\ Op(w.at) = "acquire" /\ Mutex(w.at) = m
      <4>1. CASE m \notin w.held
        <5>1. Op(w.at) = "acquire" /\ Mutex(w.at) = m
          BY <2>1, <4>1 DEF Holds
        <5>. QED  BY <2>1, <5>1 DEF Holds
      <4>2. CASE m \in w.held /\ m \in w.kept
        <5>1. w.at \notin erased /\ m \notin Holds(w.kept, w.at)
          BY <2>1, <4>2
        <5>2. Op(w.at) = "release" /\ Mutex(w.at) = m
          BY <4>2, <5>1 DEF Holds
        <5>. QED  BY <2>1, <5>2 DEF Holds
      <4>. QED  BY <2>3, <4>1, <4>2
    <3>. QED  BY <3>1, ErasedHasRegion
  <2>. QED  BY <2>2, <2>3
<1>. QED  BY <1>4, <1>5, <1>6 DEF Guarded

LEMMA WalksAreGuarded ==
  ASSUME IInv, OneMutex
  PROVE  Walks \subseteq Guarded
<1>1. Entrance \in Guarded
  <2>1. <<1, 1>> \in Places /\ NoPlace \notin erased
    BY PlacesAreNumbered DEF IInv, TypeInv
  <2>. QED  BY <2>1 DEF Guarded, Points, Entrance, BarrierSeen, LossSeen
<1>2. StaysIn(Guarded)
  BY <1>1, StepsStayGuarded DEF StaysIn
<1>. QED  BY <1>2, WalksStay DEF IInv

\* In a region a precise instruction can stand only before what was erased.
LEMMA RegionIsHarmless ==
  ASSUME IInv, NEW a \in erased, Op(a) # "release", NEW r \in Places, Covers(a, r),
         NEW x \in Region(a, r), Blocks(x)
  PROVE  BeforeElided(x)
<1>1. x \notin Inside(a, r) /\ x # r
  BY DEF Covers, Blocks
<1>2. x[1] = a[1] /\ x[2] <= a[2] /\ x \in Places /\ a \in Places
  BY <1>1 DEF Region, IInv, TypeInv
<1>3. x # a
  BY DEF IInv, ErasedInv, IsSync, Blocks
<1>4. x[2] < a[2]
  BY <1>2, <1>3, PlacesAreNumbered DEF IInv
<1>. QED  BY <1>2, <1>4 DEF BeforeElided

\* On no path of any function with one mutex, and whichever of the sites are
\* elided, does precise code lose the lock it was written under or the barrier it
\* runs behind, but where a loop comes back to it before what was elided.
THEOREM PreciseIsGuarded == SpecInjection => []PreciseStaysGuarded
<1>1. IInv => PreciseStaysGuarded
  <2>. SUFFICES ASSUME IInv, OneMutex, NEW w \in Walks, Blocks(w.at), ~BeforeElided(w.at)
                PROVE  w.held \subseteq w.kept /\ w.barrier \notin erased
    BY DEF PreciseStaysGuarded
  <2>1. BarrierSeen(w) /\ LossSeen(w)
    BY WalksAreGuarded DEF Guarded
  <2>2. w.barrier \notin erased
    BY <2>1, RegionIsHarmless DEF BarrierSeen
  <2>3. w.held \subseteq w.kept
    BY <2>1, RegionIsHarmless DEF LossSeen
  <2>. QED  BY <2>2, <2>3
<1>. QED  BY <1>1, Invariance, PTL

-----------------------------------------------------------------------------
(* Balanced locks.                                                         *)

\* Before the first time that a walk comes to an acquire, it has come to what stands
\* before it in its block.
LEMMA FirstPass ==
  ASSUME TypeInv, NEW a \in Places, NEW w \in Walks, w.acquire = a,
         NEW x \in Places, x[1] = a[1], x[2] < a[2]
  PROVE  \E v \in Walks : v.at = x /\ v.acquire # a
<1>. SUFFICES ASSUME \A v \in Walks : v.at = x => v.acquire = a PROVE FALSE
  OBVIOUS
<1>. DEFINE Good == {v \in Points : /\ v.acquire # a
                                    /\ v.at[1] = x[1] => v.at[2] < x[2]}
<1>1. /\ a # NoPlace /\ a[2] \in Nat /\ x[2] \in Nat \ {0} /\ x = <<x[1], x[2]>>
      /\ \A y \in Places : y = <<y[1], y[2]>> /\ y[2] \in Nat \ {0}
  BY PlacesAreNumbered
<1>2. Entrance \in Walks
  <2>1. PICK g : Growth(g) /\ Depth \in Nat /\ \A n \in Nat : n <= Depth => g[n] \subseteq Walks
    BY WalksGrow
  <2>2. 0 \in Nat /\ 0 <= Depth
    BY <2>1
  <2>. QED  BY <2>1, <2>2 DEF Growth
<1>3. Entrance \in Good
  <2>1. Entrance.acquire # a /\ Entrance.at = <<1, 1>>
    BY <1>1 DEF Entrance
  <2>2. Entrance.at # x
    BY <1>2, <2>1
  <2>3. 1 = x[1] => 1 < x[2]
    BY <1>1, <2>1, <2>2
  <2>. QED  BY <2>1, <2>3, PointsAreClosed
<1>4. ASSUME NEW u \in Good \cap Walks, NEW v \in Steps(u) \cap Walks PROVE v \in Good
  <2>1. /\ v.at \in After(u.at) /\ u.at \in Places /\ v.at \in Places /\ v \in Points
        /\ v.acquire = IF Op(u.at) = "acquire" THEN u.at ELSE u.acquire
    BY PointsAreClosed DEF Steps, Points
  <2>2. u.at # a
    <3>1. ~(a[2] < x[2])
      BY <1>1
    <3>. QED  BY <3>1
  <2>3. v.acquire # a
    BY <2>1, <2>2
  <2>4. v.at # x
    BY <2>3
  <2>5. ASSUME v.at[1] = x[1] PROVE v.at[2] < x[2]
    <3>1. CASE v.at[1] = u.at[1] /\ v.at[2] = u.at[2] + 1
      <4>1. u.at[2] < x[2] /\ v.at[2] # x[2]
        BY <1>1, <2>1, <2>4, <2>5, <3>1
      <4>. QED  BY <1>1, <2>1, <3>1, <4>1
    <3>2. CASE v.at[2] = 1
      <4>1. x[2] # 1
        BY <1>1, <2>1, <2>4, <2>5, <3>2
      <4>. QED  BY <1>1, <3>2, <4>1
    <3>. QED  BY <2>1, <3>1, <3>2 DEF After
  <2>. QED  BY <2>1, <2>3, <2>5
<1>5. Walks \subseteq Good
  <2>. HIDE DEF Good
  <2>1. StaysIn(Good)
    BY <1>3, <1>4 DEF StaysIn
  <2>. QED  BY <2>1, WalksStay
<1>. QED  BY <1>5

\* What a walk can come to on its way to an erased release, for the first time: it has
\* not come to its acquire, or only to an erased one since.
Arriving(a, r, w) ==
  \/ w.at[1] \in Reached(Stopped({a[1]}), {1}) \ {a[1]}
  \/ w.at[1] = a[1] /\ w.at[2] <= a[2]
  \/ w.at \in Inside(a, r) \cup {r} /\ w.acquire \in erased

\* A walk that comes to an erased release comes there behind an erased acquire, some
\* time.
LEMMA ReleaseIsReached ==
  ASSUME IInv, NEW a \in erased, NEW r \in erased, Paired(a, r),
         NEW w \in Walks, w.at = r
  PROVE  \E v \in Walks : v.at = r /\ v.acquire \in erased
<1>. SUFFICES ASSUME \A v \in Walks : v.at = r => v.acquire \notin erased PROVE FALSE
  OBVIOUS
<1>. DEFINE Good == {v \in Points : Arriving(a, r, v)}
            before == Reached(Stopped({a[1]}), {1})
<1>1. /\ a \in Places /\ r \in Places /\ TypeInv
      /\ Op(a) = "acquire" /\ Op(r) = "release" /\ Covers(a, r)
      /\ \A x \in Inside(a, r) : IsSync(x) => x \in erased
  BY DEF IInv, TypeInv, Paired, Covers
<1>2. /\ a[2] \in Nat \ {0} /\ r[2] \in Nat /\ 1 \in DOMAIN graph
      /\ \A y \in Places : y = <<y[1], y[2]>> /\ y[2] \in Nat \ {0} /\ y[1] \in DOMAIN graph
  BY <1>1, PlacesAreNumbered
<1>3. 1 \in before /\ \A b \in before \ {a[1]} : graph[b] \subseteq before
  <2>. DEFINE edges == Stopped({a[1]})
  <2>1. /\ DOMAIN edges = DOMAIN graph
        /\ \A b \in DOMAIN graph : edges[b] \subseteq DOMAIN graph
        /\ \A b \in DOMAIN graph \ {a[1]} : edges[b] = graph[b]
    BY <1>1, PlacesAreNumbered DEF Stopped
  <2>. HIDE DEF edges
  <2>2. /\ {1} \subseteq Reached(edges, {1})
        /\ \A b \in Reached(edges, {1}) :
             b \in DOMAIN graph /\ edges[b] \subseteq Reached(edges, {1})
    BY <1>2, <2>1, ReachedIsClosed
  <2>. QED  BY <2>1, <2>2 DEF edges
<1>4. /\ r[1] \notin before \ {a[1]}
      /\ r[1] = a[1] => ~(r[2] <= a[2])
  <2>1. r[1] = a[1] => a[2] < r[2]
    BY <1>1 DEF Covers
  <2>2. r[1] # a[1] => r[1] \notin before
    BY DEF Paired, Dominates, BlockDominates
  <2>. QED  BY <1>2, <2>1, <2>2
<1>. HIDE DEF before
<1>5. Entrance \in Good
  <2>1. Entrance.at = <<1, 1>> /\ 1 <= a[2]
    BY <1>2 DEF Entrance
  <2>2. Arriving(a, r, Entrance)
    BY <1>3, <2>1 DEF Arriving, before
  <2>. QED  BY <1>1, <2>2, PointsAreClosed
<1>6. ASSUME NEW u \in Good \cap Walks, NEW v \in Steps(u) \cap Walks PROVE v \in Good
  <2>1. /\ v.at \in After(u.at) /\ u.at \in Places /\ v.at \in Places /\ v \in Points
        /\ v.acquire = IF Op(u.at) = "acquire" THEN u.at ELSE u.acquire
    BY <1>1, PointsAreClosed DEF Steps, Points
  <2>2. CASE u.at[1] \in before \ {a[1]}
    <3>1. v.at[1] \in before
      BY <1>3, <2>1, <2>2 DEF After
    <3>2. v.at[1] = a[1] => v.at[2] = 1
      BY <2>1, <2>2 DEF After
    <3>3. 1 <= a[2]
      BY <1>2
    <3>. QED  BY <2>1, <3>1, <3>2, <3>3 DEF Arriving, before
  <2>3. CASE u.at \in Region(a, r) /\ u.at # r /\ u.at[1] \notin before \ {a[1]}
    <3>1. v.at \in Region(a, r)
      BY <1>1, <2>1, <2>3, RegionIsClosed
    <3>2. CASE v.at[1] = a[1] /\ v.at[2] <= a[2]
      BY <2>1, <3>2 DEF Arriving
    <3>3. CASE v.at \in Inside(a, r) \cup {r}
      <4>1. v.acquire \in erased
        <5>1. CASE u.at = a
          BY <1>1, <2>1, <5>1
        <5>2. CASE u.at \in Inside(a, r) \cup {r} /\ u.acquire \in erased
          <6>1. u.at \in Inside(a, r)
            BY <2>3, <5>2
          <6>2. Op(u.at) = "acquire" => u.at \in erased
            BY <1>1, <6>1 DEF IsSync
          <6>. QED  BY <2>1, <5>2, <6>2
        <5>3. CASE u.at[1] = a[1] /\ u.at[2] <= a[2] /\ u.at # a
          <6>1. u.at[2] < a[2] /\ u.at[2] + 1 <= a[2]
            BY <1>1, <1>2, <2>1, <5>3
          <6>2. a[2] <= Len(code[a[1]]) /\ Len(code[a[1]]) \in Nat
            BY <1>1, PlacesAreNumbered
          <6>3. u.at[2] # Len(code[u.at[1]])
            BY <1>2, <2>1, <5>3, <6>1, <6>2
          <6>4. v.at[1] = a[1] /\ v.at[2] = u.at[2] + 1
            BY <2>1, <5>3, <6>3 DEF After
          <6>5. v.at[1] = a[1] /\ v.at[2] <= a[2]
            BY <6>1, <6>4
          <6>6. FALSE
            <7>1. v.at # r
              BY <1>4, <6>5
            <7>2. v.at \notin Inside(a, r)
              <8>1. ~(a[2] < v.at[2])
                BY <1>2, <2>1, <6>5
              <8>2. a[1] \notin Reached(Stopped({a[1], r[1]}), graph[a[1]]) \ {a[1]}
                OBVIOUS
              <8>. QED  BY <6>5, <8>1, <8>2 DEF Inside
            <7>. QED  BY <3>3, <7>1, <7>2
          <6>. QED  BY <6>6
        <5>. QED  BY <2>3, <5>1, <5>2, <5>3 DEF Arriving, before
      <4>. QED  BY <2>1, <3>3, <4>1 DEF Arriving
    <3>. QED  BY <3>1, <3>2, <3>3 DEF Region
  <2>4. u.at # r
    <3>. SUFFICES ASSUME u.at = r PROVE FALSE
      OBVIOUS
    <3>1. u.acquire \notin erased /\ Arriving(a, r, u)
      OBVIOUS
    <3>. QED  BY <1>4, <3>1 DEF Arriving, before
  <2>5. u.at[1] \in before \ {a[1]} \/ u.at \in Region(a, r)
    BY <2>1 DEF Arriving, Region, before
  <2>. QED  BY <2>2, <2>3, <2>4, <2>5
<1>7. Walks \subseteq Good
  <2>. HIDE DEF Good
  <2>1. StaysIn(Good)
    BY <1>5, <1>6 DEF StaysIn
  <2>. QED  BY <1>1, <2>1, WalksStay
<1>8. w.acquire \notin erased /\ Arriving(a, r, w)
  BY <1>7
<1>. QED  BY <1>4, <1>8 DEF Arriving, before

\* With the code that is left a walk holds what it did, or it lacks what it got at an
\* erased acquire, and is not at its end.
Synced(w) == w.kept = w.held /\ (w.held # {} => w.acquire \notin erased)
Open(w) ==
  /\ w.held # {} /\ w.kept = {} /\ w.acquire \in erased
  /\ \E r \in erased : Paired(w.acquire, r) /\ w.at \in Region(w.acquire, r)
HoldsLocks(w) == \A m \in w.held : \E i \in Places : Op(i) = "acquire" /\ Mutex(i) = m
Balanced == {w \in Points : HoldsLocks(w) /\ (Synced(w) \/ Open(w))}

LEMMA StepsStayBalanced ==
  ASSUME IInv, WellLocked, OneMutex, OneToOne,
         NEW w \in Balanced \cap Walks, NEW v \in Steps(w) \cap Walks
  PROVE  v \in Balanced
<1>. DEFINE x == w.at
            m == Mutex(x)
<1>1. PICK y \in After(x) :
        v = [at |-> y, held |-> Holds(w.held, x),
             kept |-> IF x \in erased THEN w.kept ELSE Holds(w.kept, x),
             acquire |-> IF Op(x) = "acquire" THEN x ELSE w.acquire,
             barrier |-> IF Op(x) = "barrier" THEN x ELSE w.barrier]
  BY DEF Steps
<1>2. /\ v.at = y /\ v.held = Holds(w.held, x)
      /\ v.kept = IF x \in erased THEN w.kept ELSE Holds(w.kept, x)
      /\ v.acquire = IF Op(x) = "acquire" THEN x ELSE w.acquire
  BY <1>1
<1>3. /\ x \in Places /\ v \in Points /\ erased \subseteq Places /\ TypeInv
      /\ ~Misuse(w.held, x)
  BY PointsAreClosed DEF Balanced, Points, IInv, TypeInv, WellLocked
<1>4. HoldsLocks(w) /\ (Synced(w) \/ Open(w))
  BY DEF Balanced
\* There is one mutex.
<1>5. ASSUME Op(x) \in {"acquire", "release"}, NEW n \in w.held PROVE n = m
  BY <1>3, <1>4, <1>5 DEF HoldsLocks, OneMutex
<1>. HIDE DEF x, m
<1>6. CASE Op(x) = "acquire"
  <2>1. w.held = {}
    BY <1>3, <1>5, <1>6 DEF Misuse, m
  <2>2. Synced(w) /\ w.kept = {}
    BY <1>4, <2>1 DEF Open, Synced
  <2>3. v.held = {m} /\ v.acquire = x
    BY <1>2, <1>6, <2>1 DEF Holds, m
  <2>4. HoldsLocks(v)
    BY <1>3, <1>6, <2>3 DEF HoldsLocks, m
  <2>5. CASE x \notin erased
    <3>1. v.kept = {m}
      BY <1>2, <1>6, <2>2, <2>5 DEF Holds, m
    <3>. QED  BY <1>3, <2>3, <2>4, <2>5, <3>1 DEF Balanced, Synced
  <2>6. CASE x \in erased
    <3>1. PICK r \in erased : Paired(x, r)
      BY <1>6, <2>6 DEF IInv, PairInv
    <3>2. x # r /\ x[2] <= x[2] /\ r \in Places
      <4>1. Op(r) = "release" /\ x[2] \in Nat
        BY <1>3, <3>1, PlacesAreNumbered DEF Paired, Covers
      <4>. QED  BY <1>3, <1>6, <4>1
    <3>3. x \in Region(x, r)
      BY <1>3, <3>2 DEF Region
    <3>4. y \in Region(x, r)
      BY <1>1, <1>3, <3>1, <3>2, <3>3, RegionIsClosed DEF Paired
    <3>5. v.kept = {}
      BY <1>2, <2>2, <2>6
    <3>6. Open(v)
      BY <1>2, <2>3, <2>6, <3>1, <3>4, <3>5 DEF Open
    <3>. QED  BY <1>3, <2>4, <3>6 DEF Balanced
  <2>. QED  BY <2>5, <2>6
<1>7. CASE Op(x) = "release"
  <2>1. w.held = {m}
    BY <1>3, <1>5, <1>7 DEF Misuse, m
  <2>2. v.held = {}
    BY <1>2, <1>7, <2>1 DEF Holds, m
  <2>3. v.kept = {}
    <3>1. CASE Open(w)
      BY <1>2, <1>7, <3>1 DEF Open, Holds
    <3>2. CASE Synced(w) /\ x \notin erased
      BY <1>2, <1>7, <2>1, <3>2 DEF Synced, Holds, m
    <3>3. CASE Synced(w) /\ x \in erased
      <4>1. PICK a \in erased : Paired(a, x)
        BY <1>7, <3>3 DEF IInv, PairInv
      <4>2. PICK u \in Walks : u.at = x /\ u.acquire \in erased
        BY <3>3, <4>1, ReleaseIsReached DEF x
      <4>3. u.acquire = w.acquire
        BY <1>7, <4>2 DEF OneToOne, x
      <4>. QED  BY <2>1, <3>3, <4>2, <4>3 DEF Synced
    <3>. QED  BY <1>4, <3>1, <3>2, <3>3
  <2>. QED  BY <1>3, <2>2, <2>3 DEF Balanced, Synced, HoldsLocks
<1>8. CASE Op(x) \notin {"acquire", "release"}
  <2>1. v.held = w.held /\ v.kept = w.kept /\ v.acquire = w.acquire
    BY <1>2, <1>8 DEF Holds
  <2>2. HoldsLocks(v)
    BY <1>4, <2>1 DEF HoldsLocks
  <2>3. CASE Synced(w)
    BY <1>3, <2>1, <2>2, <2>3 DEF Balanced, Synced
  <2>4. CASE Open(w)
    <3>1. PICK r \in erased : Paired(w.acquire, r) /\ x \in Region(w.acquire, r)
      BY <2>4 DEF Open, x
    <3>2. x # r /\ w.acquire \in Places /\ r \in Places
      BY <1>3, <1>8, <2>4, <3>1 DEF Paired, Covers, Open
    <3>3. y \in Region(w.acquire, r)
      BY <1>1, <1>3, <3>1, <3>2, RegionIsClosed DEF Paired
    <3>4. Open(v)
      BY <1>2, <2>1, <2>4, <3>1, <3>3 DEF Open
    <3>. QED  BY <1>3, <2>2, <3>4 DEF Balanced
  <2>. QED  BY <1>4, <2>3, <2>4
<1>. QED  BY <1>6, <1>7, <1>8

LEMMA WalksAreBalanced ==
  ASSUME IInv, WellLocked, OneMutex, OneToOne
  PROVE  Walks \subseteq Balanced
<1>1. Entrance \in Balanced
  BY PointsAreClosed DEF IInv, Entrance, Balanced, Synced, HoldsLocks
<1>2. StaysIn(Balanced)
  BY <1>1, StepsStayBalanced DEF StaysIn
<1>. QED  BY <1>2, WalksStay DEF IInv

LEMMA BalancedLocks ==
  ASSUME IInv, WellLocked, OneMutex, OneToOne, NEW w \in Walks, w.at \notin erased
  PROVE  ~Misuse(w.kept, w.at) /\ (AtExit(w.at) => Holds(w.kept, w.at) = {})
<1>. DEFINE x == w.at
<1>1. /\ ~Misuse(w.held, x) /\ (AtExit(x) => Holds(w.held, x) = {})
      /\ HoldsLocks(w) /\ (Synced(w) \/ Open(w)) /\ x \in Places
  BY WalksAreBalanced DEF WellLocked, Balanced, Points
<1>2. CASE Synced(w)
  BY <1>1, <1>2 DEF Synced
<1>3. CASE Open(w)
  <2>1. Op(x) # "acquire"
    <3>. SUFFICES ASSUME Op(x) = "acquire" PROVE FALSE
      OBVIOUS
    <3>1. PICK n \in w.held : TRUE
      BY <1>3 DEF Open
    <3>2. n = Mutex(x)
      BY <1>1, <3>1 DEF HoldsLocks, OneMutex
    <3>. QED  BY <1>1, <3>1, <3>2 DEF Misuse
  <2>2. Op(x) # "release"
    <3>. SUFFICES ASSUME Op(x) = "release" PROVE FALSE
      OBVIOUS
    <3>. DEFINE a == w.acquire
    <3>1. PICK r \in erased : Paired(a, r) /\ x \in Region(a, r)
      BY <1>3 DEF Open
    <3>2. a \in erased /\ a \in Places /\ TypeInv
      BY <1>3 DEF Open, IInv, TypeInv
    <3>3. x \notin Inside(a, r) /\ x # r
      BY <3>1 DEF Paired, IsSync
    <3>4. x[1] = a[1] /\ x[2] <= a[2] /\ x # a
      BY <3>1, <3>2, <3>3 DEF Region
    <3>5. x[2] < a[2]
      BY <1>1, <3>2, <3>4, PlacesAreNumbered
    <3>6. PICK v \in Walks : v.at = x /\ v.acquire # a
      BY <1>1, <3>2, <3>4, <3>5, FirstPass
    <3>7. v.acquire = w.acquire
      BY <3>6 DEF OneToOne
    <3>. QED  BY <3>6, <3>7
  <2>3. Holds(w.held, x) = w.held
    BY <2>1, <2>2 DEF Holds
  <2>. QED  BY <1>1, <1>3, <2>1, <2>2, <2>3 DEF Misuse, Open
<1>. QED  BY <1>1, <1>2, <1>3

\* That a function uses its mutex well does not depend on what is erased: it can be
\* said of the paths through its code.
PathTo(p, n) ==
  /\ p[0] = [at |-> <<1, 1>>, held |-> {}]
  /\ \A k \in Nat :
       k < n => \E y \in After(p[k].at) :
                  p[k + 1] = [at |-> y, held |-> Holds(p[k].held, p[k].at)]
UsedWell(at, held) == ~Misuse(held, at) /\ (AtExit(at) => Holds(held, at) = {})
PathsAreWellLocked ==
  \A n \in Nat : n <= Depth =>
    \A p : PathTo(p, n) => UsedWell(p[n].at, p[n].held)

LEMMA WalksOnPaths ==
  ASSUME TypeInv, WellLocked
  PROVE  PathsAreWellLocked
<1>. SUFFICES ASSUME NEW n \in Nat, n <= Depth, NEW p, PathTo(p, n)
              PROVE  UsedWell(p[n].at, p[n].held)
  BY DEF PathsAreWellLocked
<1>1. PICK g : /\ Growth(g) /\ Depth \in Nat /\ Walks = g[Depth]
               /\ \A k \in Nat : k <= Depth => g[k] \subseteq Walks
  BY WalksGrow
<1>. DEFINE A == {k \in Nat : k <= n => \E w \in g[k] : w.at = p[k].at /\ w.held = p[k].held}
<1>2. 0 \in A
  <2>1. Entrance \in g[0] /\ p[0].at = <<1, 1>> /\ p[0].held = {}
    BY <1>1 DEF Growth, PathTo
  <2>2. Entrance.at = <<1, 1>> /\ Entrance.held = {}
    BY DEF Entrance
  <2>. QED  BY <2>1, <2>2
<1>3. ASSUME NEW k \in A PROVE k + 1 \in A
  <2>. SUFFICES ASSUME k + 1 <= n
                PROVE  \E w \in g[k + 1] : w.at = p[k + 1].at /\ w.held = p[k + 1].held
    BY <1>3
  <2>1. k \in Nat /\ k < n /\ k <= n
    BY <1>3
  <2>2. PICK w \in g[k] : w.at = p[k].at /\ w.held = p[k].held
    BY <1>3, <2>1
  <2>3. PICK y \in After(p[k].at) :
          p[k + 1] = [at |-> y, held |-> Holds(p[k].held, p[k].at)]
    BY <2>1 DEF PathTo
  <2>. DEFINE v == [at |-> y, held |-> Holds(w.held, w.at),
                    kept |-> IF w.at \in erased THEN w.kept ELSE Holds(w.kept, w.at),
                    acquire |-> IF Op(w.at) = "acquire" THEN w.at ELSE w.acquire,
                    barrier |-> IF Op(w.at) = "barrier" THEN w.at ELSE w.barrier]
  <2>4. v \in Steps(w)
    BY <2>2 DEF Steps
  <2>5. v \in g[k + 1]
    <3>. HIDE DEF v
    <3>. QED  BY <1>1, <2>1, <2>2, <2>4 DEF Growth
  <2>6. v.at = p[k + 1].at /\ v.held = p[k + 1].held
    BY <2>2, <2>3
  <2>. HIDE DEF v
  <2>. QED  BY <2>5, <2>6
<1>4. A = Nat
  <2>1. A \in SUBSET Nat
    OBVIOUS
  <2>. HIDE DEF A
  <2>. QED  BY <1>2, <1>3, <2>1, Induction
<1>5. PICK w \in g[n] : w.at = p[n].at /\ w.held = p[n].held
  <2>1. n \in A /\ n <= n
    BY <1>4
  <2>. QED  BY <2>1
<1>6. w \in Walks
  BY <1>1, <1>5
<1>. QED  BY <1>5, <1>6 DEF WellLocked, UsedWell

LEMMA PathsOfWalks ==
  ASSUME TypeInv, PathsAreWellLocked
  PROVE  WellLocked
<1>1. PICK g : /\ Growth(g) /\ Depth \in Nat /\ Walks = g[Depth]
               /\ \A k \in Nat : k <= Depth => g[k] \subseteq Walks
  BY WalksGrow
<1>. DEFINE Leads(p, k, w) == PathTo(p, k) /\ p[k] = [at |-> w.at, held |-> w.held]
            A == {n \in Nat : \A w \in g[n] : \E k \in Nat : k <= n /\ \E p : Leads(p, k, w)}
<1>2. 0 \in A
  <2>. SUFFICES ASSUME NEW w \in g[0]
                PROVE  \E k \in Nat : k <= 0 /\ \E p : Leads(p, k, w)
    OBVIOUS
  <2>. DEFINE p == [k \in {0} |-> [at |-> <<1, 1>>, held |-> {}]]
  <2>1. w = Entrance
    BY <1>1 DEF Growth
  <2>2. w.at = <<1, 1>> /\ w.held = {}
    BY <2>1 DEF Entrance
  <2>3. p[0] = [at |-> <<1, 1>>, held |-> {}]
    OBVIOUS
  <2>4. \A k \in Nat : ~(k < 0)
    OBVIOUS
  <2>. HIDE DEF p
  <2>5. Leads(p, 0, w)
    BY <2>2, <2>3, <2>4 DEF PathTo
  <2>6. 0 \in Nat /\ 0 <= 0
    OBVIOUS
  <2>. HIDE DEF Leads
  <2>. QED  BY <2>5, <2>6
<1>3. ASSUME NEW n \in A PROVE n + 1 \in A
  <2>. SUFFICES ASSUME NEW w \in g[n + 1]
                PROVE  \E k \in Nat : k <= n + 1 /\ \E p : Leads(p, k, w)
    OBVIOUS
  <2>1. CASE w \in g[n]
    <3>1. PICK k \in Nat : k <= n /\ \E p : Leads(p, k, w)
      BY <1>3, <2>1
    <3>2. k <= n + 1
      BY <3>1
    <3>. QED  BY <3>1, <3>2
  <2>2. CASE w \notin g[n]
    <3>1. PICK v \in g[n] : w \in Steps(v)
      BY <1>1, <2>2 DEF Growth
    <3>2. PICK k \in Nat : k <= n /\ \E p : Leads(p, k, v)
      BY <1>3, <3>1
    <3>3. PICK p : Leads(p, k, v)
      BY <3>2
    <3>4. /\ w.at \in After(v.at) /\ w.held = Holds(v.held, v.at)
      BY <3>1 DEF Steps
    <3>. DEFINE last == [at |-> w.at, held |-> w.held]
                q == [j \in 0..(k + 1) |-> IF j = k + 1 THEN last ELSE p[j]]
    <3>5. /\ q[k + 1] = last
          /\ \A j \in Nat : j <= k => q[j] = p[j]
      OBVIOUS
    <3>. HIDE DEF q
    <3>6. q[0] = [at |-> <<1, 1>>, held |-> {}]
      <4>1. 0 <= k
        OBVIOUS
      <4>. QED  BY <3>3, <3>5, <4>1 DEF PathTo
    <3>7. ASSUME NEW j \in Nat, j < k + 1
          PROVE  \E y \in After(q[j].at) :
                   q[j + 1] = [at |-> y, held |-> Holds(q[j].held, q[j].at)]
      <4>1. q[j] = p[j]
        BY <3>5, <3>7
      <4>2. CASE j = k
        <5>1. q[j].at = v.at /\ q[j].held = v.held
          BY <3>3, <4>1, <4>2
        <5>. QED  BY <3>4, <3>5, <4>2, <5>1
      <4>3. CASE j # k
        <5>1. j < k /\ j + 1 <= k /\ j + 1 \in Nat
          BY <3>7, <4>3
        <5>2. q[j + 1] = p[j + 1]
          BY <3>5, <5>1
        <5>3. \E y \in After(p[j].at) :
                p[j + 1] = [at |-> y, held |-> Holds(p[j].held, p[j].at)]
          BY <3>3, <5>1 DEF PathTo
        <5>. QED  BY <4>1, <5>2, <5>3
      <4>. QED  BY <4>2, <4>3
    <3>8. Leads(q, k + 1, w)
      BY <3>5, <3>6, <3>7 DEF PathTo
    <3>9. k + 1 \in Nat /\ k + 1 <= n + 1
      BY <3>2
    <3>. HIDE DEF Leads
    <3>. QED  BY <3>8, <3>9
  <2>. QED  BY <2>1, <2>2
<1>4. A = Nat
  <2>1. A \in SUBSET Nat
    OBVIOUS
  <2>. HIDE DEF A
  <2>. QED  BY <1>2, <1>3, <2>1, Induction
<1>5. ASSUME NEW w \in Walks PROVE UsedWell(w.at, w.held)
  <2>1. PICK k \in Nat : k <= Depth /\ \E p : Leads(p, k, w)
    BY <1>1, <1>4
  <2>2. PICK p : Leads(p, k, w)
    BY <2>1
  <2>3. UsedWell(p[k].at, p[k].held)
    BY <2>1, <2>2 DEF PathsAreWellLocked
  <2>. QED  BY <2>2, <2>3
<1>. QED  BY <1>5 DEF WellLocked, UsedWell

\* In a function that uses its one mutex well, and where no release serves two
\* acquires, locks are used well on every path after any of its critical sections
\* has been elided.
THEOREM LocksBalance == SpecInjection => []PairedLocksStayBalanced
<1>1. InitInjection => PathsAreWellLocked
  <2>1. InitInjection => IInv /\ WellLocked
    BY InitIInv DEF InitInjection, Init
  <2>. QED  BY <2>1, WalksOnPaths DEF IInv
<1>2. PathsAreWellLocked /\ [NextInjection]_<<vars, injectionVars>> => PathsAreWellLocked'
  <2>. SUFFICES ASSUME [NextInjection]_<<vars, injectionVars>>
                PROVE  PathsAreWellLocked' <=> PathsAreWellLocked
    OBVIOUS
  <2>1. UNCHANGED <<graph, code>>
    BY DEF NextInjection, DumpSite, KeepSite, ElideSite, EndRelax, EndDumpInject, EndDump,
           EndDumpCrash, Inject, vars
  <2>2. /\ Places' = Places
        /\ \A i : Op(i)' = Op(i) /\ Mutex(i)' = Mutex(i)
    BY <2>1, SameFunction
  <2>3. /\ \A i : After(i)' = After(i) /\ (AtExit(i)' <=> AtExit(i))
        /\ \A held, i : Holds(held, i)' = Holds(held, i) /\ (Misuse(held, i)' <=> Misuse(held, i))
    BY <2>1, <2>2 DEF After, AtExit, Exits, Holds, Misuse
  <2>4. Depth' = Depth
    BY <2>2 DEF Depth
  <2>5. \A p, n : PathTo(p, n)' <=> PathTo(p, n)
    BY <2>3 DEF PathTo
  <2>6. \A at, held : UsedWell(at, held)' <=> UsedWell(at, held)
    BY <2>3 DEF UsedWell
  <2>. QED  BY <2>4, <2>5, <2>6 DEF PathsAreWellLocked
<1>3. IInv /\ PathsAreWellLocked => PairedLocksStayBalanced
  <2>. SUFFICES ASSUME IInv, PathsAreWellLocked, OneMutex, OneToOne,
                       NEW w \in Walks, w.at \notin erased
                PROVE  ~Misuse(w.kept, w.at) /\ (AtExit(w.at) => Holds(w.kept, w.at) = {})
    BY DEF PairedLocksStayBalanced, LocksStayBalanced
  <2>1. WellLocked
    BY PathsOfWalks DEF IInv
  <2>. QED  BY <2>1, BalancedLocks
<1>. QED  BY <1>1, <1>2, <1>3, Invariance, PTL DEF SpecInjection

-----------------------------------------------------------------------------
(* Hooks.                                                                  *)

\* The numbers of the instructions that are left in a block are those before the
\* instruction that are left, all different, and no larger than its place.
LEMMA NumbersDiffer ==
  ASSUME TypeInv
  PROVE  /\ \A i \in Places : Number(i) \in Nat
         /\ \A i, j \in Present : i[1] = j[1] /\ Number(i) = Number(j) => i = j
<1>. DEFINE Left(i) == {n \in 1..(i[2] - 1) : <<i[1], n>> \notin erased}
<1>1. ASSUME NEW i \in Places
      PROVE  IsFiniteSet(Left(i)) /\ Number(i) = Cardinality(Left(i)) /\ Number(i) \in Nat
  <2>1. 1 \in Int /\ i[2] - 1 \in Int
    BY PlacesAreNumbered
  <2>2. IsFiniteSet(1..(i[2] - 1))
    BY <2>1, FS_Interval
  <2>3. Left(i) \subseteq 1..(i[2] - 1) /\ Number(i) = Cardinality(Left(i))
    BY DEF Number
  <2>. HIDE DEF Left
  <2>. QED  BY <2>2, <2>3, FS_Subset, FS_CardinalityType
<1>2. ASSUME NEW i \in Present, NEW j \in Present, i[1] = j[1], i[2] < j[2]
      PROVE  Number(i) # Number(j)
  <2>1. /\ i \in Places /\ j \in Places /\ i = <<i[1], i[2]>>
        /\ i[2] \in Nat \ {0} /\ j[2] \in Nat \ {0} /\ i \notin erased
    BY PlacesAreNumbered DEF Present
  <2>2. Left(i) \subseteq Left(j)
    BY <1>2, <2>1
  <2>3. i[2] \in Left(j) /\ i[2] \notin Left(i)
    <3>1. i[2] \in 1..(j[2] - 1) /\ i[2] \notin 1..(i[2] - 1)
      BY <1>2, <2>1
    <3>2. <<j[1], i[2]>> \notin erased
      BY <1>2, <2>1
    <3>. QED  BY <3>1, <3>2
  <2>. HIDE DEF Left
  <2>4. Cardinality(Left(i)) # Cardinality(Left(j))
    BY <1>1, <2>1, <2>2, <2>3, FS_Subset
  <2>. QED  BY <1>1, <2>1, <2>4
<1>. HIDE DEF Left
<1>3. ASSUME NEW i \in Present, NEW j \in Present, i[1] = j[1], Number(i) = Number(j)
      PROVE  i = j
  <2>1. /\ i[2] \in Nat /\ j[2] \in Nat /\ i = <<i[1], i[2]>> /\ j = <<j[1], j[2]>>
    BY PlacesAreNumbered DEF Present
  <2>2. ~(i[2] < j[2]) /\ ~(j[2] < i[2])
    BY <1>2, <1>3
  <2>. QED  BY <1>3, <2>1, <2>2
<1>. QED  BY <1>1, <1>3

\* Before what is erased in its block an instruction has the name it was listed
\* under.
LEMMA NamesBeforeErased ==
  ASSUME TypeInv, NEW i \in Places, \A j \in erased : j[1] = i[1] => j[2] > i[2]
  PROVE  Name(i) = NameAsListed(i)
<1>. DEFINE n == i[2] - 1
<1>1. i[2] \in Nat \ {0} /\ n \in Int /\ (1 > n => n = 0) /\ n - 1 + 1 = n
  BY PlacesAreNumbered
<1>2. ASSUME NEW m \in 1..n PROVE <<i[1], m>> \notin erased
  <2>1. m \in Int /\ ~(m > i[2])
    BY <1>1
  <2>. QED  BY <2>1
<1>3. {m \in 1..n : <<i[1], m>> \notin erased} = 1..n
  BY <1>2
<1>. HIDE DEF n
<1>4. Cardinality(1..n) = n
  <2>1. Cardinality(1..n) = IF 1 > n THEN 0 ELSE n - 1 + 1
    BY <1>1, FS_Interval
  <2>. QED  BY <1>1, <2>1
<1>5. Number(i) = i[2] - 1
  BY <1>3, <1>4 DEF Number, n
<1>. QED  BY <1>5 DEF NameAsListed, Name

\* A hook is where a chosen instruction of its block was: the one that stood at the
\* number that the instruction now has.
LEMMA HooksHaveChoices ==
  ASSUME IInv, phase = "injected", NEW i \in hooked
  PROVE  /\ i \in Present
         /\ <<i[1], Number(i) + 1>> \in Places /\ Chosen(<<i[1], Number(i) + 1>>)
<1>1. i \in Present /\ CanInject(i) /\ Name(i) \in enabled
  BY DEF IInv, HookInv, Hooked
<1>2. PICK j \in Places : CanInject(j) /\ Name(i) = NameAsListed(j)
  BY <1>1 DEF IInv, HookInv, Listing
<1>3. j = <<j[1], j[2]>> /\ j[2] \in Nat
  BY PlacesAreNumbered DEF IInv
<1>4. j[1] = i[1] /\ Number(i) = j[2] - 1
  <2>1. Name(i).block = i[1] /\ Name(i).number = Number(i)
    BY DEF Name
  <2>2. NameAsListed(j).block = j[1] /\ NameAsListed(j).number = j[2] - 1
    BY DEF NameAsListed, Name
  <2>. QED  BY <1>2, <2>1, <2>2
<1>5. j = <<i[1], Number(i) + 1>>
  BY <1>3, <1>4
<1>. QED  BY <1>1, <1>2, <1>5 DEF Chosen

\* Elision behind the back of injection stays within a block: an instruction before
\* all that is erased in its own gets a hook exactly if it was chosen, and no block
\* gets more hooks than it has choices.
THEOREM HooksStay == SpecInjection => []HooksStayWithTheirBlock
<1>1. IInv => HooksStayWithTheirBlock
  <2>. SUFFICES ASSUME IInv, phase = "injected" PROVE HooksStayWithTheirBlock
    BY DEF HooksStayWithTheirBlock
  <2>1. ASSUME NEW i \in Present, \A j \in erased : j[1] = i[1] => j[2] > i[2]
        PROVE  i \in hooked <=> Chosen(i) /\ HasHook(i)
    <3>1. Name(i) = NameAsListed(i)
      BY <2>1, NamesBeforeErased DEF IInv, Present
    <3>. QED  BY <3>1 DEF IInv, HookInv, Hooked, Chosen
  <2>2. ASSUME NEW b \in DOMAIN graph
        PROVE  Cardinality({i \in hooked : i[1] = b})
                 <= Cardinality({i \in Places : i[1] = b /\ Chosen(i)})
    <3>. DEFINE S == {i \in hooked : i[1] = b}
                T == {i \in Places : i[1] = b /\ Chosen(i)}
                f == [i \in S |-> <<b, Number(i) + 1>>]
    <3>1. IsFiniteSet(T)
      BY PlacesAreNumbered, FS_Subset DEF IInv
    <3>2. ASSUME NEW i \in S PROVE <<b, Number(i) + 1>> \in T
      BY HooksHaveChoices
    <3>3. f \in [S -> T]
      BY <3>2
    <3>4. ASSUME NEW i \in S, NEW j \in S, f[i] = f[j] PROVE i = j
      <4>1. /\ i \in Present /\ j \in Present /\ i[1] = j[1]
            /\ Number(i) \in Nat /\ Number(j) \in Nat
        BY HooksHaveChoices, NumbersDiffer DEF IInv, Present
      <4>2. Number(i) + 1 = Number(j) + 1
        BY <3>4
      <4>3. Number(i) = Number(j)
        BY <4>1, <4>2
      <4>. QED  BY <4>1, <4>3, NumbersDiffer DEF IInv
    <3>. HIDE DEF S, T, f
    <3>5. IsInjective(f)
      BY <3>3, <3>4 DEF IsInjective
    <3>6. f \in Injection(S, T)
      BY <3>3, <3>5 DEF Injection
    <3>7. Cardinality(S) <= Cardinality(T)
      BY <3>1, <3>6, FS_Injection
    <3>. QED  BY <3>7 DEF S, T
  <2>. QED  BY <2>1, <2>2 DEF HooksStayWithTheirBlock
<1>. QED  BY <1>1, Invariance, PTL

-----------------------------------------------------------------------------
(* The batches of a rewritten loop (NpuBatch).                             *)

\* The trips of a batch, and the stores of a trip, integers and floats.
Batch == BufferSize \div loop.inputs
Ints == IntsIn(Len(loop.stores))
Floats == FloatsIn(Len(loop.stores))

IsSeq(s) == s \in Seq({s[j] : j \in DOMAIN s})

\* The positions in the buffers: those of the trip that is next to be buffered or to
\* be replayed.
Filling == pc \in {"header", "first", "last", "latch", "call"}
Emptying == pc \in {"replay", "check"}
Position == IF pc = "replay" THEN outcount ELSE IF pc = "check" THEN outcount + 1 ELSE Len(inbuf)

Counters ==
  /\ IsSeq(inbuf) /\ IsSeq(outbuf)
  /\ Len(inbuf) \in 0..Batch /\ counter = Len(inbuf) * loop.inputs
  /\ iaddr = Len(inbuf) * loop.outs /\ \E u \in 0..Batch : oaddr = u * loop.outs
  /\ outcount \in Nat /\ calls \in Nat
  /\ Len(outbuf) + outcount <= calls
  /\ ~Rewritten => inbuf = <<>>

Stages ==
  /\ pc \in {"call", "replay", "check"} => Rewritten
  /\ pc = "last" => ~Rewritten
  /\ pc \in {"header", "first", "latch"} => Len(inbuf) < Batch
  /\ pc = "call" => Len(inbuf) = Batch
  /\ Emptying => /\ inbuf = <<>> /\ calls = Batch
                 /\ Position + Len(outbuf) = Batch /\ oaddr = Position * loop.outs
  /\ pc = "replay" => outbuf # <<>>
  /\ \E u \in 0..Batch :
       /\ sint = u * Ints /\ sfloat = u * Floats
       /\ pc # "exit" => u = Position

Count == Len(loop.stores)
IsStored(v) == StoresTo(v) # {}
Item(n, k) == <<loop.stores[n].var, BufferedValue(loop.stores[n], OriginalMem(k))>>

\* The buffers hold for the p-th trip of a batch what the last part of trip k needs:
\* its addresses, and its integers.
Keeps(p, k) ==
  /\ \A j \in 0..(loop.outs - 1) :
       p * loop.outs + j \in DOMAIN addrs /\ addrs[p * loop.outs + j] = Addresses(k)[j]
  /\ \A n \in IntStores : /\ p * Ints + IntsIn(n - 1) \in DOMAIN ints
                          /\ ints[p * Ints + IntsIn(n - 1)] = Item(n, k)

\* What is not stored to keeps its value, but for the loop variable, and a float
\* goes to a variable that one of the buffered floats belongs to.
MemoryType ==
  /\ mem = [v \in Vars |-> mem[v]] /\ mem["i"] \in Int
  /\ \A v \in Vars : v # "i" /\ ~IsStored(v) => mem[v] = 0
  /\ \A p \in DOMAIN faddrs : \E n \in FloatStores : faddrs[p] = loop.stores[n].var

\* The memory agrees with that of trip k in some of the variables.
Agrees(m, k, names) == \A v \in names : m[v] = OriginalMem(k)[v]

\* The rest of a trip that is in the buffers: those of the trips from Origin on, as
\* far as they were not replayed.
Origin == IF Emptying THEN Len(effects) + 1 - Position ELSE Len(effects) + 1
From == IF Emptying THEN Position ELSE 0
To == IF Emptying THEN Batch ELSE Len(inbuf)
BuffersInv == pc # "exit" => \A p \in 0..Batch : From <= p /\ p < To => Keeps(p, Origin + p)

CallsOfTrip(k) == [i : {k}, feed : IF loop.feeds = "nothing" THEN {0} ELSE Int]
CallsInv ==
  /\ Filling => \A j \in 1..Len(inbuf) : inbuf[j] \in CallsOfTrip(Len(effects) + j)
  /\ Emptying => \A j \in 1..Len(outbuf) : outbuf[j] \in CallsOfTrip(Len(effects) + j)

\* How far the loop is, how far the last parts are behind it, and which variables are
\* those of which trip.
TripInv ==
  /\ trip \in Nat \ {0} /\ IsSeq(effects)
  /\ pc # "exit" => trip <= IF pc = "header" THEN loop.trips + 1 ELSE loop.trips
  /\ pc \in {"header", "first"} => trip = Len(effects) + Len(inbuf) + 1 /\ mem["i"] = trip
  /\ pc = "last" => trip = Len(effects) + 1 /\ reg = trip /\ mem = OriginalMem(trip)
  /\ pc \in {"latch", "call"} => trip = Len(effects) + Len(inbuf)
  /\ pc = "call" => mem = OriginalMem(trip)
  /\ pc = "latch" => Agrees(mem, trip, Kept \cup Untouched)
  /\ Emptying => trip = Len(effects) + Len(outbuf) /\ Agrees(mem, trip, Untouched)
  /\ pc = "check" => Agrees(mem, Len(effects), Kept)
  /\ pc = "exit" => \/ /\ mem["i"] > loop.trips /\ loop.trips = Len(effects) + Len(inbuf)
                       /\ Len(inbuf) < Batch
                    \/ loop.brk <= loop.trips /\ Agrees(mem, loop.brk, Kept)

\* The last parts were executed in whole batches, but for the batch that is replayed.
BatchInv ==
  (pc = "exit" /\ mem["i"] <= loop.trips) \/
  \E m \in 0..Len(effects) : Len(effects) = m * (IF Rewritten THEN Batch ELSE 1) + From

FeedInv ==
  /\ feed \in Int
  /\ loop.feeds = "nothing" => feed = 0
  /\ ~Rewritten /\ loop.feeds # "nothing" =>
       /\ pc \in {"header", "first", "last"} => feed = trip - 1
       /\ pc = "latch" => feed = trip

\* What the last parts have seen.
Own(e, k) ==
  /\ Agrees(e.mem, k, Kept) /\ e.at = Addresses(k) /\ e.call.i = k
  /\ (Rewritten => loop.feeds \notin {"approx", "call"}) => e.call = Original(k).call
  /\ (Rewritten => ~loop.reg) => e.reg = Original(k).reg
EffectsInv == \A k \in 1..Len(effects) : Own(effects[k], k)

\* As long as no store has gone astray.
TameInv ==
  ~wild => /\ MemoryType /\ BuffersInv /\ CallsInv /\ TripInv /\ BatchInv
           /\ FeedInv /\ EffectsInv

PCs == {"header", "first", "call", "replay", "last", "check", "latch", "exit"}

BatchBase ==
  /\ loop \in Loops /\ entry \in 1..MaxEntries /\ pc \in PCs /\ wild \in BOOLEAN
  /\ Counters /\ Stages

-----------------------------------------------------------------------------
\* How many calls a buffer holds.
LEMMA Division ==
  ASSUME NEW n \in Nat \ {0}, NEW q \in Nat \ {0}, n % q = 0
  PROVE  n \div q \in 1..n /\ (n \div q) * q = n
<1>1. n = q * (n \div q) + (n % q) /\ n \div q \in Nat
  OBVIOUS
<1>2. PICK d \in Nat : d = n \div q
  BY <1>1
<1>3. n = q * d
  BY <1>1, <1>2
<1>4. d # 0
  BY <1>3
<1>5. q * d = d + (q - 1) * d /\ (q - 1) * d \in Nat
  BY <1>2
<1>6. d <= n
  BY <1>3, <1>5
<1>7. d * q = n
  BY <1>3
<1>. QED  BY <1>2, <1>4, <1>6, <1>7

\* What is assumed of a loop.
LEMMA LoopFacts ==
  ASSUME NEW l \in Loops
  PROVE  /\ l.inputs \in Nat \ {0} /\ l.outs \in Nat /\ l.trips \in Nat /\ l.brk \in Nat
         /\ l.stores \in Seq(Stores) /\ Len(l.stores) \in Nat
         /\ DOMAIN l.stores = 1..Len(l.stores)
         /\ \A n \in 1..Len(l.stores) : l.stores[n] \in Stores
         /\ BufferSize \in Nat \ {0} /\ MaxEntries \in Nat \ {0}
         /\ BufferSize \div l.inputs \in 1..BufferSize
         /\ (BufferSize \div l.inputs) * l.inputs = BufferSize
<1>1. l \in LoopType /\ BufferSize \in Nat \ {0} /\ BufferSize % l.inputs = 0
      /\ MaxEntries \in Nat \ {0}
  BY LoopsAssumption
<1>2. /\ l.inputs \in Nat \ {0} /\ l.outs \in Nat /\ l.trips \in Nat /\ l.brk \in Nat
      /\ l.stores \in Seq(Stores)
  BY <1>1 DEF LoopType
<1>3. /\ BufferSize \div l.inputs \in 1..BufferSize
      /\ (BufferSize \div l.inputs) * l.inputs = BufferSize
  BY <1>1, <1>2, Division
<1>. QED  BY <1>1, <1>2, <1>3

\* The stores of a trip that are integers or floats are counted.
LEMMA Fractions ==
  ASSUME loop \in Loops
  PROVE  /\ \A n \in Int : IntsIn(n) \in Nat /\ FloatsIn(n) \in Nat
         /\ Ints \in Nat /\ Floats \in Nat
<1>1. ASSUME NEW n \in Int PROVE IntsIn(n) \in Nat /\ FloatsIn(n) \in Nat
  <2>1. IsFiniteSet(1..n)
    BY FS_Interval
  <2>2. {m \in 1..n : m \in IntStores} \in SUBSET (1..n)
        /\ {m \in 1..n : m \in FloatStores} \in SUBSET (1..n)
    OBVIOUS
  <2>. QED  BY <2>1, <2>2, FS_Subset, FS_CardinalityType DEF IntsIn, FloatsIn
<1>2. Len(loop.stores) \in Int
  BY LoopFacts
<1>. QED  BY <1>1, <1>2 DEF Ints, Floats

\* The integers of a trip get places of their own, in their order.
LEMMA Counted ==
  ASSUME loop \in Loops
  PROVE  /\ \A n \in IntStores : IntsIn(n - 1) \in Nat /\ IntsIn(n - 1) < Ints
         /\ \A m, n \in IntStores : IntsIn(m - 1) = IntsIn(n - 1) => m = n
<1>. DEFINE upTo(n) == {m \in 1..n : m \in IntStores}
<1>1. IntStores \subseteq 1..Count /\ Count \in Nat /\ Ints = IntsIn(Count)
  BY LoopFacts DEF IntStores, Count, Ints
<1>2. ASSUME NEW n \in 0..Count PROVE IsFiniteSet(upTo(n))
  <2>1. IsFiniteSet(1..n) /\ upTo(n) \in SUBSET (1..n)
    BY FS_Interval
  <2>. HIDE DEF upTo
  <2>. QED  BY <2>1, FS_Subset
<1>3. ASSUME NEW m \in 0..Count, NEW n \in 0..Count, m <= n PROVE IntsIn(m) <= IntsIn(n)
  <2>1. upTo(m) \in SUBSET upTo(n)
    BY <1>3
  <2>2. Cardinality(upTo(m)) <= Cardinality(upTo(n))
    BY <1>2, <2>1, FS_Subset
  <2>. QED  BY <2>2 DEF IntsIn
<1>4. ASSUME NEW n \in IntStores PROVE IntsIn(n - 1) + 1 = IntsIn(n)
  <2>1. n \in 1..Count /\ n - 1 \in 0..Count
    BY <1>1
  <2>2. upTo(n) = upTo(n - 1) \cup {n} /\ n \notin upTo(n - 1)
    BY <2>1
  <2>3. IsFiniteSet(upTo(n - 1))
    BY <1>2, <2>1
  <2>4. Cardinality(upTo(n)) = Cardinality(upTo(n - 1)) + 1
    BY <2>2, <2>3, FS_AddElement
  <2>. QED  BY <2>4 DEF IntsIn
<1>. HIDE DEF upTo
<1>5. ASSUME NEW n \in 0..Count PROVE IntsIn(n) \in Nat
  BY Fractions
<1>6. ASSUME NEW n \in IntStores PROVE IntsIn(n - 1) \in Nat /\ IntsIn(n - 1) < Ints
  <2>1. n \in 0..Count /\ n - 1 \in 0..Count /\ n <= Count /\ Count \in 0..Count
    BY <1>1
  <2>2. IntsIn(n) <= Ints
    BY <1>1, <1>3, <2>1
  <2>. QED  BY <1>1, <1>4, <1>5, <2>1, <2>2
<1>7. ASSUME NEW m \in IntStores, NEW n \in IntStores, m < n PROVE IntsIn(m - 1) < IntsIn(n - 1)
  <2>1. m \in 0..Count /\ n - 1 \in 0..Count /\ m <= n - 1 /\ m - 1 \in 0..Count
    BY <1>1, <1>7
  <2>2. IntsIn(m) <= IntsIn(n - 1)
    BY <1>3, <2>1
  <2>. QED  BY <1>4, <1>5, <2>1, <2>2
<1>8. ASSUME NEW m \in IntStores, NEW n \in IntStores, IntsIn(m - 1) = IntsIn(n - 1) PROVE m = n
  <2>1. m \in Int /\ n \in Int
    BY <1>1
  <2>2. ~(m < n) /\ ~(n < m)
    BY <1>6, <1>7, <1>8
  <2>. QED  BY <2>1, <2>2
<1>. QED  BY <1>6, <1>8

\* The positions of integers and floats stay within the buffers.
LEMMA Products ==
  ASSUME NEW u \in Nat, NEW s \in Nat, NEW i \in Nat, NEW f \in Nat, u <= s
  PROVE  u * i + u * f <= s * (i + f)
<1>1. u * (i + f) <= s * (i + f)
  <2>. DEFINE l == i + f
  <2>1. l \in Nat
    OBVIOUS
  <2>. HIDE DEF l
  <2>2. PICK d \in Nat : s = u + d
    <3>1. s - u \in Nat /\ s = u + (s - u)
      OBVIOUS
    <3>. QED  BY <3>1
  <2>3. s * l = u * l + d * l /\ d * l \in Nat /\ u * l \in Nat
    BY <2>1, <2>2
  <2>4. u * l <= s * l
    BY <2>3
  <2>. QED  BY <2>4 DEF l
<1>2. u * (i + f) = u * i + u * f
  OBVIOUS
<1>. QED  BY <1>1, <1>2

\* One more trip is buffered behind the others.
LEMMA OneMore ==
  ASSUME NEW k \in Nat, NEW i \in Nat
  PROVE  (k + 1) * i = k * i + i /\ k * i \in Nat
OBVIOUS

\* The counters of the batch and their bounds.
LEMMA BaseType == BatchBase => BatchTypeOK
<1>. SUFFICES ASSUME BatchBase PROVE BatchTypeOK
  OBVIOUS
<1>1. /\ BufferSize \in Nat /\ Batch \in 1..BufferSize
      /\ Batch * loop.inputs = BufferSize /\ loop.inputs \in Nat
  BY LoopFacts DEF BatchBase, Batch
<1>2. PICK u \in 0..Batch : sint = u * Ints /\ sfloat = u * Floats
  BY DEF BatchBase, Stages
<1>3. Ints \in Nat /\ Floats \in Nat
  BY Fractions DEF BatchBase
<1>4. sint \in Nat /\ sfloat \in Nat
  BY <1>1, <1>2, <1>3
<1>5. sint + sfloat <= BufferSize * (Ints + Floats)
  <2>1. u \in Nat /\ u <= BufferSize
    BY <1>1
  <2>2. u * Ints + u * Floats <= BufferSize * (Ints + Floats)
    BY <1>1, <1>3, <2>1, Products
  <2>. QED  BY <1>2, <2>2
<1>6. PICK k \in 0..Batch : k = Len(inbuf)
  BY DEF BatchBase, Counters
<1>7. PICK w \in 0..Batch : oaddr = w * loop.outs
  BY DEF BatchBase, Counters
<1>8. k \in Nat /\ k <= Batch /\ w \in Nat /\ w <= Batch /\ Batch \in Nat
  BY <1>1
<1>9. counter \in 0..BufferSize
  <2>1. k * loop.inputs + k * 0 <= Batch * (loop.inputs + 0)
    BY <1>1, <1>8, Products
  <2>2. counter = k * loop.inputs
    BY <1>6 DEF BatchBase, Counters
  <2>. QED  BY <1>1, <1>8, <2>1, <2>2
<1>10. iaddr = k * loop.outs /\ loop.outs \in Nat /\ iaddr \in Nat /\ oaddr \in Nat
  <2>1. iaddr = k * loop.outs
    BY <1>6 DEF BatchBase, Counters
  <2>2. loop.outs \in Nat
    BY LoopFacts DEF BatchBase
  <2>. QED  BY <1>7, <1>8, <2>1, <2>2
<1>11. ASSUME loop.outs <= loop.inputs, NEW n \in Nat, n <= Batch
       PROVE  n * loop.outs <= BufferSize
  <2>1. PICK d \in Nat : loop.inputs = loop.outs + d
    <3>1. loop.inputs - loop.outs \in Nat
      BY <1>1, <1>10, <1>11
    <3>2. loop.inputs = loop.outs + (loop.inputs - loop.outs)
      BY <1>1, <1>10
    <3>. QED  BY <3>1, <3>2
  <2>2. n * loop.outs + n * d <= Batch * (loop.outs + d)
    <3>1. Batch \in Nat /\ loop.outs \in Nat
      BY <1>8, <1>10
    <3>. HIDE DEF Batch
    <3>. QED  BY <1>11, <3>1, Products
  <2>3. n * loop.outs \in Nat /\ n * d \in Nat
    BY <1>10
  <2>4. Batch * (loop.outs + d) = BufferSize
    BY <1>1, <2>1
  <2>. QED  BY <1>1, <2>2, <2>3, <2>4
<1>12. loop.outs <= loop.inputs => iaddr <= BufferSize /\ oaddr <= BufferSize
  BY <1>7, <1>8, <1>10, <1>11
<1>. HIDE DEF Batch
<1>. QED  BY <1>4, <1>5, <1>9, <1>10, <1>12 DEF BatchTypeOK, BatchBase, Counters, PCs, Ints, Floats

-----------------------------------------------------------------------------
\* Sequences, whatever their members are.
LEMMA Sequenced ==
  /\ IsSeq(<<>>)
  /\ \A s, e : IsSeq(s) => /\ IsSeq(Append(s, e)) /\ Len(Append(s, e)) = Len(s) + 1
                           /\ Append(s, e) # <<>> /\ Len(s) \in Nat
  /\ \A s : IsSeq(s) /\ s # <<>> =>
       IsSeq(Tail(s)) /\ Len(Tail(s)) = Len(s) - 1 /\ Len(s) \in Nat \ {0}
<1>1. IsSeq(<<>>)
  BY DEF IsSeq
<1>2. ASSUME NEW s, NEW e, IsSeq(s)
      PROVE  /\ IsSeq(Append(s, e)) /\ Len(Append(s, e)) = Len(s) + 1
             /\ Append(s, e) # <<>> /\ Len(s) \in Nat
  <2>. DEFINE S == {s[j] : j \in DOMAIN s} \cup {e}
              t == Append(s, e)
  <2>1. s \in Seq(S)
    BY <1>2 DEF IsSeq
  <2>2. t \in Seq(S) /\ Len(t) = Len(s) + 1 /\ Len(s) \in Nat
    BY <2>1, e \in S
  <2>. HIDE DEF S, t
  <2>3. IsSeq(t) /\ t # <<>>
    BY <2>2 DEF IsSeq
  <2>. QED  BY <2>2, <2>3 DEF t
<1>3. ASSUME NEW s, IsSeq(s), s # <<>>
      PROVE  IsSeq(Tail(s)) /\ Len(Tail(s)) = Len(s) - 1 /\ Len(s) \in Nat \ {0}
  <2>. DEFINE S == {s[j] : j \in DOMAIN s}
              t == Tail(s)
  <2>1. s \in Seq(S)
    BY <1>3 DEF IsSeq
  <2>2. t \in Seq(S) /\ Len(t) = Len(s) - 1 /\ Len(s) \in Nat \ {0}
    BY <1>3, <2>1
  <2>. HIDE DEF S, t
  <2>3. IsSeq(t)
    BY <2>2 DEF IsSeq
  <2>. QED  BY <2>2, <2>3 DEF t
<1>. QED  BY <1>1, <1>2, <1>3

\* The members of a sequence that has grown.
LEMMA Appended ==
  ASSUME NEW s, IsSeq(s), NEW e
  PROVE  \A j \in 1..(Len(s) + 1) : Append(s, e)[j] = IF j = Len(s) + 1 THEN e ELSE s[j]
<1>. DEFINE S == {s[j] : j \in DOMAIN s} \cup {e}
<1>1. s \in Seq(S) /\ e \in S
  BY DEF IsSeq
<1>. HIDE DEF S
<1>. QED  BY <1>1

\* The loop starts with empty buffers.
LEMMA InitBase == BatchInit => BatchBase
<1>. SUFFICES ASSUME BatchInit PROVE BatchBase
  OBVIOUS
<1>. USE DEF BatchInit
<1>1. Batch \in 1..BufferSize /\ BufferSize \in Nat /\ MaxEntries \in Nat \ {0}
      /\ loop.inputs \in Nat /\ loop.outs \in Nat
  BY LoopFacts DEF Batch
<1>2. Ints \in Nat /\ Floats \in Nat
  BY Fractions
<1>3. Counters
  <2>1. 0 \in 0..Batch /\ 0 * loop.outs = 0 /\ 0 * loop.inputs = 0
    BY <1>1
  <2>2. \E u \in 0..Batch : oaddr = u * loop.outs
    BY <2>1
  <2>. QED  BY <1>1, <2>1, <2>2, Sequenced DEF Counters
<1>4. Stages
  <2>1. 0 \in 0..Batch /\ sint = 0 * Ints /\ sfloat = 0 * Floats /\ 0 = Position
    BY <1>1, <1>2 DEF Position
  <2>2. \E u \in 0..Batch : /\ sint = u * Ints /\ sfloat = u * Floats
                            /\ pc # "exit" => u = Position
    BY <2>1
  <2>. QED  BY <1>1, <2>2 DEF Stages, Emptying
<1>5. entry \in 1..MaxEntries /\ pc \in PCs /\ wild \in BOOLEAN /\ loop \in Loops
  <2>1. entry = 1 /\ pc = "header" /\ wild = FALSE /\ loop \in Loops
    OBVIOUS
  <2>2. MaxEntries \in Nat \ {0}
    BY <1>1
  <2>. HIDE DEF BatchInit
  <2>3. wild \in BOOLEAN
    BY <2>1, Zenon
  <2>4. entry \in 1..MaxEntries /\ pc \in PCs
    BY <2>1, <2>2 DEF PCs
  <2>. QED  BY <2>1, <2>3, <2>4
<1>. QED  BY <1>3, <1>4, <1>5 DEF BatchBase

\* The loop stays, and with it what was made of it.
LEMMA SameStores ==
  ASSUME loop' = loop
  PROVE  /\ Count' = Count /\ \A v : StoresTo(v)' = StoresTo(v)
         /\ IntStores' = IntStores /\ FloatStores' = FloatStores
         /\ \A k : OriginalMem(k)' = OriginalMem(k)
         /\ \A k : Addresses(k)' = Addresses(k)
         /\ \A n, k : Item(n, k)' = Item(n, k)
         /\ Kept' = Kept /\ Untouched' = Untouched
<1>. DEFINE to(l, v) == {n \in DOMAIN l.stores : l.stores[n].var = v}
            last(l, v) == CHOOSE n \in to(l, v) : \A m \in to(l, v) : l.stores[m].nth <= l.stores[n].nth
            of(l, t) == {n \in DOMAIN l.stores : l.stores[n].type = t}
            buffered(l) == of(l, "int") \cup of(l, "float")
            at(l, k) == [j \in 0..(l.outs - 1) |-> <<k, j>>]
            after(l, m) == [v \in Vars |-> IF v = "i" \/ to(l, v) = {} THEN m[v]
                                          ELSE 10 * m["i"] + l.stores[last(l, v)].nth]
            mem0(l, k) == after(l, [v \in Vars |-> IF v = "i" THEN k ELSE 0])
            item(l, n, k) == <<l.stores[n].var,
              IF l.stores[n].place = "early" THEN 10 * mem0(l, k)["i"] + l.stores[n].nth
              ELSE mem0(l, k)[l.stores[n].var]>>
            restored(l, v) ==
              \/ to(l, v) = {}
              \/ \E n \in to(l, v) \cap of(l, "int") :
                   /\ \A m \in to(l, v) \cap buffered(l) : m <= n
                   /\ l.stores[n].place = "early" =>
                        \A m \in to(l, v) : l.stores[m].nth <= l.stores[n].nth
            rewritten(l) == l.chosen /\ ~(l.feeds \in {"register", "precise"})
            kept(l) == IF rewritten(l) THEN {v \in Vars : restored(l, v)} ELSE Vars
            untouched(l) == {v \in Vars : to(l, v) \cap buffered(l) = {}}
<1>1. ASSUME NEW v PROVE StoresTo(v) = to(loop, v) /\ StoresTo(v)' = to(loop', v)
  BY DEF StoresTo
<1>2. /\ IntStores = of(loop, "int") /\ IntStores' = of(loop', "int")
      /\ FloatStores = of(loop, "float") /\ FloatStores' = of(loop', "float")
  BY DEF IntStores, FloatStores
<1>3. ASSUME NEW k PROVE Addresses(k) = at(loop, k) /\ Addresses(k)' = at(loop', k)
  BY DEF Addresses
<1>4. ASSUME NEW k PROVE OriginalMem(k) = mem0(loop, k) /\ OriginalMem(k)' = mem0(loop', k)
  BY DEF OriginalMem, AfterStores, Latest, StoresTo, Written
<1>5. ASSUME NEW n, NEW k PROVE Item(n, k) = item(loop, n, k) /\ Item(n, k)' = item(loop', n, k)
  BY DEF Item, BufferedValue, OriginalMem, AfterStores, Latest, StoresTo, Written
<1>6. Kept = kept(loop) /\ Kept' = kept(loop')
  BY DEF Kept, Rewritten, DependencyCheck, Restored, StoresTo, IntStores, Repeated, FloatStores
<1>7. Untouched = untouched(loop) /\ Untouched' = untouched(loop')
  BY DEF Untouched, StoresTo, Repeated, IntStores, FloatStores
<1>8. Count' = Count
  BY DEF Count
<1>. HIDE DEF to, of, at, mem0, item, kept, untouched
<1>. QED  BY <1>1, <1>2, <1>3, <1>4, <1>5, <1>6, <1>7, <1>8

\* The sizes of its batches stay.
LEMMA SameLoop ==
  ASSUME loop' = loop
  PROVE  /\ Batch' = Batch /\ Ints' = Ints /\ Floats' = Floats /\ Rewritten' = Rewritten
<1>1. IntStores' = IntStores /\ FloatStores' = FloatStores
  BY SameStores
<1>. QED  BY <1>1, Zenon DEF Batch, Ints, Floats, IntsIn, FloatsIn, Rewritten, DependencyCheck

\* Every step keeps the counters, the positions and the buffers together.
LEMMA StepBase == BatchBase /\ [BatchNext]_batchVars => BatchBase'
<1>. SUFFICES ASSUME BatchBase, [BatchNext]_batchVars PROVE BatchBase'
  OBVIOUS
<1>1. /\ Batch \in 1..BufferSize /\ BufferSize \in Nat /\ MaxEntries \in Nat \ {0}
      /\ loop.inputs \in Nat \ {0} /\ Batch * loop.inputs = BufferSize /\ loop.outs \in Nat
  BY LoopFacts DEF Batch, BatchBase
<1>2. Ints \in Nat /\ Floats \in Nat
  BY Fractions DEF BatchBase
<1>3. loop' = loop
  BY DEF BatchNext, batchVars, program, Header, FirstPart, Call, Replay, LastPart, Check, Latch, Reenter
<1>4. Batch' = Batch /\ Ints' = Ints /\ Floats' = Floats /\ Rewritten' = Rewritten
  BY <1>3, SameLoop
<1>. HIDE DEF Batch
<1>. DEFINE Lies(u) == /\ sint = u * Ints /\ sfloat = u * Floats
                       /\ pc # "exit" => u = Position
<1>5. PICK u \in 0..Batch : Lies(u)
  BY DEF BatchBase, Stages
<1>6. ASSUME UNCHANGED batchVars PROVE BatchBase'
  BY <1>6, <1>4 DEF batchVars, program, buffers, output, BatchBase, Counters, Stages, Position,
       Emptying, IsSeq
<1>7. CASE Header
  <2>1. Counters'
    BY <1>7, <1>3, <1>4 DEF BatchBase, Counters, Header, buffers, output, IsSeq
  <2>2. Stages'
    BY <1>4, <1>5, <1>7 DEF BatchBase, Stages, Header, buffers, output, Emptying, Position
  <2>. QED  BY <1>7, <2>1, <2>2 DEF BatchBase, Header, program, PCs
<1>8. CASE FirstPart
  <2>1. CASE ~Rewritten
    <3>1. UNCHANGED <<buffers, output>> /\ pc' = "last" /\ pc = "first"
      BY <1>8, <2>1 DEF FirstPart
    <3>2. Counters'
      BY <1>3, <1>4, <3>1 DEF BatchBase, Counters, buffers, output, IsSeq
    <3>3. Stages'
      BY <1>4, <1>5, <2>1, <3>1 DEF BatchBase, Stages, buffers, output, Emptying, Position
    <3>. QED  BY <1>8, <3>1, <3>2, <3>3 DEF BatchBase, FirstPart, PCs
  <2>2. CASE Rewritten
    <3>1. /\ inbuf' = Append(inbuf, Inputs) /\ counter' = counter + loop.inputs
          /\ iaddr' = iaddr + loop.outs /\ UNCHANGED output /\ pc = "first"
          /\ sint' = sint + Ints /\ sfloat' = sfloat + Floats
          /\ pc' = IF counter' = BufferSize THEN "call" ELSE "latch"
      BY <1>8, <2>2 DEF FirstPart, BufferAddresses, Advance, Full, Ints, Floats
    <3>2. IsSeq(inbuf') /\ Len(inbuf') = Len(inbuf) + 1 /\ inbuf' # <<>>
      BY <3>1, Sequenced DEF BatchBase, Counters
    <3>3. PICK k \in Nat : k = Len(inbuf) /\ k < Batch
      BY <1>1, <3>1 DEF BatchBase, Counters, Stages
    <3>4. counter' = (k + 1) * loop.inputs
      <4>1. counter = k * loop.inputs
        BY <3>3 DEF BatchBase, Counters
      <4>. QED  BY <1>1, <3>1, <4>1, OneMore
    <3>5. Counters'
      <4>1. IsSeq(outbuf') /\ UNCHANGED <<outbuf, calls, outcount, oaddr>>
        BY <3>1 DEF BatchBase, Counters, output, IsSeq
      <4>2. /\ Len(inbuf') \in 0..Batch' /\ counter' = Len(inbuf') * loop'.inputs
            /\ iaddr' = Len(inbuf') * loop'.outs
        <5>1. iaddr = k * loop.outs /\ Len(inbuf') = k + 1
          BY <3>1, <3>2, <3>3 DEF BatchBase, Counters
        <5>2. iaddr' = (k + 1) * loop.outs
          BY <1>1, <3>1, <5>1, OneMore
        <5>3. k + 1 \in 0..Batch' /\ loop'.inputs = loop.inputs /\ loop'.outs = loop.outs
          BY <1>1, <1>3, <1>4, <3>3
        <5>. QED  BY <3>4, <5>1, <5>2, <5>3
      <4>3. \E w \in 0..Batch' : oaddr' = w * loop'.outs
        BY <1>3, <1>4, <4>1 DEF BatchBase, Counters
      <4>. QED  BY <1>4, <2>2, <3>2, <4>1, <4>2, <4>3 DEF BatchBase, Counters
    <3>6. counter' = BufferSize <=> k + 1 = Batch
      <4>1. ((k + 1) * loop.inputs) \div loop.inputs = k + 1
            /\ (Batch * loop.inputs) \div loop.inputs = Batch
        BY <1>1
      <4>. QED  BY <1>1, <3>4, <4>1
    <3>7. u = k
      BY <1>5, <3>1, <3>3 DEF Position
    <3>8. sint' = (k + 1) * Ints /\ sfloat' = (k + 1) * Floats
      BY <1>2, <1>5, <3>1, <3>7, OneMore
    <3>9. pc' # "exit" /\ Position' = k + 1 /\ k + 1 \in 0..Batch
      BY <1>1, <3>1, <3>2, <3>3 DEF Position
    <3>10. \E v \in 0..Batch' : /\ sint' = v * Ints' /\ sfloat' = v * Floats'
                                /\ pc' # "exit" => v = Position'
      BY <1>4, <3>8, <3>9
    <3>11. Stages'
      BY <1>1, <1>4, <2>2, <3>1, <3>2, <3>3, <3>6, <3>10 DEF Stages, Emptying
    <3>12. wild' \in BOOLEAN
      <4>1. wild' = (wild \/ iaddr' > BufferSize)
        BY <1>8, <2>2 DEF FirstPart, BufferAddresses
      <4>. QED  BY <4>1, Zenon
    <3>. QED  BY <1>8, <3>1, <3>5, <3>11, <3>12 DEF BatchBase, FirstPart, PCs
  <2>. QED  BY <2>1, <2>2
<1>9. CASE Call
  <2>1. /\ outbuf' = inbuf /\ calls' = counter \div loop.inputs /\ outcount' = 0 /\ oaddr' = 0
        /\ counter' = 0 /\ inbuf' = <<>> /\ iaddr' = 0 /\ sint' = 0 /\ sfloat' = 0
        /\ pc = "call" /\ pc' = "replay"
    BY <1>9 DEF Call
  <2>2. Len(inbuf) = Batch /\ IsSeq(inbuf) /\ counter = Batch * loop.inputs /\ Rewritten
    BY <2>1 DEF BatchBase, Counters, Stages
  <2>3. calls' = Batch
    BY <1>1, <2>1, <2>2
  <2>4. Counters'
    <3>1. 0 \in 0..Batch' /\ 0 * loop'.outs = 0 /\ 0 * loop'.inputs = 0
      BY <1>1, <1>3, <1>4
    <3>2. \E w \in 0..Batch' : oaddr' = w * loop'.outs
      BY <2>1, <3>1
    <3>. QED  BY <1>1, <1>3, <1>4, <2>1, <2>2, <2>3, <3>1, <3>2, Sequenced DEF Counters
  <2>5. \E v \in 0..Batch' : /\ sint' = v * Ints' /\ sfloat' = v * Floats'
                             /\ pc' # "exit" => v = Position'
    <3>1. 0 \in 0..Batch' /\ sint' = 0 * Ints' /\ sfloat' = 0 * Floats' /\ 0 = Position'
      BY <1>1, <1>2, <1>4, <2>1 DEF Position
    <3>. QED  BY <3>1
  <2>6. Stages'
    <3>1. oaddr' = Position' * loop'.outs /\ Position' = 0
      BY <1>1, <1>3, <2>1 DEF Position
    <3>. QED  BY <1>1, <1>4, <2>1, <2>2, <2>3, <2>5, <3>1 DEF Stages, Emptying
  <2>. QED  BY <1>9, <2>1, <2>4, <2>6 DEF BatchBase, Call, program, PCs
<1>10. CASE Replay
  <2>1. /\ outbuf' = Tail(outbuf) /\ oaddr' = oaddr + loop.outs /\ pc = "replay"
        /\ UNCHANGED <<counter, inbuf, iaddr, calls, outcount>>
        /\ sint' = sint + Ints /\ sfloat' = sfloat + Floats /\ pc' \in {"exit", "check"}
    BY <1>10 DEF Replay, Advance, Ints, Floats
  <2>2. /\ inbuf = <<>> /\ calls = Batch /\ oaddr = outcount * loop.outs /\ outcount \in Nat
        /\ outcount + Len(outbuf) = Batch /\ outbuf # <<>> /\ IsSeq(outbuf) /\ Rewritten
    BY <2>1 DEF BatchBase, Counters, Stages, Emptying, Position
  <2>3. IsSeq(outbuf') /\ Len(outbuf') = Len(outbuf) - 1 /\ Len(outbuf) \in Nat \ {0}
    BY <2>1, <2>2, Sequenced
  <2>11. oaddr' = (outcount + 1) * loop.outs /\ outcount + 1 \in 0..Batch
    BY <1>1, <2>1, <2>2, <2>3, OneMore
  <2>4. Counters'
    <3>1. \E w \in 0..Batch' : oaddr' = w * loop'.outs
      BY <1>3, <1>4, <2>11
    <3>2. /\ IsSeq(inbuf') /\ Len(inbuf') \in 0..Batch' /\ counter' = Len(inbuf') * loop'.inputs
          /\ iaddr' = Len(inbuf') * loop'.outs /\ (~Rewritten' => inbuf' = <<>>)
      BY <1>3, <1>4, <2>1, <2>2 DEF BatchBase, Counters
    <3>3. /\ outcount' \in Nat /\ calls' \in Nat /\ Len(outbuf') + outcount' <= calls'
      BY <2>1, <2>2, <2>3 DEF BatchBase, Counters
    <3>. QED  BY <2>3, <3>1, <3>2, <3>3 DEF Counters
  <2>5. u = outcount
    BY <1>5, <2>1 DEF Position
  <2>6. sint' = (outcount + 1) * Ints /\ sfloat' = (outcount + 1) * Floats
    BY <1>2, <1>5, <2>1, <2>2, <2>5, OneMore
  <2>7. outcount + 1 \in 0..Batch /\ (pc' # "exit" => outcount + 1 = Position')
    BY <1>1, <2>1, <2>2, <2>3 DEF Position
  <2>8. \E v \in 0..Batch' : /\ sint' = v * Ints' /\ sfloat' = v * Floats'
                             /\ pc' # "exit" => v = Position'
    BY <1>4, <2>6, <2>7
  <2>9. Stages'
    <3>1. pc' = "check" => oaddr' = Position' * loop'.outs /\ Position' = outcount + 1
      BY <1>3, <2>1, <2>7, <2>11 DEF Position
    <3>2. pc' = "check" => Position' + Len(outbuf') = Batch'
      BY <1>1, <1>4, <2>1, <2>2, <2>3, <2>7
    <3>3. inbuf' = <<>> /\ calls' = Batch' /\ Rewritten'
      BY <1>4, <2>1, <2>2
    <3>. QED  BY <2>1, <2>8, <3>1, <3>2, <3>3 DEF Stages, Emptying
  <2>10. wild' \in BOOLEAN
    <3>1. wild' = (wild \/ \E n \in Repeated : Target(n) = Unset)
      BY <1>10 DEF Replay
    <3>. QED  BY <3>1, Zenon
  <2>. QED  BY <1>10, <2>1, <2>4, <2>9, <2>10 DEF BatchBase, Replay, PCs
<1>11. CASE LastPart
  <2>1. UNCHANGED <<buffers, output>> /\ pc = "last" /\ pc' \in {"exit", "latch"}
    BY <1>11 DEF LastPart
  <2>2. Counters'
    BY <1>3, <1>4, <2>1 DEF BatchBase, Counters, buffers, output, IsSeq
  <2>3. inbuf = <<>> /\ ~Rewritten /\ Len(inbuf) = 0 /\ Position = 0 /\ Position' = 0
    BY <2>1 DEF BatchBase, Counters, Stages, buffers, Position
  <2>4. u = 0 /\ sint' = 0 * Ints /\ sfloat' = 0 * Floats
    BY <1>5, <2>1, <2>3 DEF buffers
  <2>5. \E v \in 0..Batch' : /\ sint' = v * Ints' /\ sfloat' = v * Floats'
                             /\ pc' # "exit" => v = Position'
    BY <1>1, <1>4, <2>3, <2>4
  <2>6. Stages'
    BY <1>1, <1>4, <2>1, <2>3, <2>5 DEF Stages, buffers, Emptying
  <2>. QED  BY <1>11, <2>1, <2>2, <2>6 DEF BatchBase, LastPart, PCs
<1>12. CASE Check
  <2>1. /\ outcount' = outcount + 1 /\ pc = "check"
        /\ UNCHANGED <<counter, inbuf, iaddr, calls, outbuf, oaddr>>
    BY <1>12 DEF Check
  <2>2. /\ inbuf = <<>> /\ calls = Batch /\ oaddr = (outcount + 1) * loop.outs /\ outcount \in Nat
        /\ outcount + 1 + Len(outbuf) = Batch /\ IsSeq(outbuf) /\ Rewritten
    BY <2>1 DEF BatchBase, Counters, Stages, Emptying, Position
  <2>3. Len(outbuf) \in Nat /\ Len(inbuf) = 0
    BY <2>2, Sequenced
  <2>4. Counters'
    BY <1>1, <1>3, <1>4, <2>1, <2>2, <2>3 DEF BatchBase, Counters
  <2>5. CASE outcount' = calls
    <3>1. pc' = "latch" /\ sint' = 0 /\ sfloat' = 0
      BY <1>12, <2>5 DEF Check
    <3>2. 0 \in 0..Batch' /\ sint' = 0 * Ints' /\ sfloat' = 0 * Floats' /\ 0 = Position'
      BY <1>1, <1>2, <1>4, <2>1, <2>3, <3>1 DEF Position
    <3>3. Stages'
      BY <1>1, <1>4, <2>1, <2>3, <3>1, <3>2 DEF Stages, Emptying
    <3>. QED  BY <1>12, <2>4, <3>1, <3>3 DEF BatchBase, Check, program, PCs
  <2>6. CASE outcount' # calls
    <3>1. pc' = "replay" /\ sint' = sint /\ sfloat' = sfloat
      BY <1>12, <2>6 DEF Check
    <3>2. outbuf # <<>>
      BY <2>1, <2>2, <2>6
    <3>3. u = outcount + 1 /\ Position' = outcount + 1
      BY <1>5, <2>1, <3>1 DEF Position
    <3>4. \E v \in 0..Batch' : /\ sint' = v * Ints' /\ sfloat' = v * Floats'
                               /\ pc' # "exit" => v = Position'
      BY <1>4, <1>5, <3>1, <3>3
    <3>5. Stages'
      <4>1. oaddr' = Position' * loop'.outs
        BY <1>3, <2>1, <2>2, <3>3
      <4>. QED  BY <1>1, <1>4, <2>1, <2>2, <2>3, <3>1, <3>2, <3>3, <3>4, <4>1 DEF Stages, Emptying
    <3>. QED  BY <1>12, <2>4, <3>1, <3>5 DEF BatchBase, Check, program, PCs
  <2>. QED  BY <2>5, <2>6
<1>13. CASE Latch
  <2>1. UNCHANGED <<buffers, output>> /\ pc = "latch" /\ pc' = "header"
    BY <1>13 DEF Latch
  <2>2. Counters'
    BY <1>3, <1>4, <2>1 DEF BatchBase, Counters, buffers, output, IsSeq
  <2>3. Stages'
    BY <1>4, <1>5, <2>1 DEF BatchBase, Stages, buffers, output, Emptying, Position
  <2>. QED  BY <1>13, <2>1, <2>2, <2>3 DEF BatchBase, Latch, PCs
<1>14. CASE Reenter
  <2>1. /\ counter' = 0 /\ inbuf' = <<>> /\ iaddr' = 0 /\ sint' = 0 /\ sfloat' = 0
        /\ UNCHANGED output /\ pc' = "header" /\ entry' = entry + 1 /\ entry < MaxEntries
    BY <1>14 DEF Reenter
  <2>2. Counters'
    <3>1. 0 \in 0..Batch' /\ 0 * loop'.outs = 0 /\ 0 * loop'.inputs = 0
      BY <1>1, <1>3, <1>4
    <3>. QED  BY <1>1, <1>3, <1>4, <2>1, <3>1, Sequenced DEF BatchBase, Counters, output, IsSeq
  <2>3. 0 \in 0..Batch' /\ sint' = 0 * Ints' /\ sfloat' = 0 * Floats' /\ 0 = Position'
    BY <1>1, <1>2, <1>4, <2>1 DEF Position
  <2>4. Stages'
    BY <1>1, <1>4, <2>1, <2>3 DEF Stages, Emptying
  <2>. QED  BY <1>1, <1>14, <2>1, <2>2, <2>4 DEF BatchBase, Reenter, PCs
<1>. QED
  BY <1>6, <1>7, <1>8, <1>9, <1>10, <1>11, <1>12, <1>13, <1>14 DEF BatchNext

-----------------------------------------------------------------------------
\* The stores of a loop, by type and place: the loop variable is an integer that is
\* stored to in the latch, and no float is stored to a variable of integers.
LEMMA StoreKinds ==
  ASSUME loop \in Loops
  PROVE  /\ Count \in Nat /\ DOMAIN loop.stores = 1..Count
         /\ IntStores \subseteq 1..Count /\ FloatStores \subseteq 1..Count
         /\ \A n \in IntStores : n \notin FloatStores /\ loop.stores[n].var \notin FloatVars
         /\ \A n \in FloatStores : loop.stores[n].var \in FloatVars
         /\ \A n \in 1..Count : loop.stores[n].var = "i" <=> loop.stores[n].place = "latch"
         /\ \A n \in 1..Count : loop.stores[n].nth \in Nat /\ loop.stores[n].var \in Vars
         /\ \A m, n \in 1..Count : loop.stores[m].nth = loop.stores[n].nth => m = n
         /\ IsStored("i") /\ StoresTo("i") \subseteq IntStores
<1>1. DOMAIN loop.stores = 1..Count /\ Count \in Nat
  BY LoopFacts DEF Count
<1>2. \A n \in 1..Count : loop.stores[n].nth \in Nat /\ loop.stores[n].var \in Vars
  BY LoopFacts DEF Count, Stores
<1>3. /\ \E n \in 1..Count : loop.stores[n].var = "i"
      /\ \A n \in 1..Count :
           /\ loop.stores[n].var = "i" <=> loop.stores[n].place = "latch"
           /\ loop.stores[n].var = "i" => loop.stores[n].type = "int"
           /\ loop.stores[n].type \in {"other", IF loop.stores[n].var \in FloatVars THEN "float" ELSE "int"}
           /\ \A m \in 1..Count : loop.stores[m].nth = loop.stores[n].nth => m = n
  BY <1>1, LoopsAssumption
<1>4. /\ IntStores \subseteq 1..Count /\ FloatStores \subseteq 1..Count
      /\ \A n \in IntStores : loop.stores[n].type = "int"
      /\ \A n \in FloatStores : loop.stores[n].type = "float"
  BY <1>1 DEF IntStores, FloatStores
<1>5. \A n \in IntStores : n \notin FloatStores /\ loop.stores[n].var \notin FloatVars
  BY <1>3, <1>4
<1>6. \A n \in FloatStores : loop.stores[n].var \in FloatVars
  BY <1>3, <1>4
<1>7. IsStored("i") /\ StoresTo("i") \subseteq IntStores
  BY <1>1, <1>3 DEF IsStored, StoresTo, IntStores
<1>. QED  BY <1>1, <1>2, <1>3, <1>4, <1>5, <1>6, <1>7

\* The memory of a trip of the loop as it was written.
LEMMA OriginalType ==
  ASSUME loop \in Loops, NEW k \in Int
  PROVE  /\ OriginalMem(k) = [v \in Vars |-> OriginalMem(k)[v]] /\ OriginalMem(k)["i"] = k
         /\ \A v \in Vars : v # "i" => OriginalMem(k)[v] =
              IF StoresTo(v) = {} THEN 0 ELSE Written(loop.stores[Latest(v)], k)
<1>. DEFINE m == [v \in Vars |-> IF v = "i" THEN k ELSE 0]
<1>1. "i" \in Vars /\ m["i"] = k /\ \A v \in Vars : v # "i" => m[v] = 0
  BY DEF Vars
<1>2. OriginalMem(k) = AfterStores(m)
  BY DEF OriginalMem
<1>. HIDE DEF m
<1>. QED  BY <1>1, <1>2 DEF AfterStores

\* The first part of a trip makes the memory of the original loop, whatever the
\* trips before have left in the variables that it stores to.
LEMMA FirstPartStores ==
  ASSUME loop \in Loops, MemoryType
  PROVE  AfterStores(mem) = OriginalMem(mem["i"])
<1>. DEFINE k == mem["i"]
<1>1. k \in Int /\ "i" \in Vars
  BY DEF MemoryType, Vars
<1>2. \A v \in Vars : AfterStores(mem)[v] = OriginalMem(k)[v]
  <2>. TAKE v \in Vars
  <2>1. AfterStores(mem)[v] = IF v = "i" \/ StoresTo(v) = {} THEN mem[v]
                              ELSE Written(loop.stores[Latest(v)], k)
    BY DEF AfterStores
  <2>2. v # "i" /\ StoresTo(v) = {} => mem[v] = 0
    BY DEF MemoryType, IsStored
  <2>. QED  BY <1>1, <2>1, <2>2, OriginalType
<1>3. AfterStores(mem) = [v \in Vars |-> AfterStores(mem)[v]]
  BY DEF AfterStores
<1>4. OriginalMem(k) = [v \in Vars |-> OriginalMem(k)[v]]
  BY <1>1, OriginalType
<1>. QED  BY <1>2, <1>3, <1>4

\* What is not stored to is restored, and so is the loop variable.
LEMMA KeptVariables ==
  ASSUME loop \in Loops
  PROVE  "i" \in Kept /\ "i" \notin Untouched /\ Kept \subseteq Vars /\ Untouched \subseteq Vars
<1>1. /\ StoresTo("i") # {} /\ StoresTo("i") \subseteq IntStores /\ IntStores \subseteq Repeated
      /\ StoresTo("i") \subseteq 1..Count /\ Count \in Nat /\ "i" \in Vars
  BY StoreKinds DEF IsStored, Repeated, Vars
<1>2. PICK l \in StoresTo("i") : \A m \in StoresTo("i") : m <= l
  <2>. DEFINE R == {Count - n : n \in StoresTo("i")}
  <2>1. R \in SUBSET Nat /\ R # {}
    BY <1>1
  <2>. HIDE DEF R
  <2>2. PICK q \in R : \A p \in R : q <= p
    BY <2>1, LeastNatural
  <2>. USE DEF R
  <2>3. PICK l \in StoresTo("i") : q = Count - l
    BY <2>2
  <2>4. ASSUME NEW m \in StoresTo("i") PROVE m <= l
    <3>1. Count - l <= Count - m
      BY <2>2, <2>3
    <3>. QED  BY <1>1, <3>1
  <2>. QED  BY <2>4
<1>3. loop.stores[l].place # "early"
  <2>1. loop.stores[l].var = "i" /\ l \in 1..Count
    BY <1>1 DEF StoresTo
  <2>. QED  BY <2>1, StoreKinds
<1>4. Restored("i")
  BY <1>1, <1>2, <1>3 DEF Restored
<1>. QED  BY <1>1, <1>4 DEF Kept, Untouched

\* Where the buffered stores of a trip go to in a replay of it.
LEMMA ReplayTargets ==
  ASSUME loop \in Loops, MemoryType, NEW p \in Nat, NEW k \in Int, Keeps(p, k), sint = p * Ints
  PROVE  /\ \A n \in IntStores : /\ Target(n) = loop.stores[n].var
                                /\ Value(n) = BufferedValue(loop.stores[n], OriginalMem(k))
         /\ \A n \in FloatStores : Target(n) \in {Unset} \cup FloatVars
         /\ \A n \in Repeated : Target(n) = Unset \/ \E m \in Repeated : Target(n) = loop.stores[m].var
<1>1. ASSUME NEW n \in IntStores
      PROVE  /\ Target(n) = loop.stores[n].var
             /\ Value(n) = BufferedValue(loop.stores[n], OriginalMem(k))
  <2>1. n \notin FloatStores
    BY StoreKinds
  <2>2. At(ints, Slot(n)) = Item(n, k)
    BY <2>1 DEF At, Keeps, Slot
  <2>3. Target(n) = At(ints, Slot(n))[1] /\ Value(n) = At(ints, Slot(n))[2]
    BY <2>1 DEF Target, Value
  <2>. QED  BY <2>2, <2>3 DEF Item
<1>2. ASSUME NEW n \in FloatStores
      PROVE  Target(n) = Unset \/ \E m \in FloatStores : Target(n) = loop.stores[m].var
  <2>1. PICK a : Target(n) = At(faddrs, a)
    BY DEF Target
  <2>. QED  BY <2>1 DEF At, MemoryType
<1>3. ASSUME NEW n \in FloatStores PROVE Target(n) \in {Unset} \cup FloatVars
  BY <1>2, StoreKinds
<1>4. ASSUME NEW n \in Repeated
      PROVE  Target(n) = Unset \/ \E m \in Repeated : Target(n) = loop.stores[m].var
  BY <1>1, <1>2 DEF Repeated
<1>. QED  BY <1>1, <1>3, <1>4

\* What is restored has the value of the trip that is replayed, whatever is in the
\* memory, and what was not touched keeps its own.
LEMMA ReplayRestores ==
  ASSUME loop \in Loops, Rewritten, MemoryType, NEW p \in Nat, NEW k \in Int,
         Keeps(p, k), sint = p * Ints
  PROVE  /\ Agrees(Unbuffered, k, Kept)
         /\ \A v \in Untouched : Unbuffered[v] = mem[v]
         /\ \A v \in Vars : ~IsStored(v) => Unbuffered[v] = mem[v]
         /\ Unbuffered = [v \in Vars |-> Unbuffered[v]]
<1>1. /\ DOMAIN loop.stores = 1..Count /\ IntStores \subseteq 1..Count /\ FloatStores \subseteq 1..Count
      /\ Repeated = IntStores \cup FloatStores /\ Count \in Nat
  BY StoreKinds DEF Repeated
<1>2. ASSUME NEW v \in Vars
      PROVE  Unbuffered[v] =
               IF \A n \in Repeated : Target(n) # v THEN mem[v]
               ELSE Value(CHOOSE n \in Repeated :
                       Target(n) = v /\ \A m \in Repeated : Target(m) = v => m <= n)
  BY DEF Unbuffered
<1>3. ASSUME NEW v \in Untouched PROVE Unbuffered[v] = mem[v]
  <2>1. v \in Vars /\ \A m \in Repeated : loop.stores[m].var # v
    BY <1>1 DEF Untouched, StoresTo
  <2>2. v # Unset
    BY <2>1 DEF Unset, Vars, FloatVars
  <2>3. \A n \in Repeated : Target(n) # v
    BY <2>1, <2>2, ReplayTargets
  <2>. QED  BY <1>2, <2>1, <2>3
<1>4. ASSUME NEW v \in Vars, ~IsStored(v) PROVE Unbuffered[v] = mem[v]
  <2>1. v \in Untouched
    BY <1>4 DEF IsStored, Untouched
  <2>. QED  BY <1>3, <2>1
<1>5. ASSUME NEW v \in Vars, Restored(v) PROVE Unbuffered[v] = OriginalMem(k)[v]
  <2>1. CASE StoresTo(v) = {}
    <3>1. v # "i" /\ ~IsStored(v)
      BY <2>1, StoreKinds DEF IsStored
    <3>2. Unbuffered[v] = 0
      BY <1>4, <3>1 DEF MemoryType
    <3>. QED  BY <2>1, <3>1, <3>2, OriginalType
  <2>2. ASSUME NEW l \in StoresTo(v) \cap IntStores,
               \A m \in StoresTo(v) \cap Repeated : m <= l,
               loop.stores[l].place = "early" =>
                 \A m \in StoresTo(v) : loop.stores[m].nth <= loop.stores[l].nth
        PROVE  Unbuffered[v] = OriginalMem(k)[v]
    <3>. DEFINE Late(n) == Target(n) = v /\ \A m \in Repeated : Target(m) = v => m <= n
    <3>1. /\ l \in IntStores /\ l \in Repeated /\ l \in 1..Count /\ loop.stores[l].var = v
          /\ v \notin FloatVars /\ v # Unset
      <4>1. l \in IntStores /\ l \in Repeated /\ l \in 1..Count /\ loop.stores[l].var = v
        BY <1>1, <2>2 DEF StoresTo
      <4>. QED  BY <4>1, StoreKinds DEF Unset, Vars, FloatVars
    <3>2. Target(l) = v /\ Value(l) = BufferedValue(loop.stores[l], OriginalMem(k))
      BY <3>1, ReplayTargets
    <3>3. ASSUME NEW m \in Repeated, Target(m) = v PROVE m <= l
      <4>1. m \in IntStores
        BY <1>1, <3>1, <3>3, ReplayTargets
      <4>2. m \in StoresTo(v)
        BY <1>1, <3>3, <4>1, ReplayTargets DEF StoresTo
      <4>. QED  BY <2>2, <3>3, <4>2
    <3>4. \A n \in Repeated : Late(n) => n = l
      <4>1. ASSUME NEW n \in Repeated, Late(n) PROVE n = l
        <5>1. n <= l /\ l <= n /\ n \in Int /\ l \in Int
          BY <1>1, <3>1, <3>2, <3>3, <4>1
        <5>. QED  BY <5>1
      <4>. QED  BY <4>1
    <3>5. Late(l)
      BY <3>2, <3>3
    <3>6. (CHOOSE n \in Repeated : Late(n)) = l
      <4>. HIDE DEF Late
      <4>. QED  BY <3>1, <3>4, <3>5
    <3>7. Unbuffered[v] = BufferedValue(loop.stores[l], OriginalMem(k))
      BY <1>2, <3>1, <3>2, <3>6
    <3>8. CASE loop.stores[l].place = "early"
      <4>1. Unbuffered[v] = Written(loop.stores[l], k)
        BY <3>7, <3>8, OriginalType DEF BufferedValue
      <4>2. v # "i"
        BY <3>1, <3>8, StoreKinds
      <4>3. Latest(v) = l
        <5>. DEFINE Top(n) == \A m \in StoresTo(v) : loop.stores[m].nth <= loop.stores[n].nth
        <5>1. l \in StoresTo(v) /\ Top(l)
          BY <2>2, <3>8
        <5>2. \A n \in StoresTo(v) : Top(n) => n = l
          <6>1. ASSUME NEW n \in StoresTo(v), Top(n) PROVE n = l
            <7>1. /\ loop.stores[n].nth <= loop.stores[l].nth
                  /\ loop.stores[l].nth <= loop.stores[n].nth /\ n \in 1..Count
              BY <1>1, <5>1, <6>1 DEF StoresTo
            <7>2. loop.stores[n].nth \in Nat /\ loop.stores[l].nth \in Nat
              BY <3>1, <7>1, StoreKinds
            <7>3. loop.stores[n].nth = loop.stores[l].nth
              BY <7>1, <7>2
            <7>. QED  BY <3>1, <7>1, <7>3, StoreKinds
          <6>. QED  BY <6>1
        <5>3. (CHOOSE n \in StoresTo(v) : Top(n)) = l
          <6>. HIDE DEF Top
          <6>. QED  BY <5>1, <5>2
        <5>. QED  BY <5>3 DEF Latest
      <4>4. OriginalMem(k)[v] = Written(loop.stores[l], k)
        BY <2>2, <4>2, <4>3, OriginalType
      <4>. QED  BY <4>1, <4>4
    <3>9. CASE loop.stores[l].place # "early"
      BY <3>1, <3>7, <3>9 DEF BufferedValue
    <3>. QED  BY <3>8, <3>9
  <2>. QED  BY <1>5, <2>1, <2>2 DEF Restored
<1>6. Agrees(Unbuffered, k, Kept)
  BY <1>5 DEF Agrees, Kept
<1>7. Unbuffered = [v \in Vars |-> Unbuffered[v]]
  BY DEF Unbuffered
<1>. QED  BY <1>3, <1>4, <1>6, <1>7

\* The positions of a trip are behind those of the trips before it.
LEMMA Behind ==
  ASSUME NEW p \in Nat, NEW q \in Nat, p < q, NEW s \in Nat, NEW j \in Nat, j < s
  PROVE  p * s + j < q * s /\ p * s \in Nat /\ q * s \in Nat
<1>1. (p + 1) * s + (p + 1) * 0 <= q * (s + 0)
  <2>1. p + 1 \in Nat /\ p + 1 <= q
    OBVIOUS
  <2>. QED  BY <2>1, Products
<1>2. (p + 1) * s = p * s + s /\ p * s \in Nat
  BY OneMore
<1>3. q * s \in Nat
  OBVIOUS
<1>. QED  BY <1>1, <1>2, <1>3

\* A trip is buffered behind the trips before it, which stay.
LEMMA BufferingAdds ==
  ASSUME loop \in Loops, MemoryType, NEW q \in Nat, sint = q * Ints, iaddr = q * loop.outs,
         NEW k, k = mem["i"], BufferSize \in Nat,
         BufferStores(AfterStores(mem)), BufferAddresses, ~wild', loop' = loop
  PROVE  /\ Keeps(q, k)'
         /\ \A p \in Nat, j \in Int : p < q /\ Keeps(p, j) => Keeps(p, j)'
<1>0. /\ loop.outs \in Nat /\ Ints \in Nat /\ sint \in Nat /\ iaddr \in Nat /\ k \in Int
      /\ \A n \in IntStores : n \notin FloatStores
  BY LoopFacts, Fractions, StoreKinds DEF MemoryType
<1>1. \A n \in IntStores : Slot(n) = q * Ints + IntsIn(n - 1)
  BY <1>0 DEF Slot
<1>. DEFINE slots == {Slot(n) : n \in IntStores}
            items == [n \in IntStores |-> Item(n, k)]
<1>2. ints' = [p \in DOMAIN ints \cup slots |->
                 IF p \in slots THEN items[CHOOSE n \in IntStores : Slot(n) = p] ELSE ints[p]]
  <2>1. IntStores \subseteq DOMAIN loop.stores
    BY DEF IntStores
  <2>. DEFINE var == [n \in DOMAIN loop.stores |-> loop.stores[n].var]
              value == [n \in DOMAIN loop.stores |-> BufferedValue(loop.stores[n], AfterStores(mem))]
  <2>2. ints' = Buffered(ints, IntStores, [n \in IntStores |-> <<var[n], value[n]>>])
    BY DEF BufferStores
  <2>3. [n \in IntStores |-> <<var[n], value[n]>>] = items
    BY <2>1, FirstPartStores DEF Item
  <2>. HIDE DEF var, value, items
  <2>4. ints' = Buffered(ints, IntStores, items)
    BY <2>2, <2>3
  <2>. QED  BY <2>4 DEF Buffered
<1>3. \A n \in IntStores : (CHOOSE m \in IntStores : Slot(m) = Slot(n)) = n
  <2>1. ASSUME NEW m \in IntStores, NEW n \in IntStores, Slot(m) = Slot(n) PROVE m = n
    <3>1. Slot(m) = sint + IntsIn(m - 1) /\ Slot(n) = sint + IntsIn(n - 1)
      BY <1>0 DEF Slot
    <3>2. IntsIn(m - 1) \in Nat /\ IntsIn(n - 1) \in Nat
      BY Counted
    <3>3. IntsIn(m - 1) = IntsIn(n - 1)
      <4>1. \A a, b, c \in Nat : c + a = c + b => a = b
        OBVIOUS
      <4>2. sint + IntsIn(m - 1) = sint + IntsIn(n - 1)
        BY <2>1, <3>1, Zenon
      <4>. QED  BY <1>0, <3>2, <4>1, <4>2, Zenon
    <3>. QED  BY <3>3, Counted
  <2>. QED  BY <2>1
<1>4. /\ DOMAIN ints' = slots \cup DOMAIN ints
      /\ \A n \in IntStores : ints'[Slot(n)] = Item(n, k)
      /\ \A p \in DOMAIN ints \ slots : ints'[p] = ints[p]
  <2>1. DOMAIN ints' = slots \cup DOMAIN ints
    BY <1>2
  <2>2. ASSUME NEW n \in IntStores PROVE ints'[Slot(n)] = Item(n, k)
    BY <1>2, <1>3
  <2>3. ASSUME NEW p \in DOMAIN ints \ slots PROVE ints'[p] = ints[p]
    BY <1>2
  <2>. QED  BY <2>1, <2>2, <2>3
<1>. DEFINE places == {p \in iaddr..(iaddr + loop.outs - 1) : p < BufferSize}
<1>5. /\ DOMAIN addrs' = places \cup DOMAIN addrs
      /\ \A p \in places : addrs'[p] = Addresses(k)[p - iaddr]
      /\ \A p \in DOMAIN addrs \ places : addrs'[p] = addrs[p]
  BY DEF BufferAddresses
<1>6. iaddr + loop.outs <= BufferSize
  <2>1. wild' = (wild \/ iaddr' > BufferSize) /\ iaddr' = iaddr + loop.outs
    BY DEF BufferAddresses
  <2>2. ~(iaddr' > BufferSize)
    BY <2>1, Zenon
  <2>. QED  BY <1>0, <2>1, <2>2
<1>7. /\ loop'.outs = loop.outs /\ Ints' = Ints /\ IntStores' = IntStores
      /\ \A n : IntsIn(n)' = IntsIn(n) /\ \A j : Addresses(j)' = Addresses(j)
      /\ \A n, j : Item(n, j)' = Item(n, j)
  <2>1. IntStores' = IntStores
    BY SameStores
  <2>2. \A n : IntsIn(n)' = IntsIn(n)
    BY <2>1, Zenon DEF IntsIn
  <2>. QED  BY <2>1, <2>2, SameStores, SameLoop
<1>. HIDE DEF slots, places
<1>8. Keeps(q, k)'
  <2>1. ASSUME NEW j \in 0..(loop.outs - 1)
        PROVE  q * loop.outs + j \in DOMAIN addrs' /\ addrs'[q * loop.outs + j] = Addresses(k)[j]
    <3>1. iaddr + j \in places /\ (iaddr + j) - iaddr = j
      BY <1>0, <1>6 DEF places
    <3>. QED  BY <1>5, <3>1
  <2>2. ASSUME NEW n \in IntStores
        PROVE  q * Ints + IntsIn(n - 1) \in DOMAIN ints' /\ ints'[q * Ints + IntsIn(n - 1)] = Item(n, k)
    <3>1. Slot(n) \in slots /\ Slot(n) = q * Ints + IntsIn(n - 1)
      BY <1>1 DEF slots
    <3>. QED  BY <1>4, <3>1
  <2>. QED  BY <1>7, <2>1, <2>2 DEF Keeps
<1>9. ASSUME NEW p \in Nat, NEW i \in Int, p < q, Keeps(p, i) PROVE Keeps(p, i)'
  <2>1. ASSUME NEW j \in 0..(loop.outs - 1)
        PROVE  p * loop.outs + j \in DOMAIN addrs' /\ addrs'[p * loop.outs + j] = Addresses(i)[j]
    <3>1. p * loop.outs + j < q * loop.outs
      <4>1. j \in Nat /\ j < loop.outs
        BY <1>0
      <4>. QED  BY <1>0, <1>9, <4>1, Behind
    <3>2. p * loop.outs + j \notin places
      BY <1>0, <3>1 DEF places
    <3>. QED  BY <1>5, <1>9, <3>2 DEF Keeps
  <2>2. ASSUME NEW n \in IntStores
        PROVE  p * Ints + IntsIn(n - 1) \in DOMAIN ints' /\ ints'[p * Ints + IntsIn(n - 1)] = Item(n, i)
    <3>1. p * Ints + IntsIn(n - 1) < q * Ints /\ q * Ints \in Nat
      BY <1>0, <1>9, Counted, Behind
    <3>2. \A m \in IntStores : Slot(m) >= q * Ints
      BY <1>1, <3>1, Counted
    <3>3. p * Ints + IntsIn(n - 1) \notin slots
      <4>1. \A m \in IntStores : Slot(m) # p * Ints + IntsIn(n - 1)
        <5>1. p * Ints + IntsIn(n - 1) \in Int
          BY <1>0, Counted
        <5>2. \A m \in IntStores : Slot(m) \in Int
          BY <1>0, <1>1, Counted
        <5>. QED  BY <3>1, <3>2, <5>1, <5>2
      <4>. QED  BY <4>1 DEF slots
    <3>. QED  BY <1>4, <1>9, <3>3 DEF Keeps
  <2>. QED  BY <1>7, <2>1, <2>2 DEF Keeps
<1>. QED  BY <1>8, <1>9

\* The floats of a trip are buffered with their own addresses.
LEMMA FloatTargets ==
  ASSUME loop \in Loops, BufferStores(AfterStores(mem)), loop' = loop,
         \A p \in DOMAIN faddrs : \E n \in FloatStores : faddrs[p] = loop.stores[n].var
  PROVE  \A p \in DOMAIN faddrs' : \E n \in FloatStores' : faddrs'[p] = loop'.stores[n].var
<1>. DEFINE slots == {Slot(n) : n \in FloatStores}
            var == [n \in DOMAIN loop.stores |-> loop.stores[n].var]
<1>1. faddrs' = [p \in DOMAIN faddrs \cup slots |->
                   IF p \in slots THEN var[CHOOSE n \in FloatStores : Slot(n) = p] ELSE faddrs[p]]
  BY DEF BufferStores, Buffered
<1>2. FloatStores' = FloatStores /\ FloatStores \subseteq DOMAIN loop.stores
  BY SameStores DEF FloatStores
<1>3. ASSUME NEW p \in DOMAIN faddrs' PROVE \E n \in FloatStores : faddrs'[p] = loop.stores[n].var
  <2>1. CASE p \in slots
    <3>1. PICK n \in FloatStores : n = CHOOSE m \in FloatStores : Slot(m) = p
      BY <2>1
    <3>2. faddrs'[p] = var[n]
      BY <1>1, <2>1, <3>1
    <3>. QED  BY <1>2, <3>2
  <2>2. CASE p \notin slots
    <3>1. p \in DOMAIN faddrs /\ faddrs'[p] = faddrs[p]
      BY <1>1, <1>3, <2>2
    <3>. QED  BY <3>1
  <2>. QED  BY <2>1, <2>2
<1>. QED  BY <1>2, <1>3

-----------------------------------------------------------------------------
\* What a last part has to see is the same as long as the loop is.
LEMMA SameOwn ==
  ASSUME loop' = loop
  PROVE  /\ \A e, k : Own(e, k)' <=> Own(e, k)
         /\ \A k : CallsOfTrip(k)' = CallsOfTrip(k)
         /\ \A m, k, names : Agrees(m, k, names)' <=> Agrees(m, k, names)
<1>1. ASSUME NEW k PROVE OriginalMem(k)' = OriginalMem(k) /\ Addresses(k)' = Addresses(k)
  BY SameStores
<1>2. ASSUME NEW k PROVE Original(k)' = Original(k)
  BY <1>1, Zenon DEF Original
<1>3. (Rewritten' <=> Rewritten) /\ Kept' = Kept
  BY SameLoop, SameStores
<1>4. ASSUME NEW m, NEW k, NEW names PROVE Agrees(m, k, names)' <=> Agrees(m, k, names)
  BY <1>1, Zenon DEF Agrees
<1>5. ASSUME NEW e, NEW k PROVE Own(e, k)' <=> Own(e, k)
  <2>1. Agrees(e.mem, k, Kept)' <=> Agrees(e.mem, k, Kept)
    BY <1>1, <1>3, Zenon DEF Agrees
  <2>. QED  BY <1>1, <1>2, <1>3, <2>1, Zenon DEF Own
<1>6. ASSUME NEW k PROVE CallsOfTrip(k)' = CallsOfTrip(k)
  BY Zenon DEF CallsOfTrip
<1>. QED  BY <1>4, <1>5, <1>6

\* What is not stored to stays in the buffers.
LEMMA SameBuffers ==
  ASSUME loop' = loop, UNCHANGED <<addrs, ints>>
  PROVE  \A p, k : Keeps(p, k)' <=> Keeps(p, k)
<1>1. /\ IntStores' = IntStores /\ \A n, k : Item(n, k)' = Item(n, k)
      /\ \A k : Addresses(k)' = Addresses(k)
  BY SameStores
<1>2. \A n : IntsIn(n)' = IntsIn(n)
  BY <1>1, Zenon DEF IntsIn
<1>3. Ints' = Ints /\ loop'.outs = loop.outs
  BY SameLoop
<1>4. ASSUME NEW p, NEW k PROVE Keeps(p, k)' <=> Keeps(p, k)
  BY <1>1, <1>2, <1>3, Zenon DEF Keeps
<1>. QED  BY <1>4

\* The memory stays, but for what is stored to.
LEMMA SameMemory ==
  ASSUME loop' = loop, MemoryType, UNCHANGED faddrs, mem' = [v \in Vars |-> mem'[v]],
         mem'["i"] \in Int, \A v \in Vars : v # "i" /\ ~IsStored(v) => mem'[v] = mem[v]
  PROVE  MemoryType'
<1>1. (\A v : IsStored(v)' <=> IsStored(v)) /\ FloatStores' = FloatStores
  BY SameStores DEF IsStored
<1>2. \A v \in Vars : v # "i" /\ ~IsStored(v)' => mem'[v] = 0
  BY <1>1 DEF MemoryType
<1>3. \A p \in DOMAIN faddrs' : \E n \in FloatStores' : faddrs'[p] = loop'.stores[n].var
  BY <1>1 DEF MemoryType
<1>. QED  BY <1>2, <1>3 DEF MemoryType

\* What the parts of the invariant say where only the control goes on.
LEMMA SameEffects ==
  ASSUME loop' = loop, UNCHANGED effects, EffectsInv
  PROVE  EffectsInv'
<1>1. \A e, k : Own(e, k)' <=> Own(e, k)
  BY SameOwn
<1>. QED  BY <1>1 DEF EffectsInv

\* Nothing is buffered at first, and nothing was replayed.
LEMMA InitTame == BatchInit => TameInv
<1>. SUFFICES ASSUME BatchInit PROVE TameInv
  OBVIOUS
<1>1. /\ loop \in Loops /\ pc = "header" /\ trip = 1 /\ effects = <<>> /\ inbuf = <<>>
      /\ mem = [v \in Vars |-> IF v = "i" THEN 1 ELSE 0] /\ feed = 0
  BY DEF BatchInit
<1>2. Len(effects) = 0 /\ Len(inbuf) = 0 /\ IsSeq(effects)
  BY <1>1, Sequenced
<1>3. loop.trips \in Nat
  BY <1>1, LoopFacts
<1>4. MemoryType
  <2>1. faddrs = <<>> /\ DOMAIN faddrs = {}
    BY DEF BatchInit
  <2>. QED  BY <1>1, <2>1 DEF MemoryType, Vars
<1>5. BuffersInv
  BY <1>1, <1>2 DEF BuffersInv, From, To, Emptying
<1>6. CallsInv
  BY <1>1, <1>2 DEF CallsInv, Emptying
<1>7. TripInv
  BY <1>1, <1>2, <1>3 DEF TripInv, Emptying, Vars
<1>8. BatchInv
  <2>1. From = 0
    BY <1>1 DEF From, Emptying
  <2>2. \A b \in Nat : 0 = 0 * b + 0
    OBVIOUS
  <2>3. (IF Rewritten THEN Batch ELSE 1) \in Nat
    BY <1>1, LoopFacts DEF Batch
  <2>. QED  BY <1>2, <2>1, <2>2, <2>3 DEF BatchInv
<1>9. FeedInv
  BY <1>1 DEF FeedInv
<1>10. EffectsInv
  BY <1>2 DEF EffectsInv
<1>. QED  BY <1>4, <1>5, <1>6, <1>7, <1>8, <1>9, <1>10 DEF TameInv

\* What the steps have in common.
LEMMA StepFacts ==
  ASSUME BatchBase, TameInv, ~wild
  PROVE  /\ loop \in Loops /\ Batch \in Nat \ {0} /\ loop.trips \in Nat /\ loop.brk \in Nat
         /\ Len(inbuf) \in Nat /\ Len(effects) \in Nat /\ Len(outbuf) \in Nat
         /\ IsSeq(inbuf) /\ IsSeq(effects) /\ IsSeq(outbuf)
         /\ MemoryType /\ mem["i"] \in Int /\ "i" \in Vars
         /\ Rewritten /\ loop.feeds \notin {"approx", "call"} => loop.feeds = "nothing"
         /\ BuffersInv /\ CallsInv /\ TripInv /\ BatchInv /\ FeedInv /\ EffectsInv
<1>1. /\ loop \in Loops /\ IsSeq(inbuf) /\ IsSeq(effects) /\ IsSeq(outbuf) /\ MemoryType
      /\ BuffersInv /\ CallsInv /\ TripInv /\ BatchInv /\ FeedInv /\ EffectsInv
  BY DEF BatchBase, Counters, TameInv, TripInv
<1>2. Len(inbuf) \in Nat /\ Len(effects) \in Nat /\ Len(outbuf) \in Nat
  BY <1>1, Sequenced
<1>3. Batch \in Nat \ {0} /\ loop.trips \in Nat /\ loop.brk \in Nat
  BY <1>1, LoopFacts DEF Batch
<1>4. mem["i"] \in Int /\ "i" \in Vars
  BY <1>1 DEF MemoryType, Vars
<1>5. Rewritten /\ loop.feeds \notin {"approx", "call"} => loop.feeds = "nothing"
  <2>1. loop \in LoopType
    BY <1>1, LoopsAssumption
  <2>2. loop.feeds \in {"nothing", "approx", "precise", "call", "register"}
    BY <2>1 DEF LoopType
  <2>. QED  BY <2>2 DEF Rewritten, DependencyCheck
<1>. QED  BY <1>1, <1>2, <1>3, <1>4, <1>5

\* The memory stays as it is.
LEMMA MemoryStays ==
  ASSUME loop' = loop, MemoryType, UNCHANGED <<mem, faddrs>>
  PROVE  MemoryType'
<1>1. mem' = [v \in Vars |-> mem'[v]] /\ mem'["i"] \in Int
  BY DEF MemoryType
<1>. QED  BY <1>1, SameMemory

\* What the invariant says of the trips after a step.
LEMMA TripNext ==
  ASSUME loop' = loop
  PROVE  TripInv' <=>
           /\ trip' \in Nat \ {0} /\ IsSeq(effects')
           /\ pc' # "exit" => trip' <= IF pc' = "header" THEN loop.trips + 1 ELSE loop.trips
           /\ pc' \in {"header", "first"} =>
                trip' = Len(effects') + Len(inbuf') + 1 /\ mem'["i"] = trip'
           /\ pc' = "last" => trip' = Len(effects') + 1 /\ reg' = trip' /\ mem' = OriginalMem(trip')
           /\ pc' \in {"latch", "call"} => trip' = Len(effects') + Len(inbuf')
           /\ pc' = "call" => mem' = OriginalMem(trip')
           /\ pc' = "latch" => Agrees(mem', trip', Kept \cup Untouched)
           /\ Emptying' => trip' = Len(effects') + Len(outbuf') /\ Agrees(mem', trip', Untouched)
           /\ pc' = "check" => Agrees(mem', Len(effects'), Kept)
           /\ pc' = "exit" => \/ /\ mem'["i"] > loop.trips
                                 /\ loop.trips = Len(effects') + Len(inbuf') /\ Len(inbuf') < Batch
                              \/ loop.brk <= loop.trips /\ Agrees(mem', loop.brk, Kept)
<1>1. PICK t, k, b, m : t = trip' /\ k = Len(effects') /\ b = loop.brk /\ m = mem'
  OBVIOUS
<1>2. \A j : OriginalMem(j)' = OriginalMem(j)
  BY SameStores
<1>3. /\ OriginalMem(t)' = OriginalMem(trip)' /\ OriginalMem(k)' = OriginalMem(Len(effects))'
      /\ OriginalMem(b)' = OriginalMem(loop.brk)'
  BY <1>1 DEF OriginalMem, AfterStores
<1>4. Kept' = Kept /\ Untouched' = Untouched /\ Batch' = Batch
  BY SameStores, SameLoop
<1>5. /\ OriginalMem(trip)' = OriginalMem(trip')
      /\ (Agrees(mem, trip, Kept \cup Untouched)' <=> Agrees(mem', trip', Kept \cup Untouched))
      /\ (Agrees(mem, trip, Untouched)' <=> Agrees(mem', trip', Untouched))
      /\ (Agrees(mem, Len(effects), Kept)' <=> Agrees(mem', Len(effects'), Kept))
      /\ (Agrees(mem, loop.brk, Kept)' <=> Agrees(mem', loop.brk, Kept))
  BY <1>1, <1>2, <1>3, <1>4 DEF Agrees
<1>6. loop'.trips = loop.trips /\ loop'.brk = loop.brk /\ (IsSeq(effects)' <=> IsSeq(effects'))
  BY DEF IsSeq
<1>. QED  BY <1>1, <1>4, <1>5, <1>6 DEF TripInv

\* The memory of a trip agrees with itself.
LEMMA AgreesItself == \A k, names : Agrees(OriginalMem(k), k, names)
BY DEF Agrees

\* The header leaves the loop, or goes on to the first part.
LEMMA HeaderTame ==
  ASSUME BatchBase, TameInv, ~wild, ~wild', Header PROVE TameInv'
<1>1. /\ pc = "header" /\ pc' = IF mem["i"] <= loop.trips THEN "first" ELSE "exit"
      /\ UNCHANGED <<loop, entry, trip, mem, reg, feed, effects, inbuf, addrs, ints, faddrs, outbuf>>
  BY DEF Header, program, buffers, output
<1>. USE StepFacts
<1>2. MemoryType' /\ EffectsInv'
  BY <1>1, MemoryStays, SameEffects
<1>3. ~Emptying /\ ~Emptying' /\ Origin' = Origin /\ From = 0 /\ From' = 0 /\ To = Len(inbuf)
      /\ To' = To /\ Batch' = Batch /\ (Rewritten' <=> Rewritten)
  BY <1>1, SameLoop DEF Emptying, Origin, From, To
<1>4. BuffersInv'
  BY <1>1, <1>3, SameBuffers DEF BuffersInv
<1>5. CallsInv'
  BY <1>1, <1>3, SameOwn DEF CallsInv, Filling
<1>6. TripInv'
  <2>1. Len(inbuf) < Batch
    BY <1>1 DEF BatchBase, Stages
  <2>2. PICK k \in Nat, q \in Nat : k = Len(effects) /\ q = Len(inbuf)
    OBVIOUS
  <2>3. /\ trip = k + q + 1 /\ mem["i"] = trip /\ trip <= loop.trips + 1
        /\ trip \in Nat \ {0} /\ IsSeq(effects')
    BY <1>1, <2>2 DEF TripInv, IsSeq
  <2>4. Len(effects') = k /\ Len(inbuf') = q /\ q < Batch
    BY <1>1, <2>1, <2>2
  <2>5. pc' \in {"first", "exit"} /\ trip' = trip /\ mem' = mem
    BY <1>1
  <2>6. CASE pc' = "first"
    BY <1>1, <1>3, <2>3, <2>4, <2>5, <2>6, TripNext
  <2>7. CASE pc' = "exit"
    <3>1. mem["i"] > loop.trips /\ loop.trips = k + q
      BY <1>1, <2>3, <2>7
    <3>2. /\ mem'["i"] > loop.trips /\ loop.trips = Len(effects') + Len(inbuf')
          /\ Len(inbuf') < Batch /\ trip' \in Nat \ {0} /\ IsSeq(effects')
      BY <2>3, <2>4, <2>5, <3>1
    <3>3. loop' = loop /\ ~Emptying'
      BY <1>1, <1>3
    <3>. QED  BY <2>7, <3>2, <3>3, TripNext
  <2>. QED  BY <2>5, <2>6, <2>7
<1>7. BatchInv'
  BY <1>1, <1>3 DEF BatchInv
<1>8. FeedInv'
  BY <1>1, <1>3 DEF FeedInv
<1>. QED  BY <1>2, <1>4, <1>5, <1>6, <1>7, <1>8 DEF TameInv

\* The first part buffers its trip, or goes on to the last part.
LEMMA FirstPartTame ==
  ASSUME BatchBase, BatchBase', TameInv, ~wild, ~wild', FirstPart PROVE TameInv'
<1>1. /\ pc = "first" /\ mem' = AfterStores(mem) /\ reg' = mem["i"]
      /\ UNCHANGED <<loop, trip, feed, effects, outbuf>>
  BY DEF FirstPart, output
<1>. USE StepFacts
<1>2. /\ trip = Len(effects) + Len(inbuf) + 1 /\ mem["i"] = trip /\ trip \in Nat \ {0}
      /\ trip <= loop.trips
  BY <1>1 DEF TripInv
<1>3. mem' = OriginalMem(trip) /\ Agrees(mem', trip, Kept \cup Untouched)
  BY <1>1, <1>2, FirstPartStores, AgreesItself
<1>4. MemoryType' /\ EffectsInv'
  <2>1. /\ mem' = [v \in Vars |-> mem'[v]] /\ mem'["i"] \in Int
        /\ \A v \in Vars : v # "i" /\ StoresTo(v) = {} => mem'[v] = 0
    BY <1>2, <1>3, OriginalType
  <2>2. \A p \in DOMAIN faddrs' : \E n \in FloatStores' : faddrs'[p] = loop'.stores[n].var
    <3>1. CASE Rewritten
      <4>1. BufferStores(AfterStores(mem))
        BY <3>1 DEF FirstPart
      <4>. QED  BY <1>1, <4>1, FloatTargets DEF MemoryType
    <3>2. CASE ~Rewritten
      <4>1. UNCHANGED faddrs
        BY <3>2 DEF FirstPart, buffers
      <4>. QED  BY <1>1, <4>1, SameStores DEF MemoryType
    <3>. QED  BY <3>1, <3>2
  <2>3. \A v : IsStored(v)' <=> IsStored(v)
    BY <1>1, SameStores DEF IsStored
  <2>4. MemoryType'
    BY <2>1, <2>2, <2>3 DEF MemoryType, IsStored
  <2>. QED  BY <1>1, <2>4, SameEffects
<1>5. Batch' = Batch /\ (Rewritten' <=> Rewritten)
  BY <1>1, SameLoop
<1>6. CASE ~Rewritten
  <2>1. pc' = "last" /\ UNCHANGED <<inbuf, addrs, ints>> /\ inbuf = <<>>
    BY <1>6 DEF FirstPart, buffers, BatchBase, Counters
  <2>2. ~Emptying /\ ~Emptying' /\ Origin' = Origin /\ From = 0 /\ From' = 0
        /\ To = Len(inbuf) /\ To' = To /\ Len(inbuf) = 0
    BY <1>1, <2>1 DEF Emptying, Origin, From, To
  <2>3. BuffersInv'
    BY <2>2 DEF BuffersInv
  <2>4. CallsInv'
    BY <2>1, <2>2 DEF CallsInv
  <2>5. TripInv'
    <3>1. /\ pc' = "last" /\ trip' = trip /\ trip = Len(effects') + 1 /\ reg' = trip
          /\ mem' = OriginalMem(trip') /\ IsSeq(effects')
      BY <1>1, <1>2, <1>3, <2>1, <2>2
    <3>. QED  BY <1>1, <1>2, <2>2, <3>1, TripNext
  <2>6. BatchInv'
    BY <1>1, <1>5, <2>1, <2>2 DEF BatchInv
  <2>7. FeedInv'
    BY <1>1, <1>5, <2>1 DEF FeedInv
  <2>. QED  BY <1>4, <2>3, <2>4, <2>5, <2>6, <2>7 DEF TameInv
<1>7. CASE Rewritten
  <2>1. /\ BufferStores(AfterStores(mem)) /\ BufferAddresses
        /\ inbuf' = Append(inbuf, Inputs) /\ pc' \in {"call", "latch"}
    BY <1>7 DEF FirstPart
  <2>0. PICK q \in Nat, t \in Nat : q = Len(inbuf) /\ t = trip
    BY <1>2
  <2>2. Len(inbuf') = q + 1 /\ IsSeq(inbuf')
    BY <2>0, <2>1, Sequenced
  <2>3. ~Emptying /\ ~Emptying' /\ Origin' = Origin /\ From = 0 /\ From' = 0
        /\ To = q /\ To' = q + 1 /\ Origin = Len(effects) + 1
    BY <1>1, <2>0, <2>1, <2>2 DEF Emptying, Origin, From, To
  <2>4. iaddr = q * loop.outs /\ sint = q * Ints
    <3>1. sint = Position * Ints /\ Position = q
      BY <1>1, <2>0 DEF BatchBase, Stages, Position
    <3>. QED  BY <2>0, <3>1 DEF BatchBase, Counters
  <2>5. Keeps(q, t)' /\ \A p \in Nat, j \in Int : p < q /\ Keeps(p, j) => Keeps(p, j)'
    <3>1. BufferSize \in Nat /\ t = mem["i"]
      BY <1>2, <2>0, LoopFacts
    <3>. QED  BY <1>1, <2>1, <2>4, <3>1, BufferingAdds
  <2>6. BuffersInv'
    <3>0. \A p \in 0..Batch : p < q => Keeps(p, Origin + p)
      <4>1. pc # "exit" /\ From = 0 /\ To = q
        BY <1>1, <2>3
      <4>. QED  BY <4>1 DEF BuffersInv
    <3>1. ASSUME NEW p \in 0..Batch, p < q + 1, NEW j \in Int, j = Origin + p
          PROVE  Keeps(p, j)'
      <4>1. CASE p = q
        <5>1. j = t
          BY <1>2, <2>0, <2>3, <3>1, <4>1
        <5>. QED  BY <2>5, <4>1, <5>1
      <4>2. CASE p # q
        <5>1. p < q /\ p \in Nat
          BY <3>1, <4>2
        <5>2. Keeps(p, j)
          BY <3>0, <3>1, <5>1
        <5>. QED  BY <2>5, <5>1, <5>2
      <4>. QED  BY <4>1, <4>2
    <3>2. ASSUME NEW p \in 0..Batch, p < q + 1 PROVE Keeps(p, Origin + p)'
      <4>1. PICK j \in Int : j = Origin + p
        BY <2>3
      <4>2. Origin' + p = j
        BY <2>3, <4>1
      <4>3. Keeps(p, j)'
        BY <3>1, <3>2, <4>1
      <4>. QED  BY <4>2, <4>3 DEF Keeps
    <3>. QED  BY <1>5, <2>3, <3>2 DEF BuffersInv
  <2>7. CallsInv'
    <3>1. ASSUME NEW j \in 1..(q + 1) PROVE inbuf'[j] \in CallsOfTrip(Len(effects) + j)
      <4>1. CASE j = q + 1
        <5>1. inbuf'[j] = Inputs
          BY <2>0, <2>1, <4>1 DEF IsSeq
        <5>2. Inputs = [i |-> trip, feed |-> feed] /\ trip = Len(effects) + j
          BY <1>2, <2>0, <4>1 DEF Inputs
        <5>. QED  BY <5>1, <5>2 DEF CallsOfTrip, FeedInv
      <4>2. CASE j # q + 1
        <5>1. j \in 1..q /\ inbuf'[j] = inbuf[j]
          <6>1. j \in 1..q
            BY <3>1, <4>2
          <6>. QED  BY <2>0, <2>1, <6>1 DEF IsSeq
        <5>. QED  BY <1>1, <2>0, <5>1 DEF CallsInv, Filling
      <4>. QED  BY <4>1, <4>2
    <3>. QED  BY <1>1, <2>2, <2>3, <3>1, SameOwn DEF CallsInv
  <2>8. TripInv'
    <3>1. /\ pc' \in {"call", "latch"} /\ trip' = trip /\ IsSeq(effects')
          /\ trip' = Len(effects') + Len(inbuf')
      BY <1>1, <1>2, <2>0, <2>1, <2>2
    <3>2. mem' = OriginalMem(trip') /\ Agrees(mem', trip', Kept \cup Untouched)
      BY <1>1, <1>3
    <3>. QED  BY <1>1, <1>2, <2>3, <3>1, <3>2, TripNext
  <2>9. BatchInv'
    BY <1>1, <1>5, <2>1, <2>3 DEF BatchInv
  <2>10. FeedInv'
    BY <1>1, <1>5, <1>7, <2>1 DEF FeedInv
  <2>. QED  BY <1>4, <2>6, <2>7, <2>8, <2>9, <2>10 DEF TameInv
<1>. QED  BY <1>6, <1>7

\* The accelerator takes the calls over, and the replays begin.
LEMMA CallTame ==
  ASSUME BatchBase, BatchBase', TameInv, ~wild, ~wild', Call PROVE TameInv'
<1>1. /\ pc = "call" /\ pc' = "replay" /\ outbuf' = inbuf /\ inbuf' = <<>>
      /\ outcount' = 0 /\ UNCHANGED <<loop, trip, mem, reg, feed, effects, addrs, ints, faddrs>>
  BY DEF Call, program
<1>. USE StepFacts
<1>2. Len(inbuf) = Batch /\ Batch' = Batch /\ (Rewritten' <=> Rewritten) /\ Rewritten
  BY <1>1, SameLoop DEF BatchBase, Stages
<1>3. MemoryType' /\ EffectsInv'
  BY <1>1, MemoryStays, SameEffects
<1>4. /\ ~Emptying /\ Emptying' /\ Position' = 0 /\ Origin = Len(effects) + 1
      /\ Origin' = Origin /\ From = 0 /\ From' = 0 /\ To = Batch /\ To' = To
  <2>1. ~Emptying /\ Emptying' /\ Position' = 0
    BY <1>1 DEF Emptying, Position
  <2>2. Origin = Len(effects) + 1 /\ From = 0 /\ To = Batch
    BY <1>2, <2>1 DEF Origin, From, To
  <2>3. Origin' = Len(effects) + 1 - 0 /\ From' = 0 /\ To' = Batch
    BY <1>1, <1>2, <2>1 DEF Origin, From, To
  <2>. QED  BY <2>1, <2>2, <2>3
<1>5. BuffersInv'
  BY <1>1, <1>2, <1>4, SameBuffers DEF BuffersInv
<1>6. CallsInv'
  BY <1>1, <1>4, SameOwn DEF CallsInv, Filling
<1>7. TripInv'
  <2>1. /\ trip = Len(effects) + Len(inbuf) /\ trip \in Nat \ {0} /\ mem = OriginalMem(trip)
        /\ trip <= loop.trips
    BY <1>1 DEF TripInv
  <2>2. trip' = Len(effects') + Len(outbuf') /\ IsSeq(effects')
    BY <1>1, <2>1
  <2>3. Agrees(mem', trip', Untouched)
    BY <1>1, <2>1, AgreesItself
  <2>. QED  BY <1>1, <1>4, <2>1, <2>2, <2>3, TripNext
<1>8. BatchInv'
  BY <1>1, <1>2, <1>4 DEF BatchInv
<1>9. FeedInv'
  BY <1>1, <1>2 DEF FeedInv
<1>. QED  BY <1>3, <1>5, <1>6, <1>7, <1>8, <1>9 DEF TameInv

\* A replay sees the memory, the call and the address of its own trip.
LEMMA ReplayTame ==
  ASSUME BatchBase, BatchBase', TameInv, ~wild, ~wild', Replay PROVE TameInv'
<1>1. /\ pc = "replay" /\ mem' = Unbuffered /\ outbuf' = Tail(outbuf)
      /\ Rest(mem', Head(outbuf), [j \in 0..(loop.outs - 1) |-> At(addrs, oaddr + j)])
      /\ pc' = IF mem'["i"] = loop.brk THEN "exit" ELSE "check"
      /\ UNCHANGED <<loop, trip, reg, inbuf, addrs, ints, faddrs, outcount>>
  BY DEF Replay
<1>. USE StepFacts
<1>2. /\ Rewritten /\ outbuf # <<>> /\ Position = outcount /\ outcount \in Nat
      /\ oaddr = outcount * loop.outs /\ outcount + Len(outbuf) = Batch /\ Emptying
  BY <1>1 DEF BatchBase, Counters, Stages, Position, Emptying
<1>3. /\ IsSeq(outbuf') /\ Len(outbuf') = Len(outbuf) - 1 /\ Len(outbuf) \in Nat \ {0}
  BY <1>1, <1>2, Sequenced
<1>4. PICK k \in Nat, q \in Nat : k = Len(effects) + 1 /\ q = outcount
  BY <1>2
<1>5. Batch' = Batch /\ (Rewritten' <=> Rewritten)
  BY <1>1, SameLoop
<1>6. /\ Origin = k - q /\ From = q /\ To = Batch /\ trip = Len(effects) + Len(outbuf)
      /\ k <= trip /\ trip <= loop.trips /\ q < Batch
  BY <1>1, <1>2, <1>3, <1>4 DEF Origin, From, To, TameInv, TripInv
<1>7. Keeps(q, k)
  <2>1. q \in 0..Batch /\ From <= q /\ q < To /\ Origin + q = k
    BY <1>4, <1>6
  <2>2. Keeps(q, Origin + q)
    BY <1>1, <2>1 DEF BuffersInv
  <2>. QED  BY <2>1, <2>2
<1>8. sint = q * Ints /\ oaddr = q * loop.outs
  <2>1. sint = Position * Ints
    BY <1>1 DEF BatchBase, Stages
  <2>. QED  BY <1>2, <1>4, <2>1
<1>9. /\ Agrees(mem', k, Kept) /\ mem'["i"] = k
      /\ mem' = [v \in Vars |-> mem'[v]] /\ \A v \in Vars : ~IsStored(v) => mem'[v] = mem[v]
      /\ Agrees(mem', trip, Untouched)
  <2>1. /\ Agrees(Unbuffered, k, Kept) /\ \A v \in Untouched : Unbuffered[v] = mem[v]
        /\ \A v \in Vars : ~IsStored(v) => Unbuffered[v] = mem[v]
        /\ Unbuffered = [v \in Vars |-> Unbuffered[v]]
    BY <1>2, <1>4, <1>7, <1>8, ReplayRestores
  <2>2. Unbuffered["i"] = k
    <3>1. "i" \in Kept /\ OriginalMem(k)["i"] = k
      BY <1>4, KeptVariables, OriginalType
    <3>2. \A v \in Kept : Unbuffered[v] = OriginalMem(k)[v]
      BY <2>1 DEF Agrees
    <3>. QED  BY <3>1, <3>2
  <2>3. Agrees(mem, trip, Untouched)
    BY <1>2 DEF TripInv
  <2>. QED  BY <1>1, <2>1, <2>2, <2>3 DEF Agrees
<1>10. MemoryType'
  BY <1>1, <1>4, <1>9, SameMemory
<1>11. Head(outbuf) \in CallsOfTrip(k)
  <2>1. outbuf[1] \in CallsOfTrip(Len(effects) + 1)
    BY <1>2, <1>3 DEF CallsInv
  <2>. QED  BY <1>2, <1>4, <2>1
<1>12. [j \in 0..(loop.outs - 1) |-> At(addrs, oaddr + j)] = Addresses(k)
  <2>1. ASSUME NEW j \in 0..(loop.outs - 1) PROVE At(addrs, oaddr + j) = Addresses(k)[j]
    BY <1>7, <1>8 DEF At, Keeps
  <2>2. Addresses(k) = [j \in 0..(loop.outs - 1) |-> Addresses(k)[j]]
    BY DEF Addresses
  <2>. QED  BY <2>1, <2>2, Zenon
<1>. DEFINE e == [mem |-> mem', reg |-> IF loop.reg THEN reg ELSE 0,
                  call |-> Head(outbuf), at |-> Addresses(k)]
<1>13. effects' = Append(effects, e) /\ feed' = (IF loop.feeds = "nothing" THEN feed ELSE mem'["i"])
  BY <1>1, <1>12 DEF Rest
<1>14. Own(e, k)
  <2>1. /\ Agrees(e.mem, k, Kept) /\ e.at = Addresses(k) /\ e.call = Head(outbuf)
        /\ e.reg = IF loop.reg THEN reg ELSE 0
    BY <1>9
  <2>. HIDE DEF e
  <2>2. e.call.i = k
    BY <1>11, <2>1 DEF CallsOfTrip
  <2>3. (Rewritten => loop.feeds \notin {"approx", "call"}) => e.call = Original(k).call
    <3>1. SUFFICES ASSUME loop.feeds = "nothing" PROVE e.call = Original(k).call
      BY <1>2
    <3>2. e.call = [i |-> k, feed |-> 0]
      BY <1>11, <2>1, <3>1 DEF CallsOfTrip
    <3>. QED  BY <3>1, <3>2 DEF Original
  <2>4. (Rewritten => ~loop.reg) => e.reg = Original(k).reg
    BY <1>2, <2>1 DEF Original
  <2>. QED  BY <2>1, <2>2, <2>3, <2>4 DEF Own
<1>. HIDE DEF e
<1>15. /\ IsSeq(effects') /\ Len(effects') = k
       /\ \A j \in 1..k : effects'[j] = IF j = k THEN e ELSE effects[j]
  <2>1. IsSeq(effects') /\ Len(effects') = k
    BY <1>4, <1>13, Sequenced
  <2>2. k \in Nat /\ Len(effects) + 1 = k
    BY <1>4
  <2>. QED  BY <1>13, <2>1, <2>2, Appended
<1>16. EffectsInv'
  <2>1. ASSUME NEW j \in 1..k PROVE Own(effects'[j], j)
    BY <1>4, <1>14, <1>15 DEF EffectsInv
  <2>. QED  BY <1>1, <1>15, <2>1, SameOwn DEF EffectsInv
<1>17. FeedInv'
  BY <1>1, <1>2, <1>4, <1>5, <1>9, <1>13 DEF FeedInv
<1>18. CASE pc' = "exit"
  <2>1. mem'["i"] = loop.brk /\ k = loop.brk /\ loop.brk <= loop.trips
    BY <1>1, <1>6, <1>9, <1>18
  <2>2. ~Emptying' /\ ~Filling'
    BY <1>18 DEF Emptying, Filling
  <2>4. BuffersInv' /\ CallsInv'
    BY <1>18, <2>2 DEF BuffersInv, CallsInv
  <2>5. TripInv'
    <3>1. trip' \in Nat \ {0} /\ Agrees(mem', loop.brk, Kept) /\ loop' = loop
      BY <1>1, <1>9, <2>1 DEF TripInv
    <3>. QED  BY <1>15, <1>18, <2>1, <2>2, <3>1, TripNext
  <2>6. BatchInv'
    BY <1>1, <1>18, <2>1 DEF BatchInv
  <2>. QED  BY <1>10, <1>16, <1>17, <2>4, <2>5, <2>6 DEF TameInv
<1>19. CASE pc' = "check"
  <2>1. Emptying' /\ ~Filling' /\ Position' = q + 1 /\ From' = q + 1 /\ To' = Batch
        /\ Origin' = k + 1 - (q + 1)
    BY <1>1, <1>4, <1>5, <1>15, <1>19 DEF Emptying, Filling, Position, From, To, Origin
  <2>2. Origin' = Origin
    BY <1>4, <1>6, <2>1
  <2>3. BuffersInv'
    BY <1>1, <1>4, <1>5, <1>6, <2>1, <2>2, SameBuffers DEF BuffersInv
  <2>4. CallsInv'
    <3>1. ASSUME NEW j \in 1..Len(outbuf') PROVE outbuf'[j] \in CallsOfTrip(k + j)
      <4>1. j + 1 \in 1..Len(outbuf) /\ outbuf'[j] = outbuf[j + 1]
        <5>1. j + 1 \in 1..Len(outbuf)
          BY <1>3, <3>1
        <5>. QED  BY <1>1, <1>2, <1>3, <5>1 DEF IsSeq
      <4>2. outbuf[j + 1] \in CallsOfTrip(Len(effects) + (j + 1))
        BY <1>2, <4>1 DEF CallsInv
      <4>3. Len(effects) + (j + 1) = k + j
        BY <1>3, <1>4
      <4>. QED  BY <4>1, <4>2, <4>3
    <3>. QED  BY <1>1, <1>15, <2>1, <3>1, SameOwn DEF CallsInv
  <2>5. TripInv'
    <3>1. /\ trip' = Len(effects') + Len(outbuf') /\ Agrees(mem', Len(effects'), Kept)
          /\ Agrees(mem', trip', Untouched)
      BY <1>1, <1>3, <1>4, <1>6, <1>9, <1>15
    <3>2. trip' \in Nat \ {0} /\ trip' <= loop.trips /\ loop' = loop
      BY <1>1, <1>6 DEF TripInv
    <3>. QED  BY <1>15, <1>19, <2>1, <3>1, <3>2, TripNext
  <2>6. BatchInv'
    <3>1. PICK m \in 0..Len(effects) :
            Len(effects) = m * (IF Rewritten THEN Batch ELSE 1) + From
      BY <1>1 DEF BatchInv
    <3>2. Len(effects') = m * (IF Rewritten' THEN Batch' ELSE 1) + From' /\ m \in 0..Len(effects')
      <4>1. PICK d \in Nat : d = m * Batch
        BY <3>1
      <4>2. (IF Rewritten THEN Batch ELSE 1) = Batch /\ (IF Rewritten' THEN Batch' ELSE 1) = Batch
        BY <1>2, <1>5
      <4>3. Len(effects) = d + q
        BY <1>6, <3>1, <4>1, <4>2
      <4>4. Len(effects') = d + From'
        BY <1>4, <1>15, <2>1, <4>3
      <4>5. m \in 0..Len(effects')
        BY <1>4, <1>15, <3>1
      <4>. QED  BY <4>1, <4>2, <4>4, <4>5
    <3>. QED  BY <3>2 DEF BatchInv
  <2>. QED  BY <1>10, <1>16, <1>17, <2>3, <2>4, <2>5, <2>6 DEF TameInv
<1>. QED  BY <1>1, <1>18, <1>19

\* So does the last part of a loop that was not rewritten.
LEMMA LastPartTame ==
  ASSUME BatchBase, BatchBase', TameInv, ~wild, ~wild', LastPart PROVE TameInv'
<1>1. /\ pc = "last" /\ Rest(mem, Inputs, Addresses(mem["i"]))
      /\ pc' = IF mem["i"] = loop.brk THEN "exit" ELSE "latch"
      /\ UNCHANGED <<loop, trip, mem, reg, inbuf, addrs, ints, faddrs, outbuf>>
  BY DEF LastPart, buffers, output
<1>. USE StepFacts
<1>2. /\ ~Rewritten /\ inbuf = <<>> /\ Len(inbuf) = 0 /\ trip = Len(effects) + 1 /\ reg = trip
      /\ mem = OriginalMem(trip) /\ trip <= loop.trips /\ trip \in Nat
  BY <1>1 DEF BatchBase, Counters, Stages, TameInv, TripInv
<1>3. PICK k \in Nat : k = trip /\ k = Len(effects) + 1
  BY <1>2
<1>4. mem["i"] = k /\ \A names : Agrees(mem, k, names)
  BY <1>2, <1>3, OriginalType, AgreesItself
<1>5. Batch' = Batch /\ (Rewritten' <=> Rewritten)
  BY <1>1, SameLoop
<1>6. MemoryType'
  BY <1>1, MemoryStays
<1>. DEFINE e == [mem |-> mem, reg |-> IF loop.reg THEN reg ELSE 0, call |-> Inputs,
                  at |-> Addresses(k)]
<1>7. effects' = Append(effects, e) /\ feed' = (IF loop.feeds = "nothing" THEN feed ELSE k)
  BY <1>1, <1>4 DEF Rest
<1>8. Own(e, k)
  <2>1. /\ Agrees(e.mem, k, Kept) /\ e.at = Addresses(k) /\ e.call = [i |-> k, feed |-> feed]
        /\ e.reg = IF loop.reg THEN k ELSE 0
    BY <1>2, <1>3, <1>4 DEF Inputs
  <2>. HIDE DEF e
  <2>2. feed = IF loop.feeds = "nothing" THEN 0 ELSE k - 1
    BY <1>1, <1>2, <1>3 DEF FeedInv
  <2>3. e.call = Original(k).call
    BY <2>1, <2>2 DEF Original
  <2>4. e.reg = Original(k).reg
    BY <2>1 DEF Original
  <2>. QED  BY <2>1, <2>3, <2>4 DEF Own
<1>. HIDE DEF e
<1>9. /\ IsSeq(effects') /\ Len(effects') = k
      /\ \A j \in 1..k : effects'[j] = IF j = k THEN e ELSE effects[j]
  <2>1. IsSeq(effects') /\ Len(effects') = k
    BY <1>3, <1>7, Sequenced
  <2>2. k \in Nat /\ Len(effects) + 1 = k
    BY <1>3
  <2>. QED  BY <1>7, <2>1, <2>2, Appended
<1>10. EffectsInv'
  <2>1. ASSUME NEW j \in 1..k PROVE Own(effects'[j], j)
    BY <1>3, <1>8, <1>9 DEF EffectsInv
  <2>. QED  BY <1>1, <1>9, <2>1, SameOwn DEF EffectsInv
<1>11. FeedInv'
  BY <1>1, <1>3, <1>5, <1>7 DEF FeedInv
<1>12. ~Emptying' /\ From' = 0 /\ To' = 0
  BY <1>1, <1>2 DEF Emptying, From, To
<1>13. BuffersInv'
  BY <1>12 DEF BuffersInv
<1>14. CallsInv'
  BY <1>1, <1>2, <1>12 DEF CallsInv
<1>15. TripInv'
  <2>1. pc' = "exit" => loop.brk <= loop.trips /\ Agrees(mem', loop.brk, Kept)
    BY <1>1, <1>2, <1>3, <1>4
  <2>2. pc' \in {"exit", "latch"} /\ trip' = k /\ k \in Nat \ {0} /\ k <= loop.trips
    BY <1>1, <1>2, <1>3
  <2>3. trip' = Len(effects') + Len(inbuf') /\ Agrees(mem', trip', Kept \cup Untouched)
    BY <1>1, <1>2, <1>3, <1>4, <1>9
  <2>. QED  BY <1>1, <1>9, <1>12, <2>1, <2>2, <2>3, TripNext
<1>16. BatchInv'
  <2>1. k = k * 1 + 0
    BY <1>3
  <2>2. Len(effects') = k * (IF Rewritten' THEN Batch' ELSE 1) + From' /\ k \in 0..Len(effects')
    BY <1>2, <1>3, <1>5, <1>9, <1>12, <2>1
  <2>. QED  BY <2>2 DEF BatchInv
<1>. QED  BY <1>6, <1>10, <1>11, <1>13, <1>14, <1>15, <1>16 DEF TameInv

\* The batch ends when all its calls were replayed.
LEMMA CheckTame ==
  ASSUME BatchBase, BatchBase', TameInv, ~wild, ~wild', Check PROVE TameInv'
<1>1. /\ pc = "check" /\ outcount' = outcount + 1
      /\ pc' = IF outcount' = calls THEN "latch" ELSE "replay"
      /\ UNCHANGED <<loop, trip, mem, reg, feed, effects, inbuf, addrs, ints, faddrs, outbuf>>
  BY DEF Check, program
<1>. USE StepFacts
<1>2. /\ Rewritten /\ inbuf = <<>> /\ Len(inbuf) = 0 /\ calls = Batch /\ outcount \in Nat
      /\ Position = outcount + 1 /\ Position + Len(outbuf) = Batch /\ Emptying
  BY <1>1 DEF BatchBase, Counters, Stages, Position, Emptying
<1>3. Batch' = Batch /\ (Rewritten' <=> Rewritten)
  BY <1>1, SameLoop
<1>4. MemoryType' /\ EffectsInv'
  BY <1>1, MemoryStays, SameEffects
<1>5. FeedInv'
  BY <1>1, <1>2, <1>3 DEF FeedInv
<1>6. /\ trip = Len(effects) + Len(outbuf) /\ Agrees(mem, Len(effects), Kept)
      /\ Agrees(mem, trip, Untouched) /\ trip \in Nat \ {0} /\ trip <= loop.trips
  BY <1>1, <1>2 DEF TripInv
<1>7. PICK m \in 0..Len(effects), d \in Nat : d = m * Batch /\ Len(effects) = d + Position
  <2>1. PICK m \in 0..Len(effects) :
          Len(effects) = m * (IF Rewritten THEN Batch ELSE 1) + From
    BY <1>1 DEF BatchInv
  <2>2. From = Position
    BY <1>2 DEF From
  <2>. QED  BY <1>2, <2>1, <2>2
<1>8. CASE outcount' = calls
  <2>1. pc' = "latch" /\ Len(outbuf) = 0 /\ trip = Len(effects) /\ Position = Batch
    BY <1>1, <1>2, <1>6, <1>8
  <2>2. ~Emptying' /\ From' = 0 /\ To' = 0
    BY <1>1, <1>2, <2>1 DEF Emptying, From, To
  <2>3. BuffersInv' /\ CallsInv'
    BY <1>1, <1>2, <2>2 DEF BuffersInv, CallsInv
  <2>4. TripInv'
    <3>1. Agrees(mem', trip', Kept \cup Untouched) /\ trip' = Len(effects') + Len(inbuf')
      BY <1>1, <1>2, <1>6, <2>1 DEF Agrees
    <3>. QED  BY <1>1, <1>6, <2>1, <2>2, <3>1, TripNext
  <2>5. BatchInv'
    <3>1. Len(effects) = (m + 1) * Batch /\ d \in Nat /\ m \in Nat
      BY <1>7, <2>1, OneMore
    <3>2. m + 1 \in 0..Len(effects)
      <4>1. (m + 1) * 1 + (m + 1) * 0 \in Nat
        BY <3>1
      <4>2. PICK b \in Nat : Batch = b + 1
        <5>1. Batch - 1 \in Nat /\ Batch = (Batch - 1) + 1
          OBVIOUS
        <5>. QED  BY <5>1
      <4>3. (m + 1) * (b + 1) = (m + 1) * b + (m + 1) /\ (m + 1) * b \in Nat
        BY <3>1
      <4>. QED  BY <3>1, <4>2, <4>3
    <3>. QED  BY <1>1, <1>2, <1>3, <2>2, <3>1, <3>2 DEF BatchInv
  <2>. QED  BY <1>4, <1>5, <2>3, <2>4, <2>5 DEF TameInv
<1>9. CASE outcount' # calls
  <2>1. pc' = "replay" /\ Position' = Position /\ Emptying'
    BY <1>1, <1>2, <1>9 DEF Position, Emptying
  <2>2. Origin' = Origin /\ From' = From /\ To' = To
    BY <1>1, <1>2, <1>3, <2>1 DEF Origin, From, To
  <2>3. BuffersInv'
    BY <1>1, <1>3, <2>1, <2>2, SameBuffers DEF BuffersInv
  <2>4. CallsInv'
    BY <1>1, <1>2, <2>1, SameOwn DEF CallsInv, Filling
  <2>5. TripInv'
    BY <1>1, <1>6, <2>1, TripNext
  <2>6. BatchInv'
    BY <1>1, <1>3, <2>1, <2>2 DEF BatchInv
  <2>. QED  BY <1>4, <1>5, <2>3, <2>4, <2>5, <2>6 DEF TameInv
<1>. QED  BY <1>8, <1>9

\* The next trip begins.
LEMMA LatchTame ==
  ASSUME BatchBase, BatchBase', TameInv, ~wild, ~wild', Latch PROVE TameInv'
<1>1. /\ pc = "latch" /\ pc' = "header" /\ mem' = [mem EXCEPT !["i"] = @ + 1]
      /\ trip' = trip + 1
      /\ UNCHANGED <<loop, reg, feed, effects, inbuf, addrs, ints, faddrs, outbuf>>
  BY DEF Latch, buffers, output
<1>. USE StepFacts
<1>2. /\ trip = Len(effects) + Len(inbuf) /\ trip <= loop.trips /\ trip \in Nat \ {0}
      /\ Agrees(mem, trip, Kept \cup Untouched)
  BY <1>1 DEF TripInv
<1>3. Batch' = Batch /\ (Rewritten' <=> Rewritten)
  BY <1>1, SameLoop
<1>4. EffectsInv'
  BY <1>1, SameEffects DEF TameInv
<1>5. mem'["i"] = trip + 1
  <2>1. mem["i"] = trip
    BY <1>2, KeptVariables, OriginalType DEF Agrees
  <2>2. "i" \in DOMAIN mem
    BY DEF MemoryType, Vars
  <2>. QED  BY <1>1, <2>1, <2>2
<1>6. MemoryType'
  <2>1. mem' = [v \in Vars |-> mem'[v]] /\ \A v \in Vars : v # "i" => mem'[v] = mem[v]
    BY <1>1 DEF MemoryType
  <2>. QED  BY <1>1, <1>2, <1>5, <2>1, SameMemory
<1>7. ~Emptying /\ ~Emptying' /\ Origin' = Origin /\ From' = From /\ To' = To
  BY <1>1 DEF Emptying, Origin, From, To
<1>8. BuffersInv'
  BY <1>1, <1>3, <1>7, SameBuffers DEF BuffersInv
<1>9. CallsInv'
  BY <1>1, <1>7, SameOwn DEF CallsInv, Filling
<1>10. TripInv'
  <2>1. trip' = Len(effects') + Len(inbuf') + 1 /\ mem'["i"] = trip' /\ trip' \in Nat \ {0}
        /\ trip' <= loop.trips + 1
    BY <1>1, <1>2, <1>5
  <2>. QED  BY <1>1, <1>7, <2>1, TripNext
<1>11. BatchInv'
  BY <1>1, <1>3, <1>7 DEF BatchInv
<1>12. FeedInv'
  BY <1>1, <1>2, <1>3 DEF FeedInv
<1>. QED  BY <1>4, <1>6, <1>8, <1>9, <1>10, <1>11, <1>12 DEF TameInv

\* The loop is entered anew.
LEMMA ReenterTame ==
  ASSUME BatchBase, BatchBase', TameInv, ~wild, ~wild', Reenter PROVE TameInv'
<1>1. /\ pc' = "header" /\ trip' = 1 /\ effects' = <<>> /\ inbuf' = <<>> /\ feed' = 0
      /\ mem' = [v \in Vars |-> IF v = "i" THEN 1 ELSE 0] /\ UNCHANGED <<loop, faddrs>>
  BY DEF Reenter
<1>. USE StepFacts
<1>2. Len(effects') = 0 /\ Len(inbuf') = 0 /\ IsSeq(effects')
  BY <1>1, Sequenced
<1>3. MemoryType'
  <2>1. /\ mem' = [v \in Vars |-> mem'[v]] /\ mem'["i"] = 1
        /\ \A v \in Vars : v # "i" => mem'[v] = 0
    BY <1>1
  <2>2. \A v \in Vars : v # "i" /\ ~IsStored(v) => mem'[v] = mem[v]
    BY <2>1 DEF MemoryType
  <2>. QED  BY <1>1, <2>1, <2>2, SameMemory
<1>4. ~Emptying' /\ From' = 0 /\ To' = 0 /\ Batch' = Batch
  BY <1>1, <1>2, SameLoop DEF Emptying, From, To
<1>5. BuffersInv' /\ CallsInv'
  BY <1>1, <1>2, <1>4 DEF BuffersInv, CallsInv
<1>6. TripInv'
  <2>1. mem'["i"] = 1 /\ trip' = 1
    BY <1>1
  <2>. QED  BY <1>1, <1>2, <1>4, <2>1, TripNext
<1>7. BatchInv'
  <2>1. \A b \in Nat : 0 = 0 * b + 0
    OBVIOUS
  <2>2. (IF Rewritten' THEN Batch' ELSE 1) \in Nat
    BY <1>4
  <2>. QED  BY <1>2, <1>4, <2>1, <2>2 DEF BatchInv
<1>8. FeedInv'
  BY <1>1 DEF FeedInv
<1>9. EffectsInv'
  BY <1>2 DEF EffectsInv
<1>. QED  BY <1>3, <1>5, <1>6, <1>7, <1>8, <1>9 DEF TameInv

\* Every step keeps what is buffered, where it is from, and what was seen.
LEMMA StepTame ==
  BatchBase /\ TameInv /\ [BatchNext]_batchVars => TameInv'
<1>. SUFFICES ASSUME BatchBase, TameInv, [BatchNext]_batchVars, ~wild' PROVE TameInv'
  BY DEF TameInv
<1>1. BatchBase'
  BY StepBase
<1>2. ~wild
  <2>1. wild' \in {wild} \/ \E c \in BOOLEAN : wild' = (wild \/ c)
    <3>1. CASE UNCHANGED wild
      BY <3>1
    <3>2. CASE FirstPart
      <4>1. UNCHANGED wild \/ wild' = (wild \/ iaddr' > BufferSize)
        BY <3>2, Zenon DEF FirstPart, BufferAddresses
      <4>. QED  BY <4>1
    <3>3. CASE Replay
      BY <3>3 DEF Replay
    <3>. QED
      BY <3>1, <3>2, <3>3 DEF BatchNext, batchVars, program, Header, Call, LastPart, Check, Latch, Reenter
  <2>. QED  BY <2>1
<1>. USE <1>1, <1>2
<1>3. CASE UNCHANGED batchVars
  <2>0. /\ UNCHANGED <<loop, pc, trip, mem, reg, feed, effects, inbuf, addrs, ints, faddrs, outbuf, outcount>>
    BY <1>3 DEF batchVars, program, buffers, output
  <2>. USE StepFacts
  <2>1. MemoryType' /\ EffectsInv' /\ Batch' = Batch /\ (Rewritten' <=> Rewritten)
    BY <2>0, MemoryStays, SameEffects, SameLoop
  <2>2. /\ Position' = Position /\ Emptying' = Emptying /\ Filling' = Filling
    BY <2>0, Zenon DEF Position, Emptying, Filling
  <2>3. Origin' = Origin /\ From' = From /\ To' = To
    BY <2>0, <2>1, <2>2 DEF Origin, From, To
  <2>4. BuffersInv'
    BY <2>0, <2>1, <2>3, SameBuffers DEF BuffersInv
  <2>5. CallsInv'
    BY <2>0, <2>2, SameOwn DEF CallsInv
  <2>6. TripInv'
    BY <2>0, <2>2, TripNext DEF TripInv
  <2>7. BatchInv'
    BY <2>0, <2>1, <2>3 DEF BatchInv
  <2>8. FeedInv'
    BY <2>0, <2>1 DEF FeedInv
  <2>. QED  BY <2>1, <2>4, <2>5, <2>6, <2>7, <2>8 DEF TameInv
<1>4. CASE BatchNext
  BY <1>4, HeaderTame, FirstPartTame, CallTame, ReplayTame, LastPartTame, CheckTame, LatchTame,
     ReenterTame DEF BatchNext
<1>. QED  BY <1>3, <1>4

\* The trips that do not fill a batch.
LEMMA WholeBatches ==
  ASSUME NEW m \in Nat, NEW b \in Nat \ {0}, NEW r \in Nat, r < b
  PROVE  b * ((m * b + r) \div b) = m * b
<1>1. (m * b + r) \div b = m
  OBVIOUS
<1>. QED  BY <1>1

\* What the invariant says of the order of replays, of memory and of the tail.
LEMMA TameInOrder ==
  ASSUME BatchBase, TameInv
  PROVE  ReplaysAreInOrder /\ StateGoesOn /\ OnlyATailIsLost
<1>. SUFFICES ASSUME ~wild PROVE ReplaysAreInOrder /\ StateGoesOn /\ OnlyATailIsLost
  BY Zenon DEF ReplaysAreInOrder, StateGoesOn, OnlyATailIsLost
<1>. USE StepFacts
<1>1. ReplaysAreInOrder
  <2>1. ASSUME NEW k \in DOMAIN effects
        PROVE  /\ \A v \in Kept : effects[k].mem[v] = Original(k).mem[v]
               /\ effects[k].at = Original(k).at /\ effects[k].call.i = Original(k).call.i
               /\ (Rewritten => loop.feeds \notin {"approx", "call"}) =>
                    effects[k].call = Original(k).call
               /\ (Rewritten => ~loop.reg) => effects[k].reg = Original(k).reg
    <3>1. k \in 1..Len(effects)
      BY DEF IsSeq
    <3>2. Own(effects[k], k)
      BY <3>1 DEF EffectsInv
    <3>3. /\ Original(k).mem = OriginalMem(k) /\ Original(k).at = Addresses(k)
          /\ Original(k).call.i = k
      BY DEF Original
    <3>. QED  BY <3>2, <3>3 DEF Own, Agrees
  <2>. QED  BY <2>1 DEF ReplaysAreInOrder
<1>2. StateGoesOn
  <2>1. pc = "latch" => Agrees(mem, trip, Kept \cup Untouched)
    BY DEF TripInv
  <2>2. pc = "exit" /\ mem["i"] <= loop.trips => Agrees(mem, loop.brk, Kept)
    BY DEF TripInv
  <2>. QED  BY <2>1, <2>2 DEF StateGoesOn, Agrees
<1>3. OnlyATailIsLost
  <2>. DEFINE b == IF Rewritten THEN BufferSize \div loop.inputs ELSE 1
  <2>. SUFFICES ASSUME pc = "exit", mem["i"] > loop.trips
                PROVE  Len(effects) = b * (loop.trips \div b)
    BY DEF OnlyATailIsLost
  <2>1. loop.trips = Len(effects) + Len(inbuf) /\ Len(inbuf) < Batch
    <3>1. Agrees(mem, loop.brk, Kept) => mem["i"] = loop.brk
      BY KeptVariables, OriginalType DEF Agrees
    <3>. QED  BY <3>1 DEF TripInv
  <2>2. PICK m \in 0..Len(effects) : Len(effects) = m * b + From
    BY DEF BatchInv, Batch
  <2>3. From = 0
    BY DEF From, Emptying
  <2>4. b \in Nat \ {0} /\ Len(inbuf) < b
    <3>1. ~Rewritten => Len(inbuf) = 0
      BY DEF BatchBase, Counters
    <3>. QED  BY <2>1, <3>1 DEF Batch
  <2>. HIDE DEF b
  <2>5. PICK r \in Nat : r = Len(inbuf)
    OBVIOUS
  <2>6. Len(effects) = m * b /\ loop.trips = m * b + r /\ m \in Nat
    BY <2>1, <2>2, <2>3, <2>4, <2>5
  <2>7. b * ((m * b + r) \div b) = m * b
    <3>1. r < b
      BY <2>4, <2>5
    <3>. QED  BY <2>4, <2>6, <3>1, WholeBatches
  <2>. QED  BY <2>6, <2>7, Zenon
<1>. QED  BY <1>1, <1>2, <1>3

-----------------------------------------------------------------------------
(* The calls that are replaced (NpuSelection).                             *)

\* The program is one of those considered, or what is left of it when it runs.
SourceOK ==
  /\ source \in [loops : Seq(LoopSite), calls : Seq(CallSite)]
  /\ \A l \in DOMAIN source.loops :
       source.loops[l].parent \in {0} \cup (l + 1)..Len(source.loops)
  /\ \A c \in DOMAIN source.calls : source.calls[c].home \in DOMAIN source.loops

Attempts == [loop : DOMAIN source.loops, call : DOMAIN source.calls]
Lists == Seq(Attempts)

SelectionType ==
  /\ SourceOK
  /\ build \in {"dump", "relax", "built", "rewritten", "as it was", "run", "crashed", "undefined"}
  /\ site \in 1..(Len(source.loops) + 1)
  /\ found \in Lists
  /\ replaced \subseteq Attempts
  /\ build = "dump" => replaced = {}

\* A call waits for a loop around it, and because that loop was not looked at to the
\* end: for assembly of its own, or in the place of a call of a loop within.
Rejected(l) ==
  \/ \E c \in CallsIn(l) : Kind(c) = "asm"
  \/ \E tried \in replaced : l \in Around(tried.loop) /\ tried.loop # l
WaitInv ==
  \A n \in 1..Len(found) :
    /\ found[n].loop < site /\ found[n].call \in CallsIn(found[n].loop)
    /\ Kind(found[n].call) = "pure" /\ Rejected(found[n].loop)

ReplacedInv == RewritesDoNotMeet /\ \A tried \in replaced : tried.loop < site

\* The loops that were visited are decided, and stay so.
FittingIn(l) == {c \in CallsIn(l) : Home(c) = l /\ Fitting(c)}
RewrittenIn(l) == {tried.call : tried \in {e \in replaced : e.loop = l}}
Decides(l) ==
  (~source.loops[l].skipped /\ ~Rejected(l)) =>
    RewrittenIn(l) = IF Line(l) \notin named THEN {}
                     ELSE {c \in FittingIn(l) : \A d \in FittingIn(l) : c <= d}
DecidedInv ==
  /\ build \in {"relax", "built"} => \A l \in DOMAIN source.loops : l < site => Decides(l)
  /\ build = "built" => site = Len(source.loops) + 1

SelectionInv == SelectionType /\ WaitInv /\ ReplacedInv /\ DecidedInv


-----------------------------------------------------------------------------
\* A loop is around itself, and what is around it is visited later.
LEMMA AroundComesLater ==
  ASSUME SourceOK, NEW h \in DOMAIN source.loops
  PROVE  /\ h \in Around(h)
         /\ \A l \in Around(h) : l \in DOMAIN source.loops /\ h <= l
<1>1. h \in Around(h)
  BY DEF Around
<1>2. ASSUME NEW l \in Around(h) PROVE l \in DOMAIN source.loops /\ h <= l
  <2>. DEFINE S == h..Len(source.loops)
  <2>1. DOMAIN source.loops = 1..Len(source.loops) /\ Len(source.loops) \in Nat
    BY DEF SourceOK
  <2>2. S \in SUBSET DOMAIN source.loops /\ h \in S
    BY <2>1
  <2>3. Closed(S)
    <3>. SUFFICES ASSUME NEW k \in S PROVE source.loops[k].parent \in S \cup {0}
      BY DEF Closed
    <3>1. source.loops[k].parent \in {0} \cup (k + 1)..Len(source.loops)
      BY <2>2 DEF SourceOK
    <3>2. (k + 1)..Len(source.loops) \subseteq S
      BY <2>1
    <3>. QED  BY <3>1, <3>2
  <2>. HIDE DEF S
  <2>4. l \in S
    BY <2>2, <2>3 DEF Around
  <2>. QED  BY <2>1, <2>2, <2>4 DEF S
<1>. QED  BY <1>1, <1>2

IsOrder(s, S) ==
  s \in [1..Cardinality(S) -> S] /\ \A m, n \in DOMAIN s : m < n => s[m] < s[n]

\* Sets of numbers can be put in order.
LEMMA OrderExists ==
  ASSUME NEW N \in Nat, NEW S \in SUBSET (1..N)
  PROVE  IsFiniteSet(S) /\ Cardinality(S) \in Nat /\ \E s : IsOrder(s, S)
<1>. DEFINE A == {n \in Nat : \A T \in SUBSET (1..n) : \E s : IsOrder(s, T)}
<1>0. \A n \in Nat : \A T \in SUBSET (1..n) : IsFiniteSet(T) /\ Cardinality(T) \in Nat
  <2>. TAKE n \in Nat
  <2>1. IsFiniteSet(1..n)
    BY FS_Interval
  <2>. QED  BY <2>1, FS_Subset, FS_CardinalityType
<1>1. 0 \in A
  <2>. SUFFICES ASSUME NEW T \in SUBSET (1..0) PROVE \E s : IsOrder(s, T)
    OBVIOUS
  <2>1. T = {}
    OBVIOUS
  <2>2. Cardinality(T) = 0
    BY <2>1, FS_EmptySet
  <2>. DEFINE s == [j \in 1..0 |-> 0]
  <2>3. IsOrder(s, T)
    BY <2>1, <2>2 DEF IsOrder
  <2>. QED  BY <2>3
<1>2. ASSUME NEW n \in A PROVE n + 1 \in A
  <2>. SUFFICES ASSUME NEW T \in SUBSET (1..(n + 1)) PROVE \E s : IsOrder(s, T)
    OBVIOUS
  <2>. DEFINE U == T \ {n + 1}
  <2>0. n \in Nat
    OBVIOUS
  <2>1. U \in SUBSET (1..n)
    BY <2>0
  <2>2. PICK s : IsOrder(s, U)
    BY <2>1
  <2>3. CASE n + 1 \notin T
    <3>1. T = U
      BY <2>3
    <3>. QED  BY <2>2, <3>1
  <2>4. CASE n + 1 \in T
    <3>1. IsFiniteSet(U) /\ Cardinality(U) \in Nat
      BY <1>0, <2>0, <2>1
    <3>2. T = U \cup {n + 1} /\ n + 1 \notin U
      BY <2>4
    <3>3. PICK c \in Nat : c = Cardinality(U)
      BY <3>1
    <3>4. Cardinality(T) = c + 1
      <4>. HIDE DEF U
      <4>. QED  BY <3>1, <3>2, <3>3, FS_AddElement
    <3>. DEFINE t == [j \in 1..(c + 1) |-> IF j = c + 1 THEN n + 1 ELSE s[j]]
    <3>5. s \in [1..c -> U] /\ \A j, k \in 1..c : j < k => s[j] < s[k]
      BY <2>2, <3>3 DEF IsOrder
    <3>. HIDE DEF U
    <3>6. t \in [1..(c + 1) -> T]
      BY <3>2, <3>5
    <3>7. ASSUME NEW j \in 1..(c + 1), NEW k \in 1..(c + 1), j < k PROVE t[j] < t[k]
      <4>0. j \in 1..c /\ j # c + 1
        BY <3>7
      <4>1. j \in 1..c /\ t[j] = s[j] /\ s[j] \in 1..n
        BY <2>1, <3>5, <4>0
      <4>2. CASE k = c + 1
        BY <2>0, <4>1, <4>2
      <4>3. CASE k # c + 1
        <5>1. k \in 1..c /\ t[k] = s[k]
          BY <4>3
        <5>. QED  BY <3>5, <3>7, <4>1, <5>1
      <4>. QED  BY <4>2, <4>3
    <3>. HIDE DEF t
    <3>8. IsOrder(t, T)
      BY <3>4, <3>6, <3>7 DEF IsOrder
    <3>. QED  BY <3>8
  <2>. QED  BY <2>3, <2>4
<1>3. A = Nat
  <2>1. A \in SUBSET Nat
    OBVIOUS
  <2>. HIDE DEF A
  <2>. QED  BY <1>1, <1>2, <2>1, Induction
<1>4. \E s : IsOrder(s, S)
  BY <1>3
<1>. QED  BY <1>0, <1>4

\* A set in order is an increasing sequence of its members, each of which is in it.
LEMMA InOrderIsOrder ==
  ASSUME NEW N \in Nat, NEW S \in SUBSET (1..N)
  PROVE  /\ Cardinality(S) \in Nat /\ IsOrder(InOrder(S), S)
         /\ \A c \in S : \E n \in 1..Cardinality(S) : InOrder(S)[n] = c
<1>. DEFINE s == InOrder(S)
<1>1. IsFiniteSet(S) /\ Cardinality(S) \in Nat /\ \E t : IsOrder(t, S)
  BY OrderExists
<1>2. s = CHOOSE t \in [1..Cardinality(S) -> S] : \A m, n \in DOMAIN t : m < n => t[m] < t[n]
  BY DEF InOrder
<1>3. IsOrder(s, S)
  <2>1. \E t \in [1..Cardinality(S) -> S] : \A m, n \in DOMAIN t : m < n => t[m] < t[n]
    BY <1>1 DEF IsOrder
  <2>. HIDE DEF s
  <2>. QED  BY <1>2, <2>1, Zenon DEF IsOrder
<1>. HIDE DEF s
<1>4. PICK c \in Nat : c = Cardinality(S)
  BY <1>1
<1>5. s \in [1..c -> S] /\ \A m, n \in 1..c : m < n => s[m] < s[n]
  BY <1>3, <1>4 DEF IsOrder
<1>6. s \in Injection(1..c, S)
  <2>. SUFFICES ASSUME NEW m \in 1..c, NEW n \in 1..c, s[m] = s[n] PROVE m = n
    BY <1>5 DEF Injection, IsInjective
  <2>1. s[m] \in 1..N
    BY <1>5
  <2>2. ~(s[m] < s[n]) /\ ~(s[n] < s[m])
    BY <2>1
  <2>. QED  BY <1>5, <2>2
<1>7. Cardinality(1..c) = c
  BY FS_Interval
<1>8. s \in Surjection(1..c, S)
  BY <1>1, <1>4, <1>6, <1>7, FS_Injection
<1>9. \A x \in S : \E n \in 1..c : s[n] = x
  BY <1>8 DEF Surjection
<1>. QED  BY <1>1, <1>3, <1>4, <1>9 DEF s

\* The calls that are found in a visit and do not wait yet.
\* The calls that are found in a visit and do not wait yet.
New == {c \in LookedAt(site) : Kind(c) = "pure"} \ Waiting

\* What waits after the calls of the loop that is visited were taken.
LEMMA FoundAfterWaiting ==
  ASSUME SourceOK, Visiting, found \in Lists
  PROVE  /\ Found \in Lists /\ Len(found) \in Nat /\ Len(Found) \in Nat
         /\ Len(found) <= Len(Found)
         /\ \A n \in 1..Len(found) : Found[n] = found[n]
         /\ \A n \in 1..Len(Found) : Len(found) < n =>
              Found[n].loop = site /\ Found[n].call \in New
         /\ \A c \in New : \E n \in 1..Len(Found) :
              Len(found) < n /\ Found[n] = [loop |-> site, call |-> c]
         /\ \A m, n \in 1..Len(Found) : Len(found) < m /\ m < n =>
              Found[m].call < Found[n].call
<1>. DEFINE s == InOrder(New)
            more == [n \in DOMAIN s |-> [loop |-> site, call |-> s[n]]]
<1>1. /\ DOMAIN source.calls = 1..Len(source.calls) /\ Len(source.calls) \in Nat
      /\ site \in DOMAIN source.loops /\ New \in SUBSET DOMAIN source.calls
  BY DEF SourceOK, Visiting, New, LookedAt, CallsIn
<1>2. /\ Cardinality(New) \in Nat /\ IsOrder(s, New)
      /\ \A c \in New : \E n \in 1..Cardinality(New) : s[n] = c
  BY <1>1, InOrderIsOrder
<1>3. Found = found \o more
  BY Zenon DEF Found, New
<1>. HIDE DEF s
<1>4. PICK k \in Nat : k = Cardinality(New)
  BY <1>2
<1>5. /\ s \in [1..k -> New] /\ \A m, n \in 1..k : m < n => s[m] < s[n]
      /\ \A c \in New : \E n \in 1..k : s[n] = c
  BY <1>2, <1>4 DEF IsOrder
<1>6. more = [n \in 1..k |-> [loop |-> site, call |-> s[n]]]
  BY <1>5
<1>. HIDE DEF more
<1>7. more \in Lists /\ Len(more) = k
  <2>1. \A n \in 1..k : [loop |-> site, call |-> s[n]] \in Attempts
    BY <1>1, <1>5 DEF Attempts
  <2>. QED  BY <1>6, <2>1 DEF Lists
<1>8. PICK b \in Nat : b = Len(found)
  BY DEF Lists
<1>9. /\ Found \in Lists /\ Len(Found) = b + k
      /\ \A n \in 1..b : Found[n] = found[n]
      /\ \A n \in 1..k : Found[b + n] = more[n]
  <2>. DEFINE all == found \o more
  <2>2. /\ all \in Lists /\ Len(all) = Len(found) + Len(more)
        /\ \A n \in 1..Len(found) : all[n] = found[n]
        /\ \A n \in 1..Len(more) : all[Len(found) + n] = more[n]
    BY <1>7 DEF Lists
  <2>. HIDE DEF all
  <2>3. Found = all
    BY <1>3 DEF all
  <2>. QED  BY <1>7, <1>8, <2>2, <2>3
<1>. HIDE DEF New
<1>10. ASSUME NEW n \in 1..(b + k), b < n
       PROVE  n - b \in 1..k /\ Found[n] = [loop |-> site, call |-> s[n - b]]
  <2>1. n - b \in 1..k /\ b + (n - b) = n
    BY <1>10
  <2>. QED  BY <1>6, <1>9, <2>1
<1>11. ASSUME NEW c \in New
       PROVE  \E n \in 1..(b + k) : b < n /\ Found[n] = [loop |-> site, call |-> c]
  <2>1. PICK n \in 1..k : s[n] = c
    BY <1>5
  <2>2. b + n \in 1..(b + k) /\ b < b + n
    OBVIOUS
  <2>. QED  BY <1>6, <1>9, <2>1, <2>2
<1>12. ASSUME NEW m \in 1..(b + k), NEW n \in 1..(b + k), b < m, m < n
       PROVE  Found[m].call < Found[n].call
  <2>1. m - b \in 1..k /\ n - b \in 1..k /\ m - b < n - b
    BY <1>12
  <2>2. Found[m].call = s[m - b] /\ Found[n].call = s[n - b]
    <3>1. b < n
      BY <1>12
    <3>2. Found[n] = [loop |-> site, call |-> s[n - b]]
      BY <1>10, <3>1
    <3>3. Found[m] = [loop |-> site, call |-> s[m - b]]
      BY <1>10, <1>12
    <3>. QED  BY <3>2, <3>3
  <2>. QED  BY <1>5, <2>1, <2>2
<1>13. ASSUME NEW n \in 1..(b + k), b < n
       PROVE  Found[n].loop = site /\ Found[n].call \in New
  <2>1. n - b \in 1..k /\ Found[n] = [loop |-> site, call |-> s[n - b]]
    BY <1>10, <1>13
  <2>. QED  BY <1>5, <2>1
<1>14. b <= b + k
  OBVIOUS
<1>. QED  BY <1>8, <1>9, <1>11, <1>12, <1>13, <1>14

\* A call that can be replaced, if the loop was not rewritten before.
Suits(tried) ==
  /\ source.loops[tried.loop].sound /\ source.calls[tried.call].fits
  /\ tried.loop = Home(tried.call)
  /\ ~(build = "relax" /\ source.loops[tried.loop].perforated)

\* The calls are tried one after the other.
LEMMA ReplacingStepwise ==
  ASSUME NEW waits \in Lists, replaced \subseteq Attempts
  PROVE  \E g \in [0..Len(waits) -> SUBSET Attempts] :
           /\ g[0] = replaced /\ Replacing(waits) = g[Len(waits)]
           /\ \A n \in 1..Len(waits) :
                g[n] = IF CanReplace(waits[n], g[n - 1]) THEN g[n - 1] \cup {waits[n]}
                       ELSE g[n - 1]
<1>. DEFINE N == Len(waits)
            next(n, before) == IF CanReplace(waits[n], before) THEN before \cup {waits[n]}
                               ELSE before
            U == Nat \X SUBSET Attempts
            F == [p \in U |-> IF p[1] + 1 \in 1..N THEN <<p[1] + 1, next(p[1] + 1, p[2])>>
                              ELSE <<p[1] + 1, p[2]>>]
            IsDone(f) == f = [n \in 0..N |-> IF n = 0 THEN replaced ELSE next(n, f[n - 1])]
<1>1. N \in Nat /\ \A n \in 1..N : waits[n] \in Attempts
  BY DEF Lists
<1>2. \A n \in 1..N : \A before \in SUBSET Attempts : next(n, before) \in SUBSET Attempts
  BY <1>1
<1>. HIDE DEF next
<1>3. F \in [U -> U]
  BY <1>2
<1>4. PICK h \in [Nat -> U] : h[0] = <<0, replaced>> /\ \A n \in Nat : h[n + 1] = F[h[n]]
  <2>1. <<0, replaced>> \in U
    OBVIOUS
  <2>. DEFINE u == <<0, replaced>>
  <2>. HIDE DEF U, F, u
  <2>2. u \in U
    BY <2>1 DEF u
  <2>3. \E h \in [Nat -> U] : h[0] = u /\ \A n \in Nat : h[n + 1] = F[h[n]]
    BY <1>3, <2>2, Iteration
  <2>. QED  BY <2>3 DEF u
<1>5. \A n \in Nat : h[n][1] = n
  <2>. DEFINE A == {n \in Nat : h[n][1] = n}
  <2>1. 0 \in A
    BY <1>4
  <2>2. ASSUME NEW n \in A PROVE n + 1 \in A
    <3>1. h[n] \in U /\ h[n][1] = n /\ h[n + 1] = F[h[n]]
      BY <1>4, <2>2
    <3>2. \A p \in U : F[p][1] = p[1] + 1
      OBVIOUS
    <3>. HIDE DEF F, U
    <3>. QED  BY <3>1, <3>2
  <2>3. A = Nat
    <3>1. A \in SUBSET Nat
      OBVIOUS
    <3>. HIDE DEF A
    <3>. QED  BY <2>1, <2>2, <3>1, Induction
  <2>. QED  BY <2>3
<1>. DEFINE g == [n \in 0..N |-> h[n][2]]
<1>6. g \in [0..N -> SUBSET Attempts]
  <2>1. \A n \in 0..N : h[n] \in U
    BY <1>1, <1>4
  <2>. QED  BY <2>1
<1>7. g[0] = replaced
  BY <1>1, <1>4
<1>8. ASSUME NEW n \in 1..N PROVE g[n] = next(n, g[n - 1])
  <2>1. PICK m \in Nat : n = m + 1 /\ m \in 0..N /\ n \in 0..N
    BY <1>1, <1>8
  <2>2. h[m] \in U /\ h[m][1] = m /\ h[n] = F[h[m]]
    BY <1>4, <1>5, <2>1
  <2>3. F[h[m]][2] = next(n, h[m][2])
    BY <1>8, <2>1, <2>2
  <2>4. g[n] = h[n][2] /\ g[m] = h[m][2] /\ n - 1 = m
    BY <2>1
  <2>. QED  BY <2>2, <2>3, <2>4
<1>. HIDE DEF g, F, U
<1>9. IsDone(g)
  <2>1. \A n \in 0..N : n = 0 \/ n \in 1..N
    BY <1>1
  <2>2. \A n \in 0..N : g[n] = IF n = 0 THEN replaced ELSE next(n, g[n - 1])
    BY <1>7, <1>8, <2>1
  <2>. QED  BY <1>6, <2>2
<1>10. Replacing(waits) = (CHOOSE f : IsDone(f))[N]
  BY DEF Replacing, next
<1>. DEFINE f == CHOOSE f : IsDone(f)
<1>11. IsDone(f)
  BY <1>9
<1>. HIDE DEF f
<1>12. \A n \in 0..N : f[n] = g[n]
  <2>. DEFINE A == {n \in Nat : n <= N => f[n] = g[n]}
  <2>0. \A n \in 0..N : f[n] = IF n = 0 THEN replaced ELSE next(n, f[n - 1])
    BY <1>11
  <2>1. 0 \in A
    BY <1>1, <1>7, <2>0
  <2>2. ASSUME NEW n \in A PROVE n + 1 \in A
    <3>1. CASE n + 1 <= N
      <4>1. n \in Nat /\ n <= N /\ n + 1 \in 1..N /\ n + 1 \in 0..N /\ n + 1 # 0
            /\ (n + 1) - 1 = n
        BY <1>1, <2>2, <3>1
      <4>2. f[n] = g[n]
        BY <2>2, <4>1
      <4>3. f[n + 1] = next(n + 1, f[n])
        BY <2>0, <4>1
      <4>4. g[n + 1] = next(n + 1, g[n])
        BY <1>8, <4>1
      <4>. QED  BY <4>1, <4>2, <4>3, <4>4
    <3>. QED  BY <2>2, <3>1
  <2>3. A = Nat
    <3>1. A \in SUBSET Nat
      OBVIOUS
    <3>. HIDE DEF A
    <3>. QED  BY <2>1, <2>2, <3>1, Induction
  <2>. QED  BY <1>1, <2>3
<1>13. Replacing(waits) = g[N]
  <2>1. N \in 0..N
    BY <1>1
  <2>. QED  BY <1>10, <1>12, <2>1 DEF f
<1>. QED  BY <1>6, <1>7, <1>8, <1>13 DEF next

\* In every loop the first call that suits is replaced, and no other, unless the loop
\* was rewritten before.
LEMMA ReplacingTakesTheFirst ==
  ASSUME NEW waits \in Lists, replaced \subseteq Attempts
  PROVE  /\ replaced \subseteq Replacing(waits) /\ Replacing(waits) \subseteq Attempts
         /\ \A e \in Replacing(waits) : e \notin replaced =>
              /\ Suits(e)
              /\ \E m \in 1..Len(waits) :
                   /\ e = waits[m]
                   /\ \A k \in 1..Len(waits) :
                        k < m /\ Suits(waits[k]) => waits[k].loop # e.loop
              /\ \A o \in Replacing(waits) : o.loop = e.loop => o = e
         /\ \A m \in 1..Len(waits) : Suits(waits[m]) =>
              \E o \in Replacing(waits) : o.loop = waits[m].loop
<1>. DEFINE N == Len(waits)
<1>1. N \in Nat /\ \A n \in 1..N : waits[n] \in Attempts
  BY DEF Lists
<1>2. PICK g \in [0..N -> SUBSET Attempts] :
        /\ g[0] = replaced /\ Replacing(waits) = g[N]
        /\ \A n \in 1..N :
             g[n] = IF CanReplace(waits[n], g[n - 1]) THEN g[n - 1] \cup {waits[n]}
                    ELSE g[n - 1]
  BY ReplacingStepwise
<1>. HIDE DEF N
<1>3. \A t, done : CanReplace(t, done) <=> Suits(t) /\ \A o \in done : o.loop # t.loop
  BY DEF CanReplace, OnEveryPath, Suits
<1>. DEFINE Foremost(e, D, n) == \E m \in 1..n : /\ e = waits[m]
                                           /\ \A k \in 1..N : k < m /\ Suits(waits[k]) =>
                                                waits[k].loop # e.loop
            Single(e, D) == \A o \in D : o.loop = e.loop => o = e
            Done(D, n) ==
              /\ replaced \subseteq D
              /\ \A e \in D : e \notin replaced => Suits(e) /\ Foremost(e, D, n) /\ Single(e, D)
              /\ \A m \in 1..n : Suits(waits[m]) => \E o \in D : o.loop = waits[m].loop
            A == {n \in Nat : n <= N => Done(g[n], n)}
<1>4. 0 \in A
  BY <1>2
<1>5. ASSUME NEW n \in A PROVE n + 1 \in A
  <2>. SUFFICES ASSUME n + 1 <= N PROVE Done(g[n + 1], n + 1)
    OBVIOUS
  <2>1. n \in Nat /\ n <= N /\ n + 1 \in 1..N /\ (n + 1) - 1 = n
    BY <1>1
  <2>. DEFINE t == waits[n + 1]
              D == g[n]
              E == g[n + 1]
  <2>2. Done(D, n)
    BY <2>1
  <2>3. E = IF CanReplace(t, D) THEN D \cup {t} ELSE D
    <3>1. g[n + 1] = IF CanReplace(t, g[(n + 1) - 1]) THEN g[(n + 1) - 1] \cup {t}
                     ELSE g[(n + 1) - 1]
      BY <1>2, <2>1, Zenon
    <3>. QED  BY <2>1, <3>1, Zenon
  <2>. HIDE DEF A, D, E
  <2>4. \A m \in 1..(n + 1) : m \in 1..n \/ m = n + 1
    BY <2>1
  <2>5. \A m \in 1..n : m \in 1..(n + 1)
    BY <2>1
  <2>6. n + 1 \in 1..(n + 1)
    BY <2>1
  <2>7. \A e : Foremost(e, D, n) => Foremost(e, E, n + 1)
    BY <2>5
  <2>8. CASE CanReplace(t, D)
    <3>1. E = D \cup {t} /\ Suits(t) /\ \A o \in D : o.loop # t.loop
      BY <1>3, <2>3, <2>8
    <3>2. Foremost(t, E, n + 1)
      <4>. SUFFICES ASSUME NEW k \in 1..N, k < n + 1, Suits(waits[k])
                    PROVE  waits[k].loop # t.loop
        BY <2>6
      <4>1. k \in 1..n
        BY <2>1
      <4>. HIDE DEF t
      <4>2. PICK o \in D : o.loop = waits[k].loop
        BY <2>2, <4>1
      <4>. QED  BY <3>1, <4>2
    <3>. HIDE DEF Foremost, t
    <3>3. ASSUME NEW e \in E, e \notin replaced
          PROVE  Suits(e) /\ Foremost(e, E, n + 1) /\ Single(e, E)
      <4>1. CASE e \in D
        <5>1. Suits(e) /\ Foremost(e, D, n) /\ Single(e, D)
          BY <2>2, <3>3, <4>1
        <5>. QED  BY <2>7, <3>1, <4>1, <5>1
      <4>2. CASE e = t
        BY <3>1, <3>2, <4>2
      <4>. QED  BY <3>1, <3>3, <4>1, <4>2
    <3>4. ASSUME NEW m \in 1..(n + 1), Suits(waits[m])
          PROVE  \E o \in E : o.loop = waits[m].loop
      <4>1. CASE m \in 1..n
        BY <2>2, <3>1, <3>4, <4>1
      <4>2. CASE m = n + 1
        BY <3>1, <4>2 DEF t
      <4>. QED  BY <2>4, <4>1, <4>2
    <3>. QED  BY <2>2, <3>1, <3>3, <3>4 DEF E
  <2>9. CASE ~CanReplace(t, D)
    <3>1. E = D /\ (Suits(t) => \E o \in D : o.loop = t.loop)
      BY <1>3, <2>3, <2>9
    <3>. HIDE DEF Foremost
    <3>2. ASSUME NEW m \in 1..(n + 1), Suits(waits[m])
          PROVE  \E o \in E : o.loop = waits[m].loop
      <4>1. CASE m \in 1..n
        BY <2>2, <3>1, <3>2, <4>1
      <4>2. CASE m = n + 1
        BY <3>1, <3>2, <4>2
      <4>. QED  BY <2>4, <4>1, <4>2
    <3>. QED  BY <2>2, <2>7, <3>1, <3>2 DEF E
  <2>. QED  BY <2>8, <2>9
<1>6. A = Nat
  <2>1. A \in SUBSET Nat
    OBVIOUS
  <2>. HIDE DEF A
  <2>. QED  BY <1>4, <1>5, <2>1, Induction
<1>7. Done(g[N], N)
  BY <1>1, <1>6
<1>8. g[N] \in SUBSET Attempts
  BY <1>1, <1>2
<1>. QED  BY <1>2, <1>7, <1>8 DEF N

-----------------------------------------------------------------------------
(* The builds.                                                             *)

\* What does not change, as long as the program and the kind of the build do not.
LEMMA SameProgram ==
  ASSUME UNCHANGED source
  PROVE  /\ SourceOK' = SourceOK /\ Attempts' = Attempts /\ Lists' = Lists
         /\ \A l : /\ Around(l)' = Around(l) /\ CallsIn(l)' = CallsIn(l)
                   /\ FittingIn(l)' = FittingIn(l)
         /\ \A c : Kind(c)' = Kind(c) /\ Home(c)' = Home(c) /\ Fitting(c)' = Fitting(c)
<1>1. /\ SourceOK' = SourceOK /\ Attempts' = Attempts /\ Lists' = Lists
  BY DEF SourceOK, Attempts, Lists
<1>2. \A l : Around(l)' = Around(l)
  BY DEF Around, Closed
<1>3. \A c : Kind(c)' = Kind(c) /\ Home(c)' = Home(c) /\ Fitting(c)' = Fitting(c)
  BY DEF Kind, Home, Fitting
<1>4. \A l : CallsIn(l)' = CallsIn(l)
  BY <1>2, <1>3 DEF CallsIn
<1>5. \A l : FittingIn(l)' = FittingIn(l)
  BY <1>3, <1>4 DEF FittingIn
<1>. QED  BY <1>1, <1>2, <1>3, <1>4, <1>5

\* What follows from the calls replaced.
LEMMA SameRewrites ==
  ASSUME UNCHANGED <<source, replaced>>
  PROVE  /\ \A l : Rejected(l)' = Rejected(l) /\ RewrittenIn(l)' = RewrittenIn(l)
         /\ RewritesDoNotMeet' = RewritesDoNotMeet
<1>1. \A l : Rejected(l)' = Rejected(l) /\ RewrittenIn(l)' = RewrittenIn(l)
  BY SameProgram DEF Rejected, RewrittenIn
<1>2. RewritesDoNotMeet' = RewritesDoNotMeet
  BY SameProgram DEF RewritesDoNotMeet
<1>. QED  BY <1>1, <1>2

\* A decision on a loop depends on the program, the names and the calls replaced.
LEMMA SameDecisions ==
  ASSUME UNCHANGED <<source, replaced, named>>
  PROVE  \A l : Decides(l)' = Decides(l)
BY SameProgram, SameRewrites DEF Decides, Line

\* The loop that is visited, and those before it.
LEMMA Visits ==
  ASSUME SelectionType, Visiting
  PROVE  /\ site \in DOMAIN source.loops /\ site \in Nat /\ Len(source.loops) \in Nat
         /\ DOMAIN source.loops = 1..Len(source.loops)
         /\ site + 1 \in 1..(Len(source.loops) + 1)
         /\ \A l \in DOMAIN source.loops : l < site + 1 => l < site \/ l = site
<1>1. DOMAIN source.loops = 1..Len(source.loops) /\ Len(source.loops) \in Nat
  <2>1. SourceOK
    BY DEF SelectionType
  <2>. QED  BY <2>1 DEF SourceOK
<1>. QED  BY <1>1 DEF Visiting

\* Calls wait for loops that have been visited: when a visit ends early, at assembly,
\* the calls that it has found join them.
WaitsOf(waits, next) ==
  \A n \in 1..Len(waits) :
    /\ waits[n].loop < next /\ waits[n].call \in CallsIn(waits[n].loop)
    /\ Kind(waits[n].call) = "pure" /\ Rejected(waits[n].loop)

\* A visit that ends early, or at once.
LEMMA PassedBySelected ==
  ASSUME SelectionInv, Visiting, NEW waits \in Lists,
         UNCHANGED <<source, build, named, replaced>>, site' = site + 1, found' = waits,
         WaitsOf(waits, site + 1), Decides(site)
  PROVE  SelectionInv'
<1>1. SelectionType
  BY DEF SelectionInv
<1>2. SelectionType'
  BY <1>1, Visits, SameProgram DEF SelectionType
<1>3. WaitInv'
  BY SameProgram, SameRewrites DEF WaitInv, WaitsOf
<1>4. ReplacedInv'
  <2>1. RewritesDoNotMeet' /\ \A tried \in replaced : tried.loop < site
    BY SameRewrites DEF SelectionInv, ReplacedInv
  <2>2. \A tried \in replaced : tried.loop \in Nat
    <3>1. \A tried \in replaced : tried.loop \in DOMAIN source.loops
      BY <1>1 DEF SelectionType, Attempts
    <3>. QED  BY <1>1, <3>1, Visits
  <2>3. \A tried \in replaced : tried.loop < site + 1
    BY <1>1, <2>1, <2>2, Visits
  <2>. QED  BY <2>1, <2>3 DEF ReplacedInv
<1>5. DecidedInv'
  <2>1. build # "built"
    BY DEF Visiting
  <2>2. ASSUME build \in {"relax", "built"}, NEW l \in DOMAIN source.loops, l < site + 1
        PROVE  Decides(l)
    BY <1>1, <2>2, Visits DEF SelectionInv, DecidedInv
  <2>. QED  BY <2>1, <2>2, SameDecisions DEF DecidedInv
<1>. QED  BY <1>2, <1>3, <1>4, <1>5 DEF SelectionInv

\* What waited before a visit waits behind it.
LEMMA StillWaiting ==
  ASSUME SelectionInv, Visiting
  PROVE  WaitsOf(found, site + 1)
<1>1. SelectionType
  BY DEF SelectionInv
<1>2. \A n \in 1..Len(found) : found[n].loop \in Nat
  <2>1. \A n \in 1..Len(found) : found[n] \in Attempts
    <3>1. found \in Lists
      BY <1>1 DEF SelectionType
    <3>. QED  BY <3>1 DEF Lists
  <2>2. \A n \in 1..Len(found) : found[n].loop \in DOMAIN source.loops
    BY <2>1 DEF Attempts
  <2>. QED  BY <1>1, <2>2, Visits
<1>. QED  BY <1>1, <1>2, Visits DEF SelectionInv, WaitInv, WaitsOf

\* A loop that is skipped is not decided.
LEMMA SkipSelected ==
  ASSUME SelectionInv, Skip PROVE SelectionInv'
<1>1. Decides(site)
  BY DEF Skip, Decides
<1>2. Visiting /\ found \in Lists
  BY DEF Skip, SelectionInv, SelectionType
<1>. QED  BY <1>1, <1>2, PassedBySelected, StillWaiting DEF Skip

\* Assembly in a loop: it was written there, or has replaced a call of a loop within.
LEMMA AssemblyRejects ==
  ASSUME SelectionInv, Visiting, HasAssembly(site)
  PROVE  Rejected(site)
<1>1. PICK c \in CallsIn(site) : Kind(c) = "asm" \/ c \in Replaced
  BY DEF HasAssembly
<1>2. CASE c \in Replaced
  <2>1. PICK tried \in replaced : tried.call = c
    BY <1>2 DEF Replaced
  <2>2. tried.loop = Home(c) /\ tried.loop < site
    BY <2>1 DEF SelectionInv, ReplacedInv, RewritesDoNotMeet
  <2>3. site \in Around(tried.loop)
    BY <1>1, <2>2 DEF CallsIn
  <2>4. tried.loop # site
    BY <2>2, Visits DEF SelectionInv
  <2>. QED  BY <2>3, <2>4 DEF Rejected
<1>. QED  BY <1>1, <1>2 DEF Rejected

\* What was found before the assembly goes on waiting.
LEMMA RejectSelected ==
  ASSUME SelectionInv, Reject PROVE SelectionInv'
<1>1. Visiting /\ HasAssembly(site)
  BY DEF Reject, Considered
<1>2. Rejected(site)
  BY <1>1, AssemblyRejects
<1>3. Decides(site)
  BY <1>2 DEF Decides
<1>4. SourceOK /\ found \in Lists
  BY DEF SelectionInv, SelectionType
<1>5. WaitsOf(Found, site + 1)
  <2>1. \A c \in New : c \in CallsIn(site) /\ Kind(c) = "pure"
    BY DEF New, LookedAt
  <2>2. \A n \in 1..Len(Found) : n <= Len(found) \/ Len(found) < n
    BY <1>1, <1>4, FoundAfterWaiting
  <2>3. site < site + 1
    BY <1>1, Visits DEF SelectionInv
  <2>. SUFFICES ASSUME NEW n \in 1..Len(Found)
                PROVE  /\ Found[n].loop < site + 1
                       /\ Found[n].call \in CallsIn(Found[n].loop)
                       /\ Kind(Found[n].call) = "pure" /\ Rejected(Found[n].loop)
    BY DEF WaitsOf
  <2>4. CASE n <= Len(found)
    <3>1. n \in 1..Len(found) /\ Found[n] = found[n]
      BY <1>1, <1>4, <2>4, FoundAfterWaiting
    <3>. HIDE DEF Found
    <3>. QED  BY <1>1, <3>1, StillWaiting DEF WaitsOf
  <2>5. CASE Len(found) < n
    <3>1. Found[n].loop = site /\ Found[n].call \in New
      BY <1>1, <1>4, <2>5, FoundAfterWaiting
    <3>. QED  BY <1>2, <2>1, <2>3, <3>1
  <2>. QED  BY <2>2, <2>4, <2>5
<1>6. Found \in Lists
  BY <1>1, <1>4, FoundAfterWaiting
<1>. QED  BY <1>1, <1>3, <1>5, <1>6, PassedBySelected DEF Reject

\* In the precise build nothing is replaced.
LEMMA ListSelected ==
  ASSUME SelectionInv, List PROVE SelectionInv'
<1>1. SelectionType /\ Visiting /\ build = "dump" /\ replaced = {}
  BY DEF List, Tries, Considered, SelectionInv, SelectionType
<1>2. site' = site + 1 /\ found' = <<>> /\ UNCHANGED <<source, build, replaced>>
  BY DEF List, Clear
<1>3. found' \in Lists
  BY <1>2 DEF Lists
<1>4. SelectionType'
  BY <1>1, <1>2, <1>3, Visits, SameProgram DEF SelectionType
<1>5. WaitInv'
  BY <1>2 DEF WaitInv
<1>6. ReplacedInv'
  BY <1>1, <1>2 DEF ReplacedInv, RewritesDoNotMeet
<1>7. DecidedInv'
  BY <1>1, <1>2 DEF DecidedInv
<1>. QED  BY <1>4, <1>5, <1>6, <1>7 DEF SelectionInv

\* Nothing has been found at first.
LEMMA InitSelected == InitSelection => SelectionInv
<1>. SUFFICES ASSUME InitSelection PROVE SelectionInv
  OBVIOUS
<1>1. SourceOK
  BY ProgramsAssumption DEF InitSelection, SourceOK
<1>2. Len(source.loops) \in Nat
  BY <1>1 DEF SourceOK
<1>3. found \in Lists
  BY DEF InitSelection, Lists
<1>4. SelectionType
  BY <1>1, <1>2, <1>3 DEF InitSelection, SelectionType
<1>. QED  BY <1>4 DEF InitSelection, SelectionInv, WaitInv, ReplacedInv, RewritesDoNotMeet,
                      DecidedInv

\* What is looked at in the visit of a loop that has no assembly is every call that
\* could be replaced there, and whatever else is replaced had waited.
LEMMA RelaxLooksAtAll ==
  ASSUME SelectionInv, Relax
  PROVE  /\ \A c \in FittingIn(site) : \E n \in 1..Len(Found) :
              Len(found) < n /\ Found[n] = [loop |-> site, call |-> c] /\ Suits(Found[n])
         /\ \A n \in 1..Len(Found) : Len(found) < n /\ Suits(Found[n]) =>
              /\ Found[n].loop = site /\ Found[n].call \in FittingIn(site)
              /\ Fitting(Found[n].call)
         /\ \A n \in 1..Len(Found) : n <= Len(found) /\ Suits(Found[n]) =>
              /\ Found[n].loop \in DOMAIN source.loops /\ Found[n].loop < site
              /\ Rejected(Found[n].loop) /\ Fitting(Found[n].call)
<1>1. /\ SelectionType /\ SourceOK /\ Visiting /\ build = "relax" /\ found \in Lists
      /\ ~HasAssembly(site)
  BY DEF Relax, Tries, Considered, SelectionInv, SelectionType
<1>2. /\ Found \in Lists /\ Len(found) \in Nat /\ Len(Found) \in Nat
      /\ \A n \in 1..Len(found) : Found[n] = found[n]
      /\ \A n \in 1..Len(Found) : Len(found) < n =>
           Found[n].loop = site /\ Found[n].call \in New
      /\ \A c \in New : \E n \in 1..Len(Found) :
           Len(found) < n /\ Found[n] = [loop |-> site, call |-> c]
  BY <1>1, FoundAfterWaiting
<1>3. site \in DOMAIN source.loops /\ site \in Nat
  BY <1>1, Visits
<1>4. \A tried : Suits(tried) <=>
        /\ source.loops[tried.loop].sound /\ source.calls[tried.call].fits
        /\ tried.loop = Home(tried.call) /\ ~source.loops[tried.loop].perforated
  BY <1>1 DEF Suits
<1>. HIDE DEF Found
<1>5. ASSUME NEW c \in FittingIn(site)
      PROVE  \E n \in 1..Len(Found) :
               Len(found) < n /\ Found[n] = [loop |-> site, call |-> c] /\ Suits(Found[n])
  <2>1. c \in CallsIn(site) /\ Home(c) = site /\ Fitting(c)
    BY <1>5 DEF FittingIn
  <2>2. c \notin Replaced
    BY <1>1, <2>1 DEF HasAssembly
  <2>3. \A a \in CallsIn(site) : Kind(a) # "asm"
    BY <1>1 DEF HasAssembly
  <2>4. c \notin Waiting
    <3>. SUFFICES ASSUME NEW n \in 1..Len(found), found[n].call = c PROVE FALSE
      BY <1>1 DEF Waiting, Lists
    <3>1. found[n].loop < site /\ c \in CallsIn(found[n].loop)
      BY DEF SelectionInv, WaitInv
    <3>2. found[n].loop \in Around(site)
      BY <2>1, <3>1 DEF CallsIn
    <3>3. found[n].loop \in DOMAIN source.loops /\ site <= found[n].loop
      BY <1>1, <1>3, <3>2, AroundComesLater
    <3>. QED  BY <1>1, <1>3, <3>1, <3>3, Visits
  <2>5. c \in New
    BY <2>1, <2>2, <2>3, <2>4 DEF New, LookedAt, Fitting
  <2>6. PICK n \in 1..Len(Found) : Len(found) < n /\ Found[n] = [loop |-> site, call |-> c]
    BY <1>2, <2>5
  <2>7. Suits(Found[n])
    BY <1>4, <2>1, <2>6 DEF Fitting
  <2>. QED  BY <2>6, <2>7
<1>6. ASSUME NEW n \in 1..Len(Found), Len(found) < n, Suits(Found[n])
      PROVE  /\ Found[n].loop = site /\ Found[n].call \in FittingIn(site)
             /\ Fitting(Found[n].call)
  <2>1. Found[n].loop = site /\ Found[n].call \in New
    BY <1>2, <1>6
  <2>2. Found[n].call \in CallsIn(site) /\ Kind(Found[n].call) = "pure"
    BY <2>1 DEF New, LookedAt
  <2>3. Home(Found[n].call) = site /\ Fitting(Found[n].call)
    BY <1>4, <1>6, <2>1, <2>2 DEF Fitting
  <2>. QED  BY <2>1, <2>2, <2>3 DEF FittingIn
<1>7. ASSUME NEW n \in 1..Len(Found), n <= Len(found), Suits(Found[n])
      PROVE  /\ Found[n].loop \in DOMAIN source.loops /\ Found[n].loop < site
             /\ Rejected(Found[n].loop) /\ Fitting(Found[n].call)
  <2>1. n \in 1..Len(found) /\ Found[n] = found[n]
    BY <1>2, <1>7
  <2>2. found[n].loop < site /\ Kind(found[n].call) = "pure" /\ Rejected(found[n].loop)
    BY <2>1 DEF SelectionInv, WaitInv
  <2>3. found[n] \in Attempts
    BY <1>1, <2>1 DEF Lists
  <2>4. Fitting(Found[n].call)
    BY <1>4, <1>7, <2>1, <2>2 DEF Fitting
  <2>. QED  BY <2>1, <2>2, <2>3, <2>4 DEF Attempts
<1>. QED  BY <1>5, <1>6, <1>7

\* The relaxed build replaces the first call that suits, if the loop is named.
LEMMA RelaxSelected ==
  ASSUME SelectionInv, Relax PROVE SelectionInv'
<1>1. /\ SelectionType /\ SourceOK /\ Visiting /\ build = "relax" /\ found \in Lists
      /\ replaced \subseteq Attempts
  BY DEF Relax, Tries, Considered, SelectionInv, SelectionType
<1>2. /\ site' = site + 1 /\ found' = <<>> /\ UNCHANGED <<source, build, named>>
      /\ replaced' = IF Line(site) \in named THEN Replacing(Found) ELSE replaced
  BY DEF Relax, Clear
<1>3. /\ site \in DOMAIN source.loops /\ site \in Nat
      /\ \A l \in DOMAIN source.loops : l \in Nat /\ (l < site + 1 => l < site \/ l = site)
  BY <1>1, Visits
<1>4. RewritesDoNotMeet /\ \A tried \in replaced : tried.loop < site
  BY DEF SelectionInv, ReplacedInv
<1>. DEFINE N == Len(Found)
            b == Len(found)
<1>5. /\ Found \in Lists /\ b \in Nat /\ N \in Nat
      /\ \A m, n \in 1..N : b < m /\ m < n => Found[m].call < Found[n].call
  BY <1>1, FoundAfterWaiting
<1>. HIDE DEF N, b, Found
<1>6. /\ replaced \subseteq replaced' /\ replaced' \subseteq Attempts
      /\ \A e \in replaced' : e \notin replaced =>
           /\ Line(site) \in named /\ Suits(e)
           /\ \E m \in 1..N :
                e = Found[m] /\ \A k \in 1..N : k < m /\ Suits(Found[k]) =>
                                                  Found[k].loop # e.loop
           /\ \A o \in replaced' : o.loop = e.loop => o = e
      /\ Line(site) \in named =>
           \A m \in 1..N : Suits(Found[m]) => \E o \in replaced' : o.loop = Found[m].loop
  <2>1. CASE Line(site) \in named
    BY <1>1, <1>2, <1>5, <2>1, ReplacingTakesTheFirst DEF N
  <2>2. CASE Line(site) \notin named
    BY <1>1, <1>2, <2>2
  <2>. QED  BY <2>1, <2>2
<1>7. /\ \A c \in FittingIn(site) : \E n \in 1..N :
           b < n /\ Found[n] = [loop |-> site, call |-> c] /\ Suits(Found[n])
      /\ \A n \in 1..N : b < n /\ Suits(Found[n]) =>
           /\ Found[n].loop = site /\ Found[n].call \in FittingIn(site)
           /\ Fitting(Found[n].call)
      /\ \A n \in 1..N : n <= b /\ Suits(Found[n]) =>
           /\ Found[n].loop \in DOMAIN source.loops /\ Found[n].loop < site
           /\ Rejected(Found[n].loop) /\ Fitting(Found[n].call)
  BY RelaxLooksAtAll DEF N, b
<1>8. \A n \in 1..N : n <= b \/ b < n
  BY <1>5
<1>9. \A l : Rejected(l) => Rejected(l)'
  <2>. SUFFICES ASSUME NEW l, Rejected(l) PROVE Rejected(l)'
    OBVIOUS
  <2>. QED  BY <1>2, <1>6, SameProgram DEF Rejected
<1>10. ASSUME NEW e \in replaced', e \notin replaced
       PROVE  /\ Fitting(e.call) /\ e.loop = Home(e.call)
              /\ e.loop = site \/ (e.loop < site /\ Rejected(e.loop))
  <2>1. PICK m \in 1..N : e = Found[m]
    BY <1>6, <1>10
  <2>2. Suits(e)
    BY <1>6, <1>10
  <2>3. e.loop = Home(e.call)
    BY <2>2 DEF Suits
  <2>. QED  BY <1>7, <1>8, <2>1, <2>2, <2>3
<1>11. SelectionType'
  <2>1. site + 1 \in 1..(Len(source.loops) + 1)
    BY <1>1, Visits
  <2>2. <<>> \in Lists
    BY DEF Lists
  <2>. QED  BY <1>1, <1>2, <1>6, <2>1, <2>2, SameProgram DEF SelectionType
<1>12. WaitInv'
  BY <1>2 DEF WaitInv
<1>13. ReplacedInv'
  <2>1. ASSUME NEW e \in replaced'
        PROVE  /\ e.loop = Home(e.call) /\ Fitting(e.call) /\ e.loop < site + 1
               /\ \A o \in replaced' : o.loop = e.loop => o = e
    <3>1. CASE e \in replaced
      <4>1. /\ e.loop = Home(e.call) /\ Fitting(e.call) /\ e.loop < site
            /\ \A o \in replaced : o.loop = e.loop => o = e
        BY <1>4, <3>1 DEF RewritesDoNotMeet
      <4>2. e.loop \in DOMAIN source.loops
        BY <1>1, <3>1 DEF Attempts
      <4>3. e.loop < site + 1
        BY <1>3, <4>1, <4>2
      <4>4. ASSUME NEW o \in replaced', o \notin replaced, o.loop = e.loop PROVE o = e
        BY <1>6, <4>4
      <4>. QED  BY <4>1, <4>3, <4>4
    <3>2. CASE e \notin replaced
      <4>1. e.loop < site + 1
        <5>1. e.loop \in DOMAIN source.loops
          BY <1>6 DEF Attempts
        <5>. QED  BY <1>3, <1>10, <3>2, <5>1
      <4>. QED  BY <1>6, <1>10, <3>2, <4>1
    <3>. QED  BY <3>1, <3>2
  <2>2. RewritesDoNotMeet'
    BY <1>2, <2>1, SameProgram DEF RewritesDoNotMeet
  <2>. QED  BY <1>2, <2>1, <2>2 DEF ReplacedInv
<1>14. ASSUME NEW l \in DOMAIN source.loops, l < site, Decides(l) PROVE Decides(l)'
  <2>. SUFFICES ASSUME ~Rejected(l)' PROVE RewrittenIn(l)' = RewrittenIn(l)
    BY <1>2, <1>9, <1>14, SameProgram DEF Decides, Line
  <2>1. ASSUME NEW e \in replaced', e.loop = l PROVE e \in replaced
    BY <1>3, <1>9, <1>10, <1>14, <2>1
  <2>. QED  BY <1>6, <2>1 DEF RewrittenIn
<1>h. PICK h \in DOMAIN source.loops : h = site
  BY <1>3
<1>15. Decides(h)'
  <2>1. \A e \in replaced : e.loop # site
    BY <1>3, <1>4
  <2>2. CASE Line(site) \notin named
    <3>1. RewrittenIn(h)' = {}
      BY <1>2, <1>h, <2>1, <2>2 DEF RewrittenIn
    <3>. QED  BY <1>2, <1>h, <2>2, <3>1 DEF Decides, Line
  <2>3. CASE Line(site) \in named
    <3>1. ASSUME NEW e \in replaced', e.loop = site
          PROVE  e.call \in FittingIn(site) /\ \A d \in FittingIn(site) : e.call <= d
      <4>1. PICK m \in 1..N : /\ e = Found[m]
                              /\ \A k \in 1..N : k < m /\ Suits(Found[k]) =>
                                                    Found[k].loop # e.loop
        BY <1>6, <2>1, <3>1
      <4>2. Suits(e)
        BY <1>6, <2>1, <3>1
      <4>3. b < m /\ e.call \in FittingIn(site)
        BY <1>3, <1>7, <1>8, <3>1, <4>1, <4>2
      <4>4. ASSUME NEW d \in FittingIn(site) PROVE e.call <= d
        <5>1. PICK n \in 1..N :
                b < n /\ Found[n] = [loop |-> site, call |-> d] /\ Suits(Found[n])
          BY <1>7
        <5>2. ~(n < m)
          BY <3>1, <4>1, <5>1
        <5>3. e.call \in Nat
          BY <1>1, <4>3 DEF FittingIn, CallsIn, SourceOK
        <5>4. CASE n = m
          BY <4>1, <5>1, <5>3, <5>4
        <5>5. CASE m < n
          <6>1. Found[m].call < Found[n].call
            BY <1>5, <4>3, <5>5
          <6>2. d \in Nat
            BY <1>1 DEF FittingIn, CallsIn, SourceOK
          <6>. QED  BY <4>1, <5>1, <5>3, <6>1, <6>2
        <5>. QED  BY <5>2, <5>4, <5>5
      <4>. QED  BY <4>3, <4>4
    <3>2. ASSUME NEW c \in FittingIn(site), \A d \in FittingIn(site) : c <= d
          PROVE  c \in RewrittenIn(h)'
      <4>1. PICK n \in 1..N : Found[n] = [loop |-> site, call |-> c] /\ Suits(Found[n])
        BY <1>7
      <4>2. PICK o \in replaced' : o.loop = site
        BY <1>6, <2>3, <4>1
      <4>3. o.call \in FittingIn(site) /\ o.call <= c /\ c <= o.call
        BY <3>1, <3>2, <4>2
      <4>4. c \in Nat /\ o.call \in Nat
        BY <1>1, <4>3 DEF FittingIn, CallsIn, SourceOK
      <4>5. o.call = c
        BY <4>3, <4>4
      <4>. QED  BY <1>h, <4>2, <4>5 DEF RewrittenIn
    <3>3. RewrittenIn(h)' = {c \in FittingIn(site) : \A d \in FittingIn(site) : c <= d}
      <4>1. \A c \in RewrittenIn(h)' : \E e \in replaced' : e.loop = site /\ e.call = c
        BY <1>h DEF RewrittenIn
      <4>. QED  BY <3>1, <3>2, <4>1
    <3>4. FittingIn(h)' = FittingIn(site) /\ Line(h)' = Line(site)
      BY <1>2, <1>h, SameProgram DEF Line
    <3>. QED  BY <1>2, <2>3, <3>3, <3>4 DEF Decides
  <2>. QED  BY <2>2, <2>3
<1>16. DecidedInv'
  <2>1. \A l \in DOMAIN source.loops : l < site => Decides(l)
    BY <1>1 DEF SelectionInv, DecidedInv
  <2>2. ASSUME NEW l \in DOMAIN source.loops, l < site + 1 PROVE Decides(l)'
    <3>1. CASE l < site
      BY <1>14, <2>1, <3>1
    <3>2. CASE l = site
      BY <1>h, <1>15, <3>2
    <3>. QED  BY <1>3, <2>2, <3>1, <3>2
  <2>. QED  BY <1>1, <1>2, <2>2 DEF DecidedInv
<1>. QED  BY <1>11, <1>12, <1>13, <1>16 DEF SelectionInv

\* The builds end, or start anew.
LEMMA ConfigureSelected ==
  ASSUME SelectionInv, Configure PROVE SelectionInv'
<1>1. SelectionType /\ replaced = {}
  BY DEF Configure, SelectionInv, SelectionType
<1>2. /\ build' = "relax" /\ site' = 1 /\ found' = <<>> /\ UNCHANGED <<source, replaced>>
  BY DEF Configure
<1>3. SelectionType'
  <2>1. found' \in Lists /\ 1 \in 1..(Len(source.loops) + 1)
    <3>1. SourceOK
      BY <1>1 DEF SelectionType
    <3>2. Len(source.loops) \in Nat
      BY <3>1 DEF SourceOK
    <3>3. <<>> \in Lists
      BY DEF Lists
    <3>. QED  BY <1>2, <3>2, <3>3
  <2>. QED  BY <1>1, <1>2, <2>1, SameProgram DEF SelectionType
<1>4. WaitInv' /\ ReplacedInv'
  BY <1>1, <1>2 DEF WaitInv, ReplacedInv, RewritesDoNotMeet
<1>5. DecidedInv'
  <2>1. \A l \in DOMAIN source.loops : l \in Nat /\ l # 0
    <3>1. SourceOK
      BY <1>1 DEF SelectionType
    <3>. QED  BY <3>1 DEF SourceOK
  <2>2. \A l \in DOMAIN source.loops : ~(l < 1)
    BY <2>1
  <2>. QED  BY <1>2, <2>2 DEF DecidedInv
<1>. QED  BY <1>3, <1>4, <1>5 DEF SelectionInv

\* What the compiler knew is gone when the program runs.
LEMMA StartSelected ==
  ASSUME SelectionInv, Start PROVE SelectionInv'
<1>1. /\ source' = [loops |-> <<>>, calls |-> <<>>] /\ site' = 1 /\ found' = <<>>
      /\ replaced' = {} /\ build' \in {"rewritten", "as it was"}
  BY DEF Start
<1>. DEFINE none == <<>>
<1>0. \A S : none \in Seq(S)
  OBVIOUS
<1>e. Len(none) = 0 /\ DOMAIN none = {}
  OBVIOUS
<1>s. source' = [loops |-> none, calls |-> none] /\ found' = none
  BY <1>1
<1>. HIDE DEF none
<1>l. source'.loops = none /\ source'.calls = none
  BY <1>s
<1>2. SourceOK'
  BY <1>0, <1>e, <1>s, <1>l DEF SourceOK
<1>3. found' \in Lists'
  BY <1>0, <1>s DEF Lists
<1>4. SelectionType'
  <2>1. site' \in 1..(Len(source'.loops) + 1)
    <3>1. 1 \in 1..(Len(none) + 1)
      BY <1>e
    <3>. QED  BY <1>1, <1>l, <3>1, Zenon
  <2>2. replaced' \subseteq Attempts'
    BY <1>1
  <2>3. build' # "dump" /\ build' \in {"dump", "relax", "built", "rewritten", "as it was",
                                      "run", "crashed", "undefined"}
    BY <1>1
  <2>. QED  BY <1>2, <1>3, <2>1, <2>2, <2>3 DEF SelectionType
<1>5. WaitInv' /\ ReplacedInv'
  <2>1. \A n : n \notin 1..Len(none)
    BY <1>e
  <2>2. WaitInv'
    BY <1>s, <2>1, Zenon DEF WaitInv
  <2>. QED  BY <1>1, <2>2 DEF ReplacedInv, RewritesDoNotMeet
<1>6. DecidedInv'
  BY <1>1 DEF DecidedInv
<1>. QED  BY <1>4, <1>5, <1>6 DEF SelectionInv

\* A build that fails, ends or runs.
LEMMA EndedSelected ==
  ASSUME SelectionInv, UNCHANGED <<source, site, found, named, replaced>>,
         \/ build' \in {"crashed", "undefined", "run"}
         \/ build = "relax" /\ build' = "built" /\ AtEnd
  PROVE  SelectionInv'
<1>1. SelectionType /\ WaitInv /\ ReplacedInv /\ DecidedInv
  BY DEF SelectionInv
<1>2. SelectionType'
  BY <1>1, SameProgram DEF SelectionType
<1>3. WaitInv' /\ ReplacedInv'
  BY <1>1, SameProgram, SameRewrites DEF WaitInv, ReplacedInv
<1>4. DecidedInv'
  BY <1>1, SameDecisions DEF DecidedInv, AtEnd
<1>. QED  BY <1>2, <1>3, <1>4 DEF SelectionInv

\* Every step of the two builds keeps the invariant.
LEMMA BuildSelected ==
  ASSUME SelectionInv, Build PROVE SelectionInv'
<1>1. CASE Skip
  BY <1>1, SkipSelected
<1>2. CASE Crash
  BY <1>2, EndedSelected DEF Crash
<1>3. CASE Reject
  BY <1>3, RejectSelected
<1>4. CASE FollowDangling
  BY <1>4, EndedSelected DEF FollowDangling
<1>5. CASE List
  BY <1>5, ListSelected
<1>6. CASE Relax
  BY <1>6, RelaxSelected
<1>7. CASE Configure
  BY <1>7, ConfigureSelected
<1>8. CASE EndBuild
  BY <1>8, EndedSelected DEF EndBuild
<1>9. CASE Start
  BY <1>9, StartSelected
<1>. QED  BY <1>1, <1>2, <1>3, <1>4, <1>5, <1>6, <1>7, <1>8, <1>9 DEF Build

\* At the end of the relaxed build every loop has been visited.
LEMMA SelectedAsNamed ==
  ASSUME SelectionInv PROVE LoopsAreRewrittenAsNamed
<1>1. RewritesDoNotMeet
  BY DEF SelectionInv, ReplacedInv
<1>2. ASSUME build = "built" PROVE NamesDecide
  <2>1. SourceOK /\ site = Len(source.loops) + 1 /\ \A l \in DOMAIN source.loops : l < site => Decides(l)
    BY <1>2 DEF SelectionInv, SelectionType, DecidedInv
  <2>2. \A l \in DOMAIN source.loops : l < site
    BY <2>1 DEF SourceOK
  <2>3. ASSUME NEW l \in DOMAIN source.loops, ~source.loops[l].skipped,
               \A c \in CallsIn(l) : Kind(c) # "asm",
               \A tried \in replaced : l \in Around(tried.loop) => tried.loop = l
        PROVE  RewrittenIn(l) = IF Line(l) \notin named THEN {}
                                ELSE {c \in FittingIn(l) : \A d \in FittingIn(l) : c <= d}
    BY <2>1, <2>2, <2>3 DEF Decides, Rejected
  <2>. QED  BY <2>3 DEF NamesDecide, RewrittenIn, FittingIn
<1>. QED  BY <1>1, <1>2 DEF LoopsAreRewrittenAsNamed

-----------------------------------------------------------------------------
(* Both together.                                                          *)

\* The loop of the run starts when the builds have ended.
NpuInv ==
  /\ SelectionInv /\ BatchBase /\ TameInv
  /\ build # "run" => BatchInit

\* The builds start with the program, and no loop has begun.
LEMMA InitNpuInv == InitSelection => NpuInv
<1>. SUFFICES ASSUME InitSelection PROVE NpuInv
  OBVIOUS
<1>1. BatchInit
  BY DEF InitSelection
<1>2. BatchBase /\ TameInv
  BY <1>1, InitBase, InitTame
<1>. QED  BY <1>1, <1>2, InitSelected DEF NpuInv

\* A step of a build, the start of the loop, or a step of the loop.
LEMMA StepNpuInv == NpuInv /\ [NextSelection]_<<batchVars, buildVars>> => NpuInv'
<1>. SUFFICES ASSUME NpuInv, [NextSelection]_<<batchVars, buildVars>> PROVE NpuInv'
  OBVIOUS
<1>1. SelectionInv /\ BatchBase /\ TameInv
  BY DEF NpuInv
<1>2. CASE Build /\ UNCHANGED batchVars
  <2>1. build # "run"
    BY <1>2 DEF Build, Skip, Crash, Reject, FollowDangling, List, Relax, Configure, EndBuild,
                Start, Tries, Considered, Visiting
  <2>2. BatchInit'
    BY <1>2, <2>1 DEF NpuInv, BatchInit, batchVars, program, buffers, output
  <2>3. BatchBase' /\ TameInv'
    BY <1>1, <1>2, StepBase, StepTame
  <2>. QED  BY <1>1, <1>2, <2>2, <2>3, BuildSelected DEF NpuInv
<1>3. CASE Run
  <2>1. BatchInit /\ loop' \in Loops
    BY <1>3 DEF Run, NpuInv
  <2>2. BatchInit'
    BY <1>3, <2>1 DEF Run, BatchInit, buffers, output
  <2>3. BatchBase' /\ TameInv'
    BY <2>2, InitBase, InitTame, PTL
  <2>4. SelectionInv'
    BY <1>1, <1>3, EndedSelected DEF Run
  <2>. QED  BY <2>2, <2>3, <2>4 DEF NpuInv
<1>4. CASE build = "run" /\ BatchNext /\ UNCHANGED buildVars
  <2>1. SelectionInv' /\ build' = "run"
    BY <1>1, <1>4, EndedSelected DEF buildVars
  <2>2. BatchBase' /\ TameInv'
    BY <1>1, <1>4, StepBase, StepTame
  <2>. QED  BY <2>1, <2>2 DEF NpuInv
<1>5. CASE UNCHANGED <<batchVars, buildVars>>
  <2>1. BatchBase' /\ TameInv'
    BY <1>1, <1>5, StepBase, StepTame
  <2>2. SelectionInv'
    <3>1. UNCHANGED <<source, build, site, found, named, replaced>>
      BY <1>5 DEF buildVars
    <3>2. SelectionType' /\ WaitInv' /\ ReplacedInv' /\ DecidedInv'
      BY <1>1, <3>1, SameProgram, SameRewrites, SameDecisions
         DEF SelectionInv, SelectionType, WaitInv, ReplacedInv, DecidedInv
    <3>. QED  BY <3>2 DEF SelectionInv
  <2>3. build' # "run" => BatchInit'
    BY <1>5 DEF NpuInv, BatchInit, batchVars, buildVars, program, buffers, output
  <2>. QED  BY <2>1, <2>2, <2>3 DEF NpuInv
<1>. QED  BY <1>2, <1>3, <1>4, <1>5 DEF NextSelection

\* Whatever the programs and the loops: what waits was rejected where it waits, the
\* loops that were visited are decided, and the batches hold what the buffered trips need
\* of the variables that are restored.
THEOREM NpuInvariance == SpecSelection => []NpuInv
<1>. QED  BY InitNpuInv, StepNpuInv, PTL DEF SpecSelection

\* The inputs of the calls and the stores stay within their buffers, whatever the loops
\* are, and so do the addresses if a call has no more outputs than inputs; the two
\* vectors hold loops and calls of the program.
THEOREM NpuTypeCorrect == SpecSelection => []TypeOKSelection
<1>1. NpuInv => TypeOKSelection
  <2>. SUFFICES ASSUME NpuInv PROVE TypeOKSelection
    OBVIOUS
  <2>1. BatchTypeOK
    BY BaseType DEF NpuInv
  <2>2. SelectionType
    BY DEF NpuInv, SelectionInv
  <2>. QED  BY <2>1, <2>2 DEF TypeOKSelection, SelectionType, Lists, Attempts
<1>. QED  BY <1>1, NpuInvariance, PTL

\* Every loop of the relaxed build is rewritten once at most, and a loop that is
\* looked at to its end exactly if its own name has a parameter and for the first of
\* its calls that can be replaced, whatever calls of other loops still waited.
THEOREM NamesDecideLoops == SpecSelection => []LoopsAreRewrittenAsNamed
<1>1. NpuInv => LoopsAreRewrittenAsNamed
  BY SelectedAsNamed DEF NpuInv
<1>. QED  BY <1>1, NpuInvariance, PTL

\* For any stores in any order of their addresses, any size of the buffer and any number
\* of trips: as long as no store has gone astray, the last parts see the variables that
\* are restored, the calls and the addresses of their own trips, in the order of the
\* trips.  Floats, variables of other types and some that are stored to twice are not
\* among the restored.
THEOREM LastPartsInOrder == SpecSelection => []ReplaysAreInOrder
<1>1. NpuInv => ReplaysAreInOrder
  BY TameInOrder DEF NpuInv
<1>. QED  BY <1>1, NpuInvariance, PTL

\* The variables that are restored, and those that no replay stores to, have in the trips
\* that follow a batch the values of those trips, and what is restored has after a break
\* the values of the trip that was left, for any loops.
THEOREM MemoryGoesOn == SpecSelection => []StateGoesOn
<1>1. NpuInv => StateGoesOn
  BY TameInOrder DEF NpuInv
<1>. QED  BY <1>1, NpuInvariance, PTL

\* When any loop has ended by its header and no store has gone astray, exactly the
\* trips that did not fill a buffer have lost their last parts.
THEOREM TailIsLost == SpecSelection => []OnlyATailIsLost
<1>1. NpuInv => OnlyATailIsLost
  BY TameInOrder DEF NpuInv
<1>. QED  BY <1>1, NpuInvariance, PTL
=============================================================================
