---------------------------- MODULE Preservation ----------------------------
(***************************************************************************)
(* Loop perforation with partial preservation of the body                  *)
(* (pass/loopperf.cpp, preserveBody): a skipped iteration runs a clone of  *)
(* the body, in which compound assignments repeat the increment or the     *)
(* factor of the iteration that ran last, other stores that are seen       *)
(* outside of the body repeat its value, and only what their addresses and *)
(* the branches need is computed anew.                                     *)
(*                                                                         *)
(* A body is a sequence of instructions that use the results of earlier    *)
(* ones; a branch leads on, or forward if its condition is zero.  A local  *)
(* variable is an alloca, everything else is an element of one array.      *)
(***************************************************************************)
EXTENDS Perforation, Sequences

CONSTANTS
  Bodies,    \* the bodies that a loop may have
  Locals,    \* the local variables
  Observed,  \* those that something outside of the body reads
  Inputs,    \* what an instruction may read that the body does not write
  Bits,      \* the width of an integer
  Garbage    \* what memory may hold that nobody has written

Operators == {"+", "-", "*", "/"}
Instruction ==
  [op : {"in", "gep", "load", "store", "br"} \cup Operators,
   var : Locals \cup {"none"},   \* what a load or store accesses, if a local
   args : Seq(Nat),              \* operands; an address comes last
   to : Nat]                     \* where a branch leads if its condition is zero

\* An instruction has as many operands as its operation takes, all of them results
\* of earlier instructions.
Arity(i) ==
  (IF i.op \in Operators THEN 2 ELSE IF i.op \in {"gep", "store", "br"} THEN 1 ELSE 0)
  + (IF i.op \in {"load", "store"} /\ i.var = "none" THEN 1 ELSE 0)
Code ==
  {b \in Seq(Instruction) :
     \A i \in DOMAIN b :
       /\ Len(b[i].args) = Arity(b[i])
       /\ \A k \in DOMAIN b[i].args :
            b[i].args[k] \in 1..(i - 1) /\ b[b[i].args[k]].op \notin {"store", "br"}
       /\ b[i].var # "none" => b[i].op \in {"load", "store"}
       /\ b[i].op = "br" => b[i].to > i}

ASSUME PreservationAssumption ==
  /\ \A b \in Bodies : b \in Code
  /\ Observed \subseteq Locals /\ "none" \notin Locals
  /\ Bits \in Nat \ {0} /\ Inputs \cup {Garbage} \subseteq -Pow2[Bits - 1]..(Pow2[Bits - 1] - 1)

VARIABLES
  body,    \* the code of the loop that runs
  clone,   \* what preserveBody makes of it
  mem,     \* the local variables
  elems,   \* the elements that were written
  saved,   \* accept_value, accept_accum and accept_scale, where they were written
  gained,  \* how the last evaluated iteration changed the locals
  unset,   \* something was used that nobody had computed or stored
  trapped  \* "no", or the instruction that divided by zero: "source" or "added"

dataVars == <<body, clone, mem, elems, saved, gained, unset, trapped>>

-----------------------------------------------------------------------------
(* What preserveBody finds in the body.                                    *)

Op(i) == body[i].op
Arg(i, k) == body[i].args[k]
Operands(i) == {Arg(i, k) : k \in DOMAIN body[i].args}
Those(op) == {i \in DOMAIN body : Op(i) = op}
Stores == Those("store")

\* A pointer operand: a local, or the instruction that computes the address.
IsLocal(i) == body[i].var # "none"
Pointer(i) == <<body[i].var, IF IsLocal(i) THEN 0 ELSE Arg(i, Len(body[i].args))>>

Latest(is) == IF is = {} THEN 0 ELSE CHOOSE i \in is : \A j \in is : j <= i

\* findMostRecentStoreInst: upwards in the code, whatever may branch around it.
MostRecentStore(i) == Latest({s \in Stores : s < i /\ Pointer(s) = Pointer(i)})

NotFound == [op |-> 0, load |-> 0, inc |-> <<>>, dec |-> <<>>]

\* loadsAccumVariable and loadsScaledVariable: whether an operand is the variable
\* at p with something added to it and subtracted from it, given what was found of
\* the instructions before.
LoadsOf(i, found, p, up, down) ==
  CASE i = 0 -> NotFound
    [] i # 0 /\ Op(i) = "load" ->
         IF Pointer(i) = p THEN [NotFound EXCEPT !.load = i]
         ELSE found[MostRecentStore(i)]
    [] i # 0 /\ Op(i) = "store" ->
         IF Op(Arg(i, 1)) = "load" THEN found[Arg(i, 1)] ELSE NotFound
    [] i # 0 /\ Op(i) \in {up, down} ->
         IF found[Arg(i, 1)].load # 0
         THEN IF Op(i) = up THEN [found[Arg(i, 1)] EXCEPT !.inc = Append(@, Arg(i, 2))]
                            ELSE [found[Arg(i, 1)] EXCEPT !.dec = Append(@, Arg(i, 2))]
         ELSE IF Op(i) = up /\ found[Arg(i, 2)].load # 0
         THEN [found[Arg(i, 2)] EXCEPT !.inc = Append(@, Arg(i, 1))]
         ELSE NotFound
    [] OTHER -> NotFound

Loads(p, up, down) ==
  LET found[i \in 0..Len(body)] == LoadsOf(i, found, p, up, down) IN found

\* findAddInst and findMulInst: the operation whose result a store stores, and
\* which works on the variable that it stores to.
AssignmentOf(i, found, loads, up, down) ==
  CASE i = 0 -> NotFound
    [] i # 0 /\ Op(i) = "load" -> found[MostRecentStore(i)]
    [] i # 0 /\ Op(i) = "store" /\ Op(Arg(i, 1)) = "load" -> found[Arg(i, 1)]
    [] i # 0 /\ Op(i) = "store" /\ Op(Arg(i, 1)) \in {up, down} ->
         IF loads[Arg(i, 1)].load = 0 THEN NotFound
         ELSE [loads[Arg(i, 1)] EXCEPT !.op = Arg(i, 1)]
    [] OTHER -> NotFound

Assignment(s, up, down) ==
  LET loads == Loads(Pointer(s), up, down)
      found[i \in 0..Len(body)] == AssignmentOf(i, found, loads, up, down)
  IN found[s]

CmpdAssign(s) ==
  LET sum == Assignment(s, "+", "-")
  IN IF sum.op # 0 THEN sum ELSE Assignment(s, "*", "/")
CmpdAssignStores == {s \in Stores : CmpdAssign(s).op # 0}

\* The other stores that escape: those to what is not a local or is read elsewhere.
StoreEscapes(s) == ~IsLocal(s) \/ body[s].var \in Observed
PreservedStores == {s \in Stores \ CmpdAssignStores : StoreEscapes(s)}

\* Changed: the operands are kept, and not what they are computed from.
SliceOnce(i) == IF i = 0 THEN {} ELSE Operands(i)

\* sliceOperandHelper: what an instruction is computed from.
Sources(i) ==
  IF Op(i) = "load" /\ IsLocal(i) THEN {MostRecentStore(i)} \ {0} ELSE Operands(i)
Slice(i) ==
  LET slice[j \in 0..Len(body)] ==
        IF j = 0 THEN {} ELSE UNION {{k} \cup slice[k] : k \in Sources(j)}
  IN slice[i]

\* What the slices of addresses and of conditions put into the clone.
Sliced ==
  UNION ({{Pointer(s)[2]} \cup Slice(Pointer(s)[2]) :
            s \in {t \in CmpdAssignStores \cup PreservedStores : ~IsLocal(t)}}
         \cup {Slice(b) : b \in Those("br")})

\* Changed: the operation of an assignment is not kept with its store.
PreservedStoresOnly ==
  CmpdAssignStores \cup PreservedStores \cup Those("br") \cup Sliced

Preserved ==
  CmpdAssignStores \cup {CmpdAssign(s).op : s \in CmpdAssignStores}
  \cup PreservedStores \cup Those("br") \cup Sliced

\* The clone: the instructions it keeps, the stores that repeat a value and those
\* that repeat an assignment, and for the operation of such an assignment the store
\* whose variable and increment it is given, the last of the map if it has several.
Clone ==
  [kept : {Preserved}, held : {PreservedStores},
   assigns : {[s \in CmpdAssignStores |-> CmpdAssign(s)]},
   owner : {f \in [{CmpdAssign(s).op : s \in CmpdAssignStores} -> CmpdAssignStores] :
              \A o \in DOMAIN f : CmpdAssign(f[o]).op = o}]

-----------------------------------------------------------------------------
(* What instructions do to an environment: the memory and what is saved,   *)
(* the results of the instructions so far, where a branch leads, and what  *)
(* the iteration stored where.                                             *)

Nothing == [x \in {} |-> Garbage]
Updated(f, x, v) == [y \in DOMAIN f \cup {x} |-> IF y = x THEN v ELSE f[y]]

Entry(input) ==
  [mem |-> mem, elems |-> elems, saved |-> saved, input |-> input,
   results |-> Nothing, next |-> 1, puts |-> {}, unset |-> unset, trapped |-> "no"]

At(f, x) == IF x \in DOMAIN f THEN f[x] ELSE Garbage
Result(e, i) == At(e.results, i)
Uses(e, f, xs) == [e EXCEPT !.unset = @ \/ ~(xs \subseteq DOMAIN f)]
Gives(e, i, v) == [e EXCEPT !.results = Updated(@, i, v)]

Wrap(x) == ((x + Pow2[Bits - 1]) % Pow2[Bits]) - Pow2[Bits - 1]

\* Integer division drops the rest.
Quotient(x, y) ==
  LET abs(z) == IF z < 0 THEN -z ELSE z
      q == abs(x) \div abs(y)
  IN IF (x < 0) = (y < 0) THEN q ELSE -q

\* An operation, in code of the source or in added code.
Apply(e, i, op, x, y, code) ==
  CASE op = "+" -> Gives(e, i, Wrap(x + y))
    [] op = "-" -> Gives(e, i, Wrap(x - y))
    [] op = "*" -> Gives(e, i, Wrap(x * y))
    [] op = "/" /\ y # 0 -> Gives(e, i, Wrap(Quotient(x, y)))
    [] OTHER -> [e EXCEPT !.trapped = code]

\* A load and a store through a pointer operand.
Place(e, p) == <<p[1], IF p[2] = 0 THEN 0 ELSE Result(e, p[2])>>
Content(e, p) == IF p[2] = 0 THEN e.mem[p[1]] ELSE At(e.elems, Result(e, p[2]))
Put(e, i, v) ==
  IF IsLocal(i)
  THEN [e EXCEPT !.mem[body[i].var] = v, !.puts = @ \cup {<<i, Place(e, Pointer(i))>>}]
  ELSE [e EXCEPT !.elems = Updated(@, Result(e, Pointer(i)[2]), v),
                 !.puts = @ \cup {<<i, Place(e, Pointer(i))>>}]

Execute(e, i) ==
  CASE Op(i) = "in" -> Gives(e, i, e.input)
    [] Op(i) = "gep" -> Gives(e, i, Result(e, Arg(i, 1)))
    [] Op(i) = "load" -> Gives(e, i, Content(e, Pointer(i)))
    [] Op(i) = "store" -> Put(e, i, Result(e, Arg(i, 1)))
    [] Op(i) = "br" ->
         [e EXCEPT !.next = IF Result(e, Arg(i, 1)) = 0 THEN body[i].to ELSE i + 1]
    [] OTHER -> Apply(e, i, Op(i), Result(e, Arg(i, 1)), Result(e, Arg(i, 2)), "source")

\* Changed: the difference is taken one way round.
IncrementForward(e, s) ==
  LET a == clone.assigns[s]
      one == a.inc \o a.dec
  IN IF Len(one) = 1 THEN Gives(e, 0, Result(e, one[1]))
     ELSE Apply(e, 0, IF Op(a.op) \in {"+", "-"} THEN "-" ELSE "/",
                Result(e, Arg(s, 1)), Result(e, a.load), "added")

\* What is saved for a compound assignment: its operand if there is one, and else
\* the difference or the quotient of its variable before and after.
Increment(e, s) ==
  LET a == clone.assigns[s]
      forward == Op(a.op) \in {"+", "*"}
      stored == Result(e, Arg(s, 1))
      loaded == Result(e, a.load)
      one == a.inc \o a.dec
  IN IF Len(one) = 1 THEN Gives(e, 0, Result(e, one[1]))
     ELSE Apply(e, 0, IF Op(a.op) \in {"+", "-"} THEN "-" ELSE "/",
                IF forward THEN stored ELSE loaded,
                IF forward THEN loaded ELSE stored, "added")

Save(e, s) ==
  LET f == IF s \in DOMAIN clone.assigns THEN Increment(e, s)
           ELSE Gives(e, 0, Result(e, Arg(s, 1)))
  IN [f EXCEPT !.saved = Updated(@, s, Result(f, 0))]

\* An instruction of the body, which saves what its clone will repeat.
Evaluate(e, i) ==
  LET u == Uses(e, e.results, Operands(i))
  IN IF i < e.next \/ e.trapped # "no" THEN e
     ELSE IF i \in clone.held \cup DOMAIN clone.assigns
     THEN LET f == Save(u, i) IN IF f.trapped = "no" THEN Execute(f, i) ELSE f
     ELSE Execute(u, i)

\* The clone of an instruction.
Replay(e, i) ==
  IF i \notin clone.kept \/ i < e.next \/ e.trapped # "no" THEN e
  ELSE CASE i \in DOMAIN clone.owner ->
              LET s == clone.owner[i]
              IN Apply(Uses(e, e.saved, {s}), i, Op(i), Content(e, Pointer(s)), At(e.saved, s), "added")
         [] i \in DOMAIN clone.assigns ->
              LET o == clone.assigns[i].op
              IN Put(Uses(e, e.results, {o} \cup ({Pointer(i)[2]} \ {0})), i, Result(e, o))
         [] i \in clone.held ->
              Put(Uses(Uses(e, e.saved, {i}), e.results, {Pointer(i)[2]} \ {0}), i, At(e.saved, i))
         [] OTHER -> Execute(Uses(e, e.results, Operands(i)), i)

Evaluated(input) ==
  LET run[n \in 0..Len(body)] ==
        IF n = 0 THEN Entry(input) ELSE LET e == run[n - 1] IN Evaluate(e, n)
  IN run[Len(body)]
Replayed(input) ==
  LET run[n \in 0..Len(body)] ==
        IF n = 0 THEN Entry(input) ELSE LET e == run[n - 1] IN Replay(e, n)
  IN run[Len(body)]

-----------------------------------------------------------------------------
(* The loop with its body.                                                 *)

NoClone == [kept |-> {}, held |-> {}, assigns |-> Nothing, owner |-> Nothing]

\* preserveBody has seen the loop that runs if it is perforated.
StartBody ==
  /\ Start
  /\ clone' \in IF preserve /\ perforated[now'] # 0 THEN Clone ELSE {NoClone}
  /\ UNCHANGED <<body, mem, elems, saved, gained, unset, trapped>>

\* An iteration leaves its memory behind, unless a trap stops the program.
Leaves(e) ==
  /\ mem' = e.mem /\ elems' = e.elems /\ saved' = e.saved
  /\ unset' = e.unset /\ trapped' = e.trapped
  /\ UNCHANGED <<body, clone>>
After(e) == IF e.trapped = "no" THEN "latch" ELSE "trap"

EvaluateBody ==
  /\ at = "body"
  /\ \E e \in {Evaluated(input) : input \in Inputs} :
       /\ BodyTo(After(e)) /\ Leaves(e)
       /\ gained' = [v \in Locals |-> Wrap(e.mem[v] - mem[v])]

ReplayBody ==
  /\ at = "clone"
  /\ \E e \in {Replayed(input) : input \in Inputs} :
       CloneTo(After(e)) /\ Leaves(e) /\ UNCHANGED gained

\* The body is part of the program; without clones it is left empty.
InitBody ==
  /\ Init
  /\ body \in (IF preserve THEN Bodies ELSE {<<>>}) /\ clone = NoClone
  /\ mem = [v \in Locals |-> 1] /\ elems = Nothing /\ saved = Nothing
  /\ gained = [v \in Locals |-> 0] /\ unset = FALSE /\ trapped = "no"

NextBody ==
  \/ StartBody \/ EvaluateBody \/ ReplayBody
  \/ (Build \/ Run) /\ UNCHANGED dataVars

SpecBody == InitBody /\ [][NextBody]_<<vars, dataVars>>

\* The program goes on: what is enabled of the loop as such is enabled with a body,
\* and an iteration that does not trap is one of the loop's steps.
FairSpecBody == SpecBody /\ WF_vars(Next)

-----------------------------------------------------------------------------
(* Properties.                                                             *)

TypeOKBody ==
  /\ TypeOK
  /\ body \in Bodies \cup {<<>>}
  /\ clone.kept \subseteq DOMAIN body /\ clone.held \subseteq Stores
  /\ DOMAIN clone.assigns \subseteq Stores
  /\ DOMAIN mem = Locals /\ DOMAIN gained = Locals
  /\ DOMAIN saved \subseteq Stores
  /\ unset \in BOOLEAN /\ trapped \in {"no", "source", "added"}

Straight == Those("br") = {}
SeveralFactors(s) ==
  Op(clone.assigns[s].op) \in {"*", "/"}
  /\ Len(clone.assigns[s].inc \o clone.assigns[s].dec) > 1

\* A clone uses nothing that is not there: no operand that was removed from it, no
\* value that no iteration has saved yet; nor does the program divide by zero where
\* the source does not.  So it is for a body without branches that scales nothing
\* by several factors at once.
Defined(missing, trap) ==
  /\ ~missing
  /\ trap = "added" => \E s \in DOMAIN clone.assigns : SeveralFactors(s)
ClonesAreDefined ==
  Straight =>
    /\ Defined(unset, trapped)
    /\ at = "clone" =>
         \A input \in Inputs : Defined(Replayed(input).unset, Replayed(input).trapped)

\* A skipped iteration stores to the places that the whole body would store to in
\* its stead, if no address or condition is computed from what is repeated, from
\* other elements, or from a local that is stored to in one branch only.
Escaping(e) == {p \in e.puts : StoreEscapes(p[1])}
Optional(i) == \E b \in Those("br") : b < i /\ i < body[b].to
Exact ==
  \A i \in Sliced :
    /\ i \notin clone.held \cup DOMAIN clone.assigns \cup DOMAIN clone.owner
    /\ Op(i) = "load" => IsLocal(i)
    /\ Op(i) = "store" => ~Optional(i)
SamePlaces ==
  (at = "clone" /\ Exact) =>
    \A input \in Inputs :
      LET whole == Evaluated(input)
          part == Replayed(input)
      IN whole.trapped = "no" /\ part.trapped = "no" => Escaping(part) = Escaping(whole)

\* A skipped iteration changes a local as the last evaluated one did, if it has one
\* store, which adds or subtracts, and whose operation is not that of another
\* assignment too.  An element that is read back is the one that was stored to last:
\* the stores that are looked for upwards are told apart by the code of their
\* addresses, not by the addresses.
Accumulates(s) ==
  /\ Op(clone.assigns[s].op) \in {"+", "-"} /\ IsLocal(s)
  /\ \A t \in Stores \ {s} : body[t].var # body[s].var
  /\ \A t \in DOMAIN clone.assigns \ {s} : clone.assigns[t].op # clone.assigns[s].op
ReadsBackTheLast ==
  \A i \in Those("load"), t \in Stores :
    ~IsLocal(i) /\ 0 < MostRecentStore(i) /\ MostRecentStore(i) < t /\ t < i => IsLocal(t)
IncrementsAreHeld ==
  (at = "clone" /\ Straight /\ ReadsBackTheLast) =>
    \A s \in DOMAIN clone.assigns, input \in Inputs :
      (Accumulates(s) /\ Replayed(input).trapped = "no")
      => LET v == body[s].var
         IN Wrap(Replayed(input).mem[v] - mem[v]) = gained[v]

\* The comment on the saved values: a clone loads what evaluated iterations saved.
LoadsWhatWasSaved == ~unset

\* The loop was validated as perforatable, and the clone of its body can be run.
NoTrapIsAdded == trapped # "added"
=============================================================================
