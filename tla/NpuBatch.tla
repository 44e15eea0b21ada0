------------------------------ MODULE NpuBatch ------------------------------
(***************************************************************************)
(* A loop that LoopNPU (pass/npu.cpp) has rewritten for the neural         *)
(* accelerator, as it runs.                                                *)
(*                                                                         *)
(* The loop calls a precise-pure function once in a trip.  Rewritten, a    *)
(* trip writes the inputs of the call into a buffer, together with what    *)
(* the rest of the trip needs, and goes to the latch; when the buffer is   *)
(* full the accelerator is called once, and the rest of every buffered     *)
(* trip is replayed, each in the state of its own trip.  A loop whose      *)
(* first part depends on its last part is not rewritten.                   *)
(*                                                                         *)
(* A trip is: the header's test, a first part, the call, a last part, the  *)
(* latch.  The last part leaves an effect, the state that it saw, so that  *)
(* the two loops can be compared.                                          *)
(***************************************************************************)
EXTENDS Integers, Sequences, FiniteSets

CONSTANTS
  Loops,       \* the loops considered
  BufferSize,  \* accept-npu-bufsize, in inputs
  MaxEntries   \* how often a loop is entered; bounds the behaviours

\* Precise variables of the function: the loop variable, two more integers, two floats.
FloatVars == {"f", "g"}
Vars == {"i", "x", "y"} \cup FloatVars

\* A store before the call: in a block that dominates the call's, in the block of the
\* call, or in the latch.  "other" is what the buffers have no place for: a double, a
\* pointer, or a variable that a call or a memcpy writes.  It is done in every trip,
\* and the last part does not store to the variable.
Stores ==
  [var : Vars, place : {"early", "block", "latch"}, type : {"int", "float", "other"},
   nth : Nat]   \* where it stands among the stores of a trip

LoopType ==
  [stores : Seq(Stores),  \* in the order of a set of addresses, that is in any order
   inputs : Nat \ {0},    \* of one call
   outs : Nat,            \* its output arguments
   trips : Nat,
   reg : BOOLEAN,         \* whether the last part uses a register of the first
   \* the other way round: a register, approximate data, or precise data, which is
   \* stored and loaded or goes through a call or a memcpy at one end
   feeds : {"nothing", "approx", "precise", "call", "register"},
   brk : Nat,             \* the trip whose last part leaves the loop, or 0
   chosen : BOOLEAN]      \* relaxConfig names the loop

\* The comment at 1162: the buffer size is a multiple of the number of inputs.  The
\* latch stores to the loop variable, and nothing else does.  A variable has one type.
ASSUME LoopsAssumption ==
  /\ BufferSize \in Nat \ {0} /\ MaxEntries \in Nat \ {0}
  /\ \A l \in Loops :
       /\ l \in LoopType
       /\ BufferSize % l.inputs = 0
       /\ \E n \in DOMAIN l.stores : l.stores[n].var = "i"
       /\ \A n \in DOMAIN l.stores :
            /\ l.stores[n].var = "i" <=> l.stores[n].place = "latch"
            /\ l.stores[n].var = "i" => l.stores[n].type = "int"
            /\ l.stores[n].type \in {"other", IF l.stores[n].var \in FloatVars THEN "float" ELSE "int"}
            /\ l.stores[n].nth \in 1..Len(l.stores)
            /\ \A m \in DOMAIN l.stores : l.stores[m].nth = l.stores[n].nth => m = n

VARIABLES
  loop, pc, entry,
  trip,           \* history: the number of the current trip
  mem, reg, feed, \* the precise variables, a register, what feeds the first part
  counter, inbuf, \* npu_ibuff_counter, and the calls that iBuff holds
  addrs, iaddr, oaddr,  \* npu_addrBuff with the positions of its ends
  ints, floats, faddrs, \* the buffered stores: integers, floats, and where to
  sint, sfloat,   \* the positions in them
  outbuf, calls,  \* what the accelerator has computed, and for how many calls
  outcount,       \* npu_out_loop_counter
  wild,           \* a store went astray: to an address that nobody has written, or
                  \* beyond the end of a buffer
  effects         \* history: what the last parts have seen in this entry

program == <<loop, entry, trip, mem, reg, feed, effects, wild>>
buffers == <<counter, inbuf, addrs, iaddr, ints, floats, faddrs, sint, sfloat>>
output == <<outbuf, calls, outcount, oaddr>>
batchVars == <<program, pc, buffers, output>>

\* What an array holds at a position.
Unset == "unset"
At(array, p) == IF p \in DOMAIN array THEN array[p] ELSE Unset

-----------------------------------------------------------------------------
(* The rewriting.                                                          *)

\* Changed: what the last part stores is not compared with what the first loads.
DependsOnRegisters == loop.feeds = "register"

\* pre_pos_call_dependency_check: a use of the last part by the first, or a load of
\* the first part that may see a precise store of the last.  Calls are not looked at.
DependencyCheck == loop.feeds \in {"register", "precise"}

Rewritten == loop.chosen /\ ~DependencyCheck

-----------------------------------------------------------------------------
(* The first part of a trip.                                               *)

\* What a store writes in the trip with loop variable i, each something else.
Written(st, i) == 10 * i + st.nth

StoresTo(v) == {n \in DOMAIN loop.stores : loop.stores[n].var = v}

\* The store of a trip to a variable after which none follows.
Latest(v) ==
  CHOOSE n \in StoresTo(v) : \A m \in StoresTo(v) : loop.stores[m].nth <= loop.stores[n].nth

AfterStores(m) ==
  [v \in Vars |-> IF v = "i" \/ StoresTo(v) = {} THEN m[v]
                  ELSE Written(loop.stores[Latest(v)], m["i"])]

\* A store that dominates the call is buffered with its value; else the variable is
\* loaded.  m is the memory at the call.
BufferedValue(st, m) == IF st.place = "early" THEN Written(st, m["i"]) ELSE m[st.var]

\* The stores that are buffered.  Of another type there is only a warning.
IntStores == {n \in DOMAIN loop.stores : loop.stores[n].type = "int"}
FloatStores == {n \in DOMAIN loop.stores : loop.stores[n].type = "float"}
Repeated == IntStores \cup FloatStores

\* How many of the first n stores are integers, and how many are floats.
IntsIn(n) == Cardinality({m \in 1..n : m \in IntStores})
FloatsIn(n) == Cardinality({m \in 1..n : m \in FloatStores})

\* Where the n-th store of a trip is buffered: integers and floats are counted apart.
Slot(n) == IF n \in FloatStores THEN sfloat + FloatsIn(n - 1) ELSE sint + IntsIn(n - 1)

\* The stores go into the buffers, with the memory m of the call.
Buffered(array, these, items) ==
  LET slots == {Slot(n) : n \in these}
  IN [p \in DOMAIN array \cup slots |->
        IF p \in slots THEN items[CHOOSE n \in these : Slot(n) = p] ELSE array[p]]
BufferStores(m) ==
  LET value == [n \in DOMAIN loop.stores |-> BufferedValue(loop.stores[n], m)]
      var == [n \in DOMAIN loop.stores |-> loop.stores[n].var]
  IN /\ ints' = Buffered(ints, IntStores, [n \in IntStores |-> <<var[n], value[n]>>])
     /\ floats' = Buffered(floats, FloatStores, value)
     /\ faddrs' = Buffered(faddrs, FloatStores, var)

\* The addresses of the outputs of the call with loop variable i, and the places of
\* npu_addrBuff they are written to: it has one for each input that is buffered.
Addresses(i) == [j \in 0..(loop.outs - 1) |-> <<i, j>>]
BufferAddresses ==
  LET places == {p \in iaddr..(iaddr + loop.outs - 1) : p < BufferSize}
  IN /\ addrs' = [p \in DOMAIN addrs \cup places |->
                    IF p \in places THEN Addresses(mem["i"])[p - iaddr] ELSE addrs[p]]
     /\ iaddr' = iaddr + loop.outs
     /\ wild' = (wild \/ iaddr' > BufferSize)

\* The positions behind the stores of the trip.
Advance ==
  /\ sint' = sint + IntsIn(Len(loop.stores))
  /\ sfloat' = sfloat + FloatsIn(Len(loop.stores))

Header ==
  /\ pc = "header"
  /\ pc' = IF mem["i"] <= loop.trips THEN "first" ELSE "exit"
  /\ UNCHANGED <<program, buffers, output>>

\* The call takes its inputs from the loop variable, and from what feeds them.
Inputs == [i |-> mem["i"], feed |-> feed]

\* Changed: the counter is compared before this call is counted.
FullBefore(n) == n - loop.inputs = BufferSize

\* The accelerator is called when the counter is equal to the size of the buffer.
Full(n) == n = BufferSize

FirstPart ==
  /\ pc = "first"
  /\ mem' = AfterStores(mem) /\ reg' = mem["i"]
  /\ IF Rewritten
     THEN /\ BufferStores(AfterStores(mem)) /\ Advance /\ BufferAddresses
          /\ inbuf' = Append(inbuf, Inputs)
          /\ counter' = counter + loop.inputs
          /\ pc' = IF Full(counter') THEN "call" ELSE "latch"
     ELSE pc' = "last" /\ UNCHANGED <<buffers, wild>>
  /\ UNCHANGED <<loop, entry, trip, feed, effects, output>>

-----------------------------------------------------------------------------
(* The call and the last parts.                                            *)

Call ==
  /\ pc = "call"
  /\ outbuf' = inbuf /\ calls' = counter \div loop.inputs
  /\ outcount' = 0 /\ oaddr' = 0
  /\ counter' = 0 /\ inbuf' = <<>> /\ iaddr' = 0 /\ sint' = 0 /\ sfloat' = 0
  /\ pc' = "replay"
  /\ UNCHANGED <<program, addrs, ints, floats, faddrs>>

\* Where the n-th buffered store of a trip goes to, and what it writes there.  The
\* address of a float is looked up at the sum of both positions.
Target(n) == IF n \in FloatStores THEN At(faddrs, Slot(n) + sint + IntsIn(n - 1))
                                  ELSE At(ints, Slot(n))[1]
Value(n) == IF n \in FloatStores THEN At(floats, Slot(n)) ELSE At(ints, Slot(n))[2]

\* The memory after the buffered stores of a trip were done again, in their order.
Unbuffered ==
  [v \in Vars |->
     IF \A n \in Repeated : Target(n) # v THEN mem[v]
     ELSE Value(CHOOSE n \in Repeated :
                  Target(n) = v /\ \A m \in Repeated : Target(m) = v => m <= n)]

\* The rest of a trip, with its memory, the inputs its call had, and the addresses
\* that its output arguments had.
Rest(m, call, at) ==
  /\ effects' = Append(effects, [mem |-> m, reg |-> IF loop.reg THEN reg ELSE 0,
                                 call |-> call, at |-> at])
  /\ feed' = IF loop.feeds = "nothing" THEN feed ELSE m["i"]

Replay ==
  /\ pc = "replay"
  /\ mem' = Unbuffered
  /\ Advance
  /\ wild' = (wild \/ \E n \in Repeated : Target(n) = Unset)
  /\ Rest(mem', Head(outbuf), [j \in 0..(loop.outs - 1) |-> At(addrs, oaddr + j)])
  /\ pc' = IF mem'["i"] = loop.brk THEN "exit" ELSE "check"
  /\ outbuf' = Tail(outbuf) /\ oaddr' = oaddr + loop.outs
  /\ UNCHANGED <<loop, entry, trip, reg, counter, inbuf, addrs, iaddr, ints, floats,
                 faddrs, calls, outcount>>

\* The call and the last part of a loop that was not rewritten.
LastPart ==
  /\ pc = "last"
  /\ Rest(mem, Inputs, Addresses(mem["i"]))
  /\ pc' = IF mem["i"] = loop.brk THEN "exit" ELSE "latch"
  /\ UNCHANGED <<loop, entry, trip, mem, reg, wild, buffers, output>>

\* Changed: the last replay of a batch is left out.
CheckTooEarly ==
  /\ pc = "check"
  /\ outcount' = outcount + 1
  /\ IF outcount' >= calls - 1 THEN pc' = "latch" /\ sint' = 0 /\ sfloat' = 0
                               ELSE pc' = "replay" /\ UNCHANGED <<sint, sfloat>>
  /\ UNCHANGED <<program, counter, inbuf, addrs, iaddr, ints, floats, faddrs, outbuf, calls, oaddr>>

\* npu_checkBB, and npu_zeroStoreCountersBB when all calls of the batch are replayed.
Check ==
  /\ pc = "check"
  /\ outcount' = outcount + 1
  /\ IF outcount' = calls THEN pc' = "latch" /\ sint' = 0 /\ sfloat' = 0
                          ELSE pc' = "replay" /\ UNCHANGED <<sint, sfloat>>
  /\ UNCHANGED <<program, counter, inbuf, addrs, iaddr, ints, floats, faddrs, outbuf, calls, oaddr>>

Latch ==
  /\ pc = "latch" /\ pc' = "header"
  /\ mem' = [mem EXCEPT !["i"] = @ + 1] /\ trip' = trip + 1
  /\ UNCHANGED <<loop, entry, reg, feed, effects, wild, buffers, output>>

\* The preheader: the code before the loop, and what the pass has inserted there.
Reenter ==
  /\ pc = "exit" /\ entry < MaxEntries
  /\ entry' = entry + 1 /\ trip' = 1 /\ effects' = <<>> /\ pc' = "header"
  /\ mem' = [v \in Vars |-> IF v = "i" THEN 1 ELSE 0] /\ feed' = 0
  /\ counter' = 0 /\ inbuf' = <<>> /\ iaddr' = 0 /\ sint' = 0 /\ sfloat' = 0
  /\ UNCHANGED <<loop, reg, wild, addrs, ints, floats, faddrs, output>>

BatchInit ==
  /\ loop \in Loops /\ pc = "header" /\ entry = 1 /\ trip = 1 /\ effects = <<>>
  /\ mem = [v \in Vars |-> IF v = "i" THEN 1 ELSE 0] /\ reg = 0 /\ feed = 0
  /\ counter = 0 /\ inbuf = <<>> /\ iaddr = 0 /\ sint = 0 /\ sfloat = 0
  /\ addrs = <<>> /\ ints = <<>> /\ floats = <<>> /\ faddrs = <<>>
  /\ outbuf = <<>> /\ calls = 0 /\ outcount = 0 /\ oaddr = 0 /\ wild = FALSE

BatchNext == Header \/ FirstPart \/ Call \/ Replay \/ LastPart \/ Check \/ Latch \/ Reenter

BatchSpec == BatchInit /\ [][BatchNext]_batchVars

-----------------------------------------------------------------------------
(* Properties.                                                             *)

BatchTypeOK ==
  /\ entry \in 1..MaxEntries
  /\ pc \in {"header", "first", "call", "replay", "last", "check", "latch", "exit"}
  /\ counter \in 0..BufferSize /\ counter = Len(inbuf) * loop.inputs
  /\ sint \in Nat /\ sfloat \in Nat
  /\ sint + sfloat <= BufferSize * (IntsIn(Len(loop.stores)) + FloatsIn(Len(loop.stores)))
  /\ iaddr \in Nat /\ oaddr \in Nat
  /\ loop.outs <= loop.inputs => iaddr <= BufferSize /\ oaddr <= BufferSize
  /\ Len(outbuf) + outcount <= calls /\ wild \in BOOLEAN

\* The memory of the loop as it was written, at the call of the k-th trip.
OriginalMem(k) == AfterStores([v \in Vars |-> IF v = "i" THEN k ELSE 0])

Original(k) ==
  [mem |-> OriginalMem(k), reg |-> IF loop.reg THEN k ELSE 0, at |-> Addresses(k),
   call |-> [i |-> k, feed |-> IF loop.feeds = "nothing" THEN 0 ELSE k - 1]]

\* A variable has its own value in a replay if nothing was stored to it, or if the last
\* store in the order of addresses is buffered as an integer, with what was loaded or
\* with the value that was really stored last.  A float is stored to an address looked
\* up in the wrong place, and what is not buffered has the value of a later trip.
Restored(v) ==
  \/ StoresTo(v) = {}
  \/ \E n \in StoresTo(v) \cap IntStores :
       /\ \A m \in StoresTo(v) \cap Repeated : m <= n
       /\ loop.stores[n].place = "early" =>
            \A m \in StoresTo(v) : loop.stores[m].nth <= loop.stores[n].nth
Kept == IF Rewritten THEN {v \in Vars : Restored(v)} ELSE Vars

\* What no replay stores to.
Untouched == {v \in Vars : StoresTo(v) \cap Repeated = {}}

\* The last part of a trip may be late: as long as no store has gone astray, it still
\* sees the variables that are restored as in its own trip, the inputs of its own call
\* and the addresses that call was given, in the order of the trips.  Only what the check
\* does not see, approximate data or a call, may have been fed too early.
ReplaysAreInOrder ==
  ~wild =>
    \A k \in DOMAIN effects :
      LET e == effects[k] o == Original(k)
      IN  /\ \A v \in Kept : e.mem[v] = o.mem[v]
          /\ e.at = o.at /\ e.call.i = o.call.i
          /\ (Rewritten => loop.feeds \notin {"approx", "call"}) => e.call = o.call
          /\ (Rewritten => ~loop.reg) => e.reg = o.reg

\* Code outside of the last parts does not meet the memory of a trip that is replayed:
\* at the latch the precise memory is that of the trip the loop has come to, in what
\* is restored and in what was not touched, and after a break what is restored is that
\* of the trip that was left.
StateGoesOn ==
  ~wild =>
    /\ pc = "latch" => \A v \in Kept \cup Untouched : mem[v] = OriginalMem(trip)[v]
    /\ pc = "exit" /\ mem["i"] <= loop.trips =>
         \A v \in Kept : mem[v] = OriginalMem(loop.brk)[v]

\* When the loop has ended by its header, the last parts that were never executed are
\* those of the last trips, too few to fill the buffer, whatever the stores are.
OnlyATailIsLost ==
  ~wild /\ pc = "exit" /\ mem["i"] > loop.trips =>
    LET batch == IF Rewritten THEN BufferSize \div loop.inputs ELSE 1
    IN  Len(effects) = batch * (loop.trips \div batch)

\* The comment at 851: a buffer stores register dependencies inside the loop, so that
\* a replay sees the registers of its own trip.  Nothing is ever written into it.
DependenciesAreBuffered ==
  ~wild => \A k \in DOMAIN effects : effects[k].reg = Original(k).reg

\* The comment at 286: what the latch depends on of the first instructions is as the
\* last of them have left it, when the latch is executed after the last part.
LatchIsSatisfied == ~wild /\ pc = "latch" => mem = OriginalMem(trip)

\* The message at 1143: a store of an unknown type is buffered too.  Then a replay sees
\* all of its own memory, and not only what is restored.
MemoryIsBuffered ==
  ~wild => \A k \in DOMAIN effects : effects[k].mem = Original(k).mem

\* The comment at 838: a buffer stores the addresses of the function's arguments.  Then
\* it has room for them.  It has it if a call has no more outputs than inputs.
AddressesFit == iaddr <= BufferSize
=============================================================================
