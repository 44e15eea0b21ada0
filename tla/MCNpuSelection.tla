---------------------------- MODULE MCNpuSelection ----------------------------
(* Instances of NpuBatch for TLC: every choice and order of the stores, every *)
(* size of a batch, trips that fill it, leave a rest or do not reach it.  And *)
(* of NpuSelection: three loops, side by side or nested, with two or three    *)
(* calls in them.                                                             *)
EXTENDS NpuSelection, TLC

\* The stores of a trip as they are written: those before the call, then the latch's.
Store(v, p, t) == [var |-> v, place |-> p, type |-> t]
I == Store("i", "latch", "int")
XEarly == Store("x", "early", "int")
XOther == Store("x", "early", "other")
XBlock == Store("x", "block", "int")
YEarly == Store("y", "early", "int")
FEarly == Store("f", "early", "float")
GEarly == Store("g", "early", "float")

Early == {XEarly, XOther, YEarly, FEarly}
Bodies ==
  {<<>>, <<XBlock>>} \cup {<<s>> : s \in Early} \cup (Early \X (Early \cup {XBlock}))
  \cup {<<XEarly, XEarly, XBlock>>, <<XEarly, XOther, XEarly>>, <<FEarly, XEarly, YEarly>>,
        <<FEarly, GEarly>>}

\* Each of them in every order of the addresses.
Orders(n) == {o \in [1..n -> 1..n] : {o[k] : k \in 1..n} = 1..n}
Placed(body, o) == [k \in DOMAIN o |-> body[o[k]] @@ [nth |-> o[k]]]
StoreSeqs ==
  UNION {{Placed(Append(body, I), o) : o \in Orders(Len(body) + 1)} : body \in Bodies}

Loop(st, n, o, t, r, f, b, c) ==
  [stores |-> st, inputs |-> n, outs |-> o, trips |-> t, reg |-> r,
   feeds |-> f, brk |-> b, chosen |-> c]

\* A call of one input and two outputs fills the buffer of addresses too early.
Calls == {<<1, 0>>, <<2, 2>>, <<4, 1>>, <<1, 2>>}
MCLoops ==
  {Loop(st, c[1], c[2], t, FALSE, "nothing", b, TRUE) :
     st \in StoreSeqs, c \in Calls, t \in {1, 4, 5}, b \in {0, 3}}
  \cup {Loop(st, 2, 1, 4, r, f, b, c) :
     st \in StoreSeqs, r \in BOOLEAN, f \in {"nothing", "approx", "precise", "call", "register"},
     b \in {0, 2}, c \in BOOLEAN}

Site(f, p) ==
  [function |-> f, line |-> 1, parent |-> p, skipped |-> FALSE, sound |-> TRUE,
   perforated |-> FALSE]
Nests ==
  {<<Site(1, 0), Site(1, 0), Site(1, 0)>>, <<Site(1, 2), Site(1, 0), Site(1, 0)>>,
   <<Site(1, 3), Site(1, 3), Site(1, 0)>>, <<Site(1, 0), Site(1, 0), Site(2, 0)>>}
Lines == {<<1, 2, 3>>, <<1, 1, 2>>}
WithLines(nest, lines) == [l \in 1..3 |-> [nest[l] EXCEPT !.line = lines[l]]]
Plain == {WithLines(nest, lines) : nest \in Nests, lines \in Lines}
Special ==
  UNION {{[nest EXCEPT ![l].skipped = TRUE], [nest EXCEPT ![l].sound = FALSE],
          [nest EXCEPT ![l].perforated = TRUE]} : nest \in Plain, l \in 1..3}

CallOf(home, kind, fits, stores) ==
  [home |-> home, kind |-> kind, fits |-> fits, storesInLoop |-> stores]
Pure(home) == CallOf(home, "pure", TRUE, FALSE)
Asm(home) == CallOf(home, "asm", FALSE, FALSE)
CallsOf(home) ==
  {Pure(home), Asm(home), CallOf(home, "pure", FALSE, FALSE), CallOf(home, "indirect", FALSE, FALSE)}
Homes == 1..3
TwoCalls == UNION {CallsOf(g) \X CallsOf(h) : g \in Homes, h \in Homes}
ThreeCalls ==
  UNION {{Pure(g), Asm(g)} \X {Pure(h), Asm(h)} \X {Pure(k)} : g \in Homes, h \in Homes, k \in Homes}

MCPrograms ==
  [loops : Plain \cup Special, calls : TwoCalls] \cup [loops : Plain, calls : ThreeCalls]
  \cup [loops : Plain, calls : {<<CallOf(1, "pure", TRUE, TRUE), CallOf(2, "other", FALSE, FALSE)>>}]
===============================================================================
