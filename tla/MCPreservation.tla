--------------------------- MODULE MCPreservation ---------------------------
(* Instances of Preservation for TLC: two loops, on one line or on two, without *)
(* preservation; and a loop with a clone, whose body is made of statements.     *)
EXTENDS Preservation, TLC

Plain ==
  [line |-> 1, forLike |-> TRUE, forbidden |-> FALSE, candidate |-> TRUE,
   bodyExits |-> FALSE, blockers |-> FALSE, condExits |-> TRUE, exitFirst |-> FALSE,
   latchIsBody |-> FALSE]
Forbidden == [Plain EXCEPT !.forbidden = TRUE]
While == [Plain EXCEPT !.forLike = FALSE]
Second == {[k EXCEPT !.line = 2] : k \in {Plain, [Plain EXCEPT !.blockers = TRUE]}}
MCKinds ==
  {Plain, Forbidden, While, [While EXCEPT !.latchIsBody = TRUE],
   [Plain EXCEPT !.candidate = FALSE], [Plain EXCEPT !.bodyExits = TRUE],
   [Plain EXCEPT !.blockers = TRUE], [Plain EXCEPT !.condExits = FALSE],
   [Plain EXCEPT !.exitFirst = TRUE]} \cup Second

Pair(k, l) == ("a" :> k) @@ ("b" :> l)
Control == [loops : [{"a", "b"} -> MCKinds], preserve : {FALSE}]
Cloning(ks) == [loops : {Pair(k, Forbidden) : k \in ks}, preserve : {TRUE}]
MCPrograms == Control \cup Cloning({Plain})
AllPrograms == MCPrograms \cup Cloning({While})

\* Statements in the code that the compiler makes of them without optimization;
\* their operands are counted from their first instruction.
I(op, var, args) == [op |-> op, var |-> var, args |-> args, to |-> 0]
In == I("in", "none", <<>>)
Load(v) == I("load", v, <<>>)
Store(v, k) == I("store", v, <<k>>)
Calc(op, k, l) == I(op, "none", <<k, l>>)
Element(k) == I("gep", "none", <<k>>)
LoadElement(k) == I("load", "none", <<k>>)
StoreElement(k, l) == I("store", "none", <<k, l>>)
If(k, to) == [op |-> "br", var |-> "none", args |-> <<k>>, to |-> to]

Then(s, t) ==
  s \o [k \in DOMAIN t |->
          [t[k] EXCEPT !.args = [n \in DOMAIN t[k].args |-> t[k].args[n] + Len(s)],
                       !.to = IF t[k].op = "br" THEN @ + Len(s) ELSE 0]]

Compound(v, op) == <<In, Load(v), Calc(op, 2, 1), Store(v, 3)>>      \* v op= in
Copy(v, w) == <<Load(w), Store(v, 1)>>                               \* v = w
Set(v) == <<In, Store(v, 1)>>                                        \* v = in
SumTo(v, w) == <<Load(w), In, Calc("+", 1, 2), Store(v, 3)>>         \* v = w + in
Net(v) ==                                                            \* v = v - in + y
  <<Load(v), In, Calc("-", 1, 2), Load("y"), Calc("+", 3, 4), Store(v, 5)>>
Swing(v) ==                                                          \* v = v + in - y
  <<Load(v), In, Calc("+", 1, 2), Load("y"), Calc("-", 3, 4), Store(v, 5)>>
Ratio(v) ==                                                          \* v = v * in / y
  <<Load(v), In, Calc("*", 1, 2), Load("y"), Calc("/", 3, 4), Store(v, 5)>>
Out(v) == <<In, Load(v), Element(2), StoreElement(1, 3)>>            \* a[v] = in
AddTo(v) ==                                                          \* a[v] += in
  <<In, Load(v), Element(2), LoadElement(3), Calc("+", 4, 1), StoreElement(5, 3)>>
Through(v) ==                                                        \* a[y] = v + in, v = a[y]
  <<In, Load(v), Calc("+", 2, 1), Load("y"), Element(4), StoreElement(3, 5),
    LoadElement(5), Store(v, 7)>>
Maybe(s) == Then(<<In, If(1, Len(s) + 3)>>, s)                       \* if (in) s

Simple ==
  {Compound("x", "+"), Compound("x", "-"), Compound("x", "*"), Compound("x", "/"), Net("x"), Swing("x"),
   Copy("t", "x"), Copy("x", "t"), Set("t"), Set("x"), SumTo("t", "x"), SumTo("x", "t"),
   SumTo("t", "t"), Out("t"), Out("x"), AddTo("t")}
Final ==
  {Compound("x", "+"), Net("x"), Copy("x", "t"), SumTo("t", "x"), SumTo("x", "t"),
   Out("t"), Out("x"), AddTo("t")}
Two == {Then(s, t) : s \in Simple, t \in Final}
Three ==
  {Then(s, Then(t, u)) :
     s \in {Set("t"), Copy("x", "t"), SumTo("t", "x")},
     t \in {SumTo("t", "x"), SumTo("x", "t"), SumTo("t", "t")},
     u \in {Out("t"), Copy("x", "t")}}
Conditional ==
  {Maybe(Compound("x", "+")), Then(Copy("t", "y"), Then(Maybe(SumTo("t", "x")), Out("t"))),
   Then(Set("t"), Maybe(Out("t")))}
MCBodies == Simple \cup Two \cup Three \cup Conditional \cup {Ratio("x"), Through("x")}
=============================================================================
