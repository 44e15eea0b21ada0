-------------------------------- MODULE EnerC --------------------------------
(***************************************************************************)
(* The EnerC type checker (checker/EnerCTypeChecker.cpp on the traversal   *)
(* of checkerlib), together with the programs it lets through.             *)
(*                                                                         *)
(* TyperVisitor visits an expression after its operands: process gives it  *)
(* a type with qualifiers, and what violates a rule is reported.  A step   *)
(* of this module is such a visit, and at once two executions of what was  *)
(* visited that differ only in approximate data, the way one function      *)
(* would run on exact and on inexact hardware.  Every temp holds an        *)
(* operand that was visited and not used yet, so that every order in which *)
(* the statements of a function may be executed is a behaviour.  Whether   *)
(* approximate data leaks into the precise part of a program that was      *)
(* accepted is then a question about two memories.                         *)
(*                                                                         *)
(* Types are a sequence of qualifiers, that of the value first, then those *)
(* of what it points to.  The types clang gave at parse time are           *)
(* unqualified: qualifiers enter with the visit of the declarations.       *)
(***************************************************************************)
EXTENDS Integers, Sequences

CONSTANTS
  Vars,       \* the variables; what a pointer may point to
  Depth,      \* of a variable, the length of its type: 1 for int, 2 for int*
  Approx,     \* the variables declared APPROX
  After,      \* of a variable, the next element of its array, or Null
  Null,       \* the null pointer
  Temps,      \* names for operands; bounds the operands that wait for their use
  Free,       \* a temp that holds no operand
  Followed    \* the gaps of the rules whose consequences are followed

ecPrecise == 0
ecApprox == 1
Quals == {ecPrecise, ecApprox}
Runs == {1, 2}
Ints == 0..1

\* Rules that the checker leaves out; a program has met the first such gap.
Gaps == {"conditional", "chained", "math", "index", "pointer call", "memory",
         "initializer", "endorsed pointer", "short circuit"}

ASSUME ConstantsAssumption ==
  /\ Depth \in [Vars -> 1..2]
  /\ Approx \subseteq Vars
  /\ After \in [Vars -> Vars \cup {Null}]
  /\ \A v \in Vars : After[v] # Null =>
       Depth[After[v]] = Depth[v] /\ (After[v] \in Approx <=> v \in Approx)
  /\ Null \notin Vars
  /\ (Vars \cup {Null}) \cap Ints = {}    \* no address is an integer
  /\ Followed \subseteq Gaps

VARIABLES
  temps,    \* the operands: type, exempt from assertFlow, lvalue, value per run
  mem,      \* the memory of each run
  split,    \* whether a condition was true in one run and false in the other
  error,    \* whether the checker has reported an error
  gap       \* history: the first gap the program has met

vars == <<temps, mem, split, error, gap>>

-----------------------------------------------------------------------------
(* Types.                                                                  *)

Types == UNION {[1..n -> Quals] : n \in 1..3}
Unqualified(n) == [i \in 1..n |-> ecPrecise]

\* withQuals: the qualifier of a pointer is given to what it points to, at last.
WithQuals(ty, q) == [ty EXCEPT ![Len(ty)] = q]

\* copyQuals, level by level as long as both are pointers.
CopyQuals(from, to) ==
  [i \in 1..Len(to) |-> IF i \in 1..Len(from) THEN from[i] ELSE to[i]]

InnerType(ty) == Tail(ty)
PointerType(ty) == <<ecPrecise>> \o ty

\* typeForDecl: the annotation, by default precise, applied to the declared type.
DeclType(v) == WithQuals(Unqualified(Depth[v]), IF v \in Approx THEN ecApprox ELSE ecPrecise)
DeclTypes(n) == {WithQuals(Unqualified(n), q) : q \in Quals}

\* The information flow rule, and equality below the first level.
CompatibleQuals(lhs, rhs) == lhs = ecApprox \/ rhs = ecPrecise
QualsEqual(lhs, rhs) == \A i \in 2..Len(lhs) : i <= Len(rhs) => lhs[i] = rhs[i]

\* Changed: below the first level data may flow, too, and need not be equal.
CompatibleAtEveryLevel(lhs, rhs) ==
  \A i \in 1..Len(lhs) : i <= Len(rhs) => CompatibleQuals(lhs[i], rhs[i])

Compatible(lhs, rhs) == CompatibleQuals(lhs[1], rhs[1]) /\ QualsEqual(lhs, rhs)

\* Literals, the null pointer and fresh memory flow everywhere.
AssertFlow(ty, e) == e.exempt \/ Compatible(ty, e.ty)

-----------------------------------------------------------------------------
(* Operands and memory.                                                    *)

Same(x) == [r \in Runs |-> x]
Agree(val) == val[1] = val[2]

Operand(ty, lvalue, val) == [ty |-> ty, exempt |-> FALSE, lvalue |-> lvalue, val |-> val]
RValue(ty, val) == Operand(ty, FALSE, val)

Occupied(t) == temps[t] # Free
IsRValue(t) == Occupied(t) /\ ~temps[t].lvalue
IsLValue(t) == Occupied(t) /\ temps[t].lvalue
IsInt(t) == IsRValue(t) /\ Len(temps[t].ty) = 1
IsPointer(t) == IsRValue(t) /\ Len(temps[t].ty) > 1
IsValid(t) == IsPointer(t) /\ \A r \in Runs : temps[t].val[r] # Null

\* The operands us are used up, and t holds the expression they make.
Yield(t, us, e) ==
  temps' = [u \in Temps |-> IF u = t THEN e ELSE IF u \in us THEN Free ELSE temps[u]]
Consume(us) == temps' = [u \in Temps |-> IF u \in us THEN Free ELSE temps[u]]

Read(addr) == [r \in Runs |-> mem[r][addr[r]]]
Write(addr, val) == mem' = [r \in Runs |-> [mem[r] EXCEPT ![addr[r]] = val[r]]]

\* Addition, modulo two, of integers, and along an array for a pointer.
Shift(p, n) == IF n = 0 \/ p = Null THEN p ELSE After[p]
Sum(ty, val, n) ==
  [r \in Runs |-> IF Len(ty) = 1 THEN (val[r] + n[r]) % 2 ELSE Shift(val[r], n[r])]
InBounds(ty, val, n) ==
  Len(ty) > 1 => \A r \in Runs : val[r] # Null /\ Shift(val[r], n[r]) # Null

\* The visit of an expression meets a gap, or reports an error.
Meets(condition, name) == gap' = IF gap = "none" /\ condition THEN name ELSE gap
Reports(violation) == error' = (error \/ violation)
Going == ~error /\ gap \in Followed \cup {"none"}

-----------------------------------------------------------------------------
(* Expressions that only make values.                                      *)

Quiet == UNCHANGED <<split, error, gap>>
Pure == UNCHANGED mem /\ Quiet

Literal(t, n) ==
  /\ Going /\ ~Occupied(t)
  /\ Yield(t, {}, [RValue(<<ecPrecise>>, Same(n)) EXCEPT !.exempt = TRUE])
  /\ Pure

\* A cast 0, or fresh memory: neither points to a variable.
NullPointer(t) ==
  /\ Going /\ ~Occupied(t)
  /\ Yield(t, {}, [RValue(Unqualified(2), Same(Null)) EXCEPT !.exempt = TRUE])
  /\ Pure

DeclRef(t, v) ==
  /\ Going /\ ~Occupied(t)
  /\ Yield(t, {}, Operand(DeclType(v), TRUE, Same(v)))
  /\ Pure

\* The implicit cast from lvalue to rvalue copies the qualifiers.
Load(t) ==
  /\ Going /\ IsLValue(t)
  /\ Yield(t, {}, RValue(CopyQuals(temps[t].ty, Unqualified(Len(temps[t].ty))),
                         Read(temps[t].val)))
  /\ Pure

AddrOf(t) ==
  /\ Going /\ IsLValue(t)
  /\ Yield(t, {}, RValue(PointerType(temps[t].ty), temps[t].val))
  /\ Pure

Deref(t) ==
  /\ Going /\ IsValid(t)
  /\ Yield(t, {}, Operand(InnerType(temps[t].ty), TRUE, temps[t].val))
  /\ Pure

LogicalNot(t) ==
  /\ Going /\ IsInt(t)
  /\ Yield(t, {}, RValue(CopyQuals(temps[t].ty, Unqualified(1)),
                         [r \in Runs |-> 1 - temps[t].val[r]]))
  /\ Pure

\* Changed: approximate if both operands are.
ArithmeticOfBoth(ty, l, r) ==
  IF temps[l].ty[1] = ecApprox /\ temps[r].ty[1] = ecApprox THEN WithQuals(ty, ecApprox) ELSE ty

\* typeForExpr of an arithmetic operator, from the type process has given.
Arithmetic(ty, l, r) ==
  IF temps[l].ty[1] = ecApprox \/ temps[r].ty[1] = ecApprox THEN WithQuals(ty, ecApprox) ELSE ty

\* The sum of two integers, or of a pointer and an index, whose qualifier is
\* not that of what is then read or written.
Add(l, r) ==
  /\ Going /\ l # r /\ IsRValue(l) /\ IsInt(r)
  /\ InBounds(temps[l].ty, temps[l].val, temps[r].val)
  /\ LET ty == IF IsPointer(l) THEN CopyQuals(temps[l].ty, Unqualified(Len(temps[l].ty)))
                               ELSE Unqualified(1)
     IN  Yield(l, {r}, RValue(Arithmetic(ty, l, r), Sum(ty, temps[l].val, temps[r].val)))
  /\ Meets(IsPointer(l) /\ temps[r].ty[1] = ecApprox, "index")
  /\ UNCHANGED <<mem, split, error>>

\* a[i]: the type is that of an element, whatever the index.
Subscript(l, r) ==
  /\ Going /\ IsValid(l) /\ IsInt(r)
  /\ InBounds(temps[l].ty, temps[l].val, temps[r].val)
  /\ Yield(l, {r}, Operand(InnerType(temps[l].ty), TRUE,
                           Sum(temps[l].ty, temps[l].val, temps[r].val)))
  /\ Meets(temps[r].ty[1] = ecApprox, "index")
  /\ UNCHANGED <<mem, split, error>>

\* == on integers or on pointers.
Equal(l, r) ==
  /\ Going /\ l # r /\ IsRValue(l) /\ IsRValue(r)
  /\ Len(temps[l].ty) = Len(temps[r].ty)
  /\ Yield(l, {r}, RValue(Arithmetic(Unqualified(1), l, r),
       [n \in Runs |-> IF temps[l].val[n] = temps[r].val[n] THEN 1 ELSE 0]))
  /\ Pure

\* ?: has the type of clang, which has seen no qualifier, and no rule.
Conditional(c, l, r) ==
  /\ Going /\ IsInt(c) /\ IsRValue(l) /\ IsRValue(r) /\ c # l /\ c # r /\ l # r
  /\ Len(temps[l].ty) = Len(temps[r].ty)
  /\ LET ty == Unqualified(Len(temps[l].ty))
     IN  /\ Yield(l, {c, r}, RValue(ty,
              [n \in Runs |-> IF temps[c].val[n] = 1 THEN temps[l].val[n]
                                                     ELSE temps[r].val[n]]))
         /\ Meets(<<temps[c].ty, temps[l].ty, temps[r].ty>> # <<<<ecPrecise>>, ty, ty>>,
                  "conditional")
  /\ UNCHANGED <<mem, split, error>>

\* An ordinary comma expression.
Comma(l, r) ==
  /\ Going /\ l # r /\ IsRValue(l) /\ IsRValue(r)
  /\ Yield(l, {r}, RValue(temps[r].ty, temps[r].val))
  /\ Pure

\* ENDORSE and DEDORSE: for a pointer, the qualifier of what it points to.  An
\* endorsed integer is taken for precise: the programmer vouches for it.
Endorsement(t, q) ==
  /\ Going /\ IsRValue(t)
  /\ LET ty == WithQuals(temps[t].ty, q)
     IN  /\ Yield(t, {}, RValue(ty, IF q = ecPrecise /\ IsInt(t) THEN Same(temps[t].val[1])
                                                                 ELSE temps[t].val))
         /\ Meets(IsPointer(t) /\ ty # temps[t].ty, "endorsed pointer")
  /\ UNCHANGED <<mem, split, error>>

-----------------------------------------------------------------------------
(* Assignments.                                                            *)

\* What an assignment is worth as an expression: the type of clang, with the
\* first qualifier of the left side given to what is pointed to.
AssignType(lhs) == WithQuals(Unqualified(Len(lhs)), lhs[1])

Finish(l, r, used, val) ==
  LET ty == temps[l].ty
  IN  IF used
      THEN Yield(l, {r}, RValue(AssignType(ty), val)) /\ Meets(AssignType(ty) # ty, "chained")
      ELSE Consume({l, r}) /\ UNCHANGED gap

\* l = r, as a statement or as an operand.
Assign(l, r, used) ==
  /\ Going /\ IsLValue(l) /\ IsRValue(r) /\ Len(temps[l].ty) = Len(temps[r].ty)
  /\ Reports(~AssertFlow(temps[l].ty, temps[r]))
  /\ Write(temps[l].val, temps[r].val)
  /\ Finish(l, r, used, temps[r].val)
  /\ UNCHANGED split

\* l += r, on an integer or on a pointer.
CompoundAssign(l, r, used) ==
  /\ Going /\ IsLValue(l) /\ IsInt(r)
  /\ LET ty == temps[l].ty
         old == Read(temps[l].val)
     IN  /\ InBounds(ty, old, temps[r].val)
         /\ Reports(~AssertFlow(ty, temps[r]))
         /\ Write(temps[l].val, Sum(ty, old, temps[r].val))
         /\ Finish(l, r, used, Sum(ty, old, temps[r].val))
  /\ UNCHANGED split

\* l++: a unary operator, whose type is that of its operand, and no assignment.
Increment(l) ==
  /\ Going /\ IsLValue(l)
  /\ LET ty == temps[l].ty
         old == Read(temps[l].val)
     IN  /\ InBounds(ty, old, Same(1))
         /\ Write(temps[l].val, Sum(ty, old, Same(1)))
         /\ Yield(l, {}, RValue(CopyQuals(ty, Unqualified(Len(ty))), old))
  /\ Quiet

\* The initializer of a declaration.
InitDecl(t, v) ==
  /\ Going /\ IsRValue(t) /\ Len(temps[t].ty) = Depth[v]
  /\ Reports(~AssertFlow(DeclType(v), temps[t]))
  /\ Write(Same(v), temps[t].val)
  /\ Consume({t})
  /\ UNCHANGED <<split, gap>>

\* An initializer list has the type of clang; its elements are not compared.
InitList(t, v) ==
  /\ Going /\ IsRValue(t) /\ Len(temps[t].ty) = Depth[v]
  /\ Write(Same(v), temps[t].val)
  /\ Consume({t})
  /\ Meets(~AssertFlow(DeclType(v), temps[t]), "initializer")
  /\ UNCHANGED <<split, error>>

\* memcpy is exempt from the comparison with its parameters.
Memcpy(l, r) ==
  /\ Going /\ l # r /\ IsValid(l) /\ IsValid(r) /\ Len(temps[l].ty) = Len(temps[r].ty)
  /\ Write(temps[l].val, Read(temps[r].val))
  /\ Consume({l, r})
  /\ Meets(~Compatible(InnerType(temps[l].ty), InnerType(temps[r].ty)), "memory")
  /\ UNCHANGED <<split, error>>

-----------------------------------------------------------------------------
(* Calls.  The callee returns its argument.                                *)

\* The return statement of the callee, which returns its parameter, was accepted.
Returns(ret, param) == Compatible(ret, param)

\* The argument flows to the parameter, and in the body the parameter to the result.
Call(t, param, ret) ==
  /\ Going /\ IsRValue(t) /\ Len(temps[t].ty) = Len(param)
  /\ Returns(ret, param)
  /\ Reports(~AssertFlow(param, temps[t]))
  /\ Yield(t, {}, RValue(CopyQuals(ret, Unqualified(Len(ret))), temps[t].val))
  /\ UNCHANGED <<mem, split, gap>>

\* Through a function pointer no declaration is found: a precise result.
PointerCall(t, param, ret) ==
  /\ Going /\ IsRValue(t) /\ Len(temps[t].ty) = Len(param)
  /\ Returns(ret, param)
  /\ LET ty == Unqualified(Len(ret))
     IN  /\ Yield(t, {}, RValue(ty, temps[t].val))
         /\ Meets(~AssertFlow(param, temps[t]) \/ ty # ret, "pointer call")
  /\ UNCHANGED <<mem, split, error>>

\* The polymorphic functions of the whitelist, such as pow: the qualifier of
\* the result is that of the first argument.
MathCall(l, r) ==
  /\ Going /\ l # r /\ IsInt(l) /\ IsInt(r)
  /\ Yield(l, {r}, RValue(WithQuals(Unqualified(1), temps[l].ty[1]),
       [n \in Runs |-> temps[l].val[n] * temps[r].val[n]]))
  /\ Meets(temps[r].ty[1] = ecApprox /\ temps[l].ty[1] = ecPrecise, "math")
  /\ UNCHANGED <<mem, split, error>>

-----------------------------------------------------------------------------
(* Statements.                                                             *)

\* if, for, while, do and switch: checkCondition.  The branch that is taken
\* consists of the steps that follow.
Condition(t) ==
  /\ Going /\ IsRValue(t)
  /\ Reports(temps[t].ty[1] = ecApprox)
  /\ split' = (split \/ ~Agree(temps[t].val))
  /\ Consume({t})
  /\ UNCHANGED <<mem, gap>>

\* The left operand of && or || decides, unchecked, whether the right one is
\* visited by the execution; its effects are the steps that follow.
ShortCircuit(t) ==
  /\ Going /\ IsRValue(t)
  /\ split' = (split \/ ~Agree(temps[t].val))
  /\ Meets(temps[t].ty[1] = ecApprox, "short circuit")
  /\ UNCHANGED <<temps, mem, error>>

ExprStmt(t) ==
  /\ Going /\ Occupied(t)
  /\ Consume({t})
  /\ Pure

\* Approximate data may change at any time, in one run and not in the other.
Perturb(v, n) ==
  /\ Going /\ v \in Approx /\ Depth[v] = 1
  /\ mem' = [mem EXCEPT ![2][v] = n]
  /\ UNCHANGED temps
  /\ Quiet

Init ==
  /\ temps = [t \in Temps |-> Free]
  /\ \E m \in [{v \in Vars : Depth[v] = 1} -> Ints] :
       mem = Same([v \in Vars |-> IF Depth[v] = 1 THEN m[v] ELSE Null])
  /\ split = FALSE /\ error = FALSE /\ gap = "none"

Next ==
  \/ \E t \in Temps :
       \/ \E n \in Ints : Literal(t, n)
       \/ NullPointer(t)
       \/ \E v \in Vars : DeclRef(t, v) \/ InitDecl(t, v) \/ InitList(t, v)
       \/ Load(t) \/ AddrOf(t) \/ Deref(t) \/ LogicalNot(t) \/ Increment(t)
       \/ \E q \in Quals : Endorsement(t, q)
       \/ \E n \in 1..2 : \E param, ret \in DeclTypes(n) :
            Call(t, param, ret) \/ PointerCall(t, param, ret)
       \/ Condition(t) \/ ShortCircuit(t) \/ ExprStmt(t)
  \/ \E l, r \in Temps :
       \/ Add(l, r) \/ Subscript(l, r) \/ Equal(l, r) \/ Comma(l, r)
       \/ \E c \in Temps : Conditional(c, l, r)
       \/ \E used \in BOOLEAN : Assign(l, r, used) \/ CompoundAssign(l, r, used)
       \/ Memcpy(l, r) \/ MathCall(l, r)
  \/ \E v \in Vars, n \in Ints : Perturb(v, n)

Spec == Init /\ [][Next]_vars

-----------------------------------------------------------------------------
(* Properties.                                                             *)

Values == Ints \cup Vars \cup {Null}
Operands == [ty : Types, exempt : BOOLEAN, lvalue : BOOLEAN, val : [Runs -> Values]]

TypeOK ==
  /\ temps \in [Temps -> Operands \cup {Free}]
  /\ \A t \in Temps : IsInt(t) => \A r \in Runs : temps[t].val[r] \in Ints
  /\ mem \in [Runs -> [Vars -> Values]]
  /\ \A r \in Runs, v \in Vars : Depth[v] = 1 <=> mem[r][v] \in Ints
  /\ split \in BOOLEAN /\ error \in BOOLEAN /\ gap \in Gaps \cup {"none"}

Accepted == ~error /\ gap = "none"

\* Approximate data does not flow into precise data: in a program that was
\* accepted and meets none of the gaps, precise variables, pointers and all
\* conditions are the same in both runs, whatever becomes of approximate data.
PreciseAgrees ==
  Accepted =>
    /\ ~split
    /\ \A v \in Vars : DeclType(v)[1] = ecPrecise => mem[1][v] = mem[2][v]

\* The pointers of memory lead to data of the kind they were declared for.
PointersAreTyped ==
  \A v \in Vars, r \in Runs :
    Depth[v] = 2 /\ mem[r][v] # Null => DeclType(mem[r][v]) = InnerType(DeclType(v))

\* No pointer that is stored leads to data of the other kind: there is no
\* name by which approximate data is written into a precise variable.
AliasesAgree == Accepted => PointersAreTyped

\* The comment in compatible (143-145): equality below the first level prevents
\* the unsoundness that arises when different types alias.  Yet an assignment
\* as an operand, p = q = r, has lost the qualifier of what it points to.
NothingAliases == Going => PointersAreTyped
=============================================================================
