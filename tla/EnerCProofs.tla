----------------------------- MODULE EnerCProofs -----------------------------
(***************************************************************************)
(* What the EnerC type checker guarantees, for any variables, arrays and   *)
(* number of waiting operands: a program that was accepted and meets none  *)
(* of the gaps keeps precise data apart from approximate data.             *)
(***************************************************************************)
EXTENDS EnerC, SequenceTheorems, TLAPS

\* What an rvalue whose type has n levels may be worth.
Addresses == Vars \cup {Null}
Worth(n) == IF n = 1 THEN Ints ELSE {x \in Addresses : x # Null => Depth[x] = n - 1}

\* The operands whose value has the depth of their type, whether or not the
\* qualifiers are right.
Shaped ==
  {e \in Operands :
     /\ e.lvalue => \A r \in Runs : e.val[r] \in Vars /\ Depth[e.val[r]] = Len(e.ty)
     /\ ~e.lvalue => \A r \in Runs : e.val[r] \in Worth(Len(e.ty))}
Memory == {m \in [Vars -> Values] : \A v \in Vars : m[v] \in Worth(Depth[v])}

ShapeInv ==
  /\ temps \in [Temps -> Shaped \cup {Free}]
  /\ mem \in [Runs -> Memory]
  /\ split \in BOOLEAN /\ error \in BOOLEAN /\ gap \in Gaps \cup {"none"}

\* The values of the two runs are those of a type: precise integers and pointers
\* agree, and a pointer leads to a variable of the type that it points to.
Carries(ty, val) ==
  /\ ty[1] = ecPrecise => Agree(val)
  /\ Len(ty) > 1 => /\ ty[1] = ecPrecise
                    /\ val[1] # Null => DeclType(val[1]) = InnerType(ty)

Sound ==
  {e \in Shaped :
     /\ e.lvalue => Agree(e.val) /\ DeclType(e.val[1]) = e.ty
     /\ ~e.lvalue => Carries(e.ty, e.val)
     /\ e.exempt => Agree(e.val) /\ (Len(e.ty) > 1 => e.val[1] = Null)}

MemorySound == \A v \in Vars : Carries(DeclType(v), [r \in Runs |-> mem[r][v]])

FlowInv ==
  Accepted => ~split /\ MemorySound /\ temps \in [Temps -> Sound \cup {Free}]

IInv == ShapeInv /\ FlowInv

-----------------------------------------------------------------------------
(* Types.                                                                  *)

LEMMA TypeFacts ==
  ASSUME NEW ty \in Types
  PROVE  /\ ty \in Seq(Quals) /\ Len(ty) \in 1..3 /\ ty \in [1..Len(ty) -> Quals]
         /\ \A i \in 1..Len(ty) : ty[i] \in Quals
<1>1. PICK n \in 1..3 : ty \in [1..n -> Quals]
  BY DEF Types
<1>2. ty \in Seq(Quals)
  BY <1>1, SeqDef
<1>3. Len(ty) = n
  BY <1>1, <1>2
<1>. QED  BY <1>1, <1>2, <1>3

LEMMA TypeIs ==
  ASSUME NEW ty, NEW n \in 1..3, ty \in [1..n -> Quals]
  PROVE  ty \in Types /\ Len(ty) = n
<1>1. ty \in Types
  BY DEF Types
<1>2. ty \in Seq(Quals)
  BY SeqDef
<1>. QED  BY <1>1, <1>2

LEMMA EqualTypes ==
  ASSUME NEW a \in Types, NEW b \in Types, Len(a) = Len(b),
         \A i \in 1..Len(a) : a[i] = b[i]
  PROVE  a = b
<1>1. PICK n \in 1..3 : n = Len(a) /\ a \in [1..n -> Quals] /\ b \in [1..n -> Quals]
  BY TypeFacts
<1>. QED  BY <1>1

LEMMA UnqualifiedType ==
  ASSUME NEW n \in 1..3
  PROVE  /\ Unqualified(n) \in Types /\ Len(Unqualified(n)) = n
         /\ \A i \in 1..n : Unqualified(n)[i] = ecPrecise
<1>1. Unqualified(n) \in [1..n -> Quals]
  BY DEF Unqualified, Quals
<1>. QED  BY <1>1, TypeIs DEF Unqualified

LEMMA WithQualsType ==
  ASSUME NEW ty \in Types, NEW q \in Quals
  PROVE  /\ WithQuals(ty, q) \in Types /\ Len(WithQuals(ty, q)) = Len(ty)
         /\ WithQuals(ty, q)[Len(ty)] = q
         /\ \A i \in 1..(Len(ty) - 1) : WithQuals(ty, q)[i] = ty[i]
<1>1. PICK n \in 1..3 : n = Len(ty) /\ ty \in [1..n -> Quals]
  BY TypeFacts
<1>2. WithQuals(ty, q) \in [1..n -> Quals]
  BY <1>1 DEF WithQuals
<1>3. WithQuals(ty, q) = [i \in 1..n |-> IF i = n THEN q ELSE ty[i]]
  BY <1>1 DEF WithQuals
<1>4. WithQuals(ty, q)[n] = q /\ \A i \in 1..(n - 1) : WithQuals(ty, q)[i] = ty[i]
  BY <1>3
<1>. QED  BY <1>1, <1>2, <1>4, TypeIs

LEMMA CopyOntoUnqualified ==
  ASSUME NEW ty \in Types
  PROVE  CopyQuals(ty, Unqualified(Len(ty))) = ty
<1>1. PICK n \in 1..3 : n = Len(ty) /\ ty \in [1..n -> Quals]
  BY TypeFacts
<1>2. Len(Unqualified(n)) = n
  BY UnqualifiedType
<1>3. CopyQuals(ty, Unqualified(n)) = [i \in 1..n |-> ty[i]]
  BY <1>1, <1>2 DEF CopyQuals
<1>. QED  BY <1>1, <1>3

LEMMA InnerTypeType ==
  ASSUME NEW ty \in Types, Len(ty) > 1
  PROVE  /\ InnerType(ty) \in Types /\ Len(InnerType(ty)) = Len(ty) - 1
         /\ \A i \in 1..(Len(ty) - 1) : InnerType(ty)[i] = ty[i + 1]
<1>1. PICK n \in 1..3 : n = Len(ty) /\ ty \in [1..n -> Quals] /\ ty \in Seq(Quals)
  BY TypeFacts
<1>2. InnerType(ty) \in Seq(Quals) /\ Len(InnerType(ty)) = n - 1 /\ n - 1 \in 1..3
  BY <1>1 DEF InnerType
<1>3. \A i \in 1..(n - 1) : InnerType(ty)[i] = ty[i + 1]
  BY <1>1 DEF InnerType
<1>4. InnerType(ty) \in [1..(n - 1) -> Quals]
  BY <1>2
<1>. QED  BY <1>1, <1>2, <1>3, <1>4, TypeIs

LEMMA PointerTypeType ==
  ASSUME NEW ty \in Types, Len(ty) < 3
  PROVE  /\ PointerType(ty) \in Types /\ Len(PointerType(ty)) = Len(ty) + 1
         /\ PointerType(ty)[1] = ecPrecise /\ InnerType(PointerType(ty)) = ty
<1>1. PICK n \in 1..2 : n = Len(ty) /\ ty \in [1..n -> Quals] /\ ty \in Seq(Quals)
  <2>1. Len(ty) \in 1..3 /\ ty \in [1..Len(ty) -> Quals] /\ ty \in Seq(Quals)
    BY TypeFacts
  <2>2. Len(ty) \in 1..2
    BY <2>1
  <2>. QED  BY <2>1, <2>2
<1>2. /\ PointerType(ty) \in Seq(Quals) /\ Len(PointerType(ty)) = n + 1
      /\ PointerType(ty)[1] = ecPrecise
      /\ \A i \in 1..n : PointerType(ty)[i + 1] = ty[i]
  BY <1>1 DEF PointerType, Quals
<1>3. PointerType(ty) \in [1..(n + 1) -> Quals] /\ n + 1 \in 1..3
  BY <1>2
<1>4. PointerType(ty) \in Types
  BY <1>3, TypeIs
<1>5. /\ InnerType(PointerType(ty)) \in Types /\ Len(InnerType(PointerType(ty))) = n
      /\ \A i \in 1..n : InnerType(PointerType(ty))[i] = ty[i]
  BY <1>1, <1>2, <1>4, InnerTypeType
<1>6. InnerType(PointerType(ty)) = ty
  BY <1>1, <1>5, EqualTypes
<1>. QED  BY <1>1, <1>2, <1>4, <1>6

\* The types of declarations: their first level is precise unless it is the last.
LEMMA DeclaredTypes ==
  ASSUME NEW n \in 1..2, NEW ty \in DeclTypes(n)
  PROVE  ty \in Types /\ Len(ty) = n /\ (n > 1 => ty[1] = ecPrecise)
<1>1. PICK q \in Quals : ty = WithQuals(Unqualified(n), q)
  BY DEF DeclTypes
<1>2. /\ Unqualified(n) \in Types /\ Len(Unqualified(n)) = n
      /\ \A i \in 1..n : Unqualified(n)[i] = ecPrecise
  <2>1. n \in 1..3
    OBVIOUS
  <2>. QED  BY <2>1, UnqualifiedType
<1>. QED  BY <1>1, <1>2, WithQualsType

LEMMA DeclTypeType ==
  ASSUME NEW v \in Vars
  PROVE  /\ DeclType(v) \in Types /\ Len(DeclType(v)) = Depth[v] /\ Depth[v] \in 1..2
         /\ Depth[v] > 1 => DeclType(v)[1] = ecPrecise
         /\ Depth[v] = 1 /\ v \in Approx => DeclType(v)[1] = ecApprox
         /\ After[v] # Null => After[v] \in Vars /\ Depth[After[v]] = Depth[v]
                               /\ DeclType(After[v]) = DeclType(v)
<1>. DEFINE q == IF v \in Approx THEN ecApprox ELSE ecPrecise
<1>1. Depth[v] \in 1..2 /\ q \in Quals
  BY ConstantsAssumption DEF Quals
<1>2. DeclType(v) = WithQuals(Unqualified(Depth[v]), q)
  BY DEF DeclType
<1>3. DeclType(v) \in DeclTypes(Depth[v])
  BY <1>1, <1>2 DEF DeclTypes
<1>4. DeclType(v) \in Types /\ Len(DeclType(v)) = Depth[v]
      /\ (Depth[v] > 1 => DeclType(v)[1] = ecPrecise)
  BY <1>1, <1>3, DeclaredTypes
<1>5. Depth[v] = 1 /\ v \in Approx => DeclType(v)[1] = ecApprox
  BY <1>1, <1>2, UnqualifiedType, WithQualsType
<1>6. After[v] # Null => After[v] \in Vars /\ Depth[After[v]] = Depth[v]
                         /\ DeclType(After[v]) = DeclType(v)
  BY ConstantsAssumption DEF DeclType
<1>. QED  BY <1>1, <1>4, <1>5, <1>6

-----------------------------------------------------------------------------
(* Operands and memory, whatever their qualifiers.                         *)

LEMMA YieldIn ==
  ASSUME NEW G, temps \in [Temps -> G \cup {Free}], NEW t \in Temps, NEW us,
         NEW e \in G, Yield(t, us, e)
  PROVE  temps' \in [Temps -> G \cup {Free}]
BY DEF Yield

LEMMA ConsumeIn ==
  ASSUME NEW G, temps \in [Temps -> G \cup {Free}], NEW us, Consume(us)
  PROVE  temps' \in [Temps -> G \cup {Free}]
BY DEF Consume

\* What is known of an operand.
LEMMA ShapedOperand ==
  ASSUME ShapeInv, NEW t \in Temps, Occupied(t)
  PROVE  /\ temps[t] \in Shaped /\ temps[t] \in Operands
         /\ temps[t].ty \in Types /\ Len(temps[t].ty) \in 1..3
         /\ temps[t].val \in [Runs -> Values]
         /\ temps[t].exempt \in BOOLEAN /\ temps[t].lvalue \in BOOLEAN
         /\ temps[t].lvalue =>
              \A r \in Runs : temps[t].val[r] \in Vars /\ Depth[temps[t].val[r]] = Len(temps[t].ty)
         /\ ~temps[t].lvalue => \A r \in Runs : temps[t].val[r] \in Worth(Len(temps[t].ty))
<1>1. temps[t] \in Shaped
  BY DEF ShapeInv, Occupied
<1>2. temps[t] \in Operands
  BY <1>1 DEF Shaped
<1>3. temps[t].ty \in Types
  BY <1>2 DEF Operands
<1>4. Len(temps[t].ty) \in 1..3
  BY <1>3, TypeFacts
<1>5. /\ temps[t].val \in [Runs -> Values]
      /\ temps[t].exempt \in BOOLEAN /\ temps[t].lvalue \in BOOLEAN
  BY <1>2 DEF Operands
<1>. QED  BY <1>1, <1>2, <1>3, <1>4, <1>5 DEF Shaped

LEMMA WorthFacts ==
  ASSUME NEW n \in 1..3
  PROVE  /\ Worth(n) \subseteq Values
         /\ n > 1 => Worth(n) = {x \in Vars \cup {Null} : x # Null => x \in Vars /\ Depth[x] = n - 1}
         /\ n = 1 => Worth(n) = {0, 1}
BY DEF Worth, Values, Addresses, Ints

LEMMA RValueShape ==
  ASSUME NEW ty \in Types, NEW val \in [Runs -> Worth(Len(ty))]
  PROVE  RValue(ty, val) \in Shaped
<1>1. Len(ty) \in 1..3
  BY TypeFacts
<1>2. val \in [Runs -> Values]
  BY <1>1, WorthFacts
<1>3. RValue(ty, val) \in Operands
  BY <1>2 DEF RValue, Operand, Operands
<1>. QED  BY <1>3 DEF RValue, Operand, Shaped

LEMMA LValueShape ==
  ASSUME NEW ty \in Types, NEW val \in [Runs -> Vars],
         \A r \in Runs : Depth[val[r]] = Len(ty)
  PROVE  Operand(ty, TRUE, val) \in Shaped
<1>1. val \in [Runs -> Values]
  BY DEF Values
<1>2. Operand(ty, TRUE, val) \in Operands
  BY <1>1 DEF Operand, Operands
<1>. QED  BY <1>2 DEF Operand, Shaped

LEMMA WriteShape ==
  ASSUME mem \in [Runs -> Memory], NEW addr, NEW val, Write(addr, val),
         \A r \in Runs : addr[r] \in Vars /\ val[r] \in Worth(Depth[addr[r]])
  PROVE  mem' \in [Runs -> Memory]
<1>1. ASSUME NEW r \in Runs PROVE [mem[r] EXCEPT ![addr[r]] = val[r]] \in Memory
  <2>1. mem[r] \in [Vars -> Values] /\ \A v \in Vars : mem[r][v] \in Worth(Depth[v])
    BY DEF Memory
  <2>2. Depth[addr[r]] \in 1..3
    BY DeclTypeType
  <2>3. val[r] \in Values
    BY <2>2, WorthFacts
  <2>. QED  BY <2>1, <2>3 DEF Memory
<1>. QED  BY <1>1 DEF Write

LEMMA ReadShape ==
  ASSUME mem \in [Runs -> Memory], NEW addr, NEW n,
         \A r \in Runs : addr[r] \in Vars /\ Depth[addr[r]] = n
  PROVE  Read(addr) \in [Runs -> Worth(n)]
BY DEF Read, Memory

LEMMA ShiftShape ==
  ASSUME NEW k \in 2..3, NEW p \in Worth(k), NEW n
  PROVE  Shift(p, n) \in Worth(k)
<1>1. Worth(k) = {x \in Vars \cup {Null} : x # Null => x \in Vars /\ Depth[x] = k - 1}
  BY WorthFacts
<1>2. CASE n = 0 \/ p = Null
  BY <1>2 DEF Shift
<1>3. CASE n # 0 /\ p # Null
  <2>1. p \in Vars /\ Depth[p] = k - 1
    BY <1>1, <1>3
  <2>2. After[p] # Null => After[p] \in Vars /\ Depth[After[p]] = k - 1
    BY <2>1, DeclTypeType
  <2>3. After[p] \in Worth(k)
    BY <1>1, <2>2
  <2>. QED  BY <1>3, <2>3 DEF Shift
<1>. QED  BY <1>2, <1>3

LEMMA SumShape ==
  ASSUME NEW ty \in Types, NEW val \in [Runs -> Worth(Len(ty))], NEW n \in [Runs -> Ints]
  PROVE  Sum(ty, val, n) \in [Runs -> Worth(Len(ty))]
<1>1. PICK k \in 1..3 : k = Len(ty)
  BY TypeFacts
<1>2. val \in [Runs -> Worth(k)]
  BY <1>1
<1>3. CASE k = 1
  <2>1. ASSUME NEW r \in Runs PROVE (val[r] + n[r]) % 2 \in Worth(k)
    <3>1. val[r] \in 0..1 /\ n[r] \in 0..1
      BY <1>2, <1>3 DEF Worth, Ints
    <3>2. (val[r] + n[r]) % 2 \in 0..1
      BY <3>1
    <3>. QED  BY <1>3, <3>2 DEF Worth, Ints
  <2>2. Sum(ty, val, n) = [r \in Runs |-> (val[r] + n[r]) % 2]
    BY <1>1, <1>3 DEF Sum
  <2>. QED  BY <1>1, <2>1, <2>2
<1>4. CASE k # 1
  <2>1. k \in 2..3
    BY <1>4
  <2>2. \A r \in Runs : Shift(val[r], n[r]) \in Worth(k)
    BY <1>2, <2>1, ShiftShape
  <2>3. Sum(ty, val, n) = [r \in Runs |-> Shift(val[r], n[r])]
    BY <1>1, <1>4 DEF Sum
  <2>. QED  BY <1>1, <2>2, <2>3
<1>. QED  BY <1>3, <1>4

-----------------------------------------------------------------------------
(* What is sound.                                                          *)

LEMMA RValueSound ==
  ASSUME NEW ty \in Types, NEW val \in [Runs -> Worth(Len(ty))], Carries(ty, val)
  PROVE  RValue(ty, val) \in Sound
<1>1. RValue(ty, val) \in Shaped
  BY RValueShape
<1>. QED  BY <1>1 DEF RValue, Operand, Sound

LEMMA LValueSound ==
  ASSUME NEW ty \in Types, NEW val \in [Runs -> Vars],
         \A r \in Runs : Depth[val[r]] = Len(ty), Agree(val), DeclType(val[1]) = ty
  PROVE  Operand(ty, TRUE, val) \in Sound
<1>1. Operand(ty, TRUE, val) \in Shaped
  BY LValueShape
<1>. QED  BY <1>1 DEF Operand, Sound

\* An operand of a program that is accepted so far.
LEMMA SoundOperand ==
  ASSUME IInv, Accepted, NEW t \in Temps, Occupied(t)
  PROVE  /\ ~split /\ MemorySound
         /\ temps[t].lvalue => Agree(temps[t].val) /\ DeclType(temps[t].val[1]) = temps[t].ty
         /\ ~temps[t].lvalue => Carries(temps[t].ty, temps[t].val)
         /\ temps[t].exempt => Agree(temps[t].val) /\ (Len(temps[t].ty) > 1 => temps[t].val[1] = Null)
<1>1. temps[t] \in Sound /\ ~split /\ MemorySound
  BY DEF IInv, FlowInv, Occupied
<1>. QED  BY <1>1 DEF Sound

\* What a variable holds is of its type, and so is what is read through an lvalue.
LEMMA ReadCarries ==
  ASSUME MemorySound, NEW v \in Vars, NEW addr, addr[1] = v, addr[2] = v
  PROVE  Carries(DeclType(v), Read(addr))
<1>1. Carries(DeclType(v), [r \in Runs |-> mem[r][v]])
  BY DEF MemorySound
<1>. QED  BY <1>1 DEF Carries, Agree, Read, Runs

LEMMA WriteSound ==
  ASSUME mem \in [Runs -> Memory], MemorySound, NEW v \in Vars, NEW addr, NEW val,
         addr[1] = v, addr[2] = v, Carries(DeclType(v), val), Write(addr, val)
  PROVE  MemorySound'
<1>. SUFFICES ASSUME NEW w \in Vars
              PROVE  Carries(DeclType(w), [r \in Runs |-> mem'[r][w]])
  BY DEF MemorySound
<1>1. \A r \in Runs : mem'[r] = [mem[r] EXCEPT ![v] = val[r]] /\ mem[r] \in [Vars -> Values]
  BY DEF Write, Runs, Memory
<1>2. CASE w = v
  <2>1. mem'[1][w] = val[1] /\ mem'[2][w] = val[2]
    BY <1>1, <1>2 DEF Runs
  <2>. QED  BY <1>2, <2>1 DEF Carries, Agree, Runs
<1>3. CASE w # v
  <2>1. mem'[1][w] = mem[1][w] /\ mem'[2][w] = mem[2][w]
    BY <1>1, <1>3 DEF Runs
  <2>2. Carries(DeclType(w), [r \in Runs |-> mem[r][w]])
    BY DEF MemorySound
  <2>. QED  BY <2>1, <2>2 DEF Carries, Agree, Runs
<1>. QED  BY <1>2, <1>3

\* Moving along an array.
LEMMA ShiftTyped ==
  ASSUME NEW p, NEW n, p # Null => p \in Vars, Shift(p, n) # Null
  PROVE  p # Null /\ DeclType(Shift(p, n)) = DeclType(p)
BY DeclTypeType DEF Shift

LEMMA SumCarries ==
  ASSUME NEW ty \in Types, NEW val \in [Runs -> Worth(Len(ty))], NEW n,
         Carries(ty, val), ty[1] = ecPrecise => Agree(n)
  PROVE  Carries(ty, Sum(ty, val, n))
<1>1. PICK k \in 1..3 : k = Len(ty)
  BY TypeFacts
<1>2. ty[1] = ecPrecise => Agree(Sum(ty, val, n))
  BY DEF Carries, Agree, Sum, Runs
<1>3. ASSUME k > 1, Sum(ty, val, n)[1] # Null
      PROVE  DeclType(Sum(ty, val, n)[1]) = InnerType(ty)
  <2>1. Sum(ty, val, n)[1] = Shift(val[1], n[1])
    BY <1>1, <1>3 DEF Sum, Runs
  <2>2. val[1] # Null => val[1] \in Vars
    BY <1>1, <1>3, WorthFacts DEF Runs
  <2>3. val[1] # Null /\ DeclType(Shift(val[1], n[1])) = DeclType(val[1])
    BY <1>3, <2>1, <2>2, ShiftTyped
  <2>. QED  BY <1>1, <1>3, <2>1, <2>3 DEF Carries
<1>. QED  BY <1>1, <1>2, <1>3 DEF Carries

\* The information flow rule, with equality below the first level, is sound.
LEMMA CompatibleCarries ==
  ASSUME NEW lhs \in Types, NEW rhs \in Types, Len(lhs) = Len(rhs), NEW val,
         Len(lhs) > 1 => lhs[1] = ecPrecise, Compatible(lhs, rhs), Carries(rhs, val)
  PROVE  Carries(lhs, val)
<1>1. PICK k \in 1..3 : k = Len(lhs) /\ k = Len(rhs)
  BY TypeFacts
<1>2. lhs[1] = ecPrecise => Agree(val)
  BY DEF Compatible, CompatibleQuals, Carries, ecPrecise, ecApprox
<1>3. k > 1 => InnerType(lhs) = InnerType(rhs)
  <2>. SUFFICES ASSUME k > 1 PROVE InnerType(lhs) = InnerType(rhs)
    OBVIOUS
  <2>1. /\ InnerType(lhs) \in Types /\ Len(InnerType(lhs)) = k - 1
        /\ \A i \in 1..(k - 1) : InnerType(lhs)[i] = lhs[i + 1]
        /\ InnerType(rhs) \in Types /\ Len(InnerType(rhs)) = k - 1
        /\ \A i \in 1..(k - 1) : InnerType(rhs)[i] = rhs[i + 1]
    BY <1>1, InnerTypeType
  <2>2. \A i \in 1..(k - 1) : lhs[i + 1] = rhs[i + 1]
    <3>1. \A i \in 2..k : lhs[i] = rhs[i]
      BY <1>1 DEF Compatible, QualsEqual
    <3>. QED  BY <3>1
  <2>. QED  BY <2>1, <2>2, EqualTypes
<1>. QED  BY <1>1, <1>2, <1>3 DEF Carries

LEMMA FlowCarries ==
  ASSUME NEW lhs \in Types, NEW t \in Temps, IInv, Accepted, IsRValue(t),
         Len(lhs) = Len(temps[t].ty), Len(lhs) > 1 => lhs[1] = ecPrecise,
         AssertFlow(lhs, temps[t])
  PROVE  Carries(lhs, temps[t].val)
<1>1. Occupied(t) /\ ~temps[t].lvalue /\ temps[t].ty \in Types
  BY ShapedOperand DEF IsRValue, IInv
<1>2. CASE temps[t].exempt
  BY <1>1, <1>2, SoundOperand DEF Carries
<1>3. CASE Compatible(lhs, temps[t].ty)
  BY <1>1, <1>3, SoundOperand, CompatibleCarries
<1>. QED  BY <1>2, <1>3 DEF AssertFlow

LEMMA RValueFacts ==
  ASSUME IInv, NEW t \in Temps, IsRValue(t)
  PROVE  /\ temps[t].ty \in Types /\ Len(temps[t].ty) \in 1..3
         /\ temps[t].val \in [Runs -> Worth(Len(temps[t].ty))]
         /\ Accepted => Carries(temps[t].ty, temps[t].val)
<1>1. Occupied(t) /\ ~temps[t].lvalue /\ ShapeInv
  BY DEF IsRValue, IInv
<1>2. /\ temps[t].ty \in Types /\ Len(temps[t].ty) \in 1..3
      /\ temps[t].val \in [Runs -> Values]
      /\ \A r \in Runs : temps[t].val[r] \in Worth(Len(temps[t].ty))
  BY <1>1, ShapedOperand
<1>3. Accepted => Carries(temps[t].ty, temps[t].val)
  BY <1>1, SoundOperand
<1>. QED  BY <1>2, <1>3

LEMMA LValueFacts ==
  ASSUME IInv, NEW t \in Temps, IsLValue(t)
  PROVE  /\ temps[t].ty \in Types /\ Len(temps[t].ty) \in 1..2
         /\ temps[t].val \in [Runs -> Vars]
         /\ \A r \in Runs : temps[t].val[r] \in Vars /\ Depth[temps[t].val[r]] = Len(temps[t].ty)
         /\ Len(temps[t].ty) > 1 /\ Accepted => temps[t].ty[1] = ecPrecise
         /\ Accepted => Agree(temps[t].val) /\ DeclType(temps[t].val[1]) = temps[t].ty
<1>1. Occupied(t) /\ temps[t].lvalue /\ ShapeInv
  BY DEF IsLValue, IInv
<1>2. /\ temps[t].ty \in Types
      /\ temps[t].val \in [Runs -> Values]
      /\ \A r \in Runs : temps[t].val[r] \in Vars /\ Depth[temps[t].val[r]] = Len(temps[t].ty)
  BY <1>1, ShapedOperand
<1>3. Accepted => Agree(temps[t].val) /\ DeclType(temps[t].val[1]) = temps[t].ty
  BY <1>1, SoundOperand
<1>4. temps[t].val[1] \in Vars /\ Depth[temps[t].val[1]] = Len(temps[t].ty)
  BY <1>2 DEF Runs
<1>5. Len(temps[t].ty) \in 1..2
  BY <1>4, DeclTypeType
<1>6. Len(temps[t].ty) > 1 /\ Accepted => temps[t].ty[1] = ecPrecise
  BY <1>3, <1>4, DeclTypeType
<1>. QED  BY <1>2, <1>3, <1>5, <1>6

-----------------------------------------------------------------------------
(* Steps.                                                                  *)

\* What every step does to memory and to the verdict; a step that is accepted
\* was taken in a program accepted so far.
Steady ==
  /\ mem' \in [Runs -> Memory]
  /\ split' \in BOOLEAN /\ error' \in BOOLEAN /\ gap' \in Gaps \cup {"none"}
  /\ Accepted' => Accepted /\ ~split' /\ MemorySound'

LEMMA YieldStep ==
  ASSUME IInv, Steady, NEW t \in Temps, NEW us, NEW e \in Shaped, Yield(t, us, e),
         Accepted' => e \in Sound
  PROVE  IInv'
<1>1. temps' \in [Temps -> Shaped \cup {Free}]
  BY YieldIn DEF IInv, ShapeInv
<1>2. ShapeInv'
  BY <1>1 DEF ShapeInv, Steady
<1>3. ASSUME Accepted' PROVE temps' \in [Temps -> Sound \cup {Free}]
  <2>1. temps \in [Temps -> Sound \cup {Free}] /\ e \in Sound
    BY <1>3 DEF IInv, FlowInv, Steady
  <2>. QED  BY <2>1, YieldIn
<1>4. FlowInv'
  BY <1>3 DEF FlowInv, Steady
<1>. QED  BY <1>2, <1>4 DEF IInv

LEMMA ConsumeStep ==
  ASSUME IInv, Steady, NEW us, Consume(us)
  PROVE  IInv'
<1>1. temps' \in [Temps -> Shaped \cup {Free}]
  BY ConsumeIn DEF IInv, ShapeInv
<1>2. ShapeInv'
  BY <1>1 DEF ShapeInv, Steady
<1>3. ASSUME Accepted' PROVE temps' \in [Temps -> Sound \cup {Free}]
  <2>1. temps \in [Temps -> Sound \cup {Free}]
    BY <1>3 DEF IInv, FlowInv, Steady
  <2>. QED  BY <2>1, ConsumeIn
<1>4. FlowInv'
  BY <1>3 DEF FlowInv, Steady
<1>. QED  BY <1>2, <1>4 DEF IInv

LEMMA IdleMemory ==
  ASSUME IInv, UNCHANGED mem
  PROVE  mem' \in [Runs -> Memory] /\ (Accepted => ~split /\ MemorySound')
BY DEF IInv, ShapeInv, FlowInv, MemorySound

LEMMA PureStep ==
  ASSUME IInv, Pure
  PROVE  Steady /\ Accepted' = Accepted
<1>1. split' = split /\ error' = error /\ gap' = gap /\ mem' = mem
  BY DEF Pure, Quiet
<1>2. Accepted' = Accepted
  BY <1>1 DEF Accepted
<1>. QED  BY <1>1, <1>2, IdleMemory DEF Steady, IInv, ShapeInv

\* Literals and the null pointer, which flow everywhere.
LEMMA ExemptValue ==
  ASSUME NEW ty \in Types, NEW x \in Worth(Len(ty)), ty[1] = ecPrecise,
         Len(ty) > 1 => x = Null
  PROVE  [RValue(ty, Same(x)) EXCEPT !.exempt = TRUE] \in Sound
<1>. DEFINE e == [RValue(ty, Same(x)) EXCEPT !.exempt = TRUE]
<1>1. PICK k \in 1..3 : k = Len(ty)
  BY TypeFacts
<1>2. /\ Same(x) \in [Runs -> Values] /\ Agree(Same(x)) /\ Same(x)[1] = x
      /\ \A r \in Runs : Same(x)[r] = x
  BY <1>1, WorthFacts DEF Same, Agree, Runs
<1>3. RValue(ty, Same(x)) \in Operands
  BY <1>2 DEF RValue, Operand, Operands
<1>4. e \in Operands
  BY <1>3 DEF Operands
<1>5. e.ty = ty /\ e.val = Same(x) /\ e.lvalue = FALSE
  BY <1>3 DEF RValue, Operand, Operands
<1>. HIDE DEF e
<1>6. e \in Shaped
  BY <1>2, <1>4, <1>5 DEF Shaped
<1>7. Carries(ty, Same(x))
  BY <1>2 DEF Carries
<1>8. e \in Sound
  BY <1>2, <1>5, <1>6, <1>7 DEF Sound
<1>. QED  BY <1>8 DEF e

LEMMA LiteralStep ==
  ASSUME IInv, NEW t \in Temps, NEW n \in Ints, Literal(t, n)
  PROVE  IInv'
<1>. DEFINE e == [RValue(<<ecPrecise>>, Same(n)) EXCEPT !.exempt = TRUE]
<1>1. <<ecPrecise>> \in Types /\ Len(<<ecPrecise>>) = 1 /\ <<ecPrecise>>[1] = ecPrecise
  <2>1. <<ecPrecise>> \in [1..1 -> Quals]
    BY DEF Quals
  <2>. QED  BY <2>1, TypeIs
<1>2. n \in Worth(Len(<<ecPrecise>>))
  BY <1>1 DEF Worth
<1>3. e \in Sound
  BY <1>1, <1>2, ExemptValue
<1>4. Steady /\ Yield(t, {}, e)
  BY PureStep DEF Literal
<1>5. e \in Shaped
  BY <1>3 DEF Sound
<1>. HIDE DEF e
<1>. QED  BY <1>3, <1>4, <1>5, YieldStep

LEMMA NullPointerStep ==
  ASSUME IInv, NEW t \in Temps, NullPointer(t)
  PROVE  IInv'
<1>. DEFINE e == [RValue(Unqualified(2), Same(Null)) EXCEPT !.exempt = TRUE]
<1>1. Unqualified(2) \in Types /\ Len(Unqualified(2)) = 2 /\ Unqualified(2)[1] = ecPrecise
  BY UnqualifiedType
<1>2. Null \in Worth(Len(Unqualified(2)))
  BY <1>1 DEF Worth, Addresses
<1>3. e \in Sound
  BY <1>1, <1>2, ExemptValue
<1>4. Steady /\ Yield(t, {}, e)
  BY PureStep DEF NullPointer
<1>5. e \in Shaped
  BY <1>3 DEF Sound
<1>. HIDE DEF e
<1>. QED  BY <1>3, <1>4, <1>5, YieldStep

LEMMA DeclRefStep ==
  ASSUME IInv, NEW t \in Temps, NEW v \in Vars, DeclRef(t, v)
  PROVE  IInv'
<1>1. DeclType(v) \in Types /\ Len(DeclType(v)) = Depth[v]
  BY DeclTypeType
<1>2. /\ Same(v) \in [Runs -> Vars] /\ Agree(Same(v)) /\ Same(v)[1] = v
      /\ \A r \in Runs : Same(v)[r] = v
  BY DEF Same, Agree, Runs
<1>3. Operand(DeclType(v), TRUE, Same(v)) \in Shaped
  BY <1>1, <1>2, LValueShape
<1>4. Operand(DeclType(v), TRUE, Same(v)) \in Sound
  BY <1>1, <1>2, LValueSound
<1>5. Steady /\ Yield(t, {}, Operand(DeclType(v), TRUE, Same(v)))
  BY PureStep DEF DeclRef
<1>. QED  BY <1>3, <1>4, <1>5, YieldStep

LEMMA ReadFacts ==
  ASSUME IInv, NEW t \in Temps, IsLValue(t)
  PROVE  /\ Read(temps[t].val) \in [Runs -> Worth(Len(temps[t].ty))]
         /\ Accepted => Carries(temps[t].ty, Read(temps[t].val))
<1>1. /\ \A r \in Runs : temps[t].val[r] \in Vars /\ Depth[temps[t].val[r]] = Len(temps[t].ty)
      /\ Accepted => Agree(temps[t].val) /\ DeclType(temps[t].val[1]) = temps[t].ty
  BY LValueFacts
<1>2. Read(temps[t].val) \in [Runs -> Worth(Len(temps[t].ty))]
  BY <1>1, ReadShape DEF IInv, ShapeInv
<1>3. ASSUME Accepted PROVE Carries(temps[t].ty, Read(temps[t].val))
  <2>1. temps[t].val[1] \in Vars /\ temps[t].val[2] = temps[t].val[1] /\ MemorySound
    BY <1>1, <1>3 DEF Agree, Runs, IInv, FlowInv
  <2>. QED  BY <1>1, <1>3, <2>1, ReadCarries
<1>. QED  BY <1>2, <1>3

LEMMA LoadStep ==
  ASSUME IInv, NEW t \in Temps, Load(t)
  PROVE  IInv'
<1>. DEFINE ty == temps[t].ty
            e == RValue(ty, Read(temps[t].val))
<1>1. IsLValue(t) /\ Pure
  BY DEF Load
<1>2. ty \in Types /\ CopyQuals(ty, Unqualified(Len(ty))) = ty
  BY <1>1, LValueFacts, CopyOntoUnqualified
<1>3. Yield(t, {}, e)
  BY <1>2 DEF Load
<1>4. e \in Shaped /\ (Accepted => e \in Sound)
  BY <1>1, <1>2, ReadFacts, RValueShape, RValueSound
<1>. HIDE DEF e
<1>. QED  BY <1>1, <1>3, <1>4, PureStep, YieldStep

LEMMA AddrOfStep ==
  ASSUME IInv, NEW t \in Temps, AddrOf(t)
  PROVE  IInv'
<1>. DEFINE ty == temps[t].ty
            e == RValue(PointerType(ty), temps[t].val)
<1>1. IsLValue(t) /\ Pure /\ Yield(t, {}, e)
  BY DEF AddrOf
<1>2. PICK k \in 1..2 :
        /\ k = Len(ty) /\ ty \in Types /\ temps[t].val \in [Runs -> Vars]
        /\ \A r \in Runs : temps[t].val[r] \in Vars /\ Depth[temps[t].val[r]] = k
  BY <1>1, LValueFacts
<1>3. /\ PointerType(ty) \in Types /\ Len(PointerType(ty)) = k + 1
      /\ PointerType(ty)[1] = ecPrecise /\ InnerType(PointerType(ty)) = ty
  <2>1. k < 3
    OBVIOUS
  <2>2. Len(ty) < 3
    BY <1>2, <2>1, Zenon
  <2>. QED  BY <1>2, <2>2, PointerTypeType
<1>4. temps[t].val \in [Runs -> Worth(Len(PointerType(ty)))]
  <2>1. k + 1 \in 2..3 /\ (k + 1) - 1 = k
    OBVIOUS
  <2>2. Worth(k + 1) = {x \in Vars \cup {Null} : x # Null => x \in Vars /\ Depth[x] = k}
    <3>1. Worth(k + 1) = {x \in Vars \cup {Null} : x # Null => x \in Vars /\ Depth[x] = (k + 1) - 1}
      BY <2>1, WorthFacts
    <3>. QED  BY <2>1, <3>1
  <2>3. \A r \in Runs : temps[t].val[r] \in Worth(k + 1)
    BY <1>2, <2>2
  <2>. QED  BY <1>2, <1>3, <2>3
<1>5. e \in Shaped
  BY <1>3, <1>4, RValueShape
<1>6. ASSUME Accepted PROVE e \in Sound
  <2>1. Agree(temps[t].val) /\ DeclType(temps[t].val[1]) = ty
    BY <1>1, <1>6, LValueFacts
  <2>2. Carries(PointerType(ty), temps[t].val)
    BY <1>3, <2>1 DEF Carries
  <2>. QED  BY <1>3, <1>4, <2>2, RValueSound
<1>. QED  BY <1>1, <1>5, <1>6, PureStep, YieldStep

\* A pointer that is not null, and what is found there.
LEMMA ValidFacts ==
  ASSUME IInv, NEW t \in Temps, IsValid(t)
  PROVE  /\ temps[t].ty \in Types /\ Len(temps[t].ty) \in 2..3
         /\ InnerType(temps[t].ty) \in Types /\ Len(InnerType(temps[t].ty)) \in 1..2
         /\ Len(InnerType(temps[t].ty)) = Len(temps[t].ty) - 1
         /\ temps[t].val \in [Runs -> Vars]
         /\ \A r \in Runs : temps[t].val[r] \in Vars
                            /\ Depth[temps[t].val[r]] = Len(InnerType(temps[t].ty))
         /\ Accepted => /\ Agree(temps[t].val) /\ temps[t].ty[1] = ecPrecise
                        /\ DeclType(temps[t].val[1]) = InnerType(temps[t].ty)
<1>1. IsRValue(t) /\ Len(temps[t].ty) > 1 /\ \A r \in Runs : temps[t].val[r] # Null
  BY DEF IsValid, IsPointer
<1>2. PICK k \in 1..3 : k = Len(temps[t].ty)
  BY <1>1, RValueFacts
<1>7. k \in 2..3
  <2>1. k > 1
    BY <1>1, <1>2, Zenon
  <2>. QED  BY <2>1
<1>8. temps[t].ty \in Types /\ temps[t].val \in [Runs -> Worth(k)]
  BY <1>1, <1>2, RValueFacts
<1>3. InnerType(temps[t].ty) \in Types /\ Len(InnerType(temps[t].ty)) = k - 1
  BY <1>1, <1>2, <1>8, InnerTypeType
<1>4. \A r \in Runs : temps[t].val[r] \in Vars /\ Depth[temps[t].val[r]] = k - 1
  <2>1. Worth(k) = {x \in Vars \cup {Null} : x # Null => x \in Vars /\ Depth[x] = k - 1}
    BY <1>7, WorthFacts
  <2>. QED  BY <1>1, <1>8, <2>1
<1>5. temps[t].val \in [Runs -> Vars]
  BY <1>8, <1>4
<1>6. Accepted => /\ Agree(temps[t].val) /\ temps[t].ty[1] = ecPrecise
                  /\ DeclType(temps[t].val[1]) = InnerType(temps[t].ty)
  BY <1>1, RValueFacts DEF Carries, Runs
<1>. QED  BY <1>2, <1>7, <1>8, <1>3, <1>4, <1>5, <1>6

LEMMA DerefStep ==
  ASSUME IInv, NEW t \in Temps, Deref(t)
  PROVE  IInv'
<1>. DEFINE ty == InnerType(temps[t].ty)
            e == Operand(ty, TRUE, temps[t].val)
<1>1. IsValid(t) /\ Pure /\ Yield(t, {}, e)
  BY DEF Deref
<1>2. e \in Shaped
  BY <1>1, ValidFacts, LValueShape
<1>3. Accepted => e \in Sound
  BY <1>1, ValidFacts, LValueSound
<1>. HIDE DEF e
<1>. QED  BY <1>1, <1>2, <1>3, PureStep, YieldStep

LEMMA IntFacts ==
  ASSUME IInv, NEW t \in Temps, IsInt(t)
  PROVE  /\ IsRValue(t) /\ temps[t].ty \in Types /\ Len(temps[t].ty) = 1
         /\ temps[t].val \in [Runs -> Ints]
         /\ temps[t].ty[1] \in Quals
         /\ Accepted /\ temps[t].ty[1] = ecPrecise => Agree(temps[t].val)
<1>1. IsRValue(t) /\ Len(temps[t].ty) = 1
  BY DEF IsInt, IsRValue
<1>2. temps[t].ty \in Types /\ temps[t].val \in [Runs -> Worth(1)]
  BY <1>1, RValueFacts
<1>3. temps[t].ty[1] \in Quals
  BY <1>1, <1>2, TypeFacts
<1>4. Accepted /\ temps[t].ty[1] = ecPrecise => Agree(temps[t].val)
  BY <1>1, RValueFacts DEF Carries
<1>. QED  BY <1>1, <1>2, <1>3, <1>4 DEF Worth

\* An integer is sound if it agrees where its type is precise.
LEMMA IntOperand ==
  ASSUME NEW ty \in Types, Len(ty) = 1, NEW val \in [Runs -> Ints]
  PROVE  /\ RValue(ty, val) \in Shaped
         /\ (ty[1] = ecPrecise => Agree(val)) => RValue(ty, val) \in Sound
<1>1. val \in [Runs -> Worth(Len(ty))]
  BY DEF Worth
<1>2. (ty[1] = ecPrecise => Agree(val)) => Carries(ty, val)
  BY DEF Carries
<1>. QED  BY <1>1, <1>2, RValueShape, RValueSound

LEMMA ArithmeticType ==
  ASSUME NEW ty \in Types, NEW l \in Temps, NEW r \in Temps
  PROVE  /\ Arithmetic(ty, l, r) \in Types /\ Len(Arithmetic(ty, l, r)) = Len(ty)
         /\ temps[l].ty[1] # ecApprox /\ temps[r].ty[1] # ecApprox => Arithmetic(ty, l, r) = ty
         /\ Len(ty) = 1 /\ Arithmetic(ty, l, r)[1] = ecPrecise =>
              temps[l].ty[1] # ecApprox /\ temps[r].ty[1] # ecApprox
<1>1. CASE temps[l].ty[1] # ecApprox /\ temps[r].ty[1] # ecApprox
  BY <1>1 DEF Arithmetic
<1>2. CASE ~(temps[l].ty[1] # ecApprox /\ temps[r].ty[1] # ecApprox)
  <2>1. Arithmetic(ty, l, r) = WithQuals(ty, ecApprox)
    BY <1>2 DEF Arithmetic
  <2>2. /\ WithQuals(ty, ecApprox) \in Types /\ Len(WithQuals(ty, ecApprox)) = Len(ty)
        /\ WithQuals(ty, ecApprox)[Len(ty)] = ecApprox
    BY WithQualsType DEF Quals
  <2>3. ecApprox # ecPrecise
    BY DEF ecApprox, ecPrecise
  <2>. QED  BY <1>2, <2>1, <2>2, <2>3
<1>. QED  BY <1>1, <1>2

LEMMA LogicalNotStep ==
  ASSUME IInv, NEW t \in Temps, LogicalNot(t)
  PROVE  IInv'
<1>. DEFINE ty == temps[t].ty
            val == [r \in Runs |-> 1 - temps[t].val[r]]
            e == RValue(ty, val)
<1>1. IsInt(t) /\ Pure
  BY DEF LogicalNot
<1>2. ty \in Types /\ Len(ty) = 1 /\ CopyQuals(ty, Unqualified(1)) = ty
  <2>1. ty \in Types /\ Len(ty) = 1
    BY <1>1, IntFacts
  <2>. QED  BY <2>1, CopyOntoUnqualified
<1>3. Yield(t, {}, e)
  BY <1>2 DEF LogicalNot
<1>4. val \in [Runs -> Ints]
  <2>1. temps[t].val \in [Runs -> 0..1]
    BY <1>1, IntFacts DEF Ints
  <2>2. \A x \in 0..1 : 1 - x \in 0..1
    OBVIOUS
  <2>. QED  BY <2>1, <2>2 DEF Ints
<1>5. Accepted => (ty[1] = ecPrecise => Agree(val))
  BY <1>1, IntFacts DEF Agree, Runs
<1>6. e \in Shaped /\ (Accepted => e \in Sound)
  BY <1>2, <1>4, <1>5, IntOperand
<1>. HIDE DEF e
<1>. QED  BY <1>1, <1>3, <1>6, PureStep, YieldStep

LEMMA EqualStep ==
  ASSUME IInv, NEW l \in Temps, NEW r \in Temps, Equal(l, r)
  PROVE  IInv'
<1>. DEFINE ty == Arithmetic(Unqualified(1), l, r)
            val == [n \in Runs |-> IF temps[l].val[n] = temps[r].val[n] THEN 1 ELSE 0]
            e == RValue(ty, val)
<1>1. IsRValue(l) /\ IsRValue(r) /\ Pure /\ Yield(l, {r}, e)
  BY DEF Equal
<1>2. /\ ty \in Types /\ Len(ty) = 1
      /\ ty[1] = ecPrecise => temps[l].ty[1] # ecApprox /\ temps[r].ty[1] # ecApprox
  <2>1. Unqualified(1) \in Types /\ Len(Unqualified(1)) = 1
    BY UnqualifiedType
  <2>. QED  BY <2>1, ArithmeticType
<1>3. val \in [Runs -> Ints]
  BY DEF Ints
<1>4. ASSUME Accepted, ty[1] = ecPrecise PROVE Agree(val)
  <2>1. temps[l].ty \in Types /\ Len(temps[l].ty) \in 1..3 /\ Carries(temps[l].ty, temps[l].val)
    BY <1>1, <1>4, RValueFacts
  <2>2. temps[r].ty \in Types /\ Len(temps[r].ty) \in 1..3 /\ Carries(temps[r].ty, temps[r].val)
    BY <1>1, <1>4, RValueFacts
  <2>3. temps[l].ty[1] \in Quals /\ temps[r].ty[1] \in Quals
    BY <2>1, <2>2, TypeFacts
  <2>4. Agree(temps[l].val) /\ Agree(temps[r].val)
    BY <1>2, <1>4, <2>1, <2>2, <2>3 DEF Carries, Quals
  <2>. QED  BY <2>4 DEF Agree, Runs
<1>5. e \in Shaped /\ (Accepted => e \in Sound)
  BY <1>2, <1>3, <1>4, IntOperand
<1>. HIDE DEF e
<1>. QED  BY <1>1, <1>5, PureStep, YieldStep

LEMMA CommaStep ==
  ASSUME IInv, NEW l \in Temps, NEW r \in Temps, Comma(l, r)
  PROVE  IInv'
<1>. DEFINE e == RValue(temps[r].ty, temps[r].val)
<1>1. IsRValue(r) /\ Pure /\ Yield(l, {r}, e)
  BY DEF Comma
<1>2. e \in Shaped /\ (Accepted => e \in Sound)
  BY <1>1, RValueFacts, RValueShape, RValueSound
<1>. HIDE DEF e
<1>. QED  BY <1>1, <1>2, PureStep, YieldStep

\* A step that only may meet a gap.
LEMMA MeetsStep ==
  ASSUME IInv, UNCHANGED <<mem, split, error>>, NEW name \in Gaps, gap' \in {gap, name}
  PROVE  Steady /\ (Accepted' => gap' = gap)
<1>1. mem' = mem /\ split' = split /\ error' = error
  OBVIOUS
<1>2. gap \in Gaps \cup {"none"} /\ gap' \in Gaps \cup {"none"}
  BY DEF IInv, ShapeInv
<1>3. name # "none"
  BY DEF Gaps
<1>4. Accepted' => Accepted /\ gap' = gap
  BY <1>1, <1>3 DEF Accepted
<1>. QED  BY <1>1, <1>2, <1>4, IdleMemory DEF Steady, IInv, ShapeInv

LEMMA AddStep ==
  ASSUME IInv, NEW l \in Temps, NEW r \in Temps, Add(l, r)
  PROVE  IInv'
<1>. DEFINE lty == temps[l].ty
            ty == IF IsPointer(l) THEN CopyQuals(lty, Unqualified(Len(lty))) ELSE Unqualified(1)
            val == Sum(ty, temps[l].val, temps[r].val)
            e == RValue(Arithmetic(ty, l, r), val)
<1>1. /\ IsRValue(l) /\ IsInt(r) /\ Yield(l, {r}, e) /\ UNCHANGED <<mem, split, error>>
      /\ Meets(IsPointer(l) /\ temps[r].ty[1] = ecApprox, "index")
  BY DEF Add
<1>2. Steady /\ (Accepted' => gap' = gap /\ Accepted)
  <2>1. "index" \in Gaps
    BY DEF Gaps
  <2>2. gap' \in {gap, "index"}
    BY <1>1 DEF Meets
  <2>. QED  BY <1>1, <2>1, <2>2, MeetsStep DEF Steady
<1>3. Accepted' /\ IsPointer(l) => temps[r].ty[1] # ecApprox
  <2>1. "index" # "none"
    OBVIOUS
  <2>. QED  BY <1>1, <2>1 DEF Meets, Accepted
<1>4. /\ lty \in Types /\ Len(lty) \in 1..3 /\ temps[l].val \in [Runs -> Worth(Len(lty))]
      /\ Accepted => Carries(lty, temps[l].val)
  BY <1>1, RValueFacts
<1>5. /\ temps[r].val \in [Runs -> Ints] /\ temps[r].ty[1] \in Quals
      /\ Accepted /\ temps[r].ty[1] = ecPrecise => Agree(temps[r].val)
  BY <1>1, IntFacts
<1>6. lty[1] \in Quals
  BY <1>4, TypeFacts
<1>7. CASE IsPointer(l)
  <2>1. ty = lty /\ Len(lty) > 1
    BY <1>4, <1>7, CopyOntoUnqualified DEF IsPointer
  <2>2. val \in [Runs -> Worth(Len(lty))] /\ Len(Arithmetic(ty, l, r)) = Len(lty)
        /\ Arithmetic(ty, l, r) \in Types
    BY <1>4, <1>5, <2>1, SumShape, ArithmeticType
  <2>3. e \in Shaped
    BY <2>2, RValueShape
  <2>4. ASSUME Accepted' PROVE e \in Sound
    <3>1. Carries(lty, temps[l].val) /\ lty[1] = ecPrecise /\ temps[r].ty[1] = ecPrecise
      BY <1>2, <1>3, <1>4, <1>5, <1>7, <2>1, <2>4 DEF Carries, Quals
    <3>2. Arithmetic(ty, l, r) = lty
      <4>1. lty[1] # ecApprox /\ temps[r].ty[1] # ecApprox
        BY <3>1 DEF ecPrecise, ecApprox
      <4>2. Arithmetic(lty, l, r) = lty
        BY <1>4, <4>1, ArithmeticType
      <4>. QED  BY <2>1, <4>2
    <3>3. Carries(lty, val)
      BY <1>2, <1>4, <1>5, <2>1, <2>4, <3>1, SumCarries
    <3>. QED  BY <1>4, <2>2, <3>2, <3>3, RValueSound
  <2>. HIDE DEF e
  <2>. QED  BY <1>1, <1>2, <2>3, <2>4, YieldStep
<1>8. CASE ~IsPointer(l)
  <2>1. PICK k \in 1..3 : k = Len(lty)
    BY <1>4
  <2>2. k = 1
    <3>1. ~(k > 1)
      BY <1>1, <1>8, <2>1, Zenon DEF IsPointer
    <3>. QED  BY <3>1
  <2>3. ty \in Types /\ Len(ty) = 1
    BY <1>8, UnqualifiedType
  <2>4. val \in [Runs -> Ints]
    <3>1. temps[l].val \in [Runs -> Worth(Len(ty))]
      BY <1>4, <2>1, <2>2, <2>3
    <3>2. val \in [Runs -> Worth(Len(ty))]
      BY <1>5, <2>3, <3>1, SumShape
    <3>. QED  BY <2>3, <3>2 DEF Worth
  <2>5. /\ Arithmetic(ty, l, r) \in Types /\ Len(Arithmetic(ty, l, r)) = 1
        /\ Arithmetic(ty, l, r)[1] = ecPrecise => lty[1] # ecApprox /\ temps[r].ty[1] # ecApprox
    BY <2>3, ArithmeticType
  <2>6. ASSUME Accepted', Arithmetic(ty, l, r)[1] = ecPrecise PROVE Agree(val)
    <3>1. Agree(temps[l].val) /\ Agree(temps[r].val)
      BY <1>2, <1>4, <1>5, <1>6, <2>5, <2>6 DEF Carries, Quals
    <3>. QED  BY <3>1 DEF Agree, Sum, Runs
  <2>7. e \in Shaped /\ (Accepted' => e \in Sound)
    BY <2>4, <2>5, <2>6, IntOperand
  <2>. HIDE DEF e
  <2>. QED  BY <1>1, <1>2, <2>7, YieldStep
<1>. QED  BY <1>7, <1>8

\* What is found at the addresses that pointers hold.
LEMMA PointeeFacts ==
  ASSUME NEW ty \in Types, Len(ty) > 1, NEW val \in [Runs -> Worth(Len(ty))],
         \A r \in Runs : val[r] # Null
  PROVE  /\ InnerType(ty) \in Types /\ val \in [Runs -> Vars]
         /\ \A r \in Runs : val[r] \in Vars /\ Depth[val[r]] = Len(InnerType(ty))
         /\ Carries(ty, val) => Agree(val) /\ DeclType(val[1]) = InnerType(ty)
<1>1. PICK k \in 1..3 : k = Len(ty)
  BY TypeFacts
<1>2. k \in 2..3
  <2>1. k > 1
    BY <1>1, Zenon
  <2>. QED  BY <2>1
<1>3. InnerType(ty) \in Types /\ Len(InnerType(ty)) = k - 1
  BY <1>1, InnerTypeType
<1>4. \A r \in Runs : val[r] \in Vars /\ Depth[val[r]] = k - 1
  <2>1. Worth(k) = {x \in Vars \cup {Null} : x # Null => x \in Vars /\ Depth[x] = k - 1}
    BY <1>2, WorthFacts
  <2>2. val \in [Runs -> Worth(k)]
    BY <1>1
  <2>. QED  BY <2>1, <2>2
<1>5. val \in [Runs -> Vars]
  BY <1>4
<1>6. Carries(ty, val) => Agree(val) /\ DeclType(val[1]) = InnerType(ty)
  BY DEF Carries, Runs
<1>. QED  BY <1>3, <1>4, <1>5, <1>6

LEMMA SubscriptStep ==
  ASSUME IInv, NEW l \in Temps, NEW r \in Temps, Subscript(l, r)
  PROVE  IInv'
<1>. DEFINE ty == temps[l].ty
            val == Sum(ty, temps[l].val, temps[r].val)
            e == Operand(InnerType(ty), TRUE, val)
<1>1. /\ IsValid(l) /\ IsInt(r) /\ Yield(l, {r}, e) /\ UNCHANGED <<mem, split, error>>
      /\ InBounds(ty, temps[l].val, temps[r].val)
      /\ Meets(temps[r].ty[1] = ecApprox, "index")
  BY DEF Subscript
<1>2. Steady /\ (Accepted' => gap' = gap /\ Accepted)
  <2>1. "index" \in Gaps
    BY DEF Gaps
  <2>2. gap' \in {gap, "index"}
    BY <1>1 DEF Meets
  <2>. QED  BY <1>1, <2>1, <2>2, MeetsStep DEF Steady
<1>3. Accepted' => temps[r].ty[1] # ecApprox
  <2>1. "index" # "none"
    OBVIOUS
  <2>. QED  BY <1>1, <2>1 DEF Meets, Accepted
<1>4. /\ IsRValue(l) /\ Len(ty) > 1 /\ Len(ty) # 1 /\ ty \in Types
      /\ temps[l].val \in [Runs -> Worth(Len(ty))]
      /\ Accepted => Carries(ty, temps[l].val)
  <2>1. IsRValue(l) /\ Len(ty) > 1
    BY <1>1 DEF IsValid, IsPointer
  <2>2. ~(1 > 1)
    OBVIOUS
  <2>3. Len(ty) # 1
    BY <2>1, <2>2, Zenon
  <2>. QED  BY <2>1, <2>3, RValueFacts
<1>5. /\ temps[r].val \in [Runs -> Ints] /\ temps[r].ty[1] \in Quals
      /\ Accepted /\ temps[r].ty[1] = ecPrecise => Agree(temps[r].val)
  BY <1>1, IntFacts
<1>6. val \in [Runs -> Worth(Len(ty))]
  BY <1>4, <1>5, SumShape
<1>7. \A n \in Runs : val[n] # Null
  BY <1>1, <1>4 DEF InBounds, Sum
<1>8. ASSUME Accepted' PROVE Carries(ty, val)
  BY <1>2, <1>3, <1>4, <1>5, <1>8, SumCarries DEF Quals
<1>9. /\ InnerType(ty) \in Types /\ val \in [Runs -> Vars]
      /\ \A n \in Runs : val[n] \in Vars /\ Depth[val[n]] = Len(InnerType(ty))
      /\ Carries(ty, val) => Agree(val) /\ DeclType(val[1]) = InnerType(ty)
  <2>. HIDE DEF ty, val
  <2>. QED  BY <1>4, <1>6, <1>7, PointeeFacts
<1>10. e \in Shaped
  <2>. HIDE DEF ty, val
  <2>. QED  BY <1>9, LValueShape
<1>11. ASSUME Accepted' PROVE e \in Sound
  <2>. HIDE DEF ty, val
  <2>. QED  BY <1>8, <1>9, <1>11, LValueSound
<1>. HIDE DEF e
<1>. QED  BY <1>1, <1>2, <1>10, <1>11, YieldStep

LEMMA ConditionalStep ==
  ASSUME IInv, NEW c \in Temps, NEW l \in Temps, NEW r \in Temps, Conditional(c, l, r)
  PROVE  IInv'
<1>. DEFINE ty == Unqualified(Len(temps[l].ty))
            val == [n \in Runs |-> IF temps[c].val[n] = 1 THEN temps[l].val[n]
                                                          ELSE temps[r].val[n]]
            e == RValue(ty, val)
            met == <<temps[c].ty, temps[l].ty, temps[r].ty>> # <<<<ecPrecise>>, ty, ty>>
<1>1. /\ IsInt(c) /\ IsRValue(l) /\ IsRValue(r) /\ Len(temps[l].ty) = Len(temps[r].ty)
      /\ Yield(l, {c, r}, e) /\ UNCHANGED <<mem, split, error>>
      /\ Meets(met, "conditional")
  BY DEF Conditional
<1>2. Steady /\ (Accepted' => gap' = gap /\ Accepted)
  <2>1. "conditional" \in Gaps
    BY DEF Gaps
  <2>2. gap' \in {gap, "conditional"}
    BY <1>1 DEF Meets
  <2>. QED  BY <1>1, <2>1, <2>2, MeetsStep DEF Steady
<1>3. Accepted' => temps[c].ty = <<ecPrecise>> /\ temps[l].ty = ty /\ temps[r].ty = ty
  <2>1. "conditional" # "none"
    OBVIOUS
  <2>2. Accepted' => ~met
    BY <1>1, <2>1 DEF Meets, Accepted
  <2>. QED  BY <2>2
<1>4. PICK k \in 1..3 : /\ k = Len(temps[l].ty) /\ temps[l].ty \in Types
                        /\ temps[l].val \in [Runs -> Worth(k)]
                        /\ Accepted => Carries(temps[l].ty, temps[l].val)
  BY <1>1, RValueFacts
<1>5. /\ temps[r].val \in [Runs -> Worth(k)]
      /\ Accepted => Carries(temps[r].ty, temps[r].val)
  BY <1>1, <1>4, RValueFacts
<1>6. ty \in Types /\ Len(ty) = k /\ ty[1] = ecPrecise
  <2>1. 1 \in 1..k
    OBVIOUS
  <2>2. Unqualified(k) \in Types /\ Len(Unqualified(k)) = k /\ Unqualified(k)[1] = ecPrecise
    BY <2>1, UnqualifiedType
  <2>. QED  BY <1>4, <2>2
<1>7. val \in [Runs -> Worth(Len(ty))]
  BY <1>4, <1>5, <1>6
<1>8. ASSUME Accepted' PROVE Carries(ty, val)
  <2>1. temps[c].ty[1] = ecPrecise
    BY <1>3, <1>8
  <2>2. Agree(temps[c].val)
    BY <1>1, <1>2, <1>8, <2>1, IntFacts
  <2>3. Carries(ty, temps[l].val) /\ Carries(ty, temps[r].val)
    BY <1>2, <1>3, <1>4, <1>5, <1>8
  <2>. HIDE DEF ty
  <2>. QED  BY <1>6, <2>2, <2>3 DEF Carries, Agree, Runs
<1>9. e \in Shaped /\ (Accepted' => e \in Sound)
  BY <1>6, <1>7, <1>8, RValueShape, RValueSound
<1>. HIDE DEF e
<1>. QED  BY <1>1, <1>2, <1>9, YieldStep

LEMMA EndorsementStep ==
  ASSUME IInv, NEW t \in Temps, NEW q \in Quals, Endorsement(t, q)
  PROVE  IInv'
<1>. DEFINE ty == WithQuals(temps[t].ty, q)
            val == IF q = ecPrecise /\ IsInt(t) THEN Same(temps[t].val[1]) ELSE temps[t].val
            e == RValue(ty, val)
            met == IsPointer(t) /\ ty # temps[t].ty
<1>1. /\ IsRValue(t) /\ Yield(t, {}, e) /\ UNCHANGED <<mem, split, error>>
      /\ Meets(met, "endorsed pointer")
  BY DEF Endorsement
<1>2. Steady /\ (Accepted' => gap' = gap /\ Accepted)
  <2>1. "endorsed pointer" \in Gaps
    BY DEF Gaps
  <2>2. gap' \in {gap, "endorsed pointer"}
    BY <1>1 DEF Meets
  <2>. QED  BY <1>1, <2>1, <2>2, MeetsStep DEF Steady
<1>3. Accepted' /\ IsPointer(t) => ty = temps[t].ty
  <2>1. "endorsed pointer" # "none"
    OBVIOUS
  <2>2. Accepted' => ~met
    BY <1>1, <2>1 DEF Meets, Accepted
  <2>. QED  BY <2>2
<1>4. /\ temps[t].ty \in Types /\ Len(temps[t].ty) \in 1..3
      /\ temps[t].val \in [Runs -> Worth(Len(temps[t].ty))]
      /\ Accepted => Carries(temps[t].ty, temps[t].val)
  BY <1>1, RValueFacts
<1>5. ty \in Types /\ Len(ty) = Len(temps[t].ty) /\ ty[Len(temps[t].ty)] = q
  BY <1>4, WithQualsType
<1>6. val \in [Runs -> Worth(Len(ty))]
  BY <1>4, <1>5 DEF Same, Runs
<1>7. e \in Shaped
  BY <1>5, <1>6, RValueShape
<1>8. ASSUME Accepted', IsPointer(t) PROVE Carries(ty, val)
  <2>1. ~IsInt(t)
    <3>1. Len(temps[t].ty) > 1
      BY <1>8 DEF IsPointer
    <3>2. ~(1 > 1)
      OBVIOUS
    <3>. QED  BY <3>1, <3>2, Zenon DEF IsInt
  <2>. QED  BY <1>2, <1>3, <1>4, <1>8, <2>1
<1>9. ASSUME ~IsPointer(t) PROVE Carries(ty, val)
  <2>1. PICK k \in 1..3 : k = Len(temps[t].ty)
    BY <1>4
  <2>2. k = 1
    <3>1. ~(k > 1)
      BY <1>1, <1>9, <2>1, Zenon DEF IsPointer
    <3>. QED  BY <3>1
  <2>3. IsInt(t) /\ Len(ty) = 1 /\ ty[1] = q
    BY <1>1, <1>5, <2>1, <2>2 DEF IsInt
  <2>4. q = ecPrecise => Agree(val)
    BY <2>3 DEF Same, Agree, Runs
  <2>. HIDE DEF val, ty
  <2>. QED  BY <2>3, <2>4 DEF Carries
<1>10. Accepted' => e \in Sound
  BY <1>5, <1>6, <1>8, <1>9, RValueSound
<1>. HIDE DEF e
<1>. QED  BY <1>1, <1>2, <1>7, <1>10, YieldStep

LEMMA MathCallStep ==
  ASSUME IInv, NEW l \in Temps, NEW r \in Temps, MathCall(l, r)
  PROVE  IInv'
<1>. DEFINE ty == WithQuals(Unqualified(1), temps[l].ty[1])
            val == [n \in Runs |-> temps[l].val[n] * temps[r].val[n]]
            e == RValue(ty, val)
            met == temps[r].ty[1] = ecApprox /\ temps[l].ty[1] = ecPrecise
<1>1. /\ IsInt(l) /\ IsInt(r) /\ Yield(l, {r}, e) /\ UNCHANGED <<mem, split, error>>
      /\ Meets(met, "math")
  BY DEF MathCall
<1>2. Steady /\ (Accepted' => gap' = gap /\ Accepted)
  <2>1. "math" \in Gaps
    BY DEF Gaps
  <2>2. gap' \in {gap, "math"}
    BY <1>1 DEF Meets
  <2>. QED  BY <1>1, <2>1, <2>2, MeetsStep DEF Steady
<1>3. Accepted' => ~met
  <2>1. "math" # "none"
    OBVIOUS
  <2>. QED  BY <1>1, <2>1 DEF Meets, Accepted
<1>4. /\ temps[l].ty[1] \in Quals /\ temps[l].val \in [Runs -> Ints]
      /\ Accepted /\ temps[l].ty[1] = ecPrecise => Agree(temps[l].val)
  BY <1>1, IntFacts
<1>5. /\ temps[r].ty[1] \in Quals /\ temps[r].val \in [Runs -> Ints]
      /\ Accepted /\ temps[r].ty[1] = ecPrecise => Agree(temps[r].val)
  BY <1>1, IntFacts
<1>6. ty \in Types /\ Len(ty) = 1 /\ ty[1] = temps[l].ty[1]
  <2>1. Unqualified(1) \in Types /\ Len(Unqualified(1)) = 1
    BY UnqualifiedType
  <2>. QED  BY <1>4, <2>1, WithQualsType
<1>7. val \in [Runs -> Ints]
  <2>1. \A x, y \in Ints : x * y \in Ints
    <3>1. \A x, y \in {0, 1} : x * y \in {0, 1}
      OBVIOUS
    <3>2. Ints = {0, 1}
      BY DEF Ints
    <3>. QED  BY <3>1, <3>2
  <2>. QED  BY <1>4, <1>5, <2>1
<1>8. ASSUME Accepted', ty[1] = ecPrecise PROVE Agree(val)
  <2>1. temps[l].ty[1] = ecPrecise
    BY <1>6, <1>8
  <2>2. temps[r].ty[1] = ecPrecise
    BY <1>3, <1>5, <1>8, <2>1 DEF Quals
  <2>3. Agree(temps[l].val) /\ Agree(temps[r].val)
    BY <1>2, <1>4, <1>5, <1>8, <2>1, <2>2
  <2>. QED  BY <2>3 DEF Agree, Runs
<1>9. e \in Shaped /\ (Accepted' => e \in Sound)
  BY <1>6, <1>7, <1>8, IntOperand
<1>. HIDE DEF e
<1>. QED  BY <1>1, <1>2, <1>9, YieldStep

\* Writing what is of the type of an lvalue leaves memory sound.
LEMMA WriteThrough ==
  ASSUME IInv, NEW addr \in [Runs -> Vars], NEW ty \in Types,
         \A r \in Runs : Depth[addr[r]] = Len(ty),
         Accepted => Agree(addr) /\ DeclType(addr[1]) = ty,
         NEW val \in [Runs -> Worth(Len(ty))], Write(addr, val)
  PROVE  /\ mem' \in [Runs -> Memory]
         /\ Accepted /\ Carries(ty, val) => MemorySound'
<1>1. mem \in [Runs -> Memory]
  BY DEF IInv, ShapeInv
<1>2. \A r \in Runs : addr[r] \in Vars /\ val[r] \in Worth(Depth[addr[r]])
  OBVIOUS
<1>3. mem' \in [Runs -> Memory]
  BY <1>1, <1>2, WriteShape
<1>4. ASSUME Accepted, Carries(ty, val) PROVE MemorySound'
  <2>1. MemorySound /\ addr[1] \in Vars /\ addr[2] = addr[1]
    BY <1>4 DEF IInv, FlowInv, Agree, Runs
  <2>2. Carries(DeclType(addr[1]), val)
    BY <1>4
  <2>. QED  BY <1>1, <2>1, <2>2, WriteSound
<1>. QED  BY <1>3, <1>4

LEMMA FinishStep ==
  ASSUME IInv, NEW l \in Temps, NEW r \in Temps, NEW used \in BOOLEAN, IsLValue(l),
         NEW val \in [Runs -> Worth(Len(temps[l].ty))], Finish(l, r, used, val),
         Write(temps[l].val, val), UNCHANGED split,
         error' \in BOOLEAN, ~error' => ~error /\ (Accepted => Carries(temps[l].ty, val))
  PROVE  IInv'
<1>. DEFINE ty == temps[l].ty
            e == RValue(AssignType(ty), val)
<1>1. /\ ty \in Types /\ Len(ty) \in 1..2 /\ temps[l].val \in [Runs -> Vars]
      /\ \A n \in Runs : Depth[temps[l].val[n]] = Len(ty)
      /\ Accepted => Agree(temps[l].val) /\ DeclType(temps[l].val[1]) = ty
  BY LValueFacts
<1>2. mem' \in [Runs -> Memory] /\ (Accepted /\ Carries(ty, val) => MemorySound')
  <2>. HIDE DEF ty
  <2>. QED  BY <1>1, WriteThrough DEF ty
<1>3. gap' \in Gaps \cup {"none"} /\ (gap' = "none" => gap = "none")
  <2>1. gap \in Gaps \cup {"none"} /\ "chained" \in Gaps /\ "chained" # "none"
    BY DEF IInv, ShapeInv, Gaps
  <2>. QED  BY <2>1 DEF Finish, Meets
<1>4. Accepted' => Accepted
  BY <1>3 DEF Accepted
<1>5. Accepted' => ~error'
  BY DEF Accepted
<1>6. Accepted => ~split
  BY DEF IInv, FlowInv
<1>7. split' = split /\ split \in BOOLEAN
  BY DEF IInv, ShapeInv
<1>8. Steady
  BY <1>2, <1>3, <1>4, <1>5, <1>6, <1>7 DEF Steady
<1>9. CASE used
  <2>1. Yield(l, {r}, e) /\ Meets(AssignType(ty) # ty, "chained")
    BY <1>9 DEF Finish
  <2>2. AssignType(ty) \in Types /\ Len(AssignType(ty)) = Len(ty)
    <3>1. ty[1] \in Quals /\ Len(ty) \in 1..3
      BY <1>1, TypeFacts
    <3>2. Unqualified(Len(ty)) \in Types /\ Len(Unqualified(Len(ty))) = Len(ty)
      BY <3>1, UnqualifiedType
    <3>. HIDE DEF ty
    <3>. QED  BY <3>1, <3>2, WithQualsType DEF AssignType
  <2>3. ASSUME Accepted' PROVE e \in Sound
    <3>1. "chained" # "none"
      OBVIOUS
    <3>2. AssignType(ty) = ty
      BY <2>1, <2>3, <3>1 DEF Meets, Accepted
    <3>3. Carries(AssignType(ty), val)
      BY <1>4, <1>5, <2>3, <3>2
    <3>. QED  BY <2>2, <3>3, RValueSound
  <2>4. e \in Shaped
    BY <2>2, RValueShape
  <2>. HIDE DEF e
  <2>. QED  BY <1>8, <2>1, <2>3, <2>4, YieldStep
<1>10. CASE ~used
  BY <1>8, <1>10, ConsumeStep DEF Finish
<1>. QED  BY <1>9, <1>10

LEMMA AssignStep ==
  ASSUME IInv, NEW l \in Temps, NEW r \in Temps, NEW used \in BOOLEAN, Assign(l, r, used)
  PROVE  IInv'
<1>1. /\ IsLValue(l) /\ IsRValue(r) /\ Len(temps[l].ty) = Len(temps[r].ty)
      /\ Write(temps[l].val, temps[r].val) /\ Finish(l, r, used, temps[r].val)
      /\ UNCHANGED split
  BY DEF Assign
<1>2. temps[r].val \in [Runs -> Worth(Len(temps[l].ty))]
  BY <1>1, RValueFacts
<1>3. error' \in BOOLEAN /\ (~error' => ~error /\ AssertFlow(temps[l].ty, temps[r]))
  BY Zenon DEF Assign, Reports
<1>4. ASSUME Accepted, ~error' PROVE Carries(temps[l].ty, temps[r].val)
  BY <1>1, <1>3, <1>4, LValueFacts, FlowCarries
<1>. QED  BY <1>1, <1>2, <1>3, <1>4, FinishStep

LEMMA CompoundAssignStep ==
  ASSUME IInv, NEW l \in Temps, NEW r \in Temps, NEW used \in BOOLEAN,
         CompoundAssign(l, r, used)
  PROVE  IInv'
<1>. DEFINE ty == temps[l].ty
            old == Read(temps[l].val)
            val == Sum(ty, old, temps[r].val)
<1>1. /\ IsLValue(l) /\ IsInt(r)
      /\ Write(temps[l].val, val) /\ Finish(l, r, used, val)
      /\ UNCHANGED split
  BY DEF CompoundAssign
<1>2. /\ ty \in Types /\ old \in [Runs -> Worth(Len(ty))]
      /\ Accepted => Carries(ty, old)
  BY <1>1, LValueFacts, ReadFacts
<1>3. /\ IsRValue(r) /\ temps[r].ty \in Types /\ Len(temps[r].ty) = 1
      /\ temps[r].val \in [Runs -> Ints] /\ temps[r].ty[1] \in Quals
      /\ Accepted /\ temps[r].ty[1] = ecPrecise => Agree(temps[r].val)
  BY <1>1, IntFacts
<1>4. val \in [Runs -> Worth(Len(ty))]
  BY <1>2, <1>3, SumShape
<1>5. error' \in BOOLEAN /\ (~error' => ~error /\ AssertFlow(ty, temps[r]))
  BY Zenon DEF CompoundAssign, Reports
<1>6. ASSUME Accepted, ~error' PROVE Carries(ty, val)
  <2>1. temps[r].exempt => Agree(temps[r].val)
    BY <1>3, <1>6, SoundOperand DEF IsRValue
  <2>2. ty[1] = ecPrecise => Agree(temps[r].val)
    BY <1>3, <1>5, <1>6, <2>1 DEF AssertFlow, Compatible, CompatibleQuals, ecPrecise, ecApprox
  <2>. HIDE DEF ty, old
  <2>. QED  BY <1>2, <1>6, <2>2, SumCarries
<1>. HIDE DEF val
<1>. QED  BY <1>1, <1>4, <1>5, <1>6, FinishStep

LEMMA IncrementStep ==
  ASSUME IInv, NEW l \in Temps, Increment(l)
  PROVE  IInv'
<1>. DEFINE ty == temps[l].ty
            old == Read(temps[l].val)
            val == Sum(ty, old, Same(1))
            e == RValue(ty, old)
<1>1. IsLValue(l) /\ Write(temps[l].val, val) /\ Quiet
  BY DEF Increment
<1>2. /\ ty \in Types /\ old \in [Runs -> Worth(Len(ty))]
      /\ Accepted => Carries(ty, old)
      /\ temps[l].val \in [Runs -> Vars]
      /\ \A n \in Runs : Depth[temps[l].val[n]] = Len(ty)
      /\ Accepted => Agree(temps[l].val) /\ DeclType(temps[l].val[1]) = ty
  BY <1>1, LValueFacts, ReadFacts
<1>3. Yield(l, {}, e)
  BY <1>2, CopyOntoUnqualified DEF Increment
<1>4. Same(1) \in [Runs -> Ints] /\ Agree(Same(1))
  BY DEF Same, Ints, Agree, Runs
<1>5. val \in [Runs -> Worth(Len(ty))]
  BY <1>2, <1>4, SumShape
<1>6. Accepted => Carries(ty, val)
  <2>. HIDE DEF ty, old
  <2>. QED  BY <1>2, <1>4, SumCarries
<1>7. mem' \in [Runs -> Memory] /\ (Accepted /\ Carries(ty, val) => MemorySound')
  <2>. HIDE DEF ty, val
  <2>. QED  BY <1>1, <1>2, <1>5, WriteThrough
<1>8. split' = split /\ error' = error /\ gap' = gap /\ (Accepted' => Accepted)
  BY <1>1 DEF Quiet, Accepted
<1>9. Steady
  BY <1>6, <1>7, <1>8 DEF Steady, IInv, ShapeInv, FlowInv
<1>10. e \in Shaped /\ (Accepted' => e \in Sound)
  <2>. HIDE DEF ty, old
  <2>. QED  BY <1>2, <1>8, RValueShape, RValueSound
<1>. HIDE DEF e
<1>. QED  BY <1>3, <1>9, <1>10, YieldStep

\* What a declaration writes.
LEMMA InitWrites ==
  ASSUME IInv, NEW t \in Temps, NEW v \in Vars, IsRValue(t), Len(temps[t].ty) = Depth[v],
         Write(Same(v), temps[t].val)
  PROVE  /\ mem' \in [Runs -> Memory]
         /\ Accepted /\ AssertFlow(DeclType(v), temps[t]) => MemorySound'
<1>1. /\ DeclType(v) \in Types /\ Len(DeclType(v)) = Depth[v]
      /\ Depth[v] > 1 => DeclType(v)[1] = ecPrecise
  BY DeclTypeType
<1>2. /\ Same(v) \in [Runs -> Vars] /\ Agree(Same(v)) /\ Same(v)[1] = v
      /\ \A r \in Runs : Same(v)[r] = v
  BY DEF Same, Agree, Runs
<1>3. temps[t].val \in [Runs -> Worth(Len(DeclType(v)))]
  BY <1>1, RValueFacts
<1>4. /\ mem' \in [Runs -> Memory]
      /\ Accepted /\ Carries(DeclType(v), temps[t].val) => MemorySound'
  BY <1>1, <1>2, <1>3, WriteThrough
<1>5. Accepted /\ AssertFlow(DeclType(v), temps[t]) => Carries(DeclType(v), temps[t].val)
  BY <1>1, FlowCarries
<1>. QED  BY <1>4, <1>5

LEMMA InitDeclStep ==
  ASSUME IInv, NEW t \in Temps, NEW v \in Vars, InitDecl(t, v)
  PROVE  IInv'
<1>1. /\ IsRValue(t) /\ Len(temps[t].ty) = Depth[v]
      /\ Write(Same(v), temps[t].val) /\ Consume({t})
      /\ split' = split /\ gap' = gap
  BY DEF InitDecl
<1>2. error' \in BOOLEAN /\ (~error' => ~error /\ AssertFlow(DeclType(v), temps[t]))
  BY Zenon DEF InitDecl, Reports
<1>3. Accepted' => Accepted /\ ~error'
  BY <1>1, <1>2 DEF Accepted
<1>4. /\ mem' \in [Runs -> Memory]
      /\ Accepted /\ AssertFlow(DeclType(v), temps[t]) => MemorySound'
  BY <1>1, InitWrites
<1>5. Steady
  BY <1>1, <1>2, <1>3, <1>4 DEF Steady, IInv, ShapeInv, FlowInv
<1>. QED  BY <1>1, <1>5, ConsumeStep

LEMMA InitListStep ==
  ASSUME IInv, NEW t \in Temps, NEW v \in Vars, InitList(t, v)
  PROVE  IInv'
<1>. DEFINE met == ~AssertFlow(DeclType(v), temps[t])
<1>1. /\ IsRValue(t) /\ Len(temps[t].ty) = Depth[v]
      /\ Write(Same(v), temps[t].val) /\ Consume({t})
      /\ split' = split /\ error' = error /\ Meets(met, "initializer")
  BY DEF InitList
<1>2. "initializer" \in Gaps /\ "initializer" # "none"
  BY DEF Gaps
<1>3. gap' \in Gaps \cup {"none"} /\ (Accepted' => Accepted /\ ~met)
  BY <1>1, <1>2 DEF Meets, Accepted, IInv, ShapeInv
<1>4. /\ mem' \in [Runs -> Memory]
      /\ Accepted /\ AssertFlow(DeclType(v), temps[t]) => MemorySound'
  BY <1>1, InitWrites
<1>5. Steady
  BY <1>1, <1>3, <1>4 DEF Steady, IInv, ShapeInv, FlowInv
<1>. QED  BY <1>1, <1>5, ConsumeStep

LEMMA MemcpyStep ==
  ASSUME IInv, NEW l \in Temps, NEW r \in Temps, Memcpy(l, r)
  PROVE  IInv'
<1>. DEFINE lty == InnerType(temps[l].ty)
            rty == InnerType(temps[r].ty)
            val == Read(temps[r].val)
            met == ~Compatible(lty, rty)
<1>1. /\ IsValid(l) /\ IsValid(r) /\ Len(temps[l].ty) = Len(temps[r].ty)
      /\ Write(temps[l].val, val) /\ Consume({l, r})
      /\ split' = split /\ error' = error /\ Meets(met, "memory")
  BY DEF Memcpy
<1>2. "memory" \in Gaps /\ "memory" # "none"
  BY DEF Gaps
<1>3. gap' \in Gaps \cup {"none"} /\ (Accepted' => Accepted /\ ~met)
  BY <1>1, <1>2 DEF Meets, Accepted, IInv, ShapeInv
<1>4. /\ lty \in Types /\ Len(lty) \in 1..2 /\ temps[l].val \in [Runs -> Vars]
      /\ \A n \in Runs : temps[l].val[n] \in Vars /\ Depth[temps[l].val[n]] = Len(lty)
      /\ Accepted => Agree(temps[l].val) /\ DeclType(temps[l].val[1]) = lty
  BY <1>1, ValidFacts
<1>5. /\ rty \in Types /\ temps[r].val \in [Runs -> Vars]
      /\ \A n \in Runs : temps[r].val[n] \in Vars /\ Depth[temps[r].val[n]] = Len(rty)
      /\ Accepted => Agree(temps[r].val) /\ DeclType(temps[r].val[1]) = rty
  BY <1>1, ValidFacts
<1>6. Len(rty) = Len(lty)
  BY <1>1, ValidFacts
<1>7. val \in [Runs -> Worth(Len(lty))]
  <2>. HIDE DEF lty, rty
  <2>. QED  BY <1>5, <1>6, ReadShape DEF IInv, ShapeInv
<1>8. ASSUME Accepted PROVE Carries(rty, val)
  <2>1. temps[r].val[1] \in Vars /\ temps[r].val[2] = temps[r].val[1] /\ MemorySound
    BY <1>5, <1>8 DEF Agree, Runs, IInv, FlowInv
  <2>. HIDE DEF rty
  <2>. QED  BY <1>5, <1>8, <2>1, ReadCarries
<1>9. ASSUME Accepted PROVE Len(lty) > 1 => lty[1] = ecPrecise
  <2>1. temps[l].val[1] \in Vars /\ DeclType(temps[l].val[1]) = lty
    BY <1>4, <1>9 DEF Runs
  <2>2. Depth[temps[l].val[1]] = Len(lty)
    BY <1>4 DEF Runs
  <2>. HIDE DEF lty
  <2>. QED  BY <2>1, <2>2, DeclTypeType
<1>10. ASSUME Accepted, Compatible(lty, rty) PROVE Carries(lty, val)
  <2>. HIDE DEF lty, rty, val
  <2>. QED  BY <1>4, <1>5, <1>6, <1>8, <1>9, <1>10, CompatibleCarries
<1>11. mem' \in [Runs -> Memory] /\ (Accepted /\ Carries(lty, val) => MemorySound')
  <2>. HIDE DEF lty, val
  <2>. QED  BY <1>1, <1>4, <1>7, WriteThrough
<1>12. Steady
  BY <1>1, <1>3, <1>10, <1>11 DEF Steady, IInv, ShapeInv, FlowInv
<1>. QED  BY <1>1, <1>12, ConsumeStep

\* A callee whose return statement was accepted keeps what its parameter promised.
LEMMA CallFacts ==
  ASSUME IInv, NEW t \in Temps, NEW n \in 1..2, NEW param \in DeclTypes(n),
         NEW ret \in DeclTypes(n), IsRValue(t), Len(temps[t].ty) = Len(param),
         Returns(ret, param)
  PROVE  /\ ret \in Types /\ temps[t].val \in [Runs -> Worth(Len(ret))]
         /\ RValue(ret, temps[t].val) \in Shaped
         /\ Accepted /\ AssertFlow(param, temps[t]) => RValue(ret, temps[t].val) \in Sound
<1>1. param \in Types /\ Len(param) = n /\ (n > 1 => param[1] = ecPrecise)
  BY DeclaredTypes
<1>2. ret \in Types /\ Len(ret) = n /\ (n > 1 => ret[1] = ecPrecise)
  BY DeclaredTypes
<1>3. temps[t].val \in [Runs -> Worth(Len(ret))]
  BY <1>1, <1>2, RValueFacts
<1>4. ASSUME Accepted, AssertFlow(param, temps[t]) PROVE Carries(ret, temps[t].val)
  <2>1. Carries(param, temps[t].val)
    BY <1>1, <1>4, FlowCarries
  <2>. QED  BY <1>1, <1>2, <2>1, CompatibleCarries DEF Returns
<1>. QED  BY <1>2, <1>3, <1>4, RValueShape, RValueSound

LEMMA CallStep ==
  ASSUME IInv, NEW t \in Temps, NEW n \in 1..2, NEW param \in DeclTypes(n),
         NEW ret \in DeclTypes(n), Call(t, param, ret)
  PROVE  IInv'
<1>1. /\ IsRValue(t) /\ Len(temps[t].ty) = Len(param) /\ Returns(ret, param)
      /\ mem' = mem /\ split' = split /\ gap' = gap
  BY DEF Call
<1>2. /\ ret \in Types /\ RValue(ret, temps[t].val) \in Shaped
      /\ Accepted /\ AssertFlow(param, temps[t]) => RValue(ret, temps[t].val) \in Sound
  BY <1>1, CallFacts
<1>3. Yield(t, {}, RValue(ret, temps[t].val))
  BY <1>2, CopyOntoUnqualified DEF Call
<1>4. error' \in BOOLEAN /\ (~error' => ~error /\ AssertFlow(param, temps[t]))
  BY Zenon DEF Call, Reports
<1>5. Accepted' => Accepted /\ AssertFlow(param, temps[t])
  BY <1>1, <1>4 DEF Accepted
<1>6. Steady
  BY <1>1, <1>4, <1>5, IdleMemory DEF Steady, IInv, ShapeInv
<1>. QED  BY <1>2, <1>3, <1>5, <1>6, YieldStep

LEMMA PointerCallStep ==
  ASSUME IInv, NEW t \in Temps, NEW n \in 1..2, NEW param \in DeclTypes(n),
         NEW ret \in DeclTypes(n), PointerCall(t, param, ret)
  PROVE  IInv'
<1>. DEFINE ty == Unqualified(Len(ret))
            e == RValue(ty, temps[t].val)
            met == ~AssertFlow(param, temps[t]) \/ ty # ret
<1>1. /\ IsRValue(t) /\ Len(temps[t].ty) = Len(param) /\ Returns(ret, param)
      /\ UNCHANGED <<mem, split, error>> /\ Yield(t, {}, e) /\ Meets(met, "pointer call")
  BY DEF PointerCall
<1>2. /\ ret \in Types /\ RValue(ret, temps[t].val) \in Shaped
      /\ temps[t].val \in [Runs -> Worth(Len(ret))]
      /\ Accepted /\ AssertFlow(param, temps[t]) => RValue(ret, temps[t].val) \in Sound
  BY <1>1, CallFacts
<1>3. Steady /\ (Accepted' => gap' = gap /\ Accepted)
  <2>1. "pointer call" \in Gaps
    BY DEF Gaps
  <2>2. gap' \in {gap, "pointer call"}
    BY <1>1 DEF Meets
  <2>. QED  BY <1>1, <2>1, <2>2, MeetsStep DEF Steady
<1>4. Accepted' => AssertFlow(param, temps[t]) /\ ty = ret
  <2>1. "pointer call" # "none"
    OBVIOUS
  <2>2. Accepted' => ~met
    BY <1>1, <2>1 DEF Meets, Accepted
  <2>. QED  BY <2>2
<1>5. e \in Shaped
  <2>1. Len(ret) \in 1..3
    BY <1>2, TypeFacts
  <2>2. ty \in Types /\ Len(ty) = Len(ret)
    BY <2>1, UnqualifiedType
  <2>. QED  BY <1>2, <2>2, RValueShape
<1>6. Accepted' => e \in Sound
  BY <1>2, <1>3, <1>4
<1>. HIDE DEF e
<1>. QED  BY <1>1, <1>3, <1>5, <1>6, YieldStep

LEMMA ConditionStep ==
  ASSUME IInv, NEW t \in Temps, Condition(t)
  PROVE  IInv'
<1>1. IsRValue(t) /\ Consume({t}) /\ mem' = mem /\ gap' = gap
  BY DEF Condition
<1>2. error' \in BOOLEAN /\ (~error' => ~error /\ temps[t].ty[1] # ecApprox)
  BY Zenon DEF Condition, Reports
<1>3. split' \in BOOLEAN /\ (~split /\ Agree(temps[t].val) => ~split')
  BY Zenon DEF Condition
<1>4. Accepted' => Accepted /\ temps[t].ty[1] # ecApprox
  BY <1>1, <1>2 DEF Accepted
<1>5. ASSUME Accepted' PROVE Agree(temps[t].val)
  <2>1. temps[t].ty \in Types /\ Len(temps[t].ty) \in 1..3 /\ Carries(temps[t].ty, temps[t].val)
    BY <1>1, <1>4, <1>5, RValueFacts
  <2>2. temps[t].ty[1] \in Quals
    BY <2>1, TypeFacts
  <2>. QED  BY <1>4, <1>5, <2>1, <2>2 DEF Carries, Quals
<1>6. Steady
  BY <1>1, <1>2, <1>3, <1>4, <1>5, IdleMemory DEF Steady, IInv, ShapeInv
<1>. QED  BY <1>1, <1>6, ConsumeStep

LEMMA ShortCircuitStep ==
  ASSUME IInv, NEW t \in Temps, ShortCircuit(t)
  PROVE  IInv'
<1>. DEFINE met == temps[t].ty[1] = ecApprox
<1>1. /\ IsRValue(t) /\ temps' = temps /\ mem' = mem /\ error' = error
      /\ Meets(met, "short circuit")
  BY DEF ShortCircuit
<1>2. "short circuit" \in Gaps /\ "short circuit" # "none"
  BY DEF Gaps
<1>3. gap' \in Gaps \cup {"none"} /\ (Accepted' => Accepted /\ ~met)
  BY <1>1, <1>2 DEF Meets, Accepted, IInv, ShapeInv
<1>4. split' \in BOOLEAN /\ (~split /\ Agree(temps[t].val) => ~split')
  BY Zenon DEF ShortCircuit
<1>5. ASSUME Accepted' PROVE Agree(temps[t].val)
  <2>1. temps[t].ty \in Types /\ Len(temps[t].ty) \in 1..3 /\ Carries(temps[t].ty, temps[t].val)
    BY <1>1, <1>3, <1>5, RValueFacts
  <2>2. temps[t].ty[1] \in Quals
    BY <2>1, TypeFacts
  <2>. QED  BY <1>3, <1>5, <2>1, <2>2 DEF Carries, Quals
<1>6. Steady
  BY <1>1, <1>3, <1>4, <1>5, IdleMemory DEF Steady, IInv, ShapeInv
<1>7. ShapeInv'
  BY <1>1, <1>6 DEF Steady, ShapeInv, IInv
<1>8. FlowInv'
  BY <1>1, <1>6 DEF Steady, FlowInv, IInv
<1>. QED  BY <1>7, <1>8 DEF IInv

LEMMA ExprStmtStep ==
  ASSUME IInv, NEW t \in Temps, ExprStmt(t)
  PROVE  IInv'
BY PureStep, ConsumeStep DEF ExprStmt

LEMMA PerturbStep ==
  ASSUME IInv, NEW v \in Vars, NEW n \in Ints, Perturb(v, n)
  PROVE  IInv'
<1>1. v \in Approx /\ Depth[v] = 1 /\ mem' = [mem EXCEPT ![2][v] = n] /\ temps' = temps
  BY DEF Perturb
<1>2. split' = split /\ error' = error /\ gap' = gap
  BY DEF Perturb, Quiet
<1>3. mem \in [Runs -> Memory]
  BY DEF IInv, ShapeInv
<1>4. mem[2] \in Memory /\ mem[2] \in [Vars -> Values]
  BY <1>3 DEF Memory, Runs
<1>5. mem'[2] = [mem[2] EXCEPT ![v] = n] /\ mem'[1] = mem[1] /\ mem' \in [Runs -> {mem[1], mem'[2]}]
  BY <1>1, <1>3 DEF Runs
<1>6. mem'[2] \in Memory
  <2>1. n \in Values /\ n \in Worth(Depth[v])
    BY <1>1 DEF Values, Worth
  <2>2. [mem[2] EXCEPT ![v] = n] \in [Vars -> Values]
    BY <1>4, <2>1
  <2>3. \A w \in Vars : [mem[2] EXCEPT ![v] = n][w] \in Worth(Depth[w])
    BY <1>4, <2>1 DEF Memory
  <2>. QED  BY <1>5, <2>2, <2>3 DEF Memory
<1>7. mem' \in [Runs -> Memory]
  BY <1>3, <1>5, <1>6 DEF Runs
<1>8. ASSUME MemorySound PROVE MemorySound'
  <2>. SUFFICES ASSUME NEW w \in Vars
                PROVE  Carries(DeclType(w), [r \in Runs |-> mem'[r][w]])
    BY DEF MemorySound
  <2>1. CASE w = v
    <3>1. DeclType(w)[1] = ecApprox /\ Len(DeclType(w)) = 1
      BY <1>1, <2>1, DeclTypeType
    <3>. QED  BY <3>1 DEF Carries, ecApprox, ecPrecise
  <2>2. CASE w # v
    <3>1. mem'[1][w] = mem[1][w] /\ mem'[2][w] = mem[2][w]
      BY <1>4, <1>5, <2>2
    <3>2. Carries(DeclType(w), [r \in Runs |-> mem[r][w]])
      BY <1>8 DEF MemorySound
    <3>. QED  BY <3>1, <3>2 DEF Carries, Agree, Runs
  <2>. QED  BY <2>1, <2>2
<1>9. ShapeInv'
  BY <1>1, <1>2, <1>7 DEF ShapeInv, IInv
<1>10. FlowInv'
  BY <1>1, <1>2, <1>8 DEF FlowInv, IInv, Accepted
<1>. QED  BY <1>9, <1>10 DEF IInv

-----------------------------------------------------------------------------
(* The invariant.                                                          *)

LEMMA InitIInv == Init => IInv
<1>. SUFFICES ASSUME Init PROVE IInv
  OBVIOUS
<1>1. PICK m \in [{v \in Vars : Depth[v] = 1} -> Ints] :
        mem = Same([v \in Vars |-> IF Depth[v] = 1 THEN m[v] ELSE Null])
  BY DEF Init
<1>. DEFINE cells == [v \in Vars |-> IF Depth[v] = 1 THEN m[v] ELSE Null]
<1>2. cells \in Memory
  <2>1. \A v \in Vars : cells[v] \in Values /\ cells[v] \in Worth(Depth[v])
    BY DEF Values, Worth, Addresses
  <2>. QED  BY <2>1 DEF Memory
<1>3. \A r \in Runs : mem[r] = cells
  BY <1>1 DEF Same
<1>4. mem \in [Runs -> Memory]
  BY <1>1, <1>2 DEF Same
<1>5. ShapeInv
  BY <1>4 DEF Init, ShapeInv
<1>6. MemorySound
  <2>. SUFFICES ASSUME NEW v \in Vars
                PROVE  Carries(DeclType(v), [r \in Runs |-> mem[r][v]])
    BY DEF MemorySound
  <2>1. mem[1][v] = mem[2][v] /\ (Depth[v] # 1 => mem[1][v] = Null)
    BY <1>3 DEF Runs
  <2>2. PICK k \in 1..2 : k = Depth[v]
    BY DeclTypeType
  <2>3. Len(DeclType(v)) = k /\ (k > 1 => DeclType(v)[1] = ecPrecise)
    BY <2>2, DeclTypeType
  <2>4. k > 1 => k # 1
    OBVIOUS
  <2>. HIDE DEF cells
  <2>. QED  BY <2>1, <2>2, <2>3, <2>4 DEF Carries, Agree, Runs
<1>7. FlowInv
  BY <1>6 DEF Init, FlowInv
<1>. QED  BY <1>5, <1>7 DEF IInv

LEMMA StutterStep == IInv /\ UNCHANGED vars => IInv'
<1>. SUFFICES ASSUME IInv, UNCHANGED vars PROVE IInv'
  OBVIOUS
<1>1. temps' = temps /\ mem' = mem /\ split' = split /\ error' = error /\ gap' = gap
  BY DEF vars
<1>2. Accepted' = Accepted /\ MemorySound' = MemorySound
  BY <1>1 DEF Accepted, MemorySound
<1>. QED  BY <1>1, <1>2 DEF IInv, ShapeInv, FlowInv

LEMMA StepIInv == IInv /\ [Next]_vars => IInv'
<1>. SUFFICES ASSUME IInv, [Next]_vars PROVE IInv'
  OBVIOUS
<1>1. ASSUME NEW t \in Temps, NEW n \in Ints, Literal(t, n) PROVE IInv'
  BY <1>1, LiteralStep
<1>2. ASSUME NEW t \in Temps, NEW v \in Vars, DeclRef(t, v) \/ InitDecl(t, v) \/ InitList(t, v)
      PROVE  IInv'
  BY <1>2, DeclRefStep, InitDeclStep, InitListStep
<1>3. ASSUME NEW t \in Temps,
             \/ NullPointer(t) \/ Load(t) \/ AddrOf(t) \/ Deref(t) \/ LogicalNot(t)
             \/ Increment(t)
      PROVE  IInv'
  BY <1>3, NullPointerStep, LoadStep, AddrOfStep, DerefStep, LogicalNotStep, IncrementStep
<1>4. ASSUME NEW t \in Temps, NEW q \in Quals, Endorsement(t, q) PROVE IInv'
  BY <1>4, EndorsementStep
<1>5. ASSUME NEW t \in Temps, NEW n \in 1..2, NEW param \in DeclTypes(n), NEW ret \in DeclTypes(n),
             Call(t, param, ret) \/ PointerCall(t, param, ret)
      PROVE  IInv'
  BY <1>5, CallStep, PointerCallStep
<1>6. ASSUME NEW t \in Temps, Condition(t) \/ ShortCircuit(t) \/ ExprStmt(t) PROVE IInv'
  BY <1>6, ConditionStep, ShortCircuitStep, ExprStmtStep
<1>7. ASSUME NEW l \in Temps, NEW r \in Temps,
             \/ Add(l, r) \/ Subscript(l, r) \/ Equal(l, r) \/ Comma(l, r)
             \/ Memcpy(l, r) \/ MathCall(l, r)
      PROVE  IInv'
  BY <1>7, AddStep, SubscriptStep, EqualStep, CommaStep, MemcpyStep, MathCallStep
<1>8. ASSUME NEW l \in Temps, NEW r \in Temps, NEW c \in Temps, Conditional(c, l, r) PROVE IInv'
  BY <1>8, ConditionalStep
<1>9. ASSUME NEW l \in Temps, NEW r \in Temps, NEW used \in BOOLEAN,
             Assign(l, r, used) \/ CompoundAssign(l, r, used)
      PROVE  IInv'
  BY <1>9, AssignStep, CompoundAssignStep
<1>10. ASSUME NEW v \in Vars, NEW n \in Ints, Perturb(v, n) PROVE IInv'
  BY <1>10, PerturbStep
<1>11. CASE UNCHANGED vars
  BY <1>11, StutterStep
<1>12. CASE Next
  BY <1>12, <1>1, <1>2, <1>3, <1>4, <1>5, <1>6, <1>7, <1>8, <1>9, <1>10, Zenon DEF Next
<1>. QED  BY <1>11, <1>12

\* In every state that a program can reach, operands and memory have the shape of
\* their types, and as long as the program is accepted they are sound.
THEOREM Invariance == Spec => []IInv
BY InitIInv, StepIInv, PTL DEF Spec

LEMMA InvImpliesPrecise == IInv => PreciseAgrees
<1>. SUFFICES ASSUME IInv, Accepted, NEW v \in Vars, DeclType(v)[1] = ecPrecise
              PROVE  ~split /\ mem[1][v] = mem[2][v]
  BY DEF PreciseAgrees, IInv, FlowInv
<1>1. ~split /\ Carries(DeclType(v), [r \in Runs |-> mem[r][v]])
  BY DEF IInv, FlowInv, MemorySound
<1>. QED  BY <1>1 DEF Carries, Agree, Runs

\* Approximate data does not flow into precise data (the rules of checkCondition
\* and assertFlow): for any variables, and any number of operands that wait.
THEOREM PreciseStaysPrecise == Spec => []PreciseAgrees
BY Invariance, InvImpliesPrecise, PTL

LEMMA InvImpliesAliases == IInv => AliasesAgree
<1>. SUFFICES ASSUME IInv, Accepted, NEW v \in Vars, NEW r \in Runs,
                     Depth[v] = 2, mem[r][v] # Null
              PROVE  DeclType(mem[r][v]) = InnerType(DeclType(v))
  BY DEF AliasesAgree, PointersAreTyped
<1>1. Carries(DeclType(v), [n \in Runs |-> mem[n][v]])
  BY DEF IInv, FlowInv, MemorySound
<1>2. Len(DeclType(v)) > 1
  <2>1. Len(DeclType(v)) = 2
    BY DeclTypeType
  <2>2. 2 > 1
    OBVIOUS
  <2>. QED  BY <2>1, <2>2, Zenon
<1>3. mem[1][v] = mem[2][v] /\ (mem[1][v] # Null => DeclType(mem[1][v]) = InnerType(DeclType(v)))
  BY <1>1, <1>2 DEF Carries, Agree, Runs
<1>4. r = 1 \/ r = 2
  BY DEF Runs
<1>. QED  BY <1>3, <1>4

\* Equality below the first level (QualsEqual, in compatible) keeps every stored
\* pointer away from data of the other kind.
THEOREM AliasesStayTyped == Spec => []AliasesAgree
BY Invariance, InvImpliesAliases, PTL

LEMMA InvImpliesTypes == IInv => TypeOK
<1>. SUFFICES ASSUME IInv PROVE TypeOK
  OBVIOUS
<1>1. temps \in [Temps -> Operands \cup {Free}]
  BY DEF IInv, ShapeInv, Shaped
<1>2. ASSUME NEW t \in Temps, IsInt(t) PROVE \A r \in Runs : temps[t].val[r] \in Ints
  BY <1>2, IntFacts
<1>3. mem \in [Runs -> [Vars -> Values]]
  BY DEF IInv, ShapeInv, Memory
<1>4. ASSUME NEW r \in Runs, NEW v \in Vars PROVE Depth[v] = 1 <=> mem[r][v] \in Ints
  <2>1. mem[r][v] \in Worth(Depth[v])
    BY DEF IInv, ShapeInv, Memory
  <2>2. Addresses \cap Ints = {}
    BY ConstantsAssumption DEF Addresses
  <2>. QED  BY <2>1, <2>2 DEF Worth
<1>5. split \in BOOLEAN /\ error \in BOOLEAN /\ gap \in Gaps \cup {"none"}
  BY DEF IInv, ShapeInv
<1>. QED  BY <1>1, <1>2, <1>3, <1>4, <1>5 DEF TypeOK

\* Operands, memory and the verdict keep their types.
THEOREM TypeCorrect == Spec => []TypeOK
BY Invariance, InvImpliesTypes, PTL
=============================================================================
