-------------------------- MODULE InductionLemmas --------------------------
(***************************************************************************)
(* Induction over the natural numbers and over finite sets, stated with    *)
(* sets instead of predicates, and what the sums of the library are: the   *)
(* facts that the proofs about scores, errors and results rest on.         *)
(***************************************************************************)
EXTENDS Integers, FiniteSets, Folds, Functions, FiniteSetTheorems,
        WellFoundedInduction, TLAPS

\* A set of natural numbers has a least member.
LEMMA LeastNatural ==
  ASSUME NEW T \in SUBSET Nat, T # {}
  PROVE  \E n \in T : \A m \in T : n <= m
<1>. DEFINE R == {p \in Nat \X Nat : p[1] < p[2]}
<1>1. OpToRel(<, Nat) = R
  BY Zenon DEF OpToRel
<1>2. IsWellFoundedOn(R, Nat)
  BY NatLessThanWellFounded, <1>1, Zenon
<1>3. \A m, n \in Nat : m < n => <<m, n>> \in R
  OBVIOUS
<1>. HIDE DEF R
<1>4. PICK n \in T : \A m \in T : <<m, n>> \notin R
  BY <1>2, WFMin
<1>5. \A m \in T : ~(m < n)
  BY <1>3, <1>4
<1>. QED  BY <1>5

\* A set that contains 0 and the successor of each member contains every number.
LEMMA Induction ==
  ASSUME NEW A \in SUBSET Nat, 0 \in A, \A n \in A : n + 1 \in A
  PROVE  A = Nat
<1>. SUFFICES ASSUME Nat \ A # {} PROVE FALSE
  OBVIOUS
<1>1. PICK n \in Nat \ A : \A m \in Nat \ A : n <= m
  BY LeastNatural
<1>2. n - 1 \in A /\ n # 0
  BY <1>1
<1>. QED  BY <1>1, <1>2

\* A function can be applied again and again: the recursion that does so has a
\* solution, which stays in the set.
LEMMA Iteration ==
  ASSUME NEW U, NEW u \in U, NEW F \in [U -> U]
  PROVE  \E g \in [Nat -> U] : g[0] = u /\ \A n \in Nat : g[n + 1] = F[g[n]]
<1>. DEFINE Solves(g, n) ==
              /\ g \in [0..n -> U] /\ g[0] = u
              /\ \A k \in 0..n : k + 1 \in 0..n => g[k + 1] = F[g[k]]
            A == {n \in Nat : \E g : Solves(g, n)}
            upTo(n) == CHOOSE g : Solves(g, n)
            G == [n \in Nat |-> upTo(n)[n]]
<1>1. 0 \in A
  <2>1. Solves([k \in 0..0 |-> u], 0)
    OBVIOUS
  <2>. QED  BY <2>1
<1>2. ASSUME NEW n \in A PROVE n + 1 \in A
  <2>1. PICK g : Solves(g, n)
    BY <1>2
  <2>. DEFINE h == [k \in 0..(n + 1) |-> IF k = n + 1 THEN F[g[n]] ELSE g[k]]
  <2>2. n \in Nat /\ n \in 0..n /\ n + 1 \in 0..(n + 1)
    BY <1>2
  <2>3. g[n] \in U /\ F[g[n]] \in U
    BY <2>1, <2>2
  <2>4. \A k \in 0..(n + 1) : k = n + 1 \/ k \in 0..n
    BY <2>2
  <2>5. h \in [0..(n + 1) -> U]
    BY <2>1, <2>3, <2>4
  <2>6. 0 \in 0..n /\ 0 \in 0..(n + 1) /\ 0 # n + 1
    BY <2>2
  <2>7. h[0] = u
    BY <2>1, <2>6
  <2>8. ASSUME NEW k \in 0..(n + 1), k + 1 \in 0..(n + 1) PROVE h[k + 1] = F[h[k]]
    <3>1. k # n + 1 /\ k \in 0..n /\ (k + 1 = n + 1 => k = n)
      BY <2>2, <2>8
    <3>2. h[k] = g[k]
      BY <3>1
    <3>3. CASE k + 1 = n + 1
      BY <2>2, <3>1, <3>2, <3>3
    <3>4. CASE k + 1 # n + 1
      <4>1. k + 1 \in 0..n
        BY <2>4, <2>8, <3>4
      <4>2. h[k + 1] = g[k + 1]
        BY <2>8, <3>4
      <4>. QED  BY <2>1, <3>1, <3>2, <4>1, <4>2
    <3>. QED  BY <3>3, <3>4
  <2>. HIDE DEF h
  <2>9. Solves(h, n + 1)
    BY <2>5, <2>7, <2>8
  <2>. QED  BY <2>2, <2>9
<1>3. A = Nat
  <2>1. A \in SUBSET Nat
    OBVIOUS
  <2>. HIDE DEF A
  <2>. QED  BY <1>1, <1>2, <2>1, Induction
<1>4. \A n \in Nat : Solves(upTo(n), n)
  <2>. TAKE n \in Nat
  <2>1. \E g : Solves(g, n)
    BY <1>3
  <2>. HIDE DEF Solves
  <2>. QED  BY <2>1
<1>5. ASSUME NEW n \in Nat PROVE upTo(n + 1)[n] = upTo(n)[n]
  <2>. DEFINE g == upTo(n)
              h == upTo(n + 1)
              B == {k \in Nat : k <= n => h[k] = g[k]}
  <2>1. Solves(g, n) /\ Solves(h, n + 1)
    <3>1. n + 1 \in Nat
      OBVIOUS
    <3>. HIDE DEF Solves, upTo
    <3>. QED  BY <1>4, <3>1
  <2>. HIDE DEF g, h
  <2>2. 0 \in B
    BY <2>1
  <2>3. ASSUME NEW k \in B PROVE k + 1 \in B
    <3>1. CASE k + 1 <= n
      <4>1. /\ k \in Nat /\ k <= n /\ k \in 0..n /\ k + 1 \in 0..n
            /\ k \in 0..(n + 1) /\ k + 1 \in 0..(n + 1)
        BY <2>3, <3>1
      <4>2. h[k] = g[k]
        BY <2>3, <4>1
      <4>3. h[k + 1] = F[h[k]] /\ g[k + 1] = F[g[k]]
        BY <2>1, <4>1
      <4>. QED  BY <4>1, <4>2, <4>3
    <3>. QED  BY <2>3, <3>1
  <2>4. n \in B
    <3>1. B \in SUBSET Nat
      OBVIOUS
    <3>. HIDE DEF B
    <3>2. B = Nat
      BY <2>2, <2>3, <3>1, Induction
    <3>. QED  BY <3>2
  <2>5. h[n] = g[n]
    BY <2>4
  <2>. QED  BY <2>5 DEF g, h
<1>6. ASSUME NEW n \in Nat PROVE upTo(n)[n] \in U /\ upTo(n)[0] = u /\ G[n] = upTo(n)[n]
  <2>. DEFINE g == upTo(n)
  <2>1. Solves(g, n)
    BY <1>4
  <2>2. G[n] = g[n]
    BY Zenon
  <2>. HIDE DEF g
  <2>3. n \in 0..n
    OBVIOUS
  <2>4. g[n] \in U /\ g[0] = u
    BY <2>1, <2>3
  <2>. QED  BY <2>2, <2>4 DEF g
<1>7. G[0] = u
  <2>. HIDE DEF G, upTo
  <2>. QED  BY <1>6
<1>8. ASSUME NEW n \in Nat PROVE G[n + 1] = F[G[n]]
  <2>1. n + 1 \in Nat /\ n \in 0..(n + 1) /\ n + 1 \in 0..(n + 1)
    OBVIOUS
  <2>2. upTo(n + 1)[n + 1] = F[upTo(n + 1)[n]]
    BY <1>4, <2>1
  <2>. HIDE DEF upTo, G
  <2>. QED  BY <1>5, <1>6, <2>1, <2>2
<1>9. G \in [Nat -> U]
  BY <1>6
<1>. QED  BY <1>7, <1>8, <1>9

\* Among subsets of a finite set there is one with no proper subset among them.
LEMMA LeastSet ==
  ASSUME NEW S, IsFiniteSet(S), NEW B \in SUBSET (SUBSET S), B # {}
  PROVE  \E T \in B : \A U \in B : U \subseteq T => U = T
<1>. DEFINE Sizes == {Cardinality(T) : T \in B}
<1>1. \A T \in B : IsFiniteSet(T) /\ Cardinality(T) \in Nat
  BY FS_Subset, FS_CardinalityType
<1>2. PICK n \in Sizes : \A m \in Sizes : n <= m
  <2>1. Sizes \in SUBSET Nat /\ Sizes # {}
    BY <1>1
  <2>. HIDE DEF Sizes
  <2>. QED  BY <2>1, LeastNatural
<1>3. PICK T \in B : Cardinality(T) = n
  OBVIOUS
<1>4. ASSUME NEW U \in B, U \subseteq T PROVE U = T
  <2>1. Cardinality(T) <= Cardinality(U)
    BY <1>2, <1>3
  <2>2. Cardinality(U) <= Cardinality(T) /\ (Cardinality(T) = Cardinality(U) => T = U)
    BY <1>1, <1>4, FS_Subset
  <2>. QED  BY <1>1, <2>1, <2>2
<1>. QED  BY <1>4

\* What holds of the empty set, and of a set when it holds of the set without one
\* of its members, holds of every subset of a finite set.
LEMMA SetInduction ==
  ASSUME NEW S, IsFiniteSet(S), NEW P \in SUBSET (SUBSET S), {} \in P,
         \A T \in SUBSET S : (\E x \in T : T \ {x} \in P) => T \in P
  PROVE  P = SUBSET S
<1>. SUFFICES ASSUME (SUBSET S) \ P # {} PROVE FALSE
  OBVIOUS
<1>1. PICK T \in (SUBSET S) \ P : \A U \in (SUBSET S) \ P : U \subseteq T => U = T
  <2>. DEFINE Rest == (SUBSET S) \ P
  <2>1. Rest \in SUBSET (SUBSET S) /\ Rest # {}
    OBVIOUS
  <2>. HIDE DEF Rest
  <2>2. \E T \in Rest : \A U \in Rest : U \subseteq T => U = T
    BY <2>1, LeastSet
  <2>. QED  BY <2>2 DEF Rest
<1>2. PICK x \in T : TRUE
  <2>1. T # {}
    OBVIOUS
  <2>. QED  BY <2>1
<1>3. T \ {x} \in P
  BY <1>1
<1>. QED  BY <1>1, <1>3

-----------------------------------------------------------------------------
(* Sums.                                                                   *)

AnyOf(T) == CHOOSE x \in T : TRUE

\* F is the recursive function that sums f over the subsets of S.
SumsUp(f, S, F) ==
  F = [T \in SUBSET S |-> IF T = {} THEN 0 ELSE f[AnyOf(T)] + F[T \ {AnyOf(T)}]]

LEMMA SumUnfolded ==
  ASSUME NEW f, NEW S
  PROVE  SumFunctionOnSet(f, S) = (CHOOSE F : SumsUp(f, S, F))[S]
BY Zenon DEF SumFunctionOnSet, FoldFunctionOnSet, MapThenFoldSet, SumsUp, AnyOf

\* The recursion has a solution: it has one on the sets of at most n members.
LEMMA SumExists ==
  ASSUME NEW S, IsFiniteSet(S), NEW f
  PROVE  \E F : SumsUp(f, S, F)
<1>. DEFINE Small(n) == {T \in SUBSET S : Cardinality(T) <= n}
            Solves(F, n) ==
              F = [T \in Small(n) |-> IF T = {} THEN 0
                                      ELSE f[AnyOf(T)] + F[T \ {AnyOf(T)}]]
            A == {n \in Nat : \E F : Solves(F, n)}
<1>1. \A T \in SUBSET S : IsFiniteSet(T) /\ Cardinality(T) \in Nat
  BY FS_Subset, FS_CardinalityType
<1>2. \A T \in SUBSET S : T # {} =>
        /\ AnyOf(T) \in T /\ T \ {AnyOf(T)} \in SUBSET S
        /\ Cardinality(T \ {AnyOf(T)}) = Cardinality(T) - 1
  BY <1>1, FS_RemoveElement DEF AnyOf
<1>3. 0 \in A
  <2>1. Small(0) = {{}}
    BY <1>1, FS_EmptySet
  <2>2. Solves([T \in {{}} |-> 0], 0)
    BY <2>1
  <2>. QED  BY <2>2
<1>4. ASSUME NEW n \in A PROVE n + 1 \in A
  <2>1. PICK F : Solves(F, n)
    BY <1>4
  <2>. DEFINE G == [T \in Small(n + 1) |-> IF T = {} THEN 0
                                         ELSE f[AnyOf(T)] + F[T \ {AnyOf(T)}]]
  <2>2. \A T \in Small(n + 1) : T # {} => T \ {AnyOf(T)} \in Small(n)
    BY <1>1, <1>2
  <2>3. \A T \in Small(n) : T \in Small(n + 1) /\ G[T] = F[T]
    <3>1. ASSUME NEW T \in Small(n) PROVE T \in Small(n + 1)
      BY <1>1
    <3>2. \A T \in Small(n) : F[T] = IF T = {} THEN 0 ELSE f[AnyOf(T)] + F[T \ {AnyOf(T)}]
      BY <2>1
    <3>. QED  BY <3>1, <3>2
  <2>4. Solves(G, n + 1)
    BY <2>2, <2>3
  <2>5. n + 1 \in Nat
    BY <1>4
  <2>. HIDE DEF G, Solves
  <2>. QED  BY <2>4, <2>5
<1>5. Cardinality(S) \in A
  <2>. HIDE DEF A
  <2>1. A \in SUBSET Nat
    BY DEF A
  <2>. QED  BY <1>1, <1>3, <1>4, <2>1, Induction
<1>6. PICK F : Solves(F, Cardinality(S))
  BY <1>5
<1>7. Small(Cardinality(S)) = SUBSET S
  BY FS_Subset
<1>. QED  BY <1>6, <1>7 DEF SumsUp

LEMMA SumIsSolution ==
  ASSUME NEW S, IsFiniteSet(S), NEW f
  PROVE  \E F : SumsUp(f, S, F) /\ SumFunctionOnSet(f, S) = F[S]
<1>1. SumsUp(f, S, CHOOSE F : SumsUp(f, S, F))
  BY SumExists
<1>. QED  BY <1>1, SumUnfolded, Zenon

LEMMA SumStep ==
  ASSUME NEW S, NEW f, NEW F, SumsUp(f, S, F)
  PROVE  /\ F[{}] = 0
         /\ \A T \in SUBSET S : T # {} =>
              /\ AnyOf(T) \in T /\ T \ {AnyOf(T)} \in SUBSET S
              /\ F[T] = f[AnyOf(T)] + F[T \ {AnyOf(T)}]
<1>1. \A T \in SUBSET S : F[T] = IF T = {} THEN 0 ELSE f[AnyOf(T)] + F[T \ {AnyOf(T)}]
  BY DEF SumsUp
<1>2. \A T \in SUBSET S : T # {} => AnyOf(T) \in T
  BY DEF AnyOf
<1>. QED  BY <1>1, <1>2

LEMMA SumsAreNumbers ==
  ASSUME NEW S, IsFiniteSet(S), NEW f, \A x \in S : f[x] \in Int, NEW F, SumsUp(f, S, F)
  PROVE  \A T \in SUBSET S : F[T] \in Int
<1>. DEFINE P == {T \in SUBSET S : F[T] \in Int}
<1>1. {} \in P
  BY SumStep
<1>2. ASSUME NEW T \in SUBSET S, T \notin P, T # {},
             \A U \in SUBSET S : U \subseteq T /\ U \notin P => U = T
      PROVE  FALSE
  <2>1. T \ {AnyOf(T)} # T /\ T \ {AnyOf(T)} \in SUBSET S
    BY <1>2, SumStep
  <2>2. F[T \ {AnyOf(T)}] \in Int
    BY <1>2, <2>1
  <2>3. f[AnyOf(T)] \in Int
    BY <1>2, SumStep
  <2>4. F[T] = f[AnyOf(T)] + F[T \ {AnyOf(T)}]
    BY <1>2, SumStep
  <2>5. F[T] \in Int
    BY <2>2, <2>3, <2>4
  <2>. QED  BY <1>2, <2>5
<1>. DEFINE Rest == (SUBSET S) \ P
<1>3. Rest \in SUBSET (SUBSET S)
  OBVIOUS
<1>4. CASE Rest # {}
  <2>. HIDE DEF Rest
  <2>1. PICK T \in Rest : \A U \in Rest : U \subseteq T => U = T
    BY <1>3, <1>4, LeastSet
  <2>2. T \in SUBSET S /\ T \notin P
    BY <2>1 DEF Rest
  <2>3. \A U \in SUBSET S : U \subseteq T /\ U \notin P => U = T
    BY <2>1 DEF Rest
  <2>. HIDE DEF P
  <2>. QED  BY <1>1, <1>2, <2>2, <2>3
<1>5. CASE Rest = {}
  BY <1>5
<1>. QED  BY <1>4, <1>5

\* The order in which a sum takes its members does not matter: any one may be first.
LEMMA AnyMayBeFirst ==
  ASSUME NEW S, IsFiniteSet(S), NEW f, \A x \in S : f[x] \in Int, NEW F, SumsUp(f, S, F)
  PROVE  \A T \in SUBSET S : \A x \in T : F[T] = f[x] + F[T \ {x}]
<1>. DEFINE P == {T \in SUBSET S : \A x \in T : F[T] = f[x] + F[T \ {x}]}
            Rest == (SUBSET S) \ P
<1>0. \A T \in SUBSET S : F[T] \in Int
  BY SumsAreNumbers
<1>1. ASSUME NEW T \in SUBSET S, T \notin P,
             \A U \in SUBSET S : U \subseteq T /\ U \notin P => U = T
      PROVE  FALSE
  <2>1. PICK x \in T : F[T] # f[x] + F[T \ {x}]
    BY <1>1
  <2>. DEFINE c == AnyOf(T)
  <2>2. c \in T /\ F[T] = f[c] + F[T \ {c}]
    BY <2>1, SumStep
  <2>3. x # c
    BY <2>1, <2>2
  <2>. HIDE DEF c
  <2>4. /\ T \ {c} \in SUBSET S /\ T \ {x} \in SUBSET S
        /\ T \ {c} # T /\ T \ {x} # T
    BY <2>2
  <2>5. T \ {c} \in P /\ T \ {x} \in P
    BY <1>1, <2>4
  <2>6. F[T \ {c}] = f[x] + F[(T \ {c}) \ {x}]
    BY <2>1, <2>3, <2>5
  <2>7. F[T \ {x}] = f[c] + F[(T \ {x}) \ {c}]
    BY <2>2, <2>3, <2>5
  <2>8. (T \ {c}) \ {x} = (T \ {x}) \ {c}
    OBVIOUS
  <2>. DEFINE r == F[(T \ {x}) \ {c}]
  <2>9. r \in Int /\ f[x] \in Int /\ f[c] \in Int
    BY <1>0, <2>2
  <2>10. F[T] = f[c] + (f[x] + r) /\ F[T \ {x}] = f[c] + r
    BY <2>2, <2>6, <2>7, <2>8
  <2>. HIDE DEF r
  <2>11. F[T] = f[x] + F[T \ {x}]
    BY <2>9, <2>10
  <2>. QED  BY <2>1, <2>11
<1>2. Rest \in SUBSET (SUBSET S)
  OBVIOUS
<1>3. CASE Rest # {}
  <2>. HIDE DEF Rest
  <2>1. PICK T \in Rest : \A U \in Rest : U \subseteq T => U = T
    BY <1>2, <1>3, LeastSet
  <2>2. T \in SUBSET S /\ T \notin P
    BY <2>1 DEF Rest
  <2>3. \A U \in SUBSET S : U \subseteq T /\ U \notin P => U = T
    BY <2>1 DEF Rest
  <2>. HIDE DEF P
  <2>. QED  BY <1>1, <2>2, <2>3
<1>4. CASE Rest = {}
  BY <1>4
<1>. QED  BY <1>3, <1>4

\* On a smaller set the recursion computes the same sums.
LEMMA SumsAgree ==
  ASSUME NEW S, IsFiniteSet(S), NEW f, NEW F, SumsUp(f, S, F),
         NEW R \in SUBSET S, NEW G, SumsUp(f, R, G)
  PROVE  \A T \in SUBSET R : F[T] = G[T]
<1>. DEFINE Rest == {T \in SUBSET R : F[T] # G[T]}
<1>1. ASSUME NEW T \in SUBSET R, T \in Rest,
             \A U \in SUBSET R : U \subseteq T /\ U \in Rest => U = T
      PROVE  FALSE
  <2>1. T # {}
    <3>1. F[{}] = G[{}]
      BY SumStep
    <3>. QED  BY <1>1, <3>1
  <2>2. F[T \ {AnyOf(T)}] = G[T \ {AnyOf(T)}]
    BY <1>1, <2>1, SumStep
  <2>3. F[T] = G[T]
    BY <2>1, <2>2, SumStep
  <2>. QED  BY <1>1, <2>3
<1>2. Rest \in SUBSET (SUBSET S)
  OBVIOUS
<1>3. CASE Rest # {}
  <2>. HIDE DEF Rest
  <2>1. PICK T \in Rest : \A U \in Rest : U \subseteq T => U = T
    BY <1>2, <1>3, LeastSet
  <2>. QED  BY <1>1, <2>1 DEF Rest
<1>4. CASE Rest = {}
  BY <1>4
<1>. QED  BY <1>3, <1>4

-----------------------------------------------------------------------------
(* What the other modules use of sums.                                     *)

LEMMA SumOfNothing ==
  ASSUME NEW f PROVE SumFunctionOnSet(f, {}) = 0
BY FS_EmptySet, SumIsSolution, SumStep

LEMMA SumType ==
  ASSUME NEW S, IsFiniteSet(S), NEW f, \A x \in S : f[x] \in Int
  PROVE  SumFunctionOnSet(f, S) \in Int
BY SumIsSolution, SumsAreNumbers

\* A member contributes what f says of it.
LEMMA SumTakesOut ==
  ASSUME NEW S, IsFiniteSet(S), NEW f, \A x \in S : f[x] \in Int, NEW x \in S
  PROVE  SumFunctionOnSet(f, S) = f[x] + SumFunctionOnSet(f, S \ {x})
<1>1. PICK F : SumsUp(f, S, F) /\ SumFunctionOnSet(f, S) = F[S]
  BY SumIsSolution
<1>. DEFINE R == S \ {x}
<1>2. R \in SUBSET S /\ IsFiniteSet(R)
  BY FS_Subset
<1>. HIDE DEF R
<1>3. PICK G : SumsUp(f, R, G) /\ SumFunctionOnSet(f, R) = G[R]
  BY <1>2, SumIsSolution
<1>4. F[R] = G[R]
  BY <1>1, <1>2, <1>3, SumsAgree
<1>5. F[S] = f[x] + F[R]
  BY <1>1, AnyMayBeFirst DEF R
<1>. QED  BY <1>1, <1>3, <1>4, <1>5 DEF R

LEMMA SumOfNaturals ==
  ASSUME NEW S, IsFiniteSet(S), NEW f, \A x \in S : f[x] \in Nat
  PROVE  SumFunctionOnSet(f, S) \in Nat
<1>. DEFINE P == {T \in SUBSET S : SumFunctionOnSet(f, T) \in Nat}
<1>1. {} \in P
  BY SumOfNothing
<1>2. ASSUME NEW T \in SUBSET S, NEW x \in T, T \ {x} \in P PROVE T \in P
  <2>1. SumFunctionOnSet(f, T) = f[x] + SumFunctionOnSet(f, T \ {x})
    <3>1. IsFiniteSet(T) /\ \A y \in T : f[y] \in Int
      BY FS_Subset
    <3>. QED  BY <3>1, SumTakesOut
  <2>. QED  BY <1>2, <2>1
<1>3. P \in SUBSET (SUBSET S)
  OBVIOUS
<1>. HIDE DEF P
<1>4. P = SUBSET S
  BY <1>1, <1>2, <1>3, SetInduction
<1>. QED  BY <1>4 DEF P

\* What is taken out of a sum is the sum of what is taken out.
LEMMA SumWithout ==
  ASSUME NEW S, IsFiniteSet(S), NEW f, \A x \in S : f[x] \in Int, NEW R \in SUBSET S
  PROVE  SumFunctionOnSet(f, S \ R) = SumFunctionOnSet(f, S) - SumFunctionOnSet(f, R)
<1>. DEFINE Sum(T) == SumFunctionOnSet(f, T)
            P == {T \in SUBSET S : Sum(S \ T) = Sum(S) - Sum(T)}
<1>0. \A T \in SUBSET S : /\ IsFiniteSet(T) /\ Sum(T) \in Int
                          /\ \A x \in T : Sum(T) = f[x] + Sum(T \ {x})
  <2>. TAKE T \in SUBSET S
  <2>1. IsFiniteSet(T)
    BY FS_Subset
  <2>. QED  BY <2>1, SumType, SumTakesOut
<1>1. {} \in P
  <2>1. S \ {} = S
    OBVIOUS
  <2>2. Sum({}) = 0 /\ Sum(S) \in Int
    BY <1>0, SumOfNothing
  <2>. HIDE DEF Sum
  <2>. QED  BY <2>1, <2>2
<1>. HIDE DEF Sum
<1>2. ASSUME NEW T \in SUBSET S, NEW x \in T, T \ {x} \in P PROVE T \in P
  <2>. DEFINE U == S \ (T \ {x})
  <2>1. x \in U /\ U \in SUBSET S /\ U \ {x} = S \ T
    OBVIOUS
  <2>2. Sum(U) = f[x] + Sum(S \ T)
    BY <1>0, <2>1
  <2>3. Sum(U) = Sum(S) - Sum(T \ {x})
    BY <1>2
  <2>4. Sum(T) = f[x] + Sum(T \ {x})
    BY <1>0
  <2>5. f[x] \in Int /\ Sum(S) \in Int /\ Sum(S \ T) \in Int /\ Sum(T \ {x}) \in Int
    <3>1. T \ {x} \in SUBSET S /\ S \ T \in SUBSET S
      OBVIOUS
    <3>. QED  BY <1>0, <3>1
  <2>. HIDE DEF U
  <2>6. Sum(S \ T) = Sum(S) - Sum(T)
    BY <2>2, <2>3, <2>4, <2>5
  <2>. QED  BY <2>6
<1>3. P \in SUBSET (SUBSET S)
  OBVIOUS
<1>. HIDE DEF P
<1>4. P = SUBSET S
  BY <1>1, <1>2, <1>3, SetInduction
<1>. QED  BY <1>4 DEF P, Sum
=============================================================================
