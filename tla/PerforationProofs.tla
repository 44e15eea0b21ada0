-------------------------- MODULE PerforationProofs --------------------------
(***************************************************************************)
(* What holds of perforated loops, for any programs, parameters, width of  *)
(* the counter and number of iterations, with clones and without; and of   *)
(* the clones, for any bodies, inputs and width of the integers.           *)
(***************************************************************************)
EXTENDS Preservation, InductionLemmas

-----------------------------------------------------------------------------
(* Powers of two.                                                          *)

\* The recursion of Pow2 has a solution.
LEMMA PowersOfTwo == Pow2[0] = 1 /\ \A n \in Nat : Pow2[n + 1] = 2 * Pow2[n]
<1>. DEFINE U == Nat
            one == 1
            F == [x \in U |-> 2 * x]
            Grows(g) == g = [n \in Nat |-> IF n = 0 THEN 1 ELSE 2 * g[n - 1]]
            pow == CHOOSE g : Grows(g)
<1>1. F \in [U -> U] /\ one \in U
  OBVIOUS
<1>2. PICK g \in [Nat -> Nat] : g[0] = 1 /\ \A n \in Nat : g[n + 1] = F[g[n]]
  <2>1. \E g \in [Nat -> U] : g[0] = one /\ \A n \in Nat : g[n + 1] = F[g[n]]
    <3>. HIDE DEF U, one, F
    <3>. QED  BY <1>1, Iteration
  <2>. QED  BY <2>1
<1>3. \A n \in Nat : g[n + 1] = 2 * g[n]
  BY <1>2
<1>4. Grows(g)
  <2>1. ASSUME NEW n \in Nat PROVE g[n] = IF n = 0 THEN 1 ELSE 2 * g[n - 1]
    <3>1. CASE n = 0
      BY <1>2, <3>1
    <3>2. CASE n # 0
      <4>1. n - 1 \in Nat /\ (n - 1) + 1 = n
        BY <3>2
      <4>2. g[(n - 1) + 1] = 2 * g[n - 1]
        BY <1>3, <4>1
      <4>. QED  BY <3>2, <4>1, <4>2
    <3>. QED  BY <3>1, <3>2
  <2>. QED  BY <1>2, <2>1
<1>5. Grows(pow)
  <2>. HIDE DEF Grows
  <2>. QED  BY <1>4
<1>6. pow[0] = 1 /\ \A n \in Nat : pow[n + 1] = 2 * pow[n]
  <2>. HIDE DEF pow
  <2>1. ASSUME NEW n \in Nat PROVE pow[n + 1] = 2 * pow[n]
    <3>1. n + 1 \in Nat /\ n + 1 # 0 /\ (n + 1) - 1 = n
      OBVIOUS
    <3>. QED  BY <1>5, <3>1
  <2>. QED  BY <1>5, <2>1
<1>7. Pow2 = pow
  BY Zenon DEF Pow2
<1>. HIDE DEF pow
<1>. QED  BY <1>6, <1>7

\* They are positive, and each divides the greater ones.
LEMMA PowersArePositive == \A n \in Nat : Pow2[n] \in Nat \ {0}
<1>. DEFINE A == {n \in Nat : Pow2[n] \in Nat \ {0}}
<1>1. 0 \in A
  BY PowersOfTwo
<1>2. ASSUME NEW n \in A PROVE n + 1 \in A
  BY PowersOfTwo, <1>2
<1>3. A \in SUBSET Nat
  OBVIOUS
<1>. HIDE DEF A
<1>4. A = Nat
  BY <1>1, <1>2, <1>3, Induction
<1>. QED  BY <1>4 DEF A

LEMMA PowersDivide ==
  ASSUME NEW m \in Nat, NEW n \in Nat, m <= n
  PROVE  \E k \in Nat \ {0} : Pow2[n] = k * Pow2[m]
<1>. DEFINE A == {d \in Nat : \E k \in Nat \ {0} : Pow2[m + d] = k * Pow2[m]}
<1>1. 0 \in A
  <2>1. m + 0 = m /\ Pow2[m] = 1 * Pow2[m]
    BY PowersArePositive
  <2>. QED  BY <2>1
<1>2. ASSUME NEW d \in A PROVE d + 1 \in A
  <2>1. PICK k \in Nat \ {0} : Pow2[m + d] = k * Pow2[m]
    BY <1>2
  <2>2. m + d \in Nat /\ m + (d + 1) = (m + d) + 1
    BY <1>2
  <2>3. Pow2[m + (d + 1)] = 2 * Pow2[m + d]
    BY <2>2, PowersOfTwo
  <2>4. PICK q \in Nat : q = Pow2[m]
    BY PowersArePositive
  <2>5. 2 * k \in Nat \ {0} /\ 2 * (k * q) = (2 * k) * q
    OBVIOUS
  <2>. QED  BY <1>2, <2>1, <2>3, <2>4, <2>5
<1>3. A \in SUBSET Nat
  OBVIOUS
<1>4. A = Nat
  <2>. HIDE DEF A
  <2>. QED  BY <1>1, <1>2, <1>3, Induction
<1>5. PICK d \in Nat : m + d = n
  <2>1. n - m \in Nat /\ m + (n - m) = n
    OBVIOUS
  <2>. QED  BY <2>1
<1>6. d \in A
  <2>. HIDE DEF A
  <2>. QED  BY <1>4
<1>. QED  BY <1>5, <1>6

-----------------------------------------------------------------------------
(* Division.                                                               *)

\* A remainder by a multiple keeps the remainder.
LEMMA RemainderOfMultiple ==
  ASSUME NEW q \in Nat \ {0}, NEW k \in Nat \ {0}, NEW n \in Nat
  PROVE  (n % (k * q)) % q = n % q
<1>1. PICK w \in Nat \ {0} : w = k * q
  <2>1. k * q \in Nat
    OBVIOUS
  <2>2. k * q >= 1 * q
    OBVIOUS
  <2>. QED  BY <2>1, <2>2
<1>2. PICK a, r \in Nat : n = w * a + r /\ r = n % w /\ r < w
  <2>1. n = w * (n \div w) + (n % w) /\ n % w \in 0..(w - 1) /\ n \div w \in Nat
    OBVIOUS
  <2>2. n % w \in Nat /\ n % w < w
    BY <2>1
  <2>. QED  BY <2>1, <2>2
<1>3. PICK b, s \in Nat : r = q * b + s /\ s = r % q /\ s < q
  <2>1. r = q * (r \div q) + (r % q) /\ r % q \in 0..(q - 1) /\ r \div q \in Nat
    OBVIOUS
  <2>2. r % q \in Nat /\ r % q < q
    BY <2>1
  <2>. QED  BY <2>1, <2>2
<1>4. w * a = q * (k * a)
  BY <1>1
<1>5. PICK c \in Nat : c = k * a + b
  <2>1. k * a \in Nat
    OBVIOUS
  <2>. QED  BY <2>1
<1>6. q * c = q * (k * a) + q * b
  <2>1. PICK x \in Nat : x = k * a
    OBVIOUS
  <2>2. q * (x + b) = q * x + q * b
    OBVIOUS
  <2>. QED  BY <1>5, <2>1, <2>2
<1>7. n = c * q + s
  <2>1. PICK x, y \in Nat : x = q * (k * a) /\ y = q * b
    <3>1. k * a \in Nat /\ q * b \in Nat
      OBVIOUS
    <3>2. q * (k * a) \in Nat
      BY <3>1
    <3>. QED  BY <3>1, <3>2
  <2>2. n = x + r /\ r = y + s
    BY <1>2, <1>3, <1>4, <2>1
  <2>3. c * q = q * c
    OBVIOUS
  <2>4. c * q = x + y
    BY <1>6, <2>1, <2>3
  <2>. QED  BY <2>2, <2>4
<1>8. s \in 0..(q - 1)
  BY <1>3
<1>9. (c * q + s) % q = s
  BY <1>8
<1>. QED  BY <1>1, <1>2, <1>3, <1>7, <1>9

\* A counter that wraps around counts the remainders.
LEMMA NextRemainder ==
  ASSUME NEW w \in Nat \ {0}, NEW n \in Nat
  PROVE  ((n % w) + 1) % w = (n + 1) % w
<1>1. PICK k, r \in Nat : n = k * w + r /\ r = n % w /\ r < w
  <2>1. n = w * (n \div w) + (n % w) /\ n % w \in 0..(w - 1) /\ n \div w \in Nat
    OBVIOUS
  <2>2. PICK k, r \in Nat : k = n \div w /\ r = n % w /\ r < w
    BY <2>1
  <2>3. w * k = k * w
    OBVIOUS
  <2>. QED  BY <2>1, <2>2, <2>3
<1>2. PICK x \in Nat : x = k * w /\ n = x + r
  <2>1. k * w \in Nat
    OBVIOUS
  <2>. QED  BY <1>1, <2>1
<1>3. CASE r + 1 < w
  <2>1. PICK s \in 0..(w - 1) : s = r + 1
    BY <1>3
  <2>2. (k * w + s) % w = s
    OBVIOUS
  <2>3. (0 * w + s) % w = s /\ 0 * w + s = s
    OBVIOUS
  <2>4. n + 1 = x + s
    BY <1>2, <2>1
  <2>5. n + 1 = k * w + s
    BY <1>2, <2>4
  <2>. QED  BY <1>1, <2>1, <2>2, <2>3, <2>5
<1>4. CASE r + 1 = w
  <2>1. (k + 1) * w = x + w
    <3>1. (k + 1) * w = k * w + w
      OBVIOUS
    <3>. QED  BY <1>2, <3>1
  <2>2. n + 1 = x + w
    BY <1>2, <1>4
  <2>3. ((k + 1) * w + 0) % w = 0
    <3>1. 0 \in 0..(w - 1) /\ k + 1 \in Nat
      OBVIOUS
    <3>. QED  BY <3>1
  <2>4. (k + 1) * w + 0 = n + 1
    BY <2>1, <2>2
  <2>5. w % w = 0
    OBVIOUS
  <2>. QED  BY <1>1, <1>4, <2>3, <2>4, <2>5
<1>. QED  BY <1>1, <1>3, <1>4

\* The body runs one time more for each next multiple of the factor.
LEMMA NextCeiling ==
  ASSUME NEW q \in Nat \ {0}, NEW n \in Nat
  PROVE  /\ CeilingOf(0, q) = 0 /\ CeilingOf(n, q) \in Nat
         /\ CeilingOf(n + 1, q) = IF n % q = 0 THEN CeilingOf(n, q) + 1 ELSE CeilingOf(n, q)
<1>1. PICK k, r \in Nat : n = k * q + r /\ r = n % q /\ r < q
  <2>1. n = q * (n \div q) + (n % q) /\ n % q \in 0..(q - 1) /\ n \div q \in Nat
    OBVIOUS
  <2>2. PICK k, r \in Nat : k = n \div q /\ r = n % q /\ r < q
    BY <2>1
  <2>3. q * k = k * q
    OBVIOUS
  <2>. QED  BY <2>1, <2>2, <2>3
<1>2. CeilingOf(0, q) = 0
  <2>1. 0 * q + (q - 1) = 0 + q - 1 /\ q - 1 \in 0..(q - 1)
    OBVIOUS
  <2>2. (0 * q + (q - 1)) \div q = 0
    BY <2>1
  <2>. QED  BY <2>1, <2>2 DEF CeilingOf
<1>3. CeilingOf(n + 1, q) = k + 1
  <2>1. (k + 1) * q = k * q + q
    OBVIOUS
  <2>2. n + 1 + q - 1 = (k + 1) * q + r
    BY <1>1, <2>1
  <2>3. ((k + 1) * q + r) \div q = k + 1
    BY <1>1
  <2>. QED  BY <2>2, <2>3 DEF CeilingOf
<1>4. CASE r = 0
  <2>1. n + q - 1 = k * q + (q - 1) /\ q - 1 \in 0..(q - 1)
    BY <1>1, <1>4
  <2>2. (k * q + (q - 1)) \div q = k
    BY <2>1
  <2>3. CeilingOf(n, q) = k
    BY <2>1, <2>2 DEF CeilingOf
  <2>. QED  BY <1>1, <1>2, <1>3, <1>4, <2>3
<1>5. CASE r # 0
  <2>1. (k + 1) * q = k * q + q
    OBVIOUS
  <2>2. n + q - 1 = (k + 1) * q + (r - 1) /\ r - 1 \in 0..(q - 1)
    BY <1>1, <1>5, <2>1
  <2>3. ((k + 1) * q + (r - 1)) \div q = k + 1
    BY <2>2
  <2>4. CeilingOf(n, q) = k + 1
    BY <2>2, <2>3 DEF CeilingOf
  <2>. QED  BY <1>1, <1>2, <1>3, <1>5, <2>4
<1>. QED  BY <1>4, <1>5

-----------------------------------------------------------------------------
(* The invariant.                                                          *)

\* The steps of the two builds and of the loop, whatever its body does.
BodyAndClone == \E next \in {"latch", "trap"} : BodyTo(next) \/ CloneTo(next)
Going == Build \/ Start \/ Run \/ BodyAndClone

\* A loop that has run its body once more than it counts is on its way to the latch.
TypeInv ==
  /\ TypeOK
  /\ runs <= done + IF at \in {"latch", "trap"} THEN 1 ELSE 0
  /\ phase \in {"dump", "relax"} => entries = 0

\* What is in the file was found in the precise build; a loop with a clone is a
\* for-like one, unless the compiler has failed.
BuildInv ==
  /\ \A entry \in relaxConfig : \E m \in Ids : entry[1] = Name(m) /\ Elidable(m)
  /\ \A l \in Ids :
       perforated[l] # 0 =>
         /\ Considered(l)
         /\ \E m \in Ids : Name(m) = Name(l) /\ Elidable(m)
         /\ preserve /\ phase # "failed" => loops[l].forLike

\* How often the body has run when n iterations have been counted.
Expected(n) ==
  IF loops[now].latchIsBody THEN n ELSE CeilingOf(n, Pow2[perforated[now]])

\* A loop that leaves by its second successor: where it is, and how often its body
\* has run by then.
Progress ==
  /\ counter = IF perforated[now] = 0 THEN 0 ELSE done % Pow2[Width]
  /\ at = "exit" => done = trips
  /\ at = "header" => done <= trips
  /\ at \notin {"exit", "header"} => done < trips
  /\ at \in {"exit", "header", "check"} => runs = Expected(done)
  /\ at \in {"check", "clone"} => perforated[now] # 0
  /\ at = "body" => Expected(done + 1) = runs + 1
  /\ at \in {"clone", "latch"} => Expected(done + 1) = runs

RunInv == phase = "run" /\ ~loops[now].exitFirst => Progress

IInv == TypeInv /\ BuildInv /\ RunInv

-----------------------------------------------------------------------------
(* The builds.                                                             *)

\* The kinds of loops.
LEMMA KindsAreKinds ==
  ASSUME TypeOK, NEW l \in Ids
  PROVE  /\ loops[l] \in Kinds /\ loops[l] \in Kind
         /\ loops[l].forLike => ~loops[l].latchIsBody
<1>1. loops \in [Ids -> Kinds]
  BY PerforationAssumption DEF TypeOK
<1>2. loops[l] \in Kinds
  BY <1>1
<1>. QED  BY <1>2, PerforationAssumption

LEMMA InitIInv == Init => IInv
<1> SUFFICES ASSUME Init PROVE IInv
  OBVIOUS
<1>1. PICK p \in Programs : loops = p.loops /\ preserve = p.preserve
  BY DEF Init
<1>2. [loops |-> loops, preserve |-> preserve] \in Programs
  <2>1. p \in [loops : [Ids -> Kinds], preserve : BOOLEAN]
    BY PerforationAssumption
  <2>2. p = [loops |-> p.loops, preserve |-> p.preserve]
    BY <2>1
  <2>. QED  BY <1>1, <2>2
<1>3. now \in Ids
  <2>1. \E l \in Ids : TRUE
    BY PerforationAssumption
  <2>. QED  BY <2>1 DEF Init
<1>4. Pow2[Width] \in Nat \ {0}
  BY PowersArePositive, PerforationAssumption
<1>5. TypeInv
  BY <1>2, <1>3, <1>4, PerforationAssumption DEF Init, TypeInv, TypeOK
<1>6. BuildInv
  BY DEF Init, BuildInv
<1>7. RunInv
  BY DEF Init, RunInv
<1>. QED  BY <1>5, <1>6, <1>7 DEF IInv

LEMMA AssessIInv ==
  ASSUME IInv, NEW l \in Ids, Assess(l)
  PROVE  IInv'
<1>1. /\ UNCHANGED <<loops, preserve, phase, perforated, now, at, trips, done, counter, runs, entries>>
      /\ phase = "dump" /\ pending' \subseteq pending
      /\ relaxConfig' = IF Elidable(l) THEN relaxConfig \cup {<<Name(l), 0>>} ELSE relaxConfig
  BY DEF Assess, runVars
<1>2. TypeOK /\ Name(l) \in Nat
  BY KindsAreKinds DEF IInv, TypeInv, Name, Kind
<1>3. TypeInv'
  <2>1. \A entry \in relaxConfig' : entry[1] \in Nat /\ entry[2] \in 0..MaxParam
    <3>1. 0 \in 0..MaxParam
      BY PerforationAssumption
    <3>. QED  BY <1>1, <1>2, <3>1 DEF TypeOK
  <2>2. pending' \subseteq Ids
    BY <1>1, <1>2 DEF TypeOK
  <2>. QED  BY <1>1, <2>1, <2>2 DEF IInv, TypeInv, TypeOK
<1>4. BuildInv'
  <2>1. \A m \in Ids : Name(m)' = Name(m) /\ Elidable(m)' = Elidable(m) /\ Considered(m)' = Considered(m)
    BY <1>1 DEF Name, Elidable, Considered
  <2>2. ASSUME NEW entry \in relaxConfig'
        PROVE  \E m \in Ids : entry[1] = Name(m) /\ Elidable(m)
    BY <1>1, <2>2 DEF IInv, BuildInv
  <2>. QED  BY <1>1, <2>1, <2>2 DEF IInv, BuildInv
<1>5. RunInv'
  BY <1>1 DEF RunInv
<1>. QED  BY <1>3, <1>4, <1>5 DEF IInv

LEMMA ConfigureIInv ==
  ASSUME IInv, Configure
  PROVE  IInv'
<1>1. UNCHANGED <<loops, preserve, perforated, now, at, trips, done, counter, runs, entries>>
      /\ phase = "dump" /\ phase' = "relax" /\ pending' = Ids
  BY DEF Configure, runVars
<1>2. PICK param \in [relaxConfig -> 0..MaxParam] :
        relaxConfig' = {<<entry[1], param[entry]>> : entry \in relaxConfig}
  BY DEF Configure
<1>3. \A new \in relaxConfig' :
        \E entry \in relaxConfig : new[1] = entry[1] /\ new[2] \in 0..MaxParam
  BY <1>2
<1>4. TypeInv'
  <2>1. \A entry \in relaxConfig' : entry[1] \in Nat /\ entry[2] \in 0..MaxParam
    BY <1>3 DEF IInv, TypeInv, TypeOK
  <2>. QED  BY <1>1, <2>1 DEF IInv, TypeInv, TypeOK
<1>5. BuildInv'
  <2>1. \A m \in Ids : Name(m)' = Name(m) /\ Elidable(m)' = Elidable(m) /\ Considered(m)' = Considered(m)
    BY <1>1 DEF Name, Elidable, Considered
  <2>2. phase = "dump"
    BY DEF Configure
  <2>. QED  BY <1>1, <1>3, <2>1, <2>2 DEF IInv, BuildInv
<1>6. RunInv'
  BY <1>1 DEF RunInv
<1>. QED  BY <1>4, <1>5, <1>6 DEF IInv

LEMMA RelaxIInv ==
  ASSUME IInv, NEW l \in Ids, Relax(l)
  PROVE  IInv'
<1>1. /\ UNCHANGED <<loops, preserve, relaxConfig, now, at, trips, done, counter, runs, entries>>
      /\ phase = "relax" /\ pending' = pending \ {l}
      /\ perforated' = [perforated EXCEPT ![l] = NewParam(l)]
      /\ phase' = IF NewParam(l) # 0 /\ preserve /\ ~loops[l].forLike THEN "failed" ELSE phase
  BY DEF Relax, runVars
<1>2. /\ NewParam(l) \in 0..MaxParam
      /\ NewParam(l) # 0 =>
           Considered(l) /\ \E m \in Ids : Name(m) = Name(l) /\ Elidable(m)
  <2>1. 0 \in 0..MaxParam
    BY PerforationAssumption
  <2>2. CASE \E entry \in relaxConfig : entry[1] = Name(l)
    <3>1. PICK entry \in relaxConfig : entry[1] = Name(l) /\ ParamOf(l) = entry[2]
      BY <2>2 DEF ParamOf
    <3>. QED  BY <2>1, <3>1 DEF IInv, TypeInv, TypeOK, BuildInv, NewParam
  <2>3. CASE ~\E entry \in relaxConfig : entry[1] = Name(l)
    BY <2>1, <2>3 DEF NewParam, ParamOf
  <2>. QED  BY <2>2, <2>3
<1>3. TypeInv'
  <2>1. perforated' \in [Ids -> 0..MaxParam]
    BY <1>1, <1>2 DEF IInv, TypeInv, TypeOK
  <2>2. phase' \in {"dump", "relax", "run", "failed"}
    BY <1>1
  <2>. QED  BY <1>1, <2>1, <2>2 DEF IInv, TypeInv, TypeOK
<1>4. BuildInv'
  <2>1. \A m \in Ids : Name(m)' = Name(m) /\ Elidable(m)' = Elidable(m) /\ Considered(m)' = Considered(m)
    BY <1>1 DEF Name, Elidable, Considered
  <2>2. ASSUME NEW m \in Ids, perforated'[m] # 0, m # l
        PROVE  perforated[m] # 0
    BY <1>1, <2>2 DEF IInv, TypeInv, TypeOK
  <2>3. perforated'[l] = NewParam(l)
    BY <1>1 DEF IInv, TypeInv, TypeOK
  <2>4. ASSUME NEW m \in Ids, perforated'[m] # 0
        PROVE  /\ Considered(m)
               /\ \E k \in Ids : Name(k) = Name(m) /\ Elidable(k)
               /\ preserve /\ phase' # "failed" => loops[m].forLike
    <3>1. CASE m = l
      BY <1>1, <1>2, <2>3, <2>4, <3>1
    <3>2. CASE m # l
      BY <1>1, <2>2, <2>4, <3>2 DEF IInv, BuildInv
    <3>. QED  BY <3>1, <3>2
  <2>. QED  BY <1>1, <2>1, <2>4 DEF IInv, BuildInv
<1>5. RunInv'
  BY <1>1 DEF RunInv
<1>. QED  BY <1>3, <1>4, <1>5 DEF IInv

-----------------------------------------------------------------------------
(* The loop as it runs.                                                    *)

\* What the loop needs of the parameters: the counter wraps around at a multiple of
\* the factor.
LEMMA CounterCounts ==
  ASSUME TypeOK, NEW n \in Nat
  PROVE  LET q == Pow2[perforated[now]]
         IN /\ q \in Nat \ {0} /\ Pow2[Width] \in Nat \ {0}
            /\ (n % Pow2[Width]) % q = n % q
            /\ ((n % Pow2[Width]) + 1) % Pow2[Width] = (n + 1) % Pow2[Width]
            /\ n % Pow2[Width] \in 0..(Pow2[Width] - 1)
<1>. DEFINE p == perforated[now]
            q == Pow2[p]
            w == Pow2[Width]
<1>1. p \in Nat /\ Width \in Nat /\ p <= Width
  BY PerforationAssumption DEF TypeOK
<1>2. q \in Nat \ {0} /\ w \in Nat \ {0}
  BY <1>1, PowersArePositive
<1>3. PICK k \in Nat \ {0} : w = k * q
  <2>. HIDE DEF p
  <2>. QED  BY <1>1, PowersDivide
<1>. HIDE DEF p, q, w
<1>4. (n % w) % q = n % q
  BY <1>2, <1>3, RemainderOfMultiple
<1>5. n % w \in 0..(w - 1)
  BY <1>2
<1>6. ((n % w) + 1) % w = (n + 1) % w
  BY <1>2, NextRemainder
<1>. QED  BY <1>2, <1>4, <1>5, <1>6 DEF p, q, w

\* One iteration more.
LEMMA NextExpected ==
  ASSUME TypeOK, NEW n \in Nat
  PROVE  /\ Expected(0) = 0 /\ Expected(n) \in Nat
         /\ (n % Pow2[perforated[now]] = 0 \/ loops[now].latchIsBody) =>
              Expected(n + 1) = Expected(n) + 1
         /\ n % Pow2[perforated[now]] # 0 /\ ~loops[now].latchIsBody =>
              Expected(n + 1) = Expected(n)
<1>. DEFINE q == Pow2[perforated[now]]
<1>1. q \in Nat \ {0}
  BY CounterCounts
<1>. HIDE DEF q
<1>2. /\ CeilingOf(0, q) = 0 /\ CeilingOf(n, q) \in Nat
      /\ CeilingOf(n + 1, q) = IF n % q = 0 THEN CeilingOf(n, q) + 1 ELSE CeilingOf(n, q)
  BY <1>1, NextCeiling
<1>3. CASE loops[now].latchIsBody
  BY <1>3 DEF Expected
<1>4. CASE ~loops[now].latchIsBody
  BY <1>2, <1>4 DEF Expected, q
<1>. QED  BY <1>3, <1>4

\* The loop goes on in the same relaxed program.
LEMMA RunKeepsBuild ==
  ASSUME IInv, UNCHANGED <<loops, preserve, relaxConfig, perforated>>, phase' # "failed",
         phase # "failed"
  PROVE  BuildInv'
<1>1. \A m \in Ids : Name(m)' = Name(m) /\ Elidable(m)' = Elidable(m) /\ Considered(m)' = Considered(m)
  BY DEF Name, Elidable, Considered
<1>. QED  BY <1>1 DEF IInv, BuildInv

LEMMA PreheaderIInv ==
  ASSUME IInv, NEW l \in Ids, NEW n \in Trips, Preheader(l, n), entries < Entries,
         UNCHANGED <<loops, preserve, pending, relaxConfig, perforated>>, phase' = "run",
         phase \in {"relax", "run"}
  PROVE  IInv'
<1>1. /\ now' = l /\ at' = "header" /\ trips' = n /\ n \in Nat
      /\ done' = 0 /\ counter' = 0 /\ runs' = 0 /\ entries' = entries + 1
  BY PerforationAssumption DEF Preheader
<1>2. Pow2[Width] \in Nat \ {0}
  BY PowersArePositive, PerforationAssumption
<1>3. TypeInv'
  <2>1. 0 \in 0..(n + 1) /\ 0 \in 0..(n + 2) /\ 0 \in 0..(Pow2[Width] - 1)
    BY <1>1, <1>2
  <2>2. entries' \in 0..Entries
    BY <1>1, PerforationAssumption DEF IInv, TypeInv, TypeOK
  <2>. QED  BY <1>1, <2>1, <2>2 DEF IInv, TypeInv, TypeOK
<1>4. BuildInv'
  BY RunKeepsBuild
<1>5. RunInv'
  <2>1. Expected(0)' = 0
    <3>1. CASE loops'[now'].latchIsBody
      BY <3>1 DEF Expected
    <3>2. CASE ~loops'[now'].latchIsBody
      <4>1. Pow2[perforated'[now']] \in Nat \ {0}
        <5>1. perforated'[now'] \in 0..MaxParam
          BY <1>3 DEF TypeInv, TypeOK
        <5>. QED  BY <5>1, PowersArePositive, PerforationAssumption
      <4>2. CeilingOf(0, Pow2[perforated'[now']]) = 0
        BY <4>1, NextCeiling
      <4>. QED  BY <3>2, <4>2 DEF Expected
    <3>. QED  BY <3>1, <3>2
  <2>2. 0 % Pow2[Width] = 0
    BY <1>2
  <2>3. runs' = Expected(done)'
    BY <1>1, <2>1 DEF Expected
  <2>. QED  BY <1>1, <2>2, <2>3 DEF RunInv, Progress
<1>. QED  BY <1>3, <1>4, <1>5 DEF IInv

LEMMA StartIInv ==
  ASSUME IInv, Start, entries = 0
  PROVE  IInv'
<1>1. PICK l \in Ids, n \in Trips : Preheader(l, n)
  BY DEF Start
<1>2. entries < Entries
  BY PerforationAssumption
<1>. QED  BY <1>1, <1>2, PreheaderIInv DEF Start

LEMMA ReenterIInv ==
  ASSUME IInv, Reenter
  PROVE  IInv'
<1>1. PICK n \in Trips : Preheader(now, n)
  BY DEF Reenter
<1>2. now \in Ids
  BY DEF IInv, TypeInv, TypeOK
<1>. QED  BY <1>1, <1>2, PreheaderIInv DEF Reenter

\* What all steps of a loop have in common.
CountsOn(to) ==
  /\ done' \in 0..(trips + 1) /\ counter' \in 0..(Pow2[Width] - 1)
  /\ runs' \in Nat /\ runs' <= done' + 1
  /\ to \notin {"latch", "trap"} => runs' <= done'

LEMMA GoingOn ==
  ASSUME IInv, NEW from, NEW to, Goto(from, to),
         to \in {"header", "check", "body", "clone", "latch", "exit", "trap"},
         CountsOn(to)
  PROVE  TypeInv' /\ BuildInv'
<1>1. /\ UNCHANGED <<loops, preserve, phase, pending, relaxConfig, perforated, now, trips, entries>>
      /\ phase = "run" /\ at = from /\ at' = to
  BY DEF Goto
<1>2. runs' \in 0..(trips + 2)
  <2>1. trips \in Nat
    BY PerforationAssumption DEF IInv, TypeInv, TypeOK
  <2>2. done' \in 0..(trips + 1) /\ runs' \in Nat /\ runs' <= done' + 1
    BY DEF CountsOn
  <2>3. PICK t, d, r \in Nat : t = trips /\ d = done' /\ r = runs'
    BY <2>1, <2>2
  <2>4. d <= t + 1 /\ r <= d + 1
    <3>1. d \in 0..(t + 1) /\ r <= d + 1
      BY <2>2, <2>3, Zenon
    <3>. QED  BY <3>1
  <2>5. r \in 0..(t + 2)
    BY <2>4
  <2>. QED  BY <2>3, <2>5
<1>3. TypeInv'
  <2>1. TypeOK'
    BY <1>1, <1>2 DEF IInv, TypeInv, TypeOK, CountsOn
  <2>2. runs' <= done' + IF at' \in {"latch", "trap"} THEN 1 ELSE 0
    <3>1. CASE to \in {"latch", "trap"}
      BY <1>1, <3>1 DEF CountsOn
    <3>2. CASE to \notin {"latch", "trap"}
      <4>1. at' \notin {"latch", "trap"} /\ runs' <= done'
        BY <1>1, <3>2 DEF CountsOn
      <4>2. done' \in Nat
        BY <2>1 DEF TypeOK
      <4>. QED  BY <4>1, <4>2
    <3>. QED  BY <3>1, <3>2
  <2>. QED  BY <1>1, <2>1, <2>2 DEF IInv, TypeInv
<1>4. BuildInv'
  BY <1>1, RunKeepsBuild
<1>. QED  BY <1>3, <1>4

LEMMA HeaderIInv ==
  ASSUME IInv, Header
  PROVE  IInv'
<1>. DEFINE to == Target(IF (done < trips) = loops[now].exitFirst THEN 1 ELSE 0)
<1>1. Goto("header", to) /\ UNCHANGED <<done, counter, runs>>
  BY DEF Header
<1>2. to \in {"check", "exit", "body"}
  BY DEF Target
<1>3. at = "header" /\ at' = to
  BY <1>1 DEF Goto
<1>4. TypeInv' /\ BuildInv'
  <2>1. /\ done' \in 0..(trips + 1) /\ counter' \in 0..(Pow2[Width] - 1) /\ runs' \in Nat
        /\ runs' <= done' /\ runs' <= done' + 1
    BY <1>1, <1>3 DEF IInv, TypeInv, TypeOK
  <2>. HIDE DEF to
  <2>. QED  BY <1>1, <1>2, <2>1, GoingOn DEF CountsOn
<1>5. ASSUME ~loops[now].exitFirst PROVE Progress'
  <2>1. loops[now].exitFirst = FALSE
    BY <1>5, KindsAreKinds DEF IInv, TypeInv, TypeOK, Kind
  <2>2. Progress
    BY <1>1, <1>5 DEF IInv, RunInv, Goto
  <2>3. CASE done < trips
    <3>1. to = IF perforated[now] # 0 THEN "check" ELSE "body"
      BY <2>1, <2>3 DEF Target
    <3>2. CASE perforated[now] # 0
      BY <1>1, <1>3, <2>2, <2>3, <3>1, <3>2 DEF Progress, Goto, Expected
    <3>3. CASE perforated[now] = 0
      <4>1. done \in Nat
        BY DEF IInv, TypeInv, TypeOK
      <4>2. done % Pow2[perforated[now]] = 0
        BY <3>3, <4>1, PowersOfTwo
      <4>3. Expected(done + 1) = Expected(done) + 1
        BY <4>1, <4>2, NextExpected DEF IInv, TypeInv
      <4>. QED  BY <1>1, <1>3, <2>2, <2>3, <3>1, <3>3, <4>3 DEF Progress, Goto, Expected
    <3>. QED  BY <3>2, <3>3
  <2>4. CASE ~(done < trips)
    <3>1. to = "exit"
      <4>1. (1 = 0) = FALSE /\ (done < trips) = FALSE
        BY <2>4
      <4>2. (1 = 0) = loops[now].exitFirst /\ (done < trips) = loops[now].exitFirst
        BY <2>1, <4>1, Zenon
      <4>3. Target(1) = "exit"
        BY <4>2 DEF Target
      <4>. QED  BY <4>2, <4>3
    <3>2. done = trips
      <4>1. done \in Nat /\ trips \in Nat /\ done <= trips
        <5>1. done \in 0..(trips + 1) /\ trips \in Nat
          BY PerforationAssumption DEF IInv, TypeInv, TypeOK
        <5>2. done <= trips
          BY <1>3, <2>2 DEF Progress
        <5>. QED  BY <5>1, <5>2
      <4>. QED  BY <2>4, <4>1
    <3>. QED  BY <1>1, <1>3, <2>2, <3>1, <3>2 DEF Progress, Goto, Expected
  <2>. QED  BY <2>3, <2>4
<1>6. RunInv'
  BY <1>1, <1>5 DEF RunInv, Goto
<1>. QED  BY <1>4, <1>6 DEF IInv

LEMMA CheckIInv ==
  ASSUME IInv, Check
  PROVE  IInv'
<1>. DEFINE to == IF counter % Pow2[perforated[now]] = 0 THEN "body" ELSE SkipDest
<1>1. Goto("check", to) /\ UNCHANGED <<done, counter, runs>>
  BY DEF Check
<1>2. to \in {"body", "clone", "latch"}
  BY DEF SkipDest
<1>3. at = "check" /\ at' = to /\ phase = "run"
  BY <1>1 DEF Goto
<1>4. TypeInv' /\ BuildInv'
  <2>1. /\ done' \in 0..(trips + 1) /\ counter' \in 0..(Pow2[Width] - 1) /\ runs' \in Nat
        /\ runs' <= done' /\ runs' <= done' + 1
    BY <1>1, <1>3 DEF IInv, TypeInv, TypeOK
  <2>. HIDE DEF to
  <2>. QED  BY <1>1, <1>2, <2>1, GoingOn DEF CountsOn
<1>5. ASSUME ~loops[now].exitFirst PROVE Progress'
  <2>1. Progress
    BY <1>3, <1>5 DEF IInv, RunInv
  <2>2. /\ done < trips /\ runs = Expected(done) /\ perforated[now] # 0
        /\ counter = done % Pow2[Width] /\ done \in Nat
    BY <1>3, <2>1 DEF Progress, IInv, TypeInv, TypeOK
  <2>3. counter % Pow2[perforated[now]] = done % Pow2[perforated[now]]
    BY <2>2, CounterCounts DEF IInv, TypeInv
  <2>4. preserve => ~loops[now].latchIsBody
    <3>1. now \in Ids /\ TypeOK
      BY DEF IInv, TypeInv, TypeOK
    <3>2. preserve => loops[now].forLike
      BY <1>3, <2>2, <3>1 DEF IInv, BuildInv
    <3>. QED  BY <3>1, <3>2, KindsAreKinds
  <2>5. CASE to = "body"
    <3>1. done % Pow2[perforated[now]] = 0 \/ loops[now].latchIsBody
      BY <2>3, <2>5 DEF SkipDest
    <3>2. Expected(done + 1) = runs + 1
      BY <2>2, <3>1, NextExpected DEF IInv, TypeInv
    <3>. HIDE DEF to
    <3>. QED  BY <1>1, <1>3, <2>1, <2>2, <2>5, <3>2 DEF Progress, Goto, Expected
  <2>6. CASE to # "body"
    <3>1. done % Pow2[perforated[now]] # 0 /\ ~loops[now].latchIsBody
      BY <2>3, <2>4, <2>6 DEF SkipDest
    <3>2. Expected(done + 1) = runs
      BY <2>2, <3>1, NextExpected DEF IInv, TypeInv
    <3>. HIDE DEF to
    <3>. QED  BY <1>1, <1>2, <1>3, <2>1, <2>2, <2>6, <3>2 DEF Progress, Goto, Expected
  <2>. QED  BY <2>5, <2>6
<1>6. RunInv'
  BY <1>1, <1>5 DEF RunInv, Goto
<1>. QED  BY <1>4, <1>6 DEF IInv

LEMMA BodyIInv ==
  ASSUME IInv, NEW next \in {"latch", "trap"}, BodyTo(next)
  PROVE  IInv'
<1>1. Goto("body", next) /\ runs' = runs + 1 /\ UNCHANGED <<done, counter>>
  BY DEF BodyTo
<1>2. at = "body" /\ at' = next /\ phase = "run"
  BY <1>1 DEF Goto
<1>3. TypeInv' /\ BuildInv'
  <2>1. /\ done' \in 0..(trips + 1) /\ counter' \in 0..(Pow2[Width] - 1) /\ runs' \in Nat
        /\ runs' <= done' + 1
    BY <1>1, <1>2 DEF IInv, TypeInv, TypeOK
  <2>. QED  BY <1>1, <2>1, GoingOn DEF CountsOn
<1>4. ASSUME ~loops[now].exitFirst PROVE Progress'
  <2>1. Progress
    BY <1>2, <1>4 DEF IInv, RunInv
  <2>2. Expected(done + 1) = runs'
    BY <1>1, <1>2, <2>1 DEF Progress
  <2>. QED  BY <1>1, <1>2, <2>1, <2>2 DEF Progress, Goto, Expected
<1>5. RunInv'
  BY <1>1, <1>4 DEF RunInv, Goto
<1>. QED  BY <1>3, <1>5 DEF IInv

LEMMA CloneIInv ==
  ASSUME IInv, NEW next \in {"latch", "trap"}, CloneTo(next)
  PROVE  IInv'
<1>1. Goto("clone", next) /\ UNCHANGED <<done, counter, runs>>
  BY DEF CloneTo
<1>2. at = "clone" /\ at' = next /\ phase = "run"
  BY <1>1 DEF Goto
<1>3. TypeInv' /\ BuildInv'
  <2>1. /\ done' \in 0..(trips + 1) /\ counter' \in 0..(Pow2[Width] - 1) /\ runs' \in Nat
        /\ runs' <= done' + 1
    BY <1>1, <1>2 DEF IInv, TypeInv, TypeOK
  <2>. QED  BY <1>1, <2>1, GoingOn DEF CountsOn
<1>4. ASSUME ~loops[now].exitFirst PROVE Progress'
  <2>1. Progress
    BY <1>2, <1>4 DEF IInv, RunInv
  <2>. QED  BY <1>1, <1>2, <2>1 DEF Progress, Goto, Expected
<1>5. RunInv'
  BY <1>1, <1>4 DEF RunInv, Goto
<1>. QED  BY <1>3, <1>5 DEF IInv

LEMMA LatchIInv ==
  ASSUME IInv, Latch
  PROVE  IInv'
<1>1. /\ Goto("latch", "header") /\ done <= trips /\ done' = done + 1 /\ runs' = runs
      /\ counter' = IF perforated[now] # 0 THEN (counter + 1) % Pow2[Width] ELSE counter
  BY DEF Latch
<1>2. at = "latch" /\ at' = "header" /\ phase = "run"
  BY <1>1 DEF Goto
<1>3. counter \in Nat /\ done \in Nat /\ trips \in Nat /\ runs \in Nat
  BY PerforationAssumption DEF IInv, TypeInv, TypeOK
<1>4. TypeInv' /\ BuildInv'
  <2>1. (counter + 1) % Pow2[Width] \in 0..(Pow2[Width] - 1)
    <3>1. counter + 1 \in Nat
      BY <1>3
    <3>. QED  BY <3>1, CounterCounts DEF IInv, TypeInv
  <2>2. counter' \in 0..(Pow2[Width] - 1)
    BY <1>1, <2>1 DEF IInv, TypeInv, TypeOK
  <2>3. done' \in 0..(trips + 1) /\ runs' \in Nat /\ runs' <= done' /\ runs' <= done' + 1
    BY <1>1, <1>2, <1>3 DEF IInv, TypeInv
  <2>. QED  BY <1>1, <2>2, <2>3, GoingOn DEF CountsOn
<1>5. ASSUME ~loops[now].exitFirst PROVE Progress'
  <2>1. Progress
    BY <1>2, <1>5 DEF IInv, RunInv
  <2>2. done < trips /\ Expected(done') = runs'
    BY <1>1, <1>2, <2>1 DEF Progress
  <2>3. counter' = IF perforated[now] = 0 THEN 0 ELSE done' % Pow2[Width]
    BY <1>1, <1>3, <2>1, CounterCounts DEF Progress, IInv, TypeInv
  <2>4. done' <= trips
    BY <1>1, <1>3, <2>2
  <2>. QED  BY <1>1, <1>2, <2>2, <2>3, <2>4 DEF Progress, Goto, Expected
<1>6. RunInv'
  BY <1>1, <1>5 DEF RunInv, Goto
<1>. QED  BY <1>4, <1>6 DEF IInv

LEMMA StepIInv == IInv /\ [Going]_vars => IInv'
<1> SUFFICES ASSUME IInv, [Going]_vars PROVE IInv'
  OBVIOUS
<1>1. CASE UNCHANGED vars
  <2>1. \A m \in Ids : Name(m)' = Name(m) /\ Elidable(m)' = Elidable(m) /\ Considered(m)' = Considered(m)
    BY <1>1 DEF vars, Name, Elidable, Considered
  <2>2. TypeInv'
    BY <1>1 DEF vars, IInv, TypeInv, TypeOK
  <2>3. BuildInv'
    BY <1>1, <2>1 DEF vars, IInv, BuildInv
  <2>4. RunInv'
    BY <1>1 DEF vars, IInv, RunInv, Progress, Expected
  <2>. QED  BY <2>2, <2>3, <2>4 DEF IInv
<1>2. CASE Build
  BY <1>2, AssessIInv, ConfigureIInv, RelaxIInv DEF Build
<1>3. CASE Start
  <2>1. entries = 0
    BY <1>3 DEF Start, IInv, TypeInv
  <2>. QED  BY <1>3, <2>1, StartIInv
<1>4. CASE Run
  BY <1>4, ReenterIInv, HeaderIInv, CheckIInv, LatchIInv DEF Run
<1>5. CASE BodyAndClone
  BY <1>5, BodyIInv, CloneIInv DEF BodyAndClone
<1>. QED  BY <1>1, <1>2, <1>3, <1>4, <1>5 DEF Going

-----------------------------------------------------------------------------
(* Theorems.                                                               *)

\* A loop and a loop with its body take no other steps.
LEMMA BodiesGoOn ==
  /\ Next => Going
  /\ [NextBody]_<<vars, dataVars>> => [Going]_vars
<1>1. Next => Going
  BY DEF Next, Going, BodyAndClone
<1>2. ASSUME [NextBody]_<<vars, dataVars>> PROVE [Going]_vars
  <2>1. CASE StartBody
    BY <2>1 DEF StartBody, Going
  <2>2. CASE EvaluateBody
    <3>1. PICK e : BodyTo(After(e))
      BY <2>2 DEF EvaluateBody
    <3>2. After(e) \in {"latch", "trap"}
      BY DEF After
    <3>. QED  BY <3>1, <3>2 DEF Going, BodyAndClone
  <2>3. CASE ReplayBody
    <3>1. PICK e : CloneTo(After(e))
      BY <2>3 DEF ReplayBody
    <3>2. After(e) \in {"latch", "trap"}
      BY DEF After
    <3>. QED  BY <3>1, <3>2 DEF Going, BodyAndClone
  <2>4. CASE (Build \/ Run) /\ UNCHANGED dataVars
    BY <2>4 DEF Going
  <2>5. CASE UNCHANGED <<vars, dataVars>>
    BY <2>5
  <2>. QED  BY <1>2, <2>1, <2>2, <2>3, <2>4, <2>5 DEF NextBody
<1>. QED  BY <1>1, <1>2

\* Whatever the program, its parameters and its bodies: the types, what is in the
\* file, and where the loop that runs is with its count.
THEOREM Invariance == (Spec => []IInv) /\ (SpecBody => []IInv)
<1>1. Spec => []IInv
  <2>1. IInv /\ [Next]_vars => IInv'
    BY StepIInv, BodiesGoOn
  <2>. QED  BY <2>1, InitIInv, PTL DEF Spec
<1>2. SpecBody => []IInv
  <2>1. IInv /\ [NextBody]_<<vars, dataVars>> => IInv'
    BY StepIInv, BodiesGoOn
  <2>2. InitBody => IInv
    BY InitIInv DEF InitBody
  <2>. QED  BY <2>1, <2>2, PTL DEF SpecBody
<1>. QED  BY <1>1, <1>2

\* The variables of the two builds and of the loop keep their types; a loop never
\* runs for longer than one iteration behind its condition.
THEOREM TypeCorrect == (Spec => []TypeOK) /\ (SpecBody => []TypeOK)
<1>1. IInv => TypeOK
  BY DEF IInv, TypeInv
<1>. QED  BY <1>1, Invariance, PTL

\* The relaxed build rewrites nothing that is forbidden, and nothing on a line on
\* which the precise build has found no loop that may be perforated.
THEOREM RewrittenAreListed == (Spec => []PerforatedIsListed) /\ (SpecBody => []PerforatedIsListed)
<1>1. IInv => PerforatedIsListed
  BY DEF IInv, BuildInv, PerforatedIsListed, Considered
<1>. QED  BY <1>1, Invariance, PTL

\* A perforated loop that leaves by its second successor has run its body in one
\* iteration of 2^param, rounded up: each time it is entered, for any parameters and
\* number of iterations, however small the counter is, and with a clone or without.
THEOREM OneInFactor == (Spec => []BodyRunsOneInFactor) /\ (SpecBody => []BodyRunsOneInFactor)
<1>1. IInv => BodyRunsOneInFactor
  <2> SUFFICES ASSUME IInv, phase = "run", at = "exit", ~loops[now].exitFirst
               PROVE  runs = Expected(trips)
    BY DEF BodyRunsOneInFactor, Expected
  <2>. QED  BY DEF IInv, RunInv, Progress
<1>. QED  BY <1>1, Invariance, PTL

-----------------------------------------------------------------------------
(* The code of bodies.                                                     *)

\* A body is a list of instructions.
LEMMA BodiesAreLists ==
  ASSUME NEW b \in Code
  PROVE  /\ Len(b) \in Nat /\ DOMAIN b = 1..Len(b)
         /\ \A i \in 1..Len(b) :
              /\ b[i] \in Instruction
              /\ Len(b[i].args) = Arity(b[i]) /\ DOMAIN b[i].args = 1..Arity(b[i])
              /\ \A k \in 1..Arity(b[i]) :
                   b[i].args[k] \in 1..(i - 1) /\ b[b[i].args[k]].op \notin {"store", "br"}
              /\ b[i].var # "none" => b[i].op \in {"load", "store"}
              /\ b[i].op = "br" => b[i].to > i
<1>1. b \in Seq(Instruction)
  BY DEF Code
<1>2. Len(b) \in Nat /\ DOMAIN b = 1..Len(b) /\ \A i \in 1..Len(b) : b[i] \in Instruction
  BY <1>1
<1>3. ASSUME NEW i \in 1..Len(b) PROVE DOMAIN b[i].args = 1..Len(b[i].args)
  <2>1. b[i].args \in Seq(Nat)
    BY <1>2 DEF Instruction
  <2>. QED  BY <2>1
<1>4. \A i \in DOMAIN b :
       /\ Len(b[i].args) = Arity(b[i])
       /\ \A k \in DOMAIN b[i].args :
            b[i].args[k] \in 1..(i - 1) /\ b[b[i].args[k]].op \notin {"store", "br"}
       /\ b[i].var # "none" => b[i].op \in {"load", "store"}
       /\ b[i].op = "br" => b[i].to > i
  BY Zenon DEF Code
<1>5. ASSUME NEW i \in 1..Len(b)
      PROVE  /\ Len(b[i].args) = Arity(b[i]) /\ DOMAIN b[i].args = 1..Arity(b[i])
             /\ \A k \in 1..Arity(b[i]) :
                  b[i].args[k] \in 1..(i - 1) /\ b[b[i].args[k]].op \notin {"store", "br"}
             /\ b[i].var # "none" => b[i].op \in {"load", "store"}
             /\ b[i].op = "br" => b[i].to > i
  <2>1. i \in DOMAIN b
    BY <1>2
  <2>2. DOMAIN b[i].args = 1..Arity(b[i]) /\ Len(b[i].args) = Arity(b[i])
    BY <1>3, <1>4, <2>1, Zenon
  <2>. QED  BY <1>4, <2>1, <2>2, Zenon
<1>. QED  BY <1>2, <1>5, Zenon

\* What the operands of an instruction are.
LEMMA OperandsAreEarlier ==
  ASSUME body \in Code, NEW i \in 1..Len(body)
  PROVE  /\ Op(i) \in {"in", "gep", "load", "store", "br"} \cup Operators
         /\ \A k \in Operands(i) : k \in 1..(i - 1) /\ Op(k) \notin {"store", "br"}
         /\ Op(i) \in {"gep", "store", "br"} \cup Operators => Arg(i, 1) \in Operands(i)
         /\ Op(i) \in Operators => Arg(i, 2) \in Operands(i)
         /\ IsLocal(i) => Pointer(i) = <<body[i].var, 0>> /\ body[i].var \in Locals
         /\ ~IsLocal(i) /\ Op(i) \in {"load", "store"} =>
              \E k \in Operands(i) : Pointer(i) = <<"none", k>>
         /\ Op(i) = "load" /\ IsLocal(i) => Operands(i) = {}
         /\ Op(i) = "br" => body[i].to \in Nat /\ body[i].to > i
<1>1. /\ body[i] \in Instruction
      /\ Len(body[i].args) = Arity(body[i]) /\ DOMAIN body[i].args = 1..Arity(body[i])
      /\ \A k \in 1..Arity(body[i]) :
           body[i].args[k] \in 1..(i - 1) /\ body[body[i].args[k]].op \notin {"store", "br"}
      /\ body[i].var # "none" => body[i].op \in {"load", "store"}
      /\ body[i].op = "br" => body[i].to > i
  BY BodiesAreLists, Zenon
<1>2. /\ Op(i) \in {"in", "gep", "load", "store", "br"} \cup Operators
      /\ body[i].var \in Locals \cup {"none"} /\ body[i].to \in Nat
  BY <1>1 DEF Instruction, Op
<1>3. Operands(i) = {Arg(i, k) : k \in 1..Arity(body[i])}
  BY <1>1 DEF Operands
<1>4. \A k \in Operands(i) : k \in 1..(i - 1) /\ Op(k) \notin {"store", "br"}
  BY <1>1, <1>3, Zenon DEF Arg, Op
<1>5. \A k \in 1..Arity(body[i]) : Arg(i, k) \in Operands(i)
  BY <1>3
<1>6. Op(i) \in {"gep", "store", "br"} \cup Operators => 1 \in 1..Arity(body[i])
  BY DEF Arity, Op, Operators
<1>7. Op(i) \in Operators => 2 \in 1..Arity(body[i])
  BY DEF Arity, Op, Operators
<1>8. ~IsLocal(i) /\ Op(i) \in {"load", "store"} => Arity(body[i]) \in 1..Arity(body[i])
  BY DEF Arity, Op, Operators, IsLocal
<1>9. IsLocal(i) => Pointer(i) = <<body[i].var, 0>> /\ body[i].var \in Locals
  BY <1>2 DEF IsLocal, Pointer
<1>10. ASSUME ~IsLocal(i), Op(i) \in {"load", "store"}
       PROVE  \E k \in Operands(i) : Pointer(i) = <<"none", k>>
  <2>1. Pointer(i) = <<"none", Arg(i, Arity(body[i]))>>
    BY <1>1, <1>10 DEF Pointer, IsLocal
  <2>. QED  BY <1>5, <1>8, <1>10, <2>1
<1>11. ASSUME Op(i) = "load", IsLocal(i) PROVE Operands(i) = {}
  <2>1. Arity(body[i]) = 0
    BY <1>11 DEF Arity, Op, Operators, IsLocal
  <2>. QED  BY <1>3, <2>1
<1>12. Op(i) = "br" => body[i].to \in Nat /\ body[i].to > i
  BY <1>1, <1>2 DEF Op
<1>. QED  BY <1>2, <1>4, <1>5, <1>6, <1>7, <1>9, <1>10, <1>11, <1>12

\* The latest of some instructions.
LEMMA LatestIsLast ==
  ASSUME NEW n \in Nat, NEW is \in SUBSET (1..n)
  PROVE  /\ is = {} => Latest(is) = 0
         /\ is # {} => Latest(is) \in is /\ \A i \in is : i <= Latest(is)
<1>1. ASSUME is # {} PROVE \E i \in is : \A j \in is : j <= i
  <2>. DEFINE T == {n - i : i \in is}
  <2>1. T \in SUBSET Nat /\ T # {}
    <3>1. \A i \in is : n - i \in Nat /\ n - i \in T
      OBVIOUS
    <3>. QED  BY <1>1, <3>1
  <2>2. PICK m \in T : \A k \in T : m <= k
    <3>. HIDE DEF T
    <3>. QED  BY <2>1, LeastNatural
  <2>3. PICK i \in is : m = n - i
    BY <2>2
  <2>4. ASSUME NEW j \in is PROVE j <= i
    <3>1. n - i <= n - j
      BY <2>2, <2>3
    <3>. QED  BY <3>1
  <2>. QED  BY <2>4
<1>. QED  BY <1>1 DEF Latest

\* The store before an instruction that stores to its place.
LEMMA StoreIsLatest ==
  ASSUME body \in Code, NEW i \in 1..Len(body)
  PROVE  /\ MostRecentStore(i) \in 0..(i - 1)
         /\ MostRecentStore(i) # 0 =>
              /\ MostRecentStore(i) \in 1..Len(body) /\ Op(MostRecentStore(i)) = "store"
              /\ Pointer(MostRecentStore(i)) = Pointer(i)
         /\ \A s \in 1..(i - 1) :
              Op(s) = "store" /\ Pointer(s) = Pointer(i) =>
                MostRecentStore(i) # 0 /\ s <= MostRecentStore(i)
<1>. DEFINE is == {s \in Stores : s < i /\ Pointer(s) = Pointer(i)}
<1>1. Len(body) \in Nat /\ DOMAIN body = 1..Len(body)
  BY BodiesAreLists
<1>2. Stores = {s \in 1..Len(body) : Op(s) = "store"}
  BY <1>1, Zenon DEF Stores, Those
<1>3. is \in SUBSET (1..Len(body)) /\ is \in SUBSET (1..(i - 1))
  BY <1>1, <1>2
<1>4. MostRecentStore(i) = Latest(is)
  BY DEF MostRecentStore
<1>5. \A s \in 1..(i - 1) : Op(s) = "store" /\ Pointer(s) = Pointer(i) => s \in is
  BY <1>1, <1>2
<1>6. /\ is = {} => Latest(is) = 0
      /\ is # {} => Latest(is) \in is /\ \A s \in is : s <= Latest(is)
  <2>. HIDE DEF is
  <2>. QED  BY <1>1, <1>3, LatestIsLast
<1>7. \A s \in is : s \in 1..Len(body) /\ Op(s) = "store" /\ Pointer(s) = Pointer(i) /\ s \in 1..(i - 1)
  BY <1>2, <1>3
<1>. HIDE DEF is
<1>8. CASE is = {}
  BY <1>4, <1>5, <1>6, <1>8
<1>9. CASE is # {}
  <2>1. MostRecentStore(i) \in is /\ \A s \in is : s <= MostRecentStore(i)
    BY <1>4, <1>6, <1>9
  <2>2. MostRecentStore(i) \in 1..(i - 1)
    BY <1>7, <2>1
  <2>. QED  BY <1>5, <1>7, <2>1, <2>2
<1>. QED  BY <1>8, <1>9

LEMMA SourcesAreEarlier ==
  ASSUME body \in Code, NEW i \in 1..Len(body)
  PROVE  Sources(i) \subseteq 1..(i - 1)
BY StoreIsLatest, OperandsAreEarlier DEF Sources

-----------------------------------------------------------------------------
(* The recursions over the code of a body have solutions.                  *)

\* A slice holds what its members are computed from.
LEMMA SlicesUnfold ==
  ASSUME body \in Code
  PROVE  \A i \in 1..Len(body) : Slice(i) = UNION {{k} \cup Slice(k) : k \in Sources(i)}
<1>. DEFINE Solves(f, n) ==
              f = [j \in 0..n |-> IF j = 0 THEN {} ELSE UNION {{k} \cup f[k] : k \in Sources(j)}]
            A == {n \in Nat : n <= Len(body) => \E f : Solves(f, n)}
            slice == CHOOSE f : Solves(f, Len(body))
<1>1. Len(body) \in Nat
  BY BodiesAreLists
<1>2. 0 \in A
  <2>1. Solves([j \in 0..0 |-> {}], 0)
    OBVIOUS
  <2>. QED  BY <2>1
<1>3. ASSUME NEW n \in A PROVE n + 1 \in A
  <2>. SUFFICES ASSUME n + 1 <= Len(body) PROVE \E f : Solves(f, n + 1)
    BY <1>3
  <2>1. n \in Nat /\ n <= Len(body)
    BY <1>1, <1>3
  <2>2. PICK f : Solves(f, n)
    BY <1>3, <2>1
  <2>. DEFINE g == [j \in 0..(n + 1) |-> IF j = 0 THEN {}
                                        ELSE UNION {{k} \cup f[k] : k \in Sources(j)}]
  <2>3. ASSUME NEW j \in 0..n PROVE g[j] = f[j]
    <3>1. j \in 0..(n + 1)
      BY <2>1
    <3>2. f[j] = IF j = 0 THEN {} ELSE UNION {{k} \cup f[k] : k \in Sources(j)}
      BY <2>2, Zenon
    <3>3. g[j] = IF j = 0 THEN {} ELSE UNION {{k} \cup f[k] : k \in Sources(j)}
      BY <3>1, Zenon
    <3>. QED  BY <3>2, <3>3
  <2>4. ASSUME NEW j \in 0..(n + 1), j # 0
        PROVE  {{k} \cup f[k] : k \in Sources(j)} = {{k} \cup g[k] : k \in Sources(j)}
    <3>1. Sources(j) \subseteq 1..(j - 1)
      BY <1>1, <2>1, <2>4, SourcesAreEarlier
    <3>2. \A k \in Sources(j) : k \in 0..n
      BY <2>1, <3>1
    <3>3. \A k \in Sources(j) : f[k] = g[k]
      BY <2>3, <3>2
    <3>. HIDE DEF g
    <3>. QED  BY <3>3
  <2>5. Solves(g, n + 1)
    <3>. DEFINE h == [j \in 0..(n + 1) |-> IF j = 0 THEN {}
                                          ELSE UNION {{k} \cup g[k] : k \in Sources(j)}]
    <3>1. \A j \in 0..(n + 1) : g[j] = h[j]
      BY <2>4, Zenon
    <3>. QED  BY <3>1
  <2>. HIDE DEF Solves, g
  <2>. QED  BY <2>5
<1>4. Solves(slice, Len(body))
  <2>1. A \in SUBSET Nat
    OBVIOUS
  <2>2. A = Nat
    <3>. HIDE DEF A
    <3>. QED  BY <1>2, <1>3, <2>1, Induction
  <2>3. \E f : Solves(f, Len(body))
    BY <1>1, <2>2
  <2>. HIDE DEF Solves
  <2>. QED  BY <2>3
<1>5. \A i : Slice(i) = slice[i]
  BY Zenon DEF Slice
<1>6. \A i \in 1..Len(body) : slice[i] = UNION {{k} \cup slice[k] : k \in Sources(i)}
  <2>. HIDE DEF slice
  <2>. TAKE i \in 1..Len(body)
  <2>1. i \in 0..Len(body) /\ i # 0
    BY <1>1
  <2>2. slice[i] = IF i = 0 THEN {} ELSE UNION {{k} \cup slice[k] : k \in Sources(i)}
    BY <1>4, <2>1, Zenon
  <2>. QED  BY <2>1, <2>2
<1>. HIDE DEF slice
<1>7. ASSUME NEW i \in 1..Len(body)
      PROVE  {{k} \cup slice[k] : k \in Sources(i)} = {{k} \cup Slice(k) : k \in Sources(i)}
  BY <1>5
<1>. QED  BY <1>5, <1>6, <1>7, Zenon

\* What is in a slice, its sources are in it too.
LEMMA SlicesAreClosed ==
  ASSUME body \in Code, NEW i \in 1..Len(body)
  PROVE  /\ Sources(i) \subseteq Slice(i) /\ Slice(i) \subseteq 1..(i - 1)
         /\ \A j \in Slice(i) : Sources(j) \subseteq Slice(i)
<1>. DEFINE Closed(j) ==
              /\ Sources(j) \subseteq Slice(j) /\ Slice(j) \subseteq 1..(j - 1)
              /\ \A k \in Slice(j) : Sources(k) \subseteq Slice(j)
            A == {n \in Nat : \A j \in 1..Len(body) : j <= n => Closed(j)}
<1>1. Len(body) \in Nat
  BY BodiesAreLists
<1>2. 0 \in A
  BY <1>1
<1>3. ASSUME NEW n \in A PROVE n + 1 \in A
  <2>1. ASSUME NEW j \in 1..Len(body), j <= n + 1 PROVE Closed(j)
    <3>1. Slice(j) = UNION {{k} \cup Slice(k) : k \in Sources(j)}
      BY SlicesUnfold
    <3>2. Sources(j) \subseteq 1..(j - 1)
      BY SourcesAreEarlier
    <3>3. ASSUME NEW k \in Sources(j) PROVE Closed(k) /\ k \in 1..(j - 1)
      <4>1. k \in 1..Len(body) /\ k <= n
        BY <1>1, <1>3, <2>1, <3>2
      <4>. HIDE DEF Closed
      <4>. QED  BY <1>3, <3>2, <4>1
    <3>4. ASSUME NEW k \in Slice(j) PROVE k \in 1..(j - 1) /\ Sources(k) \subseteq Slice(j)
      <4>1. PICK l \in Sources(j) : k \in {l} \cup Slice(l)
        BY <3>1
      <4>2. Closed(l) /\ l \in 1..(j - 1) /\ Slice(l) \subseteq Slice(j)
        BY <3>1, <3>3
      <4>3. k \in 1..(j - 1)
        BY <4>1, <4>2
      <4>. QED  BY <4>1, <4>2, <4>3
    <3>. QED  BY <3>1, <3>4
  <2>. HIDE DEF Closed
  <2>. QED  BY <1>3, <2>1
<1>4. A = Nat
  <2>1. A \in SUBSET Nat
    OBVIOUS
  <2>. HIDE DEF A
  <2>. QED  BY <1>2, <1>3, <2>1, Induction
<1>5. i \in A
  BY <1>1, <1>4
<1>. QED  BY <1>5

\* So does the clone.
LEMMA SlicedIsClosed ==
  ASSUME body \in Code
  PROVE  /\ Sliced \subseteq 1..Len(body)
         /\ \A i \in Sliced : Sources(i) \subseteq Sliced
         /\ \A b \in Those("br") : Operands(b) \subseteq Sliced
         /\ \A s \in CmpdAssignStores \cup PreservedStores :
              s \in 1..Len(body) /\ Op(s) = "store" /\ (~IsLocal(s) => Pointer(s)[2] \in Sliced)
<1>. DEFINE S1 == {t \in CmpdAssignStores \cup PreservedStores : ~IsLocal(t)}
            C1 == {{Pointer(s)[2]} \cup Slice(Pointer(s)[2]) : s \in S1}
            C2 == {Slice(b) : b \in Those("br")}
<1>1. Len(body) \in Nat /\ DOMAIN body = 1..Len(body)
  BY BodiesAreLists
<1>2. Sliced = UNION (C1 \cup C2)
  BY Zenon DEF Sliced
<1>3. \A s \in CmpdAssignStores \cup PreservedStores : s \in 1..Len(body) /\ Op(s) = "store"
  BY <1>1, Zenon DEF CmpdAssignStores, PreservedStores, Stores, Those
<1>4. ASSUME NEW s \in S1 PROVE Pointer(s)[2] \in 1..Len(body)
  <2>1. s \in 1..Len(body) /\ Op(s) = "store" /\ ~IsLocal(s)
    BY <1>3
  <2>2. PICK k \in Operands(s) : Pointer(s) = <<"none", k>>
    BY <2>1, OperandsAreEarlier
  <2>3. k \in 1..(s - 1)
    BY <2>1, OperandsAreEarlier
  <2>. QED  BY <1>1, <2>1, <2>2, <2>3
<1>5. \A b \in Those("br") : b \in 1..Len(body) /\ Op(b) = "br"
  BY <1>1, Zenon DEF Those
<1>6. ASSUME NEW b \in Those("br") PROVE Operands(b) \subseteq Slice(b)
  <2>1. Sources(b) = Operands(b)
    BY <1>5 DEF Sources
  <2>. QED  BY <1>5, <2>1, SlicesAreClosed
<1>7. ASSUME NEW T \in C1 \cup C2
      PROVE  T \subseteq 1..Len(body) /\ \A i \in T : Sources(i) \subseteq T
  <2>1. CASE T \in C1
    <3>1. PICK s \in S1 : T = {Pointer(s)[2]} \cup Slice(Pointer(s)[2])
      BY <2>1
    <3>. DEFINE k == Pointer(s)[2]
    <3>2. k \in 1..Len(body)
      BY <1>4
    <3>. HIDE DEF k
    <3>3. /\ Sources(k) \subseteq Slice(k) /\ Slice(k) \subseteq 1..(k - 1)
          /\ \A j \in Slice(k) : Sources(j) \subseteq Slice(k)
      BY <3>2, SlicesAreClosed
    <3>4. T = {k} \cup Slice(k)
      BY <3>1 DEF k
    <3>. QED  BY <1>1, <3>2, <3>3, <3>4
  <2>2. CASE T \in C2
    <3>1. PICK b \in Those("br") : T = Slice(b)
      BY <2>2
    <3>2. b \in 1..Len(body)
      BY <1>5
    <3>3. Slice(b) \subseteq 1..(b - 1) /\ \A j \in Slice(b) : Sources(j) \subseteq Slice(b)
      BY <3>2, SlicesAreClosed
    <3>. QED  BY <1>1, <3>1, <3>2, <3>3
  <2>. QED  BY <2>1, <2>2
<1>8. ASSUME NEW s \in S1 PROVE Pointer(s)[2] \in Sliced
  <2>1. {Pointer(s)[2]} \cup Slice(Pointer(s)[2]) \in C1
    OBVIOUS
  <2>. HIDE DEF C1, C2
  <2>. QED  BY <1>2, <2>1
<1>9. \A b \in Those("br") : Slice(b) \subseteq Sliced
  BY <1>2
<1>10. /\ Sliced \subseteq 1..Len(body)
       /\ \A i \in Sliced : Sources(i) \subseteq Sliced
  <2>. HIDE DEF C1, C2
  <2>. QED  BY <1>2, <1>7
<1>. QED  BY <1>3, <1>6, <1>8, <1>9, <1>10

-----------------------------------------------------------------------------
(* An iteration goes through the instructions one after the other.         *)

\* An evaluated iteration executes one instruction after the other.
LEMMA EvaluatedStepwise ==
  ASSUME Len(body) \in Nat, NEW input
  PROVE  \E run : /\ run[0] = Entry(input) /\ Evaluated(input) = run[Len(body)]
                  /\ \A n \in 1..Len(body) : run[n] = Evaluate(run[n - 1], n)
<1>. DEFINE Solves(f, m) ==
              f = [n \in 0..m |-> IF n = 0 THEN Entry(input) ELSE Evaluate(f[n - 1], n)]
            A == {m \in Nat : \E f : Solves(f, m)}
            run == CHOOSE f : Solves(f, Len(body))
<1>1. 0 \in A
  <2>1. Solves([n \in 0..0 |-> Entry(input)], 0)
    OBVIOUS
  <2>. QED  BY <2>1
<1>2. ASSUME NEW m \in A PROVE m + 1 \in A
  <2>1. m \in Nat
    OBVIOUS
  <2>2. PICK f : Solves(f, m)
    BY <1>2
  <2>. DEFINE g == [n \in 0..(m + 1) |-> IF n = 0 THEN Entry(input) ELSE Evaluate(f[n - 1], n)]
              h == [n \in 0..(m + 1) |-> IF n = 0 THEN Entry(input) ELSE Evaluate(g[n - 1], n)]
  <2>3. ASSUME NEW n \in 0..m PROVE g[n] = f[n]
    <3>1. n \in 0..(m + 1)
      BY <2>1
    <3>2. f[n] = IF n = 0 THEN Entry(input) ELSE Evaluate(f[n - 1], n)
      BY <2>2, Zenon
    <3>3. g[n] = IF n = 0 THEN Entry(input) ELSE Evaluate(f[n - 1], n)
      BY <3>1, Zenon
    <3>. QED  BY <3>2, <3>3
  <2>4. ASSUME NEW n \in 0..(m + 1), n # 0 PROVE f[n - 1] = g[n - 1]
    <3>1. n - 1 \in 0..m
      BY <2>1, <2>4
    <3>. HIDE DEF g
    <3>. QED  BY <2>3, <3>1
  <2>5. \A n \in 0..(m + 1) : g[n] = h[n]
    BY <2>4, Zenon
  <2>6. Solves(g, m + 1)
    BY <2>5
  <2>. HIDE DEF Solves, g
  <2>. QED  BY <2>1, <2>6
<1>3. Solves(run, Len(body))
  <2>1. A \in SUBSET Nat
    OBVIOUS
  <2>2. A = Nat
    <3>. HIDE DEF A
    <3>. QED  BY <1>1, <1>2, <2>1, Induction
  <2>3. \E f : Solves(f, Len(body))
    BY <2>2
  <2>. HIDE DEF Solves
  <2>. QED  BY <2>3
<1>4. Evaluated(input) = run[Len(body)]
  BY Zenon DEF Evaluated
<1>. HIDE DEF run
<1>5. ASSUME NEW n \in 0..Len(body)
      PROVE  run[n] = IF n = 0 THEN Entry(input) ELSE Evaluate(run[n - 1], n)
  BY <1>3, Zenon
<1>6. 0 \in 0..Len(body) /\ \A n \in 1..Len(body) : n \in 0..Len(body) /\ n # 0
  OBVIOUS
<1>. QED  BY <1>4, <1>5, <1>6, Zenon

\* So does a skipped one, with the instructions of the clone.
LEMMA ReplayedStepwise ==
  ASSUME Len(body) \in Nat, NEW input
  PROVE  \E run : /\ run[0] = Entry(input) /\ Replayed(input) = run[Len(body)]
                  /\ \A n \in 1..Len(body) : run[n] = Replay(run[n - 1], n)
<1>. DEFINE Solves(f, m) ==
              f = [n \in 0..m |-> IF n = 0 THEN Entry(input) ELSE Replay(f[n - 1], n)]
            A == {m \in Nat : \E f : Solves(f, m)}
            run == CHOOSE f : Solves(f, Len(body))
<1>1. 0 \in A
  <2>1. Solves([n \in 0..0 |-> Entry(input)], 0)
    OBVIOUS
  <2>. QED  BY <2>1
<1>2. ASSUME NEW m \in A PROVE m + 1 \in A
  <2>1. m \in Nat
    OBVIOUS
  <2>2. PICK f : Solves(f, m)
    BY <1>2
  <2>. DEFINE g == [n \in 0..(m + 1) |-> IF n = 0 THEN Entry(input) ELSE Replay(f[n - 1], n)]
              h == [n \in 0..(m + 1) |-> IF n = 0 THEN Entry(input) ELSE Replay(g[n - 1], n)]
  <2>3. ASSUME NEW n \in 0..m PROVE g[n] = f[n]
    <3>1. n \in 0..(m + 1)
      BY <2>1
    <3>2. f[n] = IF n = 0 THEN Entry(input) ELSE Replay(f[n - 1], n)
      BY <2>2, Zenon
    <3>3. g[n] = IF n = 0 THEN Entry(input) ELSE Replay(f[n - 1], n)
      BY <3>1, Zenon
    <3>. QED  BY <3>2, <3>3
  <2>4. ASSUME NEW n \in 0..(m + 1), n # 0 PROVE f[n - 1] = g[n - 1]
    <3>1. n - 1 \in 0..m
      BY <2>1, <2>4
    <3>. HIDE DEF g
    <3>. QED  BY <2>3, <3>1
  <2>5. \A n \in 0..(m + 1) : g[n] = h[n]
    BY <2>4, Zenon
  <2>6. Solves(g, m + 1)
    BY <2>5
  <2>. HIDE DEF Solves, g
  <2>. QED  BY <2>1, <2>6
<1>3. Solves(run, Len(body))
  <2>1. A \in SUBSET Nat
    OBVIOUS
  <2>2. A = Nat
    <3>. HIDE DEF A
    <3>. QED  BY <1>1, <1>2, <2>1, Induction
  <2>3. \E f : Solves(f, Len(body))
    BY <2>2
  <2>. HIDE DEF Solves
  <2>. QED  BY <2>3
<1>4. Replayed(input) = run[Len(body)]
  BY Zenon DEF Replayed
<1>. HIDE DEF run
<1>5. ASSUME NEW n \in 0..Len(body)
      PROVE  run[n] = IF n = 0 THEN Entry(input) ELSE Replay(run[n - 1], n)
  BY <1>3, Zenon
<1>6. 0 \in 0..Len(body) /\ \A n \in 1..Len(body) : n \in 0..Len(body) /\ n # 0
  OBVIOUS
<1>. QED  BY <1>4, <1>5, <1>6, Zenon

\* What is found of an operand follows from what is found of its operands.
LEMMA LoadsUnfold ==
  ASSUME body \in Code, NEW up \in Operators, NEW down \in Operators, NEW p
  PROVE  \A i \in 0..Len(body) :
           Loads(p, up, down)[i] = LoadsOf(i, Loads(p, up, down), p, up, down)
<1>. DEFINE Solves(f, n) == f = [i \in 0..n |-> LoadsOf(i, f, p, up, down)]
            A == {n \in Nat : n <= Len(body) => \E f : Solves(f, n)}
            found == CHOOSE f : Solves(f, Len(body))
<1>1. Len(body) \in Nat
  BY BodiesAreLists
<1>2. ASSUME NEW i \in 0..Len(body), NEW f, NEW g, \A j \in 0..(i - 1) : f[j] = g[j]
      PROVE  LoadsOf(i, f, p, up, down) = LoadsOf(i, g, p, up, down)
  <2>1. CASE i = 0
    BY <2>1 DEF LoadsOf
  <2>2. CASE i # 0
    <3>1. i \in 1..Len(body) /\ i - 1 \in Nat
      BY <1>1, <2>2
    <3>2. f[MostRecentStore(i)] = g[MostRecentStore(i)]
      BY <1>2, <3>1, StoreIsLatest
    <3>3. Op(i) \in {"store"} \cup Operators => f[Arg(i, 1)] = g[Arg(i, 1)]
      BY <1>2, <3>1, OperandsAreEarlier
    <3>4. Op(i) \in Operators => f[Arg(i, 2)] = g[Arg(i, 2)]
      BY <1>2, <3>1, OperandsAreEarlier
    <3>5. CASE Op(i) = "load"
      BY <2>2, <3>2, <3>5 DEF LoadsOf
    <3>6. CASE Op(i) = "store"
      BY <2>2, <3>3, <3>6 DEF LoadsOf
    <3>7. CASE Op(i) \in {up, down} /\ Op(i) \notin {"load", "store"}
      BY <2>2, <3>3, <3>4, <3>7 DEF LoadsOf
    <3>8. CASE Op(i) \notin {up, down, "load", "store"}
      BY <2>2, <3>8 DEF LoadsOf
    <3>. QED  BY <3>5, <3>6, <3>7, <3>8
  <2>. QED  BY <2>1, <2>2
<1>3. 0 \in A
  <2>. DEFINE f == [i \in 0..0 |-> NotFound]
  <2>1. \A i \in 0..0 : LoadsOf(i, f, p, up, down) = NotFound
    BY DEF LoadsOf
  <2>2. f = [i \in 0..0 |-> LoadsOf(i, f, p, up, down)]
    BY <2>1, Zenon
  <2>3. Solves(f, 0)
    BY <2>2
  <2>. HIDE DEF Solves, f
  <2>. QED  BY <2>3
<1>4. ASSUME NEW n \in A PROVE n + 1 \in A
  <2>. SUFFICES ASSUME n + 1 <= Len(body) PROVE \E f : Solves(f, n + 1)
    BY <1>4
  <2>1. n \in Nat /\ n <= Len(body)
    BY <1>1, <1>4
  <2>2. PICK f : Solves(f, n)
    BY <1>4, <2>1
  <2>. DEFINE g == [i \in 0..(n + 1) |-> LoadsOf(i, f, p, up, down)]
              h == [i \in 0..(n + 1) |-> LoadsOf(i, g, p, up, down)]
  <2>3. ASSUME NEW i \in 0..n PROVE g[i] = f[i]
    <3>1. i \in 0..(n + 1)
      BY <2>1
    <3>2. f[i] = LoadsOf(i, f, p, up, down)
      BY <2>2, Zenon
    <3>3. g[i] = LoadsOf(i, f, p, up, down)
      BY <3>1, Zenon
    <3>. QED  BY <3>2, <3>3
  <2>. HIDE DEF g
  <2>4. ASSUME NEW i \in 0..(n + 1) PROVE g[i] = h[i]
    <3>1. i \in 0..Len(body) /\ \A j \in 0..(i - 1) : j \in 0..n
      BY <1>1, <2>1
    <3>2. \A j \in 0..(i - 1) : f[j] = g[j]
      BY <2>3, <3>1
    <3>3. LoadsOf(i, f, p, up, down) = LoadsOf(i, g, p, up, down)
      BY <1>2, <3>1, <3>2
    <3>4. g[i] = LoadsOf(i, f, p, up, down)
      BY Zenon DEF g
    <3>5. h[i] = LoadsOf(i, g, p, up, down)
      BY Zenon
    <3>. QED  BY <3>3, <3>4, <3>5
  <2>5. Solves(g, n + 1)
    <3>1. g = [i \in 0..(n + 1) |-> g[i]]
      BY DEF g
    <3>2. g = h
      BY <2>4, <3>1, Zenon
    <3>. QED  BY <3>2
  <2>. HIDE DEF Solves
  <2>. QED  BY <2>5
<1>5. Solves(found, Len(body))
  <2>1. A \in SUBSET Nat
    OBVIOUS
  <2>2. A = Nat
    <3>. HIDE DEF A
    <3>. QED  BY <1>3, <1>4, <2>1, Induction
  <2>3. \E f : Solves(f, Len(body))
    BY <1>1, <2>2
  <2>. HIDE DEF Solves
  <2>. QED  BY <2>3
<1>6. Loads(p, up, down) = found
  BY Zenon DEF Loads
<1>. HIDE DEF found
<1>. QED  BY <1>5, <1>6, Zenon

\* So does what is found of a store.
LEMMA AssignmentUnfolds ==
  ASSUME body \in Code, NEW up \in Operators, NEW down \in Operators, NEW s
  PROVE  \E found :
            /\ Assignment(s, up, down) = found[s]
            /\ \A i \in 0..Len(body) :
                 found[i] = AssignmentOf(i, found, Loads(Pointer(s), up, down), up, down)
<1>. DEFINE Solves(f, n) == f = [i \in 0..n |-> AssignmentOf(i, f, Loads(Pointer(s), up, down), up, down)]
            A == {n \in Nat : n <= Len(body) => \E f : Solves(f, n)}
            found == CHOOSE f : Solves(f, Len(body))
<1>1. Len(body) \in Nat
  BY BodiesAreLists
<1>2. ASSUME NEW i \in 0..Len(body), NEW f, NEW g, \A j \in 0..(i - 1) : f[j] = g[j]
      PROVE  AssignmentOf(i, f, Loads(Pointer(s), up, down), up, down) = AssignmentOf(i, g, Loads(Pointer(s), up, down), up, down)
  <2>1. CASE i = 0
    BY <2>1 DEF AssignmentOf
  <2>2. CASE i # 0
    <3>1. i \in 1..Len(body) /\ i - 1 \in Nat
      BY <1>1, <2>2
    <3>2. f[MostRecentStore(i)] = g[MostRecentStore(i)]
      BY <1>2, <3>1, StoreIsLatest
    <3>3. Op(i) = "store" => f[Arg(i, 1)] = g[Arg(i, 1)]
      BY <1>2, <3>1, OperandsAreEarlier
    <3>4. CASE Op(i) = "load"
      BY <2>2, <3>2, <3>4 DEF AssignmentOf
    <3>5. CASE Op(i) = "store"
      BY <2>2, <3>3, <3>5 DEF AssignmentOf
    <3>6. CASE Op(i) \notin {"load", "store"}
      BY <2>2, <3>6 DEF AssignmentOf
    <3>. QED  BY <3>4, <3>5, <3>6
  <2>. QED  BY <2>1, <2>2
<1>3. 0 \in A
  <2>. DEFINE f == [i \in 0..0 |-> NotFound]
  <2>1. \A i \in 0..0 : AssignmentOf(i, f, Loads(Pointer(s), up, down), up, down) = NotFound
    BY DEF AssignmentOf
  <2>2. f = [i \in 0..0 |-> AssignmentOf(i, f, Loads(Pointer(s), up, down), up, down)]
    BY <2>1, Zenon
  <2>3. Solves(f, 0)
    BY <2>2
  <2>. HIDE DEF Solves, f
  <2>. QED  BY <2>3
<1>4. ASSUME NEW n \in A PROVE n + 1 \in A
  <2>. SUFFICES ASSUME n + 1 <= Len(body) PROVE \E f : Solves(f, n + 1)
    BY <1>4
  <2>1. n \in Nat /\ n <= Len(body)
    BY <1>1, <1>4
  <2>2. PICK f : Solves(f, n)
    BY <1>4, <2>1
  <2>. DEFINE g == [i \in 0..(n + 1) |-> AssignmentOf(i, f, Loads(Pointer(s), up, down), up, down)]
              h == [i \in 0..(n + 1) |-> AssignmentOf(i, g, Loads(Pointer(s), up, down), up, down)]
  <2>3. ASSUME NEW i \in 0..n PROVE g[i] = f[i]
    <3>1. i \in 0..(n + 1)
      BY <2>1
    <3>2. f[i] = AssignmentOf(i, f, Loads(Pointer(s), up, down), up, down)
      BY <2>2, Zenon
    <3>3. g[i] = AssignmentOf(i, f, Loads(Pointer(s), up, down), up, down)
      BY <3>1, Zenon
    <3>. QED  BY <3>2, <3>3
  <2>. HIDE DEF g
  <2>4. ASSUME NEW i \in 0..(n + 1) PROVE g[i] = h[i]
    <3>1. i \in 0..Len(body) /\ \A j \in 0..(i - 1) : j \in 0..n
      BY <1>1, <2>1
    <3>2. \A j \in 0..(i - 1) : f[j] = g[j]
      BY <2>3, <3>1
    <3>3. AssignmentOf(i, f, Loads(Pointer(s), up, down), up, down) = AssignmentOf(i, g, Loads(Pointer(s), up, down), up, down)
      BY <1>2, <3>1, <3>2
    <3>4. g[i] = AssignmentOf(i, f, Loads(Pointer(s), up, down), up, down)
      BY Zenon DEF g
    <3>5. h[i] = AssignmentOf(i, g, Loads(Pointer(s), up, down), up, down)
      BY Zenon
    <3>. QED  BY <3>3, <3>4, <3>5
  <2>5. Solves(g, n + 1)
    <3>1. g = [i \in 0..(n + 1) |-> g[i]]
      BY DEF g
    <3>2. g = h
      BY <2>4, <3>1, Zenon
    <3>. QED  BY <3>2
  <2>. HIDE DEF Solves
  <2>. QED  BY <2>5
<1>5. Solves(found, Len(body))
  <2>1. A \in SUBSET Nat
    OBVIOUS
  <2>2. A = Nat
    <3>. HIDE DEF A
    <3>. QED  BY <1>3, <1>4, <2>1, Induction
  <2>3. \E f : Solves(f, Len(body))
    BY <1>1, <2>2
  <2>. HIDE DEF Solves
  <2>. QED  BY <2>3
<1>6. Assignment(s, up, down) = found[s]
  BY Zenon DEF Assignment
<1>. HIDE DEF found
<1>. QED  BY <1>5, <1>6, Zenon

-----------------------------------------------------------------------------
(* What is found of compound assignments.                                  *)

Finding == [op : Nat, load : Nat, inc : Seq(Nat), dec : Seq(Nat)]

\* Both lists of operands, as they are saved from.
Changes(a) == a.inc \o a.dec

LEMMA OneMore ==
  ASSUME NEW s \in Seq(Nat), NEW t \in Seq(Nat), NEW x \in Nat
  PROVE  /\ Append(s, x) \in Seq(Nat)
         /\ Len(s \o Append(t, x)) \in Nat \ {0} /\ Len(Append(s, x) \o t) \in Nat \ {0}
         /\ Len(s \o Append(t, x)) = 1 =>
              s = <<>> /\ t = <<>> /\ (s \o Append(t, x))[1] = x
         /\ Len(Append(s, x) \o t) = 1 =>
              s = <<>> /\ t = <<>> /\ (Append(s, x) \o t)[1] = x
<1>1. Len(s) \in Nat /\ Len(t) \in Nat
  OBVIOUS
<1>2. /\ Append(s, x) \in Seq(Nat) /\ Append(t, x) \in Seq(Nat)
      /\ Len(Append(s, x)) = Len(s) + 1 /\ Len(Append(t, x)) = Len(t) + 1
  OBVIOUS
<1>3. /\ Len(s \o Append(t, x)) = Len(s) + (Len(t) + 1)
      /\ Len(Append(s, x) \o t) = (Len(s) + 1) + Len(t)
  BY <1>2
<1>4. (Len(s) = 0 => s = <<>>) /\ (Len(t) = 0 => t = <<>>)
  OBVIOUS
<1>5. (<<>> \o Append(<<>>, x))[1] = x /\ (Append(<<>>, x) \o <<>>)[1] = x
  OBVIOUS
<1>6. Len(s) + (Len(t) + 1) = 1 \/ (Len(s) + 1) + Len(t) = 1 => s = <<>> /\ t = <<>>
  BY <1>1, <1>4
<1>7. Len(s) + (Len(t) + 1) \in Nat \ {0} /\ (Len(s) + 1) + Len(t) \in Nat \ {0}
  BY <1>1
<1>. QED  BY <1>2, <1>3, <1>5, <1>6, <1>7, Zenon

LEMMA LoadsAreFindings ==
  ASSUME body \in Code, NEW up \in Operators, NEW down \in Operators, NEW p
  PROVE  \A i \in 0..Len(body) : Loads(p, up, down)[i] \in Finding
<1>. DEFINE L == Loads(p, up, down)
            A == {n \in Nat : \A i \in 0..Len(body) : i <= n => L[i] \in Finding}
<1>1. Len(body) \in Nat
  BY BodiesAreLists
<1>2. \A i \in 0..Len(body) : L[i] = LoadsOf(i, L, p, up, down)
  BY LoadsUnfold
<1>3. NotFound \in Finding
  BY DEF NotFound, Finding
<1>. HIDE DEF L
<1>4. 0 \in A
  <2>1. \A i \in 0..Len(body) : i <= 0 => i = 0
    OBVIOUS
  <2>2. LoadsOf(0, L, p, up, down) = NotFound
    BY DEF LoadsOf
  <2>. QED  BY <1>1, <1>2, <1>3, <2>1, <2>2
<1>5. ASSUME NEW n \in A PROVE n + 1 \in A
  <2>1. ASSUME NEW i \in 0..Len(body), i <= n + 1 PROVE L[i] \in Finding
    <3>1. CASE i <= n
      BY <1>5, <2>1, <3>1
    <3>2. CASE ~(i <= n)
      <4>1. i \in 1..Len(body) /\ i # 0 /\ n \in Nat /\ i = n + 1 /\ i \in Nat
        BY <1>5, <2>1, <3>2
      <4>2. L[i] = LoadsOf(i, L, p, up, down)
        BY <1>2
      <4>3. L[MostRecentStore(i)] \in Finding
        <5>1. MostRecentStore(i) \in 0..(i - 1)
          BY <4>1, StoreIsLatest
        <5>2. MostRecentStore(i) \in 0..Len(body) /\ MostRecentStore(i) <= n
          BY <1>1, <4>1, <5>1
        <5>. QED  BY <1>5, <5>2
      <4>4. \A k \in Operands(i) : k \in Nat /\ L[k] \in Finding
        <5>. TAKE k \in Operands(i)
        <5>1. k \in 1..(i - 1)
          BY <4>1, OperandsAreEarlier
        <5>2. k \in 0..Len(body) /\ k <= n
          BY <1>1, <4>1, <5>1
        <5>. QED  BY <1>5, <5>2
      <4>5. Op(i) \in {"store"} \cup Operators => Arg(i, 1) \in Operands(i)
        BY <4>1, OperandsAreEarlier
      <4>6. Op(i) \in Operators => Arg(i, 2) \in Operands(i)
        BY <4>1, OperandsAreEarlier
      <4>7. ASSUME NEW a \in Finding, NEW x \in Nat
            PROVE  /\ [a EXCEPT !.inc = Append(@, x)] \in Finding
                   /\ [a EXCEPT !.dec = Append(@, x)] \in Finding
        <5>1. a.inc \in Seq(Nat) /\ a.dec \in Seq(Nat)
          BY DEF Finding
        <5>2. Append(a.inc, x) \in Seq(Nat) /\ Append(a.dec, x) \in Seq(Nat)
          BY <5>1, OneMore
        <5>. QED  BY <5>2 DEF Finding
      <4>8. [NotFound EXCEPT !.load = i] \in Finding
        <5>1. [NotFound EXCEPT !.load = i] = [op |-> 0, load |-> i, inc |-> <<>>, dec |-> <<>>]
          BY DEF NotFound
        <5>2. <<>> \in Seq(Nat)
          OBVIOUS
        <5>3. PICK e : e = <<>>
          OBVIOUS
        <5>4. [op |-> 0, load |-> i, inc |-> e, dec |-> e] \in Finding
          <6>1. e \in Seq(Nat) /\ i \in Nat /\ 0 \in Nat
            BY <4>1, <5>2, <5>3
          <6>. QED  BY <6>1, Zenon DEF Finding
        <5>. QED  BY <5>1, <5>3, <5>4, Zenon
      <4>9. CASE Op(i) = "load"
        <5>1. L[i] = IF Pointer(i) = p THEN [NotFound EXCEPT !.load = i] ELSE L[MostRecentStore(i)]
          BY <4>1, <4>2, <4>9 DEF LoadsOf, Operators
        <5>. QED  BY <4>3, <4>8, <5>1, Zenon
      <4>10. CASE Op(i) = "store"
        <5>1. L[i] = IF Op(Arg(i, 1)) = "load" THEN L[Arg(i, 1)] ELSE NotFound
          BY <4>1, <4>2, <4>10 DEF LoadsOf, Operators
        <5>2. L[Arg(i, 1)] \in Finding
          BY <4>4, <4>5, <4>10
        <5>. QED  BY <1>3, <5>1, <5>2, Zenon
      <4>11. CASE Op(i) \in {up, down} /\ Op(i) \notin {"load", "store"}
        <5>1. /\ Arg(i, 1) \in Nat /\ L[Arg(i, 1)] \in Finding
              /\ Arg(i, 2) \in Nat /\ L[Arg(i, 2)] \in Finding
          BY <4>4, <4>5, <4>6, <4>11
        <5>2. \/ L[i] = NotFound
              \/ L[i] = [L[Arg(i, 1)] EXCEPT !.inc = Append(@, Arg(i, 2))]
              \/ L[i] = [L[Arg(i, 1)] EXCEPT !.dec = Append(@, Arg(i, 2))]
              \/ L[i] = [L[Arg(i, 2)] EXCEPT !.inc = Append(@, Arg(i, 1))]
          BY <4>1, <4>2, <4>11 DEF LoadsOf
        <5>3. /\ [L[Arg(i, 1)] EXCEPT !.inc = Append(@, Arg(i, 2))] \in Finding
              /\ [L[Arg(i, 1)] EXCEPT !.dec = Append(@, Arg(i, 2))] \in Finding
              /\ [L[Arg(i, 2)] EXCEPT !.inc = Append(@, Arg(i, 1))] \in Finding
          BY <4>7, <5>1, Zenon
        <5>. QED  BY <1>3, <5>2, <5>3, Zenon
      <4>12. CASE Op(i) \notin {up, down, "load", "store"}
        BY <1>3, <4>1, <4>2, <4>12 DEF LoadsOf
      <4>. QED  BY <4>9, <4>10, <4>11, <4>12
    <3>. QED  BY <3>1, <3>2
  <2>. QED  BY <1>5, <2>1
<1>6. A = Nat
  <2>1. A \in SUBSET Nat
    OBVIOUS
  <2>. HIDE DEF A
  <2>. QED  BY <1>4, <1>5, <2>1, Induction
<1>7. Len(body) \in A
  BY <1>1, <1>6
<1>8. \A i \in 0..Len(body) : L[i] \in Finding
  BY <1>1, <1>7
<1>. QED  BY <1>8 DEF L

\* An operation on a variable adds one operand to what is found of the other.
LEMMA OperationsAddOne ==
  ASSUME body \in Code, NEW up \in Operators, NEW down \in Operators, up # down, NEW p,
         NEW o \in 1..Len(body), Op(o) \in {up, down}, Loads(p, up, down)[o].load # 0
  PROVE  LET L == Loads(p, up, down)
         IN \E a, b \in Operands(o) :
              /\ \/ a = Arg(o, 1) /\ b = Arg(o, 2)
                 \/ Op(o) = up /\ a = Arg(o, 2) /\ b = Arg(o, 1)
              /\ L[a].load # 0 /\ L[o].load = L[a].load
              /\ Len(Changes(L[o])) \in Nat \ {0}
              /\ Len(Changes(L[o])) = 1 => L[a].inc = <<>> /\ L[a].dec = <<>> /\ Changes(L[o])[1] = b
<1>. DEFINE L == Loads(p, up, down)
<1>1. L[o] = LoadsOf(o, L, p, up, down)
  <2>1. o \in 0..Len(body)
    BY BodiesAreLists
  <2>. QED  BY <2>1, LoadsUnfold
<1>2. Arg(o, 1) \in Operands(o) /\ Arg(o, 2) \in Operands(o)
  BY OperandsAreEarlier
<1>3. \A k \in Operands(o) : k \in Nat /\ L[k] \in Finding
  <2>. TAKE k \in Operands(o)
  <2>1. Len(body) \in Nat /\ k \in 1..(o - 1)
    BY OperandsAreEarlier, BodiesAreLists
  <2>2. k \in 0..Len(body)
    BY <2>1
  <2>. QED  BY <2>2, LoadsAreFindings
<1>4. o # 0 /\ Op(o) \notin {"load", "store"}
  BY DEF Operators
<1>. HIDE DEF L
<1>5. ASSUME NEW a \in Operands(o), NEW b \in Operands(o)
      PROVE  LET up1 == [L[a] EXCEPT !.inc = Append(@, b)]
                 down1 == [L[a] EXCEPT !.dec = Append(@, b)]
             IN /\ up1.load = L[a].load /\ down1.load = L[a].load
                /\ Len(Changes(up1)) \in Nat \ {0} /\ Len(Changes(down1)) \in Nat \ {0}
                /\ Len(Changes(up1)) = 1 => L[a].inc = <<>> /\ L[a].dec = <<>> /\ Changes(up1)[1] = b
                /\ Len(Changes(down1)) = 1 => L[a].inc = <<>> /\ L[a].dec = <<>> /\ Changes(down1)[1] = b
  <2>. DEFINE up1 == [L[a] EXCEPT !.inc = Append(@, b)]
              down1 == [L[a] EXCEPT !.dec = Append(@, b)]
  <2>1. L[a].inc \in Seq(Nat) /\ L[a].dec \in Seq(Nat) /\ b \in Nat
    BY <1>3 DEF Finding
  <2>2. /\ up1.load = L[a].load /\ up1.inc = Append(L[a].inc, b) /\ up1.dec = L[a].dec
        /\ down1.load = L[a].load /\ down1.inc = L[a].inc /\ down1.dec = Append(L[a].dec, b)
    BY <1>3 DEF Finding
  <2>3. PICK s, t, x : s = L[a].inc /\ t = L[a].dec /\ x = b
    OBVIOUS
  <2>4. /\ Len(s \o Append(t, x)) \in Nat \ {0} /\ Len(Append(s, x) \o t) \in Nat \ {0}
        /\ Len(s \o Append(t, x)) = 1 => s = <<>> /\ t = <<>> /\ (s \o Append(t, x))[1] = x
        /\ Len(Append(s, x) \o t) = 1 => s = <<>> /\ t = <<>> /\ (Append(s, x) \o t)[1] = x
    <3>1. s \in Seq(Nat) /\ t \in Seq(Nat) /\ x \in Nat
      BY <2>1, <2>3, Zenon
    <3>. QED  BY <3>1, OneMore
  <2>5. Changes(up1) = Append(s, x) \o t /\ Changes(down1) = s \o Append(t, x)
    BY <2>2, <2>3, Zenon DEF Changes
  <2>. HIDE DEF up1, down1
  <2>6. /\ up1.load = L[a].load /\ down1.load = L[a].load
        /\ Len(Changes(up1)) \in Nat \ {0} /\ Len(Changes(down1)) \in Nat \ {0}
        /\ Len(Changes(up1)) = 1 => L[a].inc = <<>> /\ L[a].dec = <<>> /\ Changes(up1)[1] = b
        /\ Len(Changes(down1)) = 1 => L[a].inc = <<>> /\ L[a].dec = <<>> /\ Changes(down1)[1] = b
    BY <2>2, <2>3, <2>4, <2>5, Zenon
  <2>. QED  BY <2>6, Zenon DEF up1, down1
<1>6. \/ /\ L[Arg(o, 1)].load # 0
         /\ \/ L[o] = [L[Arg(o, 1)] EXCEPT !.inc = Append(@, Arg(o, 2))]
            \/ L[o] = [L[Arg(o, 1)] EXCEPT !.dec = Append(@, Arg(o, 2))]
      \/ /\ Op(o) = up /\ L[Arg(o, 2)].load # 0
         /\ L[o] = [L[Arg(o, 2)] EXCEPT !.inc = Append(@, Arg(o, 1))]
  <2>1. L[o].load # 0
    BY DEF L
  <2>2. NotFound.load = 0
    BY DEF NotFound
  <2>3. L[o] # NotFound
    BY <2>1, <2>2
  <2>. QED  BY <1>1, <1>4, <2>3 DEF LoadsOf
<1>. DEFINE Which(a, b) ==
              (a = Arg(o, 1) /\ b = Arg(o, 2)) \/ (Op(o) = up /\ a = Arg(o, 2) /\ b = Arg(o, 1))
            Goal(a, b) ==
              /\ L[a].load # 0 /\ L[o].load = L[a].load
              /\ Len(Changes(L[o])) \in Nat \ {0}
              /\ Len(Changes(L[o])) = 1 => L[a].inc = <<>> /\ L[a].dec = <<>> /\ Changes(L[o])[1] = b
<1>7. \E a, b \in Operands(o) : Which(a, b) /\ Goal(a, b)
  <2>1. ASSUME NEW a \in Operands(o), NEW b \in Operands(o), L[a].load # 0,
               \/ L[o] = [L[a] EXCEPT !.inc = Append(@, b)]
               \/ L[o] = [L[a] EXCEPT !.dec = Append(@, b)]
        PROVE  Goal(a, b)
    <3>. DEFINE up1 == [L[a] EXCEPT !.inc = Append(@, b)]
                down1 == [L[a] EXCEPT !.dec = Append(@, b)]
    <3>0. /\ up1.load = L[a].load /\ down1.load = L[a].load
          /\ Len(Changes(up1)) \in Nat \ {0} /\ Len(Changes(down1)) \in Nat \ {0}
          /\ Len(Changes(up1)) = 1 => L[a].inc = <<>> /\ L[a].dec = <<>> /\ Changes(up1)[1] = b
          /\ Len(Changes(down1)) = 1 => L[a].inc = <<>> /\ L[a].dec = <<>> /\ Changes(down1)[1] = b
      BY <1>5, Zenon
    <3>. HIDE DEF up1, down1
    <3>1. CASE L[o] = up1
      BY <3>0, <2>1, <3>1, Zenon
    <3>2. CASE L[o] = down1
      BY <3>0, <2>1, <3>2, Zenon
    <3>3. L[o] = up1 \/ L[o] = down1
      BY <2>1 DEF up1, down1
    <3>. QED  BY <3>1, <3>2, <3>3
  <2>. HIDE DEF Goal, Which
  <2>2. CASE L[Arg(o, 1)].load # 0 /\ (\/ L[o] = [L[Arg(o, 1)] EXCEPT !.inc = Append(@, Arg(o, 2))]
                                     \/ L[o] = [L[Arg(o, 1)] EXCEPT !.dec = Append(@, Arg(o, 2))])
    <3>1. PICK a, b \in Operands(o) : a = Arg(o, 1) /\ b = Arg(o, 2)
      BY <1>2
    <3>2. L[a].load # 0
      BY <2>2, <3>1
    <3>5. Which(a, b)
      BY <3>1, Zenon DEF Which
    <3>6. Goal(a, b)
      <4>1. CASE L[o] = [L[a] EXCEPT !.inc = Append(@, b)]
        BY <2>1, <3>2, <4>1, Zenon
      <4>2. CASE L[o] = [L[a] EXCEPT !.dec = Append(@, b)]
        BY <2>1, <3>2, <4>2, Zenon
      <4>. QED  BY <2>2, <3>1, <4>1, <4>2, Zenon
    <3>. QED  BY <3>5, <3>6
  <2>3. CASE /\ Op(o) = up /\ L[Arg(o, 2)].load # 0
             /\ L[o] = [L[Arg(o, 2)] EXCEPT !.inc = Append(@, Arg(o, 1))]
    <3>1. Goal(Arg(o, 2), Arg(o, 1))
      BY <1>2, <2>1, <2>3, Zenon
    <3>2. Which(Arg(o, 2), Arg(o, 1))
      BY <2>3 DEF Which
    <3>. QED  BY <1>2, <3>1, <3>2
  <2>. QED  BY <1>6, <2>2, <2>3, Zenon
<1>. QED  BY <1>7, Zenon DEF L

\* What is found of a store is what is found of the operation whose result it stores.
Found(a, p, up, down, i) ==
  /\ a.op \in 1..(i - 1) /\ Op(a.op) \in {up, down}
  /\ Loads(p, up, down)[a.op].load # 0
  /\ a = [Loads(p, up, down)[a.op] EXCEPT !.op = a.op]

LEMMA AssignmentsAreOperations ==
  ASSUME body \in Code, NEW up \in Operators, NEW down \in Operators,
         NEW s \in 1..Len(body), Assignment(s, up, down).op # 0
  PROVE  Found(Assignment(s, up, down), Pointer(s), up, down, s)
<1>. DEFINE p == Pointer(s)
            L == Loads(p, up, down)
<1>1. Len(body) \in Nat
  BY BodiesAreLists
<1>2. PICK found : /\ Assignment(s, up, down) = found[s]
                   /\ \A i \in 0..Len(body) : found[i] = AssignmentOf(i, found, L, up, down)
  BY AssignmentUnfolds
<1>. DEFINE A == {n \in Nat : \A i \in 0..Len(body) :
                    i <= n /\ found[i].op # 0 => Found(found[i], p, up, down, i)}
<1>3. NotFound.op = 0
  BY DEF NotFound
<1>. HIDE DEF p
<1>4. \A i \in 0..Len(body) : L[i] \in Finding
  BY LoadsAreFindings
<1>. HIDE DEF L
<1>5. 0 \in A
  <2>1. AssignmentOf(0, found, L, up, down) = NotFound
    BY DEF AssignmentOf
  <2>2. \A i \in 0..Len(body) : i <= 0 => found[i].op = 0
    <3>1. \A i \in 0..Len(body) : i <= 0 => i = 0
      OBVIOUS
    <3>2. 0 \in 0..Len(body)
      BY <1>1
    <3>3. found[0].op = 0
      BY <1>2, <1>3, <2>1, <3>2
    <3>. QED  BY <3>1, <3>3
  <2>. QED  BY <2>2
<1>6. ASSUME NEW n \in A PROVE n + 1 \in A
  <2>1. ASSUME NEW i \in 0..Len(body), i <= n + 1, found[i].op # 0
        PROVE  Found(found[i], p, up, down, i)
    <3>1. CASE i <= n
      BY <1>6, <2>1, <3>1
    <3>2. CASE ~(i <= n)
      <4>1. i \in 1..Len(body) /\ i # 0 /\ n \in Nat /\ i = n + 1 /\ i \in Nat
        BY <1>6, <2>1, <3>2
      <4>2. found[i] = AssignmentOf(i, found, L, up, down)
        BY <1>2
      <4>3. ASSUME NEW m \in 0..(i - 1), found[i] = found[m]
            PROVE  Found(found[i], p, up, down, i)
        <5>1. m \in 0..Len(body) /\ m <= n /\ found[m].op # 0
          BY <1>1, <2>1, <4>1, <4>3
        <5>2. Found(found[m], p, up, down, m)
          BY <1>6, <5>1
        <5>3. \A o \in 1..(m - 1) : o \in 1..(i - 1)
          BY <4>1, <4>3
        <5>. QED  BY <4>3, <5>2, <5>3 DEF Found
      <4>4. CASE Op(i) = "load"
        <5>1. MostRecentStore(i) \in 0..(i - 1)
          BY <4>1, StoreIsLatest
        <5>2. found[i] = found[MostRecentStore(i)]
          BY <4>1, <4>2, <4>4 DEF AssignmentOf
        <5>. QED  BY <4>3, <5>1, <5>2
      <4>5. CASE Op(i) = "store"
        <5>1. Arg(i, 1) \in 1..(i - 1)
          BY <4>1, <4>5, OperandsAreEarlier
        <5>2. CASE Op(Arg(i, 1)) = "load"
          <6>1. found[i] = found[Arg(i, 1)]
            <7>1. AssignmentOf(i, found, L, up, down) = found[Arg(i, 1)]
              BY <4>1, <4>5, <5>2 DEF AssignmentOf, Operators
            <7>. QED  BY <4>2, <7>1
          <6>2. Arg(i, 1) \in 0..(i - 1)
            BY <4>1, <5>1
          <6>. QED  BY <4>3, <6>1, <6>2
        <5>3. CASE Op(Arg(i, 1)) \in {up, down} /\ Op(Arg(i, 1)) # "load"
          <6>. DEFINE o == Arg(i, 1)
          <6>1. found[i] = IF L[o].load = 0 THEN NotFound ELSE [L[o] EXCEPT !.op = o]
            BY <4>1, <4>2, <4>5, <5>3 DEF AssignmentOf
          <6>2. L[o].load # 0 /\ found[i] = [L[o] EXCEPT !.op = o]
            BY <1>3, <2>1, <6>1
          <6>3. o \in 0..Len(body) /\ o \in Nat
            BY <1>1, <4>1, <5>1
          <6>4. L[o] \in Finding
            BY <1>4, <6>3
          <6>. HIDE DEF o
          <6>5. found[i].op = o
            BY <6>2, <6>4 DEF Finding
          <6>6. Op(o) \in {up, down} /\ o \in 1..(i - 1)
            BY <5>1, <5>3 DEF o
          <6>. QED  BY <6>2, <6>5, <6>6 DEF Found, L
        <5>4. CASE Op(Arg(i, 1)) \notin {up, down, "load"}
          BY <1>3, <2>1, <4>1, <4>2, <4>5, <5>4 DEF AssignmentOf
        <5>. QED  BY <5>2, <5>3, <5>4
      <4>6. CASE Op(i) \notin {"load", "store"}
        BY <1>3, <2>1, <4>1, <4>2, <4>6 DEF AssignmentOf
      <4>. QED  BY <4>4, <4>5, <4>6
    <3>. QED  BY <3>1, <3>2
  <2>2. n + 1 \in Nat
    BY <1>6
  <2>. QED  BY <2>1, <2>2
<1>7. A = Nat
  <2>1. A \in SUBSET Nat
    OBVIOUS
  <2>. HIDE DEF A
  <2>. QED  BY <1>5, <1>6, <2>1, Induction
<1>8. s \in A /\ s \in 0..Len(body) /\ s <= s
  BY <1>1, <1>7
<1>. QED  BY <1>2, <1>8 DEF p

-----------------------------------------------------------------------------
(* What a clone is made of.                                                *)

LEMMA CmpdAssignsAreOperations ==
  ASSUME body \in Code, NEW s \in CmpdAssignStores
  PROVE  /\ s \in 1..Len(body) /\ Op(s) = "store"
         /\ CmpdAssign(s).op \in 1..(s - 1) /\ Op(CmpdAssign(s).op) \in Operators
         /\ IF Op(CmpdAssign(s).op) \in {"+", "-"}
            THEN Found(CmpdAssign(s), Pointer(s), "+", "-", s)
            ELSE Found(CmpdAssign(s), Pointer(s), "*", "/", s)
<1>. DEFINE a == CmpdAssign(s)
<1>1. s \in 1..Len(body) /\ Op(s) = "store"
  BY BodiesAreLists, Zenon DEF CmpdAssignStores, Stores, Those
<1>2. a.op # 0
  BY Zenon DEF CmpdAssignStores
<1>3. "+" \in Operators /\ "-" \in Operators /\ "*" \in Operators /\ "/" \in Operators
  BY DEF Operators
<1>4. CASE Assignment(s, "+", "-").op # 0
  <2>1. a = Assignment(s, "+", "-")
    BY <1>4, Zenon DEF CmpdAssign
  <2>2. Found(Assignment(s, "+", "-"), Pointer(s), "+", "-", s)
    BY <1>1, <1>3, <1>4, AssignmentsAreOperations
  <2>3. a.op \in 1..(s - 1) /\ Op(a.op) \in {"+", "-"}
    BY <2>1, <2>2, Zenon DEF Found
  <2>. HIDE DEF a
  <2>4. Op(a.op) \in Operators
    BY <2>3 DEF Operators
  <2>. QED  BY <1>1, <2>1, <2>2, <2>3, <2>4, Zenon DEF a
<1>5. CASE Assignment(s, "+", "-").op = 0
  <2>1. a = Assignment(s, "*", "/")
    BY <1>5, Zenon DEF CmpdAssign
  <2>2. Found(Assignment(s, "*", "/"), Pointer(s), "*", "/", s)
    BY <1>1, <1>2, <1>3, <2>1, AssignmentsAreOperations, Zenon
  <2>3. a.op \in 1..(s - 1) /\ Op(a.op) \in {"*", "/"}
    BY <2>1, <2>2, Zenon DEF Found
  <2>. HIDE DEF a
  <2>4. Op(a.op) \in Operators /\ Op(a.op) \notin {"+", "-"}
    BY <2>3 DEF Operators
  <2>. QED  BY <1>1, <2>1, <2>2, <2>3, <2>4, Zenon DEF a
<1>. QED  BY <1>4, <1>5

LEMMA CloneParts ==
  ASSUME body \in Code, clone \in Clone
  PROVE  /\ clone.kept = Preserved /\ clone.held = PreservedStores
         /\ DOMAIN clone.assigns = CmpdAssignStores
         /\ \A s \in CmpdAssignStores : clone.assigns[s] = CmpdAssign(s)
         /\ DOMAIN clone.owner = {CmpdAssign(s).op : s \in CmpdAssignStores}
         /\ \A o \in DOMAIN clone.owner :
              /\ clone.owner[o] \in CmpdAssignStores /\ CmpdAssign(clone.owner[o]).op = o
              /\ o \in 1..Len(body) /\ Op(o) \in Operators
         /\ \A s \in PreservedStores : s \in 1..Len(body) /\ Op(s) = "store" /\ s \notin CmpdAssignStores
<1>1. /\ clone.kept = Preserved /\ clone.held = PreservedStores
      /\ clone.assigns = [s \in CmpdAssignStores |-> CmpdAssign(s)]
      /\ clone.owner \in [{CmpdAssign(s).op : s \in CmpdAssignStores} -> CmpdAssignStores]
      /\ \A o \in DOMAIN clone.owner : CmpdAssign(clone.owner[o]).op = o
  BY DEF Clone
<1>2. /\ DOMAIN clone.assigns = CmpdAssignStores
      /\ \A s \in CmpdAssignStores : clone.assigns[s] = CmpdAssign(s)
  BY <1>1, Zenon
<1>3. /\ DOMAIN clone.owner = {CmpdAssign(s).op : s \in CmpdAssignStores}
      /\ \A o \in DOMAIN clone.owner : clone.owner[o] \in CmpdAssignStores
  BY <1>1
<1>4. ASSUME NEW o \in DOMAIN clone.owner
      PROVE  o \in 1..Len(body) /\ Op(o) \in Operators
  <2>1. PICK s \in CmpdAssignStores : s = clone.owner[o]
    BY <1>3
  <2>2. CmpdAssign(s).op = o
    BY <1>1, <2>1
  <2>3. Len(body) \in Nat
    BY BodiesAreLists
  <2>4. s \in 1..Len(body) /\ o \in 1..(s - 1) /\ Op(o) \in Operators
    BY <2>2, CmpdAssignsAreOperations
  <2>. QED  BY <2>3, <2>4
<1>5. \A s \in PreservedStores : s \in 1..Len(body) /\ Op(s) = "store" /\ s \notin CmpdAssignStores
  BY BodiesAreLists, Zenon DEF PreservedStores, Stores, Those
<1>. QED  BY <1>1, <1>2, <1>3, <1>4, <1>5, Zenon

\* What no evaluated iteration saves for, and no clone is made of.
LEMMA NoCloneParts ==
  ASSUME clone = NoClone
  PROVE  clone.held = {} /\ DOMAIN clone.assigns = {}
BY DEF NoClone, Nothing

-----------------------------------------------------------------------------
(* What the instructions change.                                           *)

IsEnv(e) ==
  /\ e = [mem |-> e.mem, elems |-> e.elems, saved |-> e.saved, input |-> e.input,
          results |-> e.results, next |-> e.next, puts |-> e.puts,
          unset |-> e.unset, trapped |-> e.trapped]
  /\ e.mem = [v \in Locals |-> e.mem[v]]

LEMMA UpdatedAt ==
  ASSUME NEW f, NEW x, NEW v
  PROVE  /\ DOMAIN Updated(f, x, v) = DOMAIN f \cup {x}
         /\ At(Updated(f, x, v), x) = v /\ Updated(f, x, v)[x] = v
         /\ \A y : y # x => At(Updated(f, x, v), y) = At(f, y)
         /\ \A y \in DOMAIN f : y # x => Updated(f, x, v)[y] = f[y]
BY DEF Updated, At

LEMMA UsesSets ==
  ASSUME NEW e, IsEnv(e), NEW f, NEW xs
  PROVE  LET u == Uses(e, f, xs)
         IN /\ IsEnv(u)
            /\ u.mem = e.mem /\ u.elems = e.elems /\ u.saved = e.saved /\ u.input = e.input
            /\ u.results = e.results /\ u.next = e.next /\ u.puts = e.puts /\ u.trapped = e.trapped
            /\ u.unset = (e.unset \/ ~(xs \subseteq DOMAIN f))
<1>. DEFINE u == Uses(e, f, xs)
<1>1. u = [mem |-> e.mem, elems |-> e.elems, saved |-> e.saved, input |-> e.input,
           results |-> e.results, next |-> e.next, puts |-> e.puts,
           unset |-> (e.unset \/ ~(xs \subseteq DOMAIN f)), trapped |-> e.trapped]
  BY DEF Uses, IsEnv
<1>. HIDE DEF u
<1>2. /\ u.mem = e.mem /\ u.elems = e.elems /\ u.saved = e.saved /\ u.input = e.input
      /\ u.results = e.results /\ u.next = e.next /\ u.puts = e.puts /\ u.trapped = e.trapped
      /\ u.unset = (e.unset \/ ~(xs \subseteq DOMAIN f))
  BY <1>1, Zenon
<1>3. IsEnv(u)
  BY <1>1, <1>2, Zenon DEF IsEnv
<1>4. /\ IsEnv(u)
      /\ u.mem = e.mem /\ u.elems = e.elems /\ u.saved = e.saved /\ u.input = e.input
      /\ u.results = e.results /\ u.next = e.next /\ u.puts = e.puts /\ u.trapped = e.trapped
      /\ u.unset = (e.unset \/ ~(xs \subseteq DOMAIN f))
  BY <1>2, <1>3
<1>. QED  BY <1>4 DEF u

\* What most instructions leave as it is.
KeepsMemory(e, f) == f.mem = e.mem /\ f.elems = e.elems /\ f.puts = e.puts
KeepsRest(e, f) == f.saved = e.saved /\ f.input = e.input /\ f.unset = e.unset

LEMMA GivesSets ==
  ASSUME NEW e, IsEnv(e), NEW i, NEW v
  PROVE  LET g == Gives(e, i, v)
         IN /\ IsEnv(g) /\ KeepsMemory(e, g) /\ KeepsRest(e, g)
            /\ g.next = e.next /\ g.trapped = e.trapped /\ g.results = Updated(e.results, i, v)
<1>. DEFINE g == Gives(e, i, v)
<1>1. g = [mem |-> e.mem, elems |-> e.elems, saved |-> e.saved, input |-> e.input,
           results |-> Updated(e.results, i, v), next |-> e.next, puts |-> e.puts,
           unset |-> e.unset, trapped |-> e.trapped]
  BY DEF Gives, IsEnv
<1>. HIDE DEF g
<1>2. /\ g.mem = e.mem /\ g.elems = e.elems /\ g.saved = e.saved /\ g.input = e.input
      /\ g.results = Updated(e.results, i, v) /\ g.next = e.next /\ g.puts = e.puts
      /\ g.trapped = e.trapped /\ g.unset = e.unset
  BY <1>1, Zenon
<1>3. IsEnv(g)
  BY <1>1, <1>2, Zenon DEF IsEnv
<1>4. /\ IsEnv(g) /\ KeepsMemory(e, g) /\ KeepsRest(e, g)
      /\ g.next = e.next /\ g.trapped = e.trapped /\ g.results = Updated(e.results, i, v)
  BY <1>2, <1>3, Zenon DEF KeepsMemory, KeepsRest
<1>. QED  BY <1>4, Zenon DEF g

LEMMA TrapSets ==
  ASSUME NEW e, IsEnv(e), NEW code
  PROVE  LET g == [e EXCEPT !.trapped = code]
         IN /\ IsEnv(g) /\ KeepsMemory(e, g) /\ KeepsRest(e, g)
            /\ g.next = e.next /\ g.trapped = code /\ g.results = e.results
<1>. DEFINE g == [e EXCEPT !.trapped = code]
<1>1. g = [mem |-> e.mem, elems |-> e.elems, saved |-> e.saved, input |-> e.input,
           results |-> e.results, next |-> e.next, puts |-> e.puts,
           unset |-> e.unset, trapped |-> code]
  BY DEF IsEnv
<1>. HIDE DEF g
<1>2. /\ g.mem = e.mem /\ g.elems = e.elems /\ g.saved = e.saved /\ g.input = e.input
      /\ g.results = e.results /\ g.next = e.next /\ g.puts = e.puts
      /\ g.trapped = code /\ g.unset = e.unset
  BY <1>1, Zenon
<1>3. IsEnv(g)
  BY <1>1, <1>2, Zenon DEF IsEnv
<1>4. /\ IsEnv(g) /\ KeepsMemory(e, g) /\ KeepsRest(e, g)
      /\ g.next = e.next /\ g.trapped = code /\ g.results = e.results
  BY <1>2, <1>3, Zenon DEF KeepsMemory, KeepsRest
<1>. QED  BY <1>4, Zenon DEF g

\* An operation computes a value or traps.
Works(op, y) == op \in Operators /\ (op = "/" => y # 0)
Computed(op, x, y) ==
  IF op = "+" THEN Wrap(x + y) ELSE IF op = "-" THEN Wrap(x - y)
  ELSE IF op = "*" THEN Wrap(x * y) ELSE Wrap(Quotient(x, y))

LEMMA ApplyComputes ==
  ASSUME NEW e, NEW i, NEW op, NEW x, NEW y, NEW code
  PROVE  Apply(e, i, op, x, y, code) =
           IF Works(op, y) THEN Gives(e, i, Computed(op, x, y)) ELSE [e EXCEPT !.trapped = code]
<1>1. CASE op = "+"
  BY <1>1 DEF Apply, Works, Computed, Operators
<1>2. CASE op = "-"
  BY <1>2 DEF Apply, Works, Computed, Operators
<1>3. CASE op = "*"
  BY <1>3 DEF Apply, Works, Computed, Operators
<1>4. CASE op = "/" /\ y # 0
  BY <1>4 DEF Apply, Works, Computed, Operators
<1>5. CASE op = "/" /\ y = 0
  BY <1>5 DEF Apply, Works, Operators
<1>6. CASE op \notin {"+", "-", "*", "/"}
  BY <1>6 DEF Apply, Works, Operators
<1>. QED  BY <1>1, <1>2, <1>3, <1>4, <1>5, <1>6

LEMMA PutSets ==
  ASSUME NEW e, IsEnv(e), NEW i \in 1..Len(body), Op(i) = "store", NEW v, body \in Code
  PROVE  LET g == Put(e, i, v)
         IN /\ IsEnv(g) /\ KeepsRest(e, g) /\ g.results = e.results
            /\ g.next = e.next /\ g.trapped = e.trapped
            /\ g.puts = e.puts \cup {<<i, Place(e, Pointer(i))>>}
            /\ \A w \in Locals : g.mem[w] = IF w = body[i].var THEN v ELSE e.mem[w]
<1>. DEFINE g == Put(e, i, v)
            p == e.puts \cup {<<i, Place(e, Pointer(i))>>}
<1>1. CASE IsLocal(i)
  <2>. DEFINE m == [e.mem EXCEPT ![body[i].var] = v]
  <2>0. body[i].var \in Locals
    BY <1>1, OperandsAreEarlier
  <2>1. g = [mem |-> m, elems |-> e.elems, saved |-> e.saved, input |-> e.input,
             results |-> e.results, next |-> e.next, puts |-> p,
             unset |-> e.unset, trapped |-> e.trapped]
    BY <1>1 DEF Put, IsEnv
  <2>2. m = [w \in Locals |-> IF w = body[i].var THEN v ELSE e.mem[w]]
    BY DEF IsEnv
  <2>. HIDE DEF g, p, m
  <2>3. /\ g.mem = m /\ g.elems = e.elems /\ g.saved = e.saved /\ g.input = e.input
        /\ g.results = e.results /\ g.next = e.next /\ g.puts = p
        /\ g.trapped = e.trapped /\ g.unset = e.unset
    BY <2>1, Zenon
  <2>4. m = [w \in Locals |-> m[w]] /\ \A w \in Locals : m[w] = IF w = body[i].var THEN v ELSE e.mem[w]
    BY <2>2
  <2>5. IsEnv(g)
    BY <2>1, <2>3, <2>4, Zenon DEF IsEnv
  <2>6. /\ IsEnv(g) /\ KeepsRest(e, g) /\ g.results = e.results
        /\ g.next = e.next /\ g.trapped = e.trapped /\ g.puts = p
        /\ \A w \in Locals : g.mem[w] = IF w = body[i].var THEN v ELSE e.mem[w]
    BY <2>3, <2>4, <2>5, Zenon DEF KeepsRest
  <2>. QED  BY <2>6, Zenon DEF g, p
<1>2. CASE ~IsLocal(i)
  <2>. DEFINE l == Updated(e.elems, Result(e, Pointer(i)[2]), v)
  <2>1. g = [mem |-> e.mem, elems |-> l, saved |-> e.saved, input |-> e.input,
             results |-> e.results, next |-> e.next, puts |-> p,
             unset |-> e.unset, trapped |-> e.trapped]
    BY <1>2 DEF Put, IsEnv
  <2>. HIDE DEF g, p, l
  <2>3. /\ g.mem = e.mem /\ g.elems = l /\ g.saved = e.saved /\ g.input = e.input
        /\ g.results = e.results /\ g.next = e.next /\ g.puts = p
        /\ g.trapped = e.trapped /\ g.unset = e.unset
    BY <2>1, Zenon
  <2>4. \A w \in Locals : w # body[i].var
    BY <1>2, PreservationAssumption DEF IsLocal
  <2>5. IsEnv(g)
    BY <2>1, <2>3, Zenon DEF IsEnv
  <2>6. /\ IsEnv(g) /\ KeepsRest(e, g) /\ g.results = e.results
        /\ g.next = e.next /\ g.trapped = e.trapped /\ g.puts = p
        /\ \A w \in Locals : g.mem[w] = IF w = body[i].var THEN v ELSE e.mem[w]
    BY <2>3, <2>4, <2>5, Zenon DEF KeepsRest
  <2>. QED  BY <2>6, Zenon DEF g, p
<1>. QED  BY <1>1, <1>2

\* What an instruction that is no operation computes.
Reading(e, i) ==
  IF Op(i) = "in" THEN e.input ELSE IF Op(i) = "gep" THEN Result(e, Arg(i, 1))
  ELSE Content(e, Pointer(i))
Value(e, i) ==
  IF Op(i) \in Operators THEN Computed(Op(i), Result(e, Arg(i, 1)), Result(e, Arg(i, 2)))
  ELSE Reading(e, i)
Traps(e, i) == Op(i) \in Operators /\ ~Works(Op(i), Result(e, Arg(i, 2)))

LEMMA ExecuteSets ==
  ASSUME body \in Code, NEW e, IsEnv(e), NEW i \in 1..Len(body)
  PROVE  LET g == Execute(e, i)
         IN /\ IsEnv(g) /\ KeepsRest(e, g)
            /\ Op(i) = "store" =>
                 /\ g.puts = e.puts \cup {<<i, Place(e, Pointer(i))>>}
                 /\ \A w \in Locals :
                      g.mem[w] = IF w = body[i].var THEN Result(e, Arg(i, 1)) ELSE e.mem[w]
            /\ Op(i) # "store" => KeepsMemory(e, g)
            /\ Op(i) \in {"store", "br"} => g.results = e.results /\ g.trapped = e.trapped
            /\ g.next = IF Op(i) = "br" THEN (IF Result(e, Arg(i, 1)) = 0 THEN body[i].to ELSE i + 1)
                        ELSE e.next
            /\ Op(i) \notin {"store", "br"} =>
                 IF Traps(e, i) THEN g.results = e.results /\ g.trapped = "source"
                 ELSE g.results = Updated(e.results, i, Value(e, i)) /\ g.trapped = e.trapped
<1>1. CASE Op(i) \in {"in", "gep", "load"}
  <2>1. Execute(e, i) = Gives(e, i, Reading(e, i))
    <3>1. CASE Op(i) = "in"
      BY <3>1 DEF Execute, Reading
    <3>2. CASE Op(i) = "gep"
      BY <3>2 DEF Execute, Reading
    <3>3. CASE Op(i) = "load"
      BY <3>3 DEF Execute, Reading
    <3>. QED  BY <1>1, <3>1, <3>2, <3>3
  <2>2. Op(i) \notin Operators
    BY <1>1 DEF Operators
  <2>3. Value(e, i) = Reading(e, i) /\ ~Traps(e, i)
    BY <2>2 DEF Value, Traps
  <2>. QED  BY <1>1, <2>1, <2>3, GivesSets
<1>2. CASE Op(i) = "store"
  <2>1. Execute(e, i) = Put(e, i, Result(e, Arg(i, 1)))
    BY <1>2 DEF Execute
  <2>. QED  BY <1>2, <2>1, PutSets
<1>3. CASE Op(i) = "br"
  <2>. DEFINE n == IF Result(e, Arg(i, 1)) = 0 THEN body[i].to ELSE i + 1
              g == Execute(e, i)
  <2>1. g = [mem |-> e.mem, elems |-> e.elems, saved |-> e.saved, input |-> e.input,
             results |-> e.results, next |-> n, puts |-> e.puts,
             unset |-> e.unset, trapped |-> e.trapped]
    <3>. HIDE DEF n
    <3>1. g = [e EXCEPT !.next = n]
      BY <1>3 DEF Execute, n
    <3>. HIDE DEF g
    <3>. QED  BY <3>1 DEF IsEnv
  <2>. HIDE DEF g, n
  <2>2. /\ g.mem = e.mem /\ g.elems = e.elems /\ g.saved = e.saved /\ g.input = e.input
        /\ g.results = e.results /\ g.next = n /\ g.puts = e.puts
        /\ g.trapped = e.trapped /\ g.unset = e.unset
    BY <2>1, Zenon
  <2>3. IsEnv(g)
    BY <2>1, <2>2, Zenon DEF IsEnv
  <2>4. IsEnv(g) /\ KeepsRest(e, g) /\ KeepsMemory(e, g) /\ g.next = n
        /\ g.results = e.results /\ g.trapped = e.trapped
    BY <2>2, <2>3, Zenon DEF KeepsMemory, KeepsRest
  <2>. QED  BY <1>3, <2>4 DEF g, n
<1>4. CASE Op(i) \in Operators
  <2>. DEFINE x == Result(e, Arg(i, 1))
              y == Result(e, Arg(i, 2))
  <2>1. Op(i) \notin {"in", "gep", "load", "store", "br"}
    BY <1>4 DEF Operators
  <2>2. Execute(e, i) = Apply(e, i, Op(i), x, y, "source")
    BY <2>1 DEF Execute
  <2>3. Apply(e, i, Op(i), x, y, "source") =
          IF Works(Op(i), y) THEN Gives(e, i, Computed(Op(i), x, y)) ELSE [e EXCEPT !.trapped = "source"]
    BY ApplyComputes
  <2>4. Traps(e, i) = ~Works(Op(i), y) /\ Value(e, i) = Computed(Op(i), x, y)
    BY <1>4 DEF Traps, Value
  <2>. HIDE DEF x, y
  <2>5. CASE Works(Op(i), y)
    <3>1. Execute(e, i) = Gives(e, i, Value(e, i)) /\ ~Traps(e, i)
      BY <2>2, <2>3, <2>4, <2>5
    <3>. QED  BY <2>1, <3>1, GivesSets
  <2>6. CASE ~Works(Op(i), y)
    <3>1. Execute(e, i) = [e EXCEPT !.trapped = "source"] /\ Traps(e, i)
      BY <2>2, <2>3, <2>4, <2>6
    <3>. DEFINE g == [e EXCEPT !.trapped = "source"]
    <3>2. /\ IsEnv(g) /\ KeepsMemory(e, g) /\ KeepsRest(e, g)
          /\ g.next = e.next /\ g.trapped = "source" /\ g.results = e.results
      BY TrapSets, Zenon
    <3>. HIDE DEF g
    <3>. QED  BY <2>1, <3>1, <3>2 DEF g
  <2>. QED  BY <2>5, <2>6
<1>. QED  BY <1>1, <1>2, <1>3, <1>4, OperandsAreEarlier

\* What is saved for an assignment is computed, or the computation traps.
LEMMA IncrementGives ==
  ASSUME NEW e, NEW s
  PROVE  \/ \E v : Increment(e, s) = Gives(e, 0, v)
         \/ Increment(e, s) = [e EXCEPT !.trapped = "added"]
<1>. DEFINE a == clone.assigns[s]
            one == a.inc \o a.dec
            op == IF Op(a.op) \in {"+", "-"} THEN "-" ELSE "/"
            x == IF Op(a.op) \in {"+", "*"} THEN Result(e, Arg(s, 1)) ELSE Result(e, a.load)
            y == IF Op(a.op) \in {"+", "*"} THEN Result(e, a.load) ELSE Result(e, Arg(s, 1))
<1>1. CASE Len(one) = 1
  <2>1. Increment(e, s) = Gives(e, 0, Result(e, one[1]))
    BY <1>1, Zenon DEF Increment
  <2>. QED  BY <2>1, Zenon
<1>2. CASE Len(one) # 1
  <2>1. Increment(e, s) = Apply(e, 0, op, x, y, "added")
    BY <1>2, Zenon DEF Increment
  <2>. HIDE DEF op, x, y
  <2>2. Apply(e, 0, op, x, y, "added") =
          IF Works(op, y) THEN Gives(e, 0, Computed(op, x, y)) ELSE [e EXCEPT !.trapped = "added"]
    BY ApplyComputes
  <2>. QED  BY <2>1, <2>2, Zenon
<1>. QED  BY <1>1, <1>2

\* Two environments that differ in nothing an instruction reads.
Alike(e, x) ==
  /\ KeepsMemory(e, x) /\ x.input = e.input /\ x.next = e.next
  /\ DOMAIN e.results \subseteq DOMAIN x.results
  /\ \A k : k # 0 => At(x.results, k) = At(e.results, k)

LEMMA SaveSets ==
  ASSUME NEW e, IsEnv(e), NEW s, e.trapped = "no"
  PROVE  LET x == Save(e, s)
         IN /\ IsEnv(x) /\ Alike(e, x) /\ x.unset = e.unset /\ x.trapped \in {"no", "added"}
            /\ \E v : x.saved = Updated(e.saved, s, v)
<1>. DEFINE f == IF s \in DOMAIN clone.assigns THEN Increment(e, s)
                 ELSE Gives(e, 0, Result(e, Arg(s, 1)))
            v == Result(f, 0)
            x == Save(e, s)
<1>1. (\E w : f = Gives(e, 0, w)) \/ f = [e EXCEPT !.trapped = "added"]
  BY IncrementGives, Zenon
<1>2. x = [f EXCEPT !.saved = Updated(f.saved, s, v)]
  BY Zenon DEF Save
<1>. HIDE DEF f
<1>3. IsEnv(f) /\ Alike(e, f) /\ KeepsRest(e, f) /\ f.trapped \in {"no", "added"}
  <2>1. ASSUME NEW w, f = Gives(e, 0, w)
        PROVE  IsEnv(f) /\ Alike(e, f) /\ KeepsRest(e, f) /\ f.trapped \in {"no", "added"}
    <3>1. /\ IsEnv(f) /\ KeepsMemory(e, f) /\ KeepsRest(e, f)
          /\ f.next = e.next /\ f.trapped = e.trapped /\ f.results = Updated(e.results, 0, w)
      BY <2>1, GivesSets
    <3>2. /\ DOMAIN e.results \subseteq DOMAIN f.results
          /\ \A k : k # 0 => At(f.results, k) = At(e.results, k)
      <4>1. /\ DOMAIN Updated(e.results, 0, w) = DOMAIN e.results \cup {0}
            /\ \A k : k # 0 => At(Updated(e.results, 0, w), k) = At(e.results, k)
        BY DEF Updated, At
      <4>. QED  BY <3>1, <4>1
    <3>3. f.input = e.input
      BY <3>1, Zenon DEF KeepsRest
    <3>4. Alike(e, f)
      BY <3>1, <3>2, <3>3, Zenon DEF Alike
    <3>5. f.trapped \in {"no", "added"}
      BY <3>1
    <3>. QED  BY <3>1, <3>4, <3>5
  <2>2. ASSUME f = [e EXCEPT !.trapped = "added"]
        PROVE  IsEnv(f) /\ Alike(e, f) /\ KeepsRest(e, f) /\ f.trapped \in {"no", "added"}
    <3>1. /\ IsEnv(f) /\ KeepsMemory(e, f) /\ KeepsRest(e, f)
          /\ f.next = e.next /\ f.trapped = "added" /\ f.results = e.results
      BY <2>2, TrapSets, Zenon
    <3>. QED  BY <3>1 DEF Alike, KeepsRest
  <2>. QED  BY <1>1, <2>1, <2>2, Zenon
<1>. HIDE DEF v
<1>4. x = [mem |-> f.mem, elems |-> f.elems, saved |-> Updated(f.saved, s, v), input |-> f.input,
           results |-> f.results, next |-> f.next, puts |-> f.puts,
           unset |-> f.unset, trapped |-> f.trapped]
  BY <1>2, <1>3 DEF IsEnv
<1>. HIDE DEF x
<1>5. /\ x.mem = f.mem /\ x.elems = f.elems /\ x.input = f.input /\ x.saved = Updated(f.saved, s, v)
      /\ x.results = f.results /\ x.next = f.next /\ x.puts = f.puts
      /\ x.trapped = f.trapped /\ x.unset = f.unset
  BY <1>4, Zenon
<1>6. IsEnv(x)
  BY <1>3, <1>4, <1>5, Zenon DEF IsEnv
<1>7. Alike(e, x)
  BY <1>3, <1>5, Zenon DEF Alike, KeepsMemory
<1>8. x.unset = e.unset /\ x.trapped \in {"no", "added"} /\ x.saved = Updated(e.saved, s, v)
  BY <1>3, <1>5, Zenon DEF KeepsRest
<1>9. /\ IsEnv(x) /\ Alike(e, x) /\ x.unset = e.unset /\ x.trapped \in {"no", "added"}
      /\ \E w : x.saved = Updated(e.saved, s, w)
  BY <1>6, <1>7, <1>8
<1>. QED  BY <1>9, Zenon DEF x

\* An instruction of an evaluated iteration.
LEMMA EvaluateSets ==
  ASSUME body \in Code, NEW e, IsEnv(e), NEW i \in 1..Len(body)
  PROVE  LET g == Evaluate(e, i)
         IN IF i < e.next \/ e.trapped # "no" THEN g = e
            ELSE \E x :
                   /\ IsEnv(x) /\ Alike(e, x)
                   /\ x.unset = (e.unset \/ ~(Operands(i) \subseteq DOMAIN e.results))
                   /\ IF i \in clone.held \cup DOMAIN clone.assigns
                      THEN \E u : /\ IsEnv(u) /\ Alike(e, u) /\ u.saved = e.saved
                                  /\ u.trapped = "no" /\ u.results = e.results
                                  /\ x = Save(u, i)
                                  /\ x.trapped \in {"no", "added"}
                                  /\ \E v : x.saved = Updated(e.saved, i, v)
                      ELSE x.saved = e.saved /\ x.trapped = "no" /\ x.results = e.results
                   /\ g = IF x.trapped = "no" THEN Execute(x, i) ELSE x
<1>. DEFINE u == Uses(e, e.results, Operands(i))
            x == Save(u, i)
<1>1. CASE i < e.next \/ e.trapped # "no"
  BY <1>1, Zenon DEF Evaluate
<1>2. CASE ~(i < e.next \/ e.trapped # "no")
  <2>1. /\ IsEnv(u)
        /\ u.mem = e.mem /\ u.elems = e.elems /\ u.saved = e.saved /\ u.input = e.input
        /\ u.results = e.results /\ u.next = e.next /\ u.puts = e.puts /\ u.trapped = e.trapped
        /\ u.unset = (e.unset \/ ~(Operands(i) \subseteq DOMAIN e.results))
    BY UsesSets
  <2>2. Alike(e, u) /\ u.trapped = "no"
    BY <1>2, <2>1 DEF Alike, KeepsMemory
  <2>3. CASE i \in clone.held \cup DOMAIN clone.assigns
    <3>1. Evaluate(e, i) = IF x.trapped = "no" THEN Execute(x, i) ELSE x
      BY <1>2, <2>3, Zenon DEF Evaluate
    <3>. HIDE DEF u
    <3>2. /\ IsEnv(x) /\ Alike(u, x) /\ x.unset = u.unset /\ x.trapped \in {"no", "added"}
          /\ \E v : x.saved = Updated(u.saved, i, v)
      BY <2>1, <2>2, SaveSets, Zenon
    <3>. HIDE DEF x
    <3>3. Alike(e, x)
      BY <2>1, <2>2, <3>2 DEF Alike, KeepsMemory
    <3>4. /\ x.unset = (e.unset \/ ~(Operands(i) \subseteq DOMAIN e.results))
          /\ \E v : x.saved = Updated(e.saved, i, v)
      BY <2>1, <3>2, Zenon
    <3>5. /\ IsEnv(u) /\ Alike(e, u) /\ u.saved = e.saved
          /\ u.trapped = "no" /\ u.results = e.results /\ x = Save(u, i)
      BY <2>1, <2>2, Zenon DEF x
    <3>6. \E w : /\ IsEnv(w) /\ Alike(e, w) /\ w.saved = e.saved
                 /\ w.trapped = "no" /\ w.results = e.results
                 /\ x = Save(w, i)
                 /\ x.trapped \in {"no", "added"}
                 /\ \E v : x.saved = Updated(e.saved, i, v)
      BY <3>2, <3>4, <3>5, Zenon
    <3>. QED  BY <1>2, <2>3, <3>1, <3>2, <3>3, <3>4, <3>6, Zenon
  <2>4. CASE i \notin clone.held \cup DOMAIN clone.assigns
    <3>1. Evaluate(e, i) = Execute(u, i)
      BY <1>2, <2>4, Zenon DEF Evaluate
    <3>. HIDE DEF u
    <3>. QED  BY <1>2, <2>1, <2>2, <2>4, <3>1, Zenon
  <2>. QED  BY <2>3, <2>4
<1>. QED  BY <1>1, <1>2

\* An instruction of the clone.
LEMMA ReplaySets ==
  ASSUME body \in Code, clone \in Clone, NEW e, IsEnv(e), NEW i \in 1..Len(body)
  PROVE  LET g == Replay(e, i)
         IN IF i \notin clone.kept \/ i < e.next \/ e.trapped # "no" THEN g = e
            ELSE \E x :
                   /\ IsEnv(x) /\ Alike(e, x) /\ x.saved = e.saved /\ x.trapped = "no"
                   /\ x.results = e.results
                   /\ i \in DOMAIN clone.owner =>
                        LET s == clone.owner[i]
                        IN /\ x.unset = (e.unset \/ ~({s} \subseteq DOMAIN e.saved))
                           /\ g = Apply(x, i, Op(i), Content(e, Pointer(s)), At(e.saved, s), "added")
                   /\ i \in DOMAIN clone.assigns =>
                        /\ x.unset = (e.unset \/ ~({clone.assigns[i].op} \cup ({Pointer(i)[2]} \ {0})
                                                     \subseteq DOMAIN e.results))
                        /\ g = Put(x, i, Result(e, clone.assigns[i].op))
                   /\ i \in clone.held =>
                        /\ x.unset = (\/ e.unset \/ ~({i} \subseteq DOMAIN e.saved)
                                      \/ ~({Pointer(i)[2]} \ {0} \subseteq DOMAIN e.results))
                        /\ g = Put(x, i, At(e.saved, i))
                   /\ i \notin DOMAIN clone.owner \cup DOMAIN clone.assigns \cup clone.held =>
                        /\ x.unset = (e.unset \/ ~(Operands(i) \subseteq DOMAIN e.results))
                        /\ g = Execute(x, i)
<1>. DEFINE Same(x) == IsEnv(x) /\ Alike(e, x) /\ x.saved = e.saved /\ x.trapped = "no" /\ x.results = e.results
<1>1. CASE i \notin clone.kept \/ i < e.next \/ e.trapped # "no"
  BY <1>1, Zenon DEF Replay
<1>2. CASE ~(i \notin clone.kept \/ i < e.next \/ e.trapped # "no")
  <2>0. ASSUME NEW f, NEW xs
        PROVE  LET x == Uses(e, f, xs)
               IN Same(x) /\ x.unset = (e.unset \/ ~(xs \subseteq DOMAIN f))
    <3>. DEFINE x == Uses(e, f, xs)
    <3>1. /\ IsEnv(x)
          /\ x.mem = e.mem /\ x.elems = e.elems /\ x.saved = e.saved /\ x.input = e.input
          /\ x.results = e.results /\ x.next = e.next /\ x.puts = e.puts /\ x.trapped = e.trapped
          /\ x.unset = (e.unset \/ ~(xs \subseteq DOMAIN f))
      BY UsesSets
    <3>. HIDE DEF x
    <3>2. Alike(e, x) /\ x.trapped = "no"
      BY <1>2, <3>1 DEF Alike, KeepsMemory
    <3>3. Same(x) /\ x.unset = (e.unset \/ ~(xs \subseteq DOMAIN f))
      BY <3>1, <3>2, Zenon
    <3>. QED  BY <3>3 DEF x
  <2>. HIDE DEF Same
  <2>1. /\ i \in DOMAIN clone.owner => i \notin DOMAIN clone.assigns /\ i \notin clone.held
        /\ i \in DOMAIN clone.assigns => i \notin clone.held
    <3>1. "store" \notin Operators
      BY DEF Operators
    <3>2. /\ \A o \in DOMAIN clone.owner : Op(o) \in Operators
          /\ \A t \in DOMAIN clone.assigns : Op(t) = "store" /\ t \in CmpdAssignStores
          /\ \A t \in clone.held : Op(t) = "store" /\ t \notin CmpdAssignStores
      <4>1. /\ clone.held = PreservedStores /\ DOMAIN clone.assigns = CmpdAssignStores
            /\ \A o \in DOMAIN clone.owner : Op(o) \in Operators
            /\ \A t \in PreservedStores : Op(t) = "store" /\ t \notin CmpdAssignStores
        BY CloneParts, Zenon
      <4>2. \A t \in CmpdAssignStores : Op(t) = "store"
        BY CmpdAssignsAreOperations, Zenon
      <4>. QED  BY <4>1, <4>2, Zenon
    <3>. QED  BY <3>1, <3>2, Zenon
  <2>2. CASE i \in DOMAIN clone.owner
    <3>. DEFINE s == clone.owner[i]
                x == Uses(e, e.saved, {s})
    <3>1. Replay(e, i) = Apply(x, i, Op(i), Content(e, Pointer(s)), At(e.saved, s), "added")
      BY <1>2, <2>1, <2>2 DEF Replay
    <3>2. Same(x) /\ x.unset = (e.unset \/ ~({s} \subseteq DOMAIN e.saved))
      BY <2>0, Zenon
    <3>. HIDE DEF x, s
    <3>3. \E y : Same(y) /\ y.unset = (e.unset \/ ~({s} \subseteq DOMAIN e.saved))
                 /\ Replay(e, i) = Apply(y, i, Op(i), Content(e, Pointer(s)), At(e.saved, s), "added")
      BY <3>1, <3>2
    <3>. QED  BY <1>2, <2>1, <2>2, <3>3 DEF s, Same
  <2>3. CASE i \in DOMAIN clone.assigns
    <3>. DEFINE os == {clone.assigns[i].op} \cup ({Pointer(i)[2]} \ {0})
                x == Uses(e, e.results, os)
    <3>1. Replay(e, i) = Put(x, i, Result(e, clone.assigns[i].op))
      BY <1>2, <2>1, <2>3 DEF Replay
    <3>2. Same(x) /\ x.unset = (e.unset \/ ~(os \subseteq DOMAIN e.results))
      BY <2>0, Zenon
    <3>. HIDE DEF x, os
    <3>3. \E y : Same(y) /\ y.unset = (e.unset \/ ~(os \subseteq DOMAIN e.results))
                 /\ Replay(e, i) = Put(y, i, Result(e, clone.assigns[i].op))
      BY <3>1, <3>2
    <3>. QED  BY <1>2, <2>1, <2>3, <3>3 DEF os, Same
  <2>4. CASE i \in clone.held
    <3>. DEFINE os == {Pointer(i)[2]} \ {0}
                w == Uses(e, e.saved, {i})
                x == Uses(w, e.results, os)
    <3>1. Replay(e, i) = Put(x, i, At(e.saved, i))
      BY <1>2, <2>1, <2>4 DEF Replay
    <3>2. Same(w) /\ w.unset = (e.unset \/ ~({i} \subseteq DOMAIN e.saved))
      BY <2>0, Zenon
    <3>. HIDE DEF w, os
    <3>3. /\ IsEnv(x)
          /\ x.mem = w.mem /\ x.elems = w.elems /\ x.saved = w.saved /\ x.input = w.input
          /\ x.results = w.results /\ x.next = w.next /\ x.puts = w.puts /\ x.trapped = w.trapped
          /\ x.unset = (w.unset \/ ~(os \subseteq DOMAIN e.results))
      BY <3>2, UsesSets DEF Same
    <3>. HIDE DEF x
    <3>4. Same(x)
      BY <3>2, <3>3, Zenon DEF Same, Alike, KeepsMemory
    <3>5. x.unset = (\/ e.unset \/ ~({i} \subseteq DOMAIN e.saved) \/ ~(os \subseteq DOMAIN e.results))
      BY <3>2, <3>3, Zenon
    <3>6. \E y : Same(y) /\ Replay(e, i) = Put(y, i, At(e.saved, i))
                 /\ y.unset = (\/ e.unset \/ ~({i} \subseteq DOMAIN e.saved) \/ ~(os \subseteq DOMAIN e.results))
      BY <3>1, <3>4, <3>5
    <3>. QED  BY <1>2, <2>1, <2>4, <3>6 DEF os, Same
  <2>5. CASE i \notin DOMAIN clone.owner \cup DOMAIN clone.assigns \cup clone.held
    <3>. DEFINE x == Uses(e, e.results, Operands(i))
    <3>1. Replay(e, i) = Execute(x, i)
      BY <1>2, <2>5 DEF Replay
    <3>2. Same(x) /\ x.unset = (e.unset \/ ~(Operands(i) \subseteq DOMAIN e.results))
      BY <2>0, Zenon
    <3>. HIDE DEF x
    <3>3. \E y : Same(y) /\ y.unset = (e.unset \/ ~(Operands(i) \subseteq DOMAIN e.results))
                 /\ Replay(e, i) = Execute(y, i)
      BY <3>1, <3>2
    <3>. QED  BY <1>2, <2>5, <3>3 DEF Same
  <2>. QED  BY <2>2, <2>3, <2>4, <2>5
<1>. QED  BY <1>1, <1>2

\* What the execution of an instruction does to an environment.
Stored(e, i, v, g) ==
  /\ g.puts = e.puts \cup {<<i, Place(e, Pointer(i))>>}
  /\ \A w \in Locals : g.mem[w] = IF w = body[i].var THEN v ELSE e.mem[w]
Executed(e, i, g) ==
  /\ IsEnv(g) /\ g.input = e.input
  /\ g.trapped = IF Traps(e, i) THEN "source" ELSE "no"
  /\ g.next = IF Op(i) = "br" THEN (IF Result(e, Arg(i, 1)) = 0 THEN body[i].to ELSE i + 1)
              ELSE e.next
  /\ IF Op(i) = "store" THEN Stored(e, i, Result(e, Arg(i, 1)), g) ELSE KeepsMemory(e, g)
  /\ DOMAIN e.results \subseteq DOMAIN g.results
  /\ \A k : k # 0 /\ (k = i => Op(i) \in {"store", "br"}) => Result(g, k) = Result(e, k)
  /\ Op(i) \notin {"store", "br"} /\ ~Traps(e, i) =>
       i \in DOMAIN g.results /\ Result(g, i) = Value(e, i)

\* Environments that are alike are so to every pointer operand.
LEMMA AlikeReads ==
  ASSUME body \in Code, NEW e, NEW x, Alike(e, x), NEW i \in 1..Len(body)
  PROVE  /\ Op(i) \in {"load", "store"} =>
              Place(x, Pointer(i)) = Place(e, Pointer(i)) /\ Content(x, Pointer(i)) = Content(e, Pointer(i))
         /\ \A k \in Operands(i) : Result(x, k) = Result(e, k)
         /\ Op(i) \notin {"store", "br"} => Value(x, i) = Value(e, i)
         /\ Traps(x, i) <=> Traps(e, i)
<1>1. \A k : k # 0 => Result(x, k) = Result(e, k)
  BY Zenon DEF Alike, Result
<1>2. \A k \in Operands(i) : k # 0
  BY OperandsAreEarlier
<1>3. \A k \in Operands(i) : Result(x, k) = Result(e, k)
  BY <1>1, <1>2, Zenon
<1>4. x.mem = e.mem /\ x.elems = e.elems /\ x.input = e.input
  BY Zenon DEF Alike, KeepsMemory
<1>5. \A p : Place(x, p) = Place(e, p) /\ Content(x, p) = Content(e, p)
  <2>1. ASSUME NEW p
        PROVE  Place(x, p) = Place(e, p) /\ Content(x, p) = Content(e, p)
    <3>1. CASE p[2] = 0
      BY <1>4, <3>1 DEF Place, Content
    <3>2. CASE p[2] # 0
      <4>1. Result(x, p[2]) = Result(e, p[2])
        BY <1>1, <3>2, Zenon
      <4>. QED  BY <1>4, <3>2, <4>1, Zenon DEF Place, Content
    <3>. QED  BY <3>1, <3>2, Zenon
  <2>. QED  BY <2>1, Zenon
<1>6. /\ Op(i) \in {"gep"} \cup Operators => Arg(i, 1) \in Operands(i)
      /\ Op(i) \in Operators => Arg(i, 2) \in Operands(i)
  BY OperandsAreEarlier
<1>7. Traps(x, i) <=> Traps(e, i)
  BY <1>3, <1>6, Zenon DEF Traps
<1>8. Op(i) \notin {"store", "br"} => Value(x, i) = Value(e, i)
  <2>1. CASE Op(i) \in Operators
    <3>1. Result(x, Arg(i, 1)) = Result(e, Arg(i, 1)) /\ Result(x, Arg(i, 2)) = Result(e, Arg(i, 2))
      BY <1>3, <1>6, <2>1
    <3>. QED  BY <2>1, <3>1, Zenon DEF Value
  <2>2. CASE Op(i) \notin Operators
    <3>1. Reading(x, i) = Reading(e, i)
      <4>1. CASE Op(i) = "gep"
        <5>1. Result(x, Arg(i, 1)) = Result(e, Arg(i, 1))
          BY <1>3, <1>6, <4>1
        <5>. QED  BY <1>4, <4>1, <5>1 DEF Reading
      <4>2. CASE Op(i) # "gep"
        BY <1>4, <1>5, <4>2, Zenon DEF Reading
      <4>. QED  BY <4>1, <4>2, Zenon
    <3>. QED  BY <2>2, <3>1, Zenon DEF Value
  <2>. QED  BY <2>1, <2>2, Zenon
<1>. QED  BY <1>3, <1>5, <1>7, <1>8, Zenon

LEMMA ExecutedAlike ==
  ASSUME body \in Code, NEW e, NEW x, IsEnv(x), Alike(e, x), x.trapped = "no",
         NEW i \in 1..Len(body)
  PROVE  /\ Executed(e, i, Execute(x, i))
         /\ Execute(x, i).saved = x.saved /\ Execute(x, i).unset = x.unset
<1>. DEFINE g == Execute(x, i)
<1>1. /\ IsEnv(g) /\ KeepsRest(x, g)
      /\ Op(i) = "store" =>
           /\ g.puts = x.puts \cup {<<i, Place(x, Pointer(i))>>}
           /\ \A w \in Locals :
                g.mem[w] = IF w = body[i].var THEN Result(x, Arg(i, 1)) ELSE x.mem[w]
      /\ Op(i) # "store" => KeepsMemory(x, g)
      /\ Op(i) \in {"store", "br"} => g.results = x.results /\ g.trapped = x.trapped
      /\ g.next = IF Op(i) = "br" THEN (IF Result(x, Arg(i, 1)) = 0 THEN body[i].to ELSE i + 1)
                  ELSE x.next
      /\ Op(i) \notin {"store", "br"} =>
           IF Traps(x, i) THEN g.results = x.results /\ g.trapped = "source"
           ELSE g.results = Updated(x.results, i, Value(x, i)) /\ g.trapped = x.trapped
  BY ExecuteSets, Zenon
<1>. HIDE DEF g
<1>2. /\ x.mem = e.mem /\ x.elems = e.elems /\ x.puts = e.puts /\ x.input = e.input /\ x.next = e.next
      /\ DOMAIN e.results \subseteq DOMAIN x.results
      /\ \A k : k # 0 => Result(x, k) = Result(e, k)
  BY Zenon DEF Alike, KeepsMemory, Result
<1>3. /\ Op(i) \in {"load", "store"} => Place(x, Pointer(i)) = Place(e, Pointer(i))
      /\ \A k \in Operands(i) : Result(x, k) = Result(e, k)
      /\ Op(i) \notin {"store", "br"} => Value(x, i) = Value(e, i)
      /\ Traps(x, i) <=> Traps(e, i)
  BY AlikeReads, Zenon
<1>4. Op(i) \in {"store", "br"} => Result(x, Arg(i, 1)) = Result(e, Arg(i, 1))
  BY <1>3, OperandsAreEarlier
<1>5. Op(i) \in {"store", "br"} => ~Traps(e, i)
  BY DEF Traps, Operators
<1>6. g.trapped = IF Traps(e, i) THEN "source" ELSE "no"
  BY <1>1, <1>3, <1>5
<1>7. g.next = IF Op(i) = "br" THEN (IF Result(e, Arg(i, 1)) = 0 THEN body[i].to ELSE i + 1)
               ELSE e.next
  BY <1>1, <1>2, <1>4
<1>8. IF Op(i) = "store" THEN Stored(e, i, Result(e, Arg(i, 1)), g) ELSE KeepsMemory(e, g)
  <2>1. CASE Op(i) = "store"
    BY <1>1, <1>2, <1>3, <1>4, <2>1 DEF Stored
  <2>2. CASE Op(i) # "store"
    BY <1>1, <1>2, <2>2, Zenon DEF KeepsMemory
  <2>. QED  BY <2>1, <2>2, Zenon
<1>9. /\ DOMAIN e.results \subseteq DOMAIN g.results
      /\ \A k : k # 0 /\ (k = i => Op(i) \in {"store", "br"}) => Result(g, k) = Result(e, k)
      /\ Op(i) \notin {"store", "br"} /\ ~Traps(e, i) =>
           i \in DOMAIN g.results /\ Result(g, i) = Value(e, i)
  <2>1. CASE Op(i) \in {"store", "br"} \/ Traps(e, i)
    <3>1. g.results = x.results
      BY <1>1, <1>3, <2>1, Zenon
    <3>. QED  BY <1>2, <2>1, <3>1, Zenon DEF Result
  <2>2. CASE ~(Op(i) \in {"store", "br"} \/ Traps(e, i))
    <3>1. g.results = Updated(x.results, i, Value(e, i))
      BY <1>1, <1>3, <2>2, Zenon
    <3>2. /\ DOMAIN g.results = DOMAIN x.results \cup {i}
          /\ At(g.results, i) = Value(e, i)
          /\ \A k : k # i => At(g.results, k) = At(x.results, k)
      BY <3>1 DEF Updated, At
    <3>3. \A k : k # 0 /\ (k = i => Op(i) \in {"store", "br"}) => At(g.results, k) = At(x.results, k)
      BY <2>2, <3>2, Zenon
    <3>. QED  BY <1>2, <2>2, <3>2, <3>3, Zenon DEF Result
  <2>. QED  BY <2>1, <2>2, Zenon
<1>10. g.input = e.input /\ g.saved = x.saved /\ g.unset = x.unset
  BY <1>1, <1>2, Zenon DEF KeepsRest
<1>11. Executed(e, i, g)
  BY <1>1, <1>6, <1>7, <1>8, <1>9, <1>10, Zenon DEF Executed
<1>. QED  BY <1>10, <1>11, Zenon DEF g

\* What an instruction does in an evaluated iteration, unless it traps.
LEMMA EvaluateExecutes ==
  ASSUME body \in Code, NEW e, IsEnv(e), NEW i \in 1..Len(body), ~(i < e.next), e.trapped = "no"
  PROVE  LET g == Evaluate(e, i)
         IN IsEnv(g) /\ (g.trapped = "no" => Executed(e, i, g))
<1>. DEFINE g == Evaluate(e, i)
            Goal == IsEnv(g) /\ (g.trapped = "no" => Executed(e, i, g))
<1>1. \E x : /\ IsEnv(x) /\ Alike(e, x)
             /\ x.trapped \in {"no", "added"}
             /\ g = IF x.trapped = "no" THEN Execute(x, i) ELSE x
  <2>1. IF i < e.next \/ e.trapped # "no" THEN g = e
        ELSE \E x :
               /\ IsEnv(x) /\ Alike(e, x)
               /\ x.unset = (e.unset \/ ~(Operands(i) \subseteq DOMAIN e.results))
               /\ IF i \in clone.held \cup DOMAIN clone.assigns
                  THEN \E u : /\ IsEnv(u) /\ Alike(e, u) /\ u.saved = e.saved
                              /\ u.trapped = "no" /\ u.results = e.results
                              /\ x = Save(u, i)
                              /\ x.trapped \in {"no", "added"}
                              /\ \E v : x.saved = Updated(e.saved, i, v)
                  ELSE x.saved = e.saved /\ x.trapped = "no" /\ x.results = e.results
               /\ g = IF x.trapped = "no" THEN Execute(x, i) ELSE x
    BY EvaluateSets
  <2>2. PICK x : /\ IsEnv(x) /\ Alike(e, x)
                 /\ IF i \in clone.held \cup DOMAIN clone.assigns
                    THEN \E u : x.trapped \in {"no", "added"}
                    ELSE x.trapped = "no"
                 /\ g = IF x.trapped = "no" THEN Execute(x, i) ELSE x
    <3>. HIDE DEF g
    <3>. QED  BY <2>1, Zenon
  <2>3. x.trapped \in {"no", "added"}
    BY <2>2
  <2>. HIDE DEF g
  <2>. QED  BY <2>2, <2>3, Zenon
<1>. HIDE DEF g
<1>2. PICK x : /\ IsEnv(x) /\ Alike(e, x)
               /\ x.trapped \in {"no", "added"}
               /\ g = IF x.trapped = "no" THEN Execute(x, i) ELSE x
  BY <1>1, Zenon
<1>3. Goal
  <2>1. CASE x.trapped = "no"
    <3>1. Executed(e, i, Execute(x, i))
      BY <1>2, <2>1, ExecutedAlike, Zenon
    <3>2. Executed(e, i, g)
      BY <1>2, <2>1, <3>1, Zenon
    <3>. QED  BY <3>2, Zenon DEF Executed
  <2>2. CASE x.trapped = "added"
    BY <1>2, <2>2
  <2>. QED  BY <1>2, <2>1, <2>2
<1>. QED  BY <1>3, Zenon DEF g

\* What the clone of an instruction does: it repeats an assignment, stores its
\* result, repeats a store, or does what the instruction does.
Repeated(f, i, g) ==
  LET s == clone.owner[i]
  IN /\ IsEnv(g) /\ KeepsMemory(f, g) /\ g.input = f.input /\ g.next = f.next
     /\ IF Works(Op(i), At(f.saved, s))
        THEN g.trapped = "no" /\ g.results =
               Updated(f.results, i, Computed(Op(i), Content(f, Pointer(s)), At(f.saved, s)))
        ELSE g.trapped = "added" /\ g.results = f.results
StoredAgain(f, i, g) ==
  /\ IsEnv(g) /\ g.input = f.input /\ g.next = f.next
  /\ g.trapped = "no" /\ g.results = f.results
  /\ Stored(f, i, IF i \in DOMAIN clone.assigns THEN Result(f, clone.assigns[i].op)
                  ELSE At(f.saved, i), g)

LEMMA PutAlike ==
  ASSUME body \in Code, NEW f, NEW x, IsEnv(x), Alike(f, x), x.trapped = "no", x.results = f.results,
         NEW i \in 1..Len(body), Op(i) = "store", NEW v, NEW g, g = Put(x, i, v)
  PROVE  /\ IsEnv(g) /\ g.input = f.input /\ g.next = f.next /\ g.trapped = "no"
         /\ g.results = f.results /\ Stored(f, i, v, g)
         /\ g.saved = x.saved /\ g.unset = x.unset
<1>1. /\ IsEnv(g) /\ KeepsRest(x, g) /\ g.results = x.results
      /\ g.next = x.next /\ g.trapped = x.trapped
      /\ g.puts = x.puts \cup {<<i, Place(x, Pointer(i))>>}
      /\ \A w \in Locals : g.mem[w] = IF w = body[i].var THEN v ELSE x.mem[w]
  BY PutSets
<1>2. /\ x.mem = f.mem /\ x.puts = f.puts /\ x.input = f.input /\ x.next = f.next
  BY Zenon DEF Alike, KeepsMemory
<1>3. Place(x, Pointer(i)) = Place(f, Pointer(i))
  BY AlikeReads
<1>4. Stored(f, i, v, g)
  BY <1>1, <1>2, <1>3, Zenon DEF Stored
<1>. QED  BY <1>1, <1>2, <1>4, Zenon DEF KeepsRest

\* What a clone keeps is of one kind only.
LEMMA KindsOfKept ==
  ASSUME body \in Code, clone \in Clone
  PROVE  /\ \A i \in DOMAIN clone.owner :
              /\ i \in 1..Len(body) /\ Op(i) \in Operators
              /\ i \notin DOMAIN clone.assigns /\ i \notin clone.held
         /\ \A i \in DOMAIN clone.assigns :
              i \in 1..Len(body) /\ Op(i) = "store" /\ i \notin clone.held /\ i \in CmpdAssignStores
         /\ \A i \in clone.held :
              i \in 1..Len(body) /\ Op(i) = "store" /\ i \in PreservedStores
<1>1. "store" \notin Operators
  BY DEF Operators
<1>2. /\ clone.held = PreservedStores /\ DOMAIN clone.assigns = CmpdAssignStores
      /\ \A o \in DOMAIN clone.owner : o \in 1..Len(body) /\ Op(o) \in Operators
      /\ \A s \in PreservedStores : s \in 1..Len(body) /\ Op(s) = "store" /\ s \notin CmpdAssignStores
  BY CloneParts, Zenon
<1>3. \A s \in CmpdAssignStores : s \in 1..Len(body) /\ Op(s) = "store"
  BY CmpdAssignsAreOperations, Zenon
<1>. QED  BY <1>1, <1>2, <1>3, Zenon

LEMMA ReplayExecutes ==
  ASSUME body \in Code, clone \in Clone, NEW f, IsEnv(f), NEW i \in 1..Len(body),
         i \in clone.kept, ~(i < f.next), f.trapped = "no"
  PROVE  LET g == Replay(f, i)
         IN /\ IsEnv(g) /\ g.saved = f.saved
            /\ i \in DOMAIN clone.owner =>
                 Repeated(f, i, g) /\ g.unset = (f.unset \/ clone.owner[i] \notin DOMAIN f.saved)
            /\ i \in DOMAIN clone.assigns =>
                 /\ StoredAgain(f, i, g)
                 /\ g.unset = (f.unset \/ ~({clone.assigns[i].op} \cup ({Pointer(i)[2]} \ {0})
                                              \subseteq DOMAIN f.results))
            /\ i \in clone.held =>
                 /\ StoredAgain(f, i, g)
                 /\ g.unset = (\/ f.unset \/ i \notin DOMAIN f.saved
                               \/ ~({Pointer(i)[2]} \ {0} \subseteq DOMAIN f.results))
            /\ i \notin DOMAIN clone.owner \cup DOMAIN clone.assigns \cup clone.held =>
                 /\ Executed(f, i, g)
                 /\ g.unset = (f.unset \/ ~(Operands(i) \subseteq DOMAIN f.results))
<1>. DEFINE g == Replay(f, i)
            A == i \in DOMAIN clone.owner
            B == i \in DOMAIN clone.assigns
            C == i \in clone.held
            s == clone.owner[i]
            FreshA(x) == /\ x.unset = (f.unset \/ ~({s} \subseteq DOMAIN f.saved))
                         /\ g = Apply(x, i, Op(i), Content(f, Pointer(s)), At(f.saved, s), "added")
            FreshB(x) == /\ x.unset = (f.unset \/ ~({clone.assigns[i].op} \cup ({Pointer(i)[2]} \ {0})
                                                      \subseteq DOMAIN f.results))
                         /\ g = Put(x, i, Result(f, clone.assigns[i].op))
            FreshC(x) == /\ x.unset = (\/ f.unset \/ ~({i} \subseteq DOMAIN f.saved)
                                       \/ ~({Pointer(i)[2]} \ {0} \subseteq DOMAIN f.results))
                         /\ g = Put(x, i, At(f.saved, i))
            FreshD(x) == /\ x.unset = (f.unset \/ ~(Operands(i) \subseteq DOMAIN f.results))
                         /\ g = Execute(x, i)
            GoalA == Repeated(f, i, g) /\ g.unset = (f.unset \/ s \notin DOMAIN f.saved)
            GoalB == /\ StoredAgain(f, i, g)
                     /\ g.unset = (f.unset \/ ~({clone.assigns[i].op} \cup ({Pointer(i)[2]} \ {0})
                                                  \subseteq DOMAIN f.results))
            GoalC == /\ StoredAgain(f, i, g)
                     /\ g.unset = (\/ f.unset \/ i \notin DOMAIN f.saved
                                   \/ ~({Pointer(i)[2]} \ {0} \subseteq DOMAIN f.results))
            GoalD == /\ Executed(f, i, g)
                     /\ g.unset = (f.unset \/ ~(Operands(i) \subseteq DOMAIN f.results))
<1>1. \E x : /\ IsEnv(x) /\ Alike(f, x) /\ x.saved = f.saved /\ x.trapped = "no"
             /\ x.results = f.results
             /\ A => FreshA(x)
             /\ ~A /\ B => FreshB(x)
             /\ ~A /\ ~B /\ C => FreshC(x)
             /\ ~A /\ ~B /\ ~C => FreshD(x)
  <2>1. IF i \notin clone.kept \/ i < f.next \/ f.trapped # "no" THEN g = f
        ELSE \E x :
               /\ IsEnv(x) /\ Alike(f, x) /\ x.saved = f.saved /\ x.trapped = "no"
               /\ x.results = f.results
               /\ A => FreshA(x)
               /\ B => FreshB(x)
               /\ C => FreshC(x)
               /\ i \notin DOMAIN clone.owner \cup DOMAIN clone.assigns \cup clone.held => FreshD(x)
    BY ReplaySets, Zenon
  <2>2. i \notin DOMAIN clone.owner \cup DOMAIN clone.assigns \cup clone.held <=> ~A /\ ~B /\ ~C
    OBVIOUS
  <2>. HIDE DEF g, A, B, C, FreshA, FreshB, FreshC, FreshD
  <2>. QED  BY <2>1, <2>2, Zenon
<1>. HIDE DEF FreshA, FreshB, FreshC, FreshD
<1>2. PICK x : /\ IsEnv(x) /\ Alike(f, x) /\ x.saved = f.saved /\ x.trapped = "no"
               /\ x.results = f.results
               /\ A => FreshA(x)
               /\ ~A /\ B => FreshB(x)
               /\ ~A /\ ~B /\ C => FreshC(x)
               /\ ~A /\ ~B /\ ~C => FreshD(x)
  BY <1>1, Zenon
<1>3. /\ A => ~B /\ ~C
      /\ B => ~C /\ Op(i) = "store"
      /\ C => Op(i) = "store" /\ ~B
  BY KindsOfKept, Zenon
<1>. HIDE DEF g
<1>a. IsEnv(x) /\ Alike(f, x) /\ x.trapped = "no" /\ x.results = f.results
  BY <1>2, Zenon
<1>4. CASE A
  <2>. DEFINE v == Computed(Op(i), Content(f, Pointer(s)), At(f.saved, s))
  <2>1. g = IF Works(Op(i), At(f.saved, s)) THEN Gives(x, i, v) ELSE [x EXCEPT !.trapped = "added"]
    BY <1>2, <1>4, ApplyComputes, Zenon DEF FreshA
  <2>2. x.unset = (f.unset \/ s \notin DOMAIN f.saved)
    BY <1>2, <1>4, Zenon DEF FreshA
  <2>. HIDE DEF s
  <2>3. Repeated(f, i, g) /\ KeepsRest(x, g)
    <3>1. CASE Works(Op(i), At(f.saved, s))
      <4>. HIDE DEF v
      <4>1. g = Gives(x, i, v)
        BY <2>1, <3>1, Zenon
      <4>2. /\ IsEnv(g) /\ KeepsMemory(x, g) /\ KeepsRest(x, g)
            /\ g.next = x.next /\ g.trapped = x.trapped /\ g.results = Updated(x.results, i, v)
        BY <1>a, <4>1, GivesSets
      <4>3. g.results = Updated(f.results, i, v) /\ g.trapped = "no"
        BY <1>2, <4>2, Zenon
      <4>4. KeepsMemory(f, g) /\ g.input = f.input /\ g.next = f.next
        BY <1>2, <4>2, Zenon DEF Alike, KeepsMemory, KeepsRest
      <4>. QED  BY <3>1, <4>2, <4>3, <4>4, Zenon DEF Repeated, v, s
    <3>2. CASE ~Works(Op(i), At(f.saved, s))
      <4>1. g = [x EXCEPT !.trapped = "added"]
        BY <2>1, <3>2, Zenon
      <4>2. /\ IsEnv(g) /\ KeepsMemory(x, g) /\ KeepsRest(x, g)
            /\ g.next = x.next /\ g.trapped = "added" /\ g.results = x.results
        BY <1>a, <4>1, TrapSets
      <4>3. g.results = f.results
        BY <1>2, <4>2, Zenon
      <4>4. KeepsMemory(f, g) /\ g.input = f.input /\ g.next = f.next
        BY <1>2, <4>2, Zenon DEF Alike, KeepsMemory, KeepsRest
      <4>. QED  BY <3>2, <4>2, <4>3, <4>4, Zenon DEF Repeated, s
    <3>. QED  BY <3>1, <3>2, Zenon
  <2>4. GoalA /\ g.saved = f.saved
    BY <1>2, <2>2, <2>3, Zenon DEF KeepsRest
  <2>. QED  BY <1>3, <1>4, <2>3, <2>4, Zenon DEF g, Repeated, s
<1>5. CASE B
  <2>1. g = Put(x, i, Result(f, clone.assigns[i].op))
    BY <1>2, <1>3, <1>5, Zenon DEF FreshB
  <2>2. /\ IsEnv(g) /\ g.input = f.input /\ g.next = f.next /\ g.trapped = "no"
        /\ g.results = f.results /\ Stored(f, i, Result(f, clone.assigns[i].op), g)
        /\ g.saved = x.saved /\ g.unset = x.unset
    BY <1>a, <1>3, <1>5, <2>1, PutAlike
  <2>3. StoredAgain(f, i, g)
    BY <1>5, <2>2, Zenon DEF StoredAgain
  <2>4. GoalB /\ g.saved = f.saved
    BY <1>2, <1>3, <1>5, <2>2, <2>3, Zenon DEF FreshB
  <2>. QED  BY <1>3, <1>5, <2>2, <2>4, Zenon DEF g
<1>6. CASE C
  <2>1. g = Put(x, i, At(f.saved, i))
    BY <1>2, <1>3, <1>6, Zenon DEF FreshC
  <2>2. /\ IsEnv(g) /\ g.input = f.input /\ g.next = f.next /\ g.trapped = "no"
        /\ g.results = f.results /\ Stored(f, i, At(f.saved, i), g)
        /\ g.saved = x.saved /\ g.unset = x.unset
    BY <1>a, <1>3, <1>6, <2>1, PutAlike
  <2>3. StoredAgain(f, i, g)
    BY <1>3, <1>6, <2>2, Zenon DEF StoredAgain
  <2>4. x.unset = (\/ f.unset \/ i \notin DOMAIN f.saved
                   \/ ~({Pointer(i)[2]} \ {0} \subseteq DOMAIN f.results))
    BY <1>2, <1>3, <1>6, Zenon DEF FreshC
  <2>5. GoalC /\ g.saved = f.saved
    BY <1>2, <2>2, <2>3, <2>4, Zenon
  <2>. QED  BY <1>3, <1>6, <2>2, <2>5, Zenon DEF g
<1>7. CASE ~A /\ ~B /\ ~C
  <2>1. g = Execute(x, i) /\ x.unset = (f.unset \/ ~(Operands(i) \subseteq DOMAIN f.results))
    BY <1>2, <1>7, Zenon DEF FreshD
  <2>2. Executed(f, i, g) /\ g.saved = x.saved /\ g.unset = x.unset
    BY <1>2, <2>1, ExecutedAlike, Zenon
  <2>3. IsEnv(g)
    BY <2>2, Zenon DEF Executed
  <2>. QED  BY <1>2, <1>7, <2>1, <2>2, <2>3, Zenon DEF g
<1>. QED  BY <1>4, <1>5, <1>6, <1>7, Zenon

-----------------------------------------------------------------------------
(* A skipped iteration goes along with an evaluated one.                   *)

\* The last store to a local so far is one that the clone executes as it is.
Steady(v, n) ==
  \A s \in Stores :
    s <= n /\ body[s].var = v /\ (\A t \in Stores : t <= n /\ body[t].var = v => t <= s)
      => s \in Sliced

\* Where a branch leads beyond the next instruction, it comes before.
Reached(e, n) == e.next <= n + 1 \/ \E b \in Those("br") : b <= n /\ body[b].to = e.next

\* What the slices compute is the same, and so is where was stored.
Agree(e, f, n) ==
  /\ IsEnv(e) /\ IsEnv(f) /\ e.trapped = "no" /\ f.trapped = "no"
  /\ e.input = f.input /\ e.next = f.next
  /\ \A i \in Sliced : Result(e, i) = Result(f, i)
  /\ \A v \in Locals : Steady(v, n) => e.mem[v] = f.mem[v]
  /\ Escaping(e) = Escaping(f)
  /\ e.next \in Nat /\ Reached(e, n)

\* What is kept.
LEMMA KeptIs ==
  ASSUME body \in Code, clone \in Clone, NEW i \in 1..Len(body)
  PROVE  /\ i \in clone.kept <=> \/ i \in DOMAIN clone.owner \cup DOMAIN clone.assigns \cup clone.held
                                 \/ Op(i) = "br" \/ i \in Sliced
         /\ Op(i) = "store" /\ StoreEscapes(i) => i \in DOMAIN clone.assigns \cup clone.held
<1>1. /\ clone.kept = Preserved /\ clone.held = PreservedStores
      /\ DOMAIN clone.assigns = CmpdAssignStores
      /\ DOMAIN clone.owner = {CmpdAssign(s).op : s \in CmpdAssignStores}
  BY CloneParts, Zenon
<1>2. i \in DOMAIN body
  BY BodiesAreLists
<1>3. i \in Those("br") <=> Op(i) = "br"
  BY <1>2 DEF Those
<1>4. Op(i) = "store" => i \in Stores
  BY <1>2 DEF Those, Stores
<1>5. i \in clone.kept <=> \/ i \in DOMAIN clone.owner \cup DOMAIN clone.assigns \cup clone.held
                           \/ Op(i) = "br" \/ i \in Sliced
  BY <1>1, <1>3, Zenon DEF Preserved
<1>6. Op(i) = "store" /\ StoreEscapes(i) => i \in DOMAIN clone.assigns \cup clone.held
  BY <1>1, <1>4, Zenon DEF PreservedStores
<1>. QED  BY <1>5, <1>6

\* One more instruction is stored to.
LEMMA EscapingStored ==
  ASSUME NEW e, NEW g, NEW q, g.puts = e.puts \cup {q}
  PROVE  Escaping(g) = IF StoreEscapes(q[1]) THEN Escaping(e) \cup {q} ELSE Escaping(e)
BY Zenon DEF Escaping

\* What a skipped iteration does with an instruction.
LEMMA SkippedStep ==
  ASSUME body \in Code, clone \in Clone, Exact, NEW f, IsEnv(f), NEW i \in 1..Len(body),
         ~(i < f.next), f.trapped = "no", NEW h, h = Replay(f, i), h.trapped = "no"
  PROVE  /\ IsEnv(h) /\ h.input = f.input
         /\ h.next = IF Op(i) = "br" THEN (IF Result(f, Arg(i, 1)) = 0 THEN body[i].to ELSE i + 1)
                     ELSE f.next
         /\ \A k : k # 0 /\ (k = i => Op(i) \in {"store", "br"}) => Result(h, k) = Result(f, k)
         /\ i \in Sliced => Executed(f, i, h)
         /\ \A v \in Locals : Op(i) # "store" \/ v # body[i].var => h.mem[v] = f.mem[v]
         /\ Escaping(h) = IF Op(i) = "store" /\ StoreEscapes(i)
                          THEN Escaping(f) \cup {<<i, Place(f, Pointer(i))>>} ELSE Escaping(f)
<1>. DEFINE Rest == DOMAIN clone.owner \cup DOMAIN clone.assigns \cup clone.held
<1>1. /\ i \in clone.kept <=> i \in Rest \/ Op(i) = "br" \/ i \in Sliced
      /\ Op(i) = "store" /\ StoreEscapes(i) => i \in DOMAIN clone.assigns \cup clone.held
  BY KeptIs, Zenon
<1>2. i \in Sliced => i \notin Rest
  BY Zenon DEF Exact
<1>3. ASSUME Op(i) = "store", h.puts = f.puts \cup {<<i, Place(f, Pointer(i))>>}
      PROVE  Escaping(h) = IF Op(i) = "store" /\ StoreEscapes(i)
                           THEN Escaping(f) \cup {<<i, Place(f, Pointer(i))>>} ELSE Escaping(f)
  <2>. DEFINE q == <<i, Place(f, Pointer(i))>>
  <2>1. q[1] = i
    OBVIOUS
  <2>. HIDE DEF q
  <2>2. Escaping(h) = IF StoreEscapes(q[1]) THEN Escaping(f) \cup {q} ELSE Escaping(f)
    BY <1>3, EscapingStored, Zenon DEF q
  <2>. QED  BY <1>3, <2>1, <2>2, Zenon DEF q
<1>4. ASSUME h.puts = f.puts
      PROVE  Escaping(h) = Escaping(f)
  BY <1>4, Zenon DEF Escaping
<1>5. CASE i \notin clone.kept
  <2>1. h = f
    <3>1. LET g == Replay(f, i)
          IN IF i \notin clone.kept \/ i < f.next \/ f.trapped # "no" THEN g = f ELSE TRUE
      BY <1>5, Zenon DEF Replay
    <3>. QED  BY <1>5, <3>1, Zenon
  <2>2. Op(i) # "br" /\ i \notin Sliced /\ ~(Op(i) = "store" /\ StoreEscapes(i))
    BY <1>1, <1>5, Zenon
  <2>. QED  BY <2>1, <2>2, Zenon
<1>6. CASE i \in clone.kept
  <2>1. /\ IsEnv(h)
        /\ i \in DOMAIN clone.owner => Repeated(f, i, h)
        /\ i \in DOMAIN clone.assigns \cup clone.held => StoredAgain(f, i, h)
        /\ i \notin Rest => Executed(f, i, h)
    BY <1>6, ReplayExecutes, Zenon
  <2>2. /\ i \in DOMAIN clone.owner => Op(i) \in Operators
        /\ i \in DOMAIN clone.assigns \cup clone.held => Op(i) = "store"
    BY KindsOfKept, Zenon
  <2>3. CASE i \in DOMAIN clone.owner
    <3>1. /\ KeepsMemory(f, h) /\ h.input = f.input /\ h.next = f.next
          /\ h.results = Updated(f.results, i, Computed(Op(i), Content(f, Pointer(clone.owner[i])),
                                                        At(f.saved, clone.owner[i])))
      BY <2>1, <2>3, Zenon DEF Repeated
    <3>2. Op(i) # "br" /\ Op(i) # "store" /\ i \notin Sliced
      BY <1>2, <2>2, <2>3 DEF Operators
    <3>3. \A k : k # i => Result(h, k) = Result(f, k)
      BY <3>1 DEF Updated, At, Result
    <3>4. h.mem = f.mem /\ h.puts = f.puts
      BY <3>1, Zenon DEF KeepsMemory
    <3>5. \A k : k # 0 /\ (k = i => Op(i) \in {"store", "br"}) => Result(h, k) = Result(f, k)
      BY <3>2, <3>3
    <3>. QED  BY <1>4, <2>1, <3>1, <3>2, <3>4, <3>5, Zenon
  <2>4. CASE i \in DOMAIN clone.assigns \cup clone.held
    <3>1. /\ h.input = f.input /\ h.next = f.next /\ h.results = f.results
          /\ h.puts = f.puts \cup {<<i, Place(f, Pointer(i))>>}
          /\ \A v \in Locals : v # body[i].var => h.mem[v] = f.mem[v]
      BY <2>1, <2>4, Zenon DEF StoredAgain, Stored
    <3>2. Op(i) = "store" /\ Op(i) # "br" /\ i \notin Sliced
      BY <1>2, <2>2, <2>4
    <3>3. \A k : Result(h, k) = Result(f, k)
      BY <3>1, Zenon DEF Result
    <3>. QED  BY <1>3, <2>1, <3>1, <3>2, <3>3, Zenon
  <2>5. CASE i \notin Rest
    <3>1. Executed(f, i, h)
      BY <2>1, <2>5, Zenon
    <3>2. ~(Op(i) = "store" /\ StoreEscapes(i))
      BY <1>1, <2>5, Zenon
    <3>3. /\ h.input = f.input
          /\ h.next = IF Op(i) = "br" THEN (IF Result(f, Arg(i, 1)) = 0 THEN body[i].to ELSE i + 1)
                      ELSE f.next
          /\ \A k : k # 0 /\ (k = i => Op(i) \in {"store", "br"}) => Result(h, k) = Result(f, k)
      BY <3>1, Zenon DEF Executed
    <3>4. CASE Op(i) = "store"
      <4>1. Stored(f, i, Result(f, Arg(i, 1)), h)
        BY <3>1, <3>4, Zenon DEF Executed
      <4>2. /\ h.puts = f.puts \cup {<<i, Place(f, Pointer(i))>>}
            /\ \A v \in Locals : v # body[i].var => h.mem[v] = f.mem[v]
        BY <4>1, Zenon DEF Stored
      <4>. QED  BY <1>3, <2>1, <3>1, <3>2, <3>3, <3>4, <4>2, Zenon
    <3>5. CASE Op(i) # "store"
      <4>1. h.mem = f.mem /\ h.puts = f.puts
        BY <3>1, <3>5, Zenon DEF Executed, KeepsMemory
      <4>. QED  BY <1>4, <2>1, <3>1, <3>3, <3>5, <4>1, Zenon
    <3>. QED  BY <3>4, <3>5, Zenon
  <2>. QED  BY <2>3, <2>4, <2>5, Zenon
<1>. QED  BY <1>5, <1>6, Zenon

\* What an address or a condition is computed from is the same if it was before.
LEMMA SlicedAgree ==
  ASSUME body \in Code, Exact, NEW i \in 1..Len(body), i \in Sliced, NEW e, NEW f, Agree(e, f, i - 1)
  PROVE  /\ Op(i) \notin {"store", "br"} => Value(e, i) = Value(f, i)
         /\ Op(i) = "store" => /\ Result(e, Arg(i, 1)) = Result(f, Arg(i, 1))
                               /\ ~Optional(i)
<1>1. /\ Sources(i) \subseteq Sliced
      /\ \A k \in Sliced : Result(e, k) = Result(f, k)
      /\ e.input = f.input
      /\ \A v \in Locals : Steady(v, i - 1) => e.mem[v] = f.mem[v]
  BY SlicedIsClosed, Zenon DEF Agree
<1>2. /\ Op(i) = "load" => IsLocal(i)
      /\ Op(i) = "store" => ~Optional(i)
  BY Zenon DEF Exact
<1>3. /\ Op(i) \in {"in", "gep", "load", "store", "br"} \cup Operators
      /\ Op(i) \in {"gep", "store", "br"} \cup Operators => Arg(i, 1) \in Operands(i)
      /\ Op(i) \in Operators => Arg(i, 2) \in Operands(i)
      /\ IsLocal(i) => Pointer(i) = <<body[i].var, 0>> /\ body[i].var \in Locals
  BY OperandsAreEarlier, Zenon
<1>4. Op(i) # "load" => \A k \in Operands(i) : Result(e, k) = Result(f, k)
  BY <1>1, Zenon DEF Sources
<1>5. Op(i) = "store" => Result(e, Arg(i, 1)) = Result(f, Arg(i, 1))
  BY <1>3, <1>4
<1>6. ASSUME Op(i) \in Operators
      PROVE  Value(e, i) = Value(f, i)
  <2>1. Result(e, Arg(i, 1)) = Result(f, Arg(i, 1)) /\ Result(e, Arg(i, 2)) = Result(f, Arg(i, 2))
    BY <1>3, <1>4, <1>6 DEF Operators
  <2>. QED  BY <1>6, <2>1, Zenon DEF Value
<1>7. ASSUME Op(i) = "in"
      PROVE  Value(e, i) = Value(f, i)
  BY <1>1, <1>7 DEF Value, Operators, Reading
<1>8. ASSUME Op(i) = "gep"
      PROVE  Value(e, i) = Value(f, i)
  <2>1. Result(e, Arg(i, 1)) = Result(f, Arg(i, 1))
    BY <1>3, <1>4, <1>8
  <2>. QED  BY <1>8, <2>1 DEF Value, Operators, Reading
<1>9. ASSUME Op(i) = "load"
      PROVE  Value(e, i) = Value(f, i)
  <2>. DEFINE v == body[i].var
              m == MostRecentStore(i)
  <2>1. IsLocal(i) /\ Pointer(i) = <<v, 0>> /\ v \in Locals
    BY <1>2, <1>3, <1>9
  <2>2. Value(e, i) = e.mem[v] /\ Value(f, i) = f.mem[v]
    BY <1>9, <2>1 DEF Value, Operators, Reading, Content
  <2>3. m # 0 => m \in Sliced
    BY <1>1, <1>9, <2>1 DEF Sources
  <2>4. Steady(v, i - 1)
    <3>1. SUFFICES ASSUME NEW s \in Stores, s <= i - 1, body[s].var = v,
                          \A t \in Stores : t <= i - 1 /\ body[t].var = v => t <= s
                   PROVE  s \in Sliced
      BY Zenon DEF Steady
    <3>2. s \in 1..Len(body) /\ Op(s) = "store"
      BY BodiesAreLists DEF Stores, Those
    <3>3. Pointer(s) = Pointer(i)
      <4>1. v # "none"
        BY <2>1, PreservationAssumption
      <4>2. IsLocal(s)
        BY <3>1, <4>1, Zenon DEF IsLocal
      <4>3. Pointer(s) = <<body[s].var, 0>>
        BY <3>2, <4>2, OperandsAreEarlier
      <4>. QED  BY <2>1, <3>1, <4>3
    <3>4. m # 0 /\ s <= m /\ m \in 0..(i - 1)
      <4>1. s \in 1..(i - 1)
        BY <3>1, <3>2
      <4>. QED  BY <3>2, <3>3, <4>1, StoreIsLatest
    <3>5. m \in 1..Len(body) /\ Op(m) = "store" /\ Pointer(m) = Pointer(i)
      BY <3>4, StoreIsLatest
    <3>6. body[m].var = v
      BY <2>1, <3>5 DEF Pointer
    <3>7. m \in Stores
      BY <3>5, BodiesAreLists DEF Stores, Those
    <3>8. m <= s
      BY <3>1, <3>4, <3>6, <3>7
    <3>9. m = s
      BY <3>2, <3>4, <3>8
    <3>. QED  BY <2>3, <3>4, <3>9
  <2>. QED  BY <1>1, <2>1, <2>2, <2>4, Zenon
<1>. QED  BY <1>2, <1>3, <1>5, <1>6, <1>7, <1>8, <1>9

\* Both iterations leave an instruction out.
LEMMA AgreeBeyond ==
  ASSUME body \in Code, Exact, NEW i \in 1..Len(body), NEW e, NEW f, Agree(e, f, i - 1), i < e.next
  PROVE  Agree(e, f, i)
<1>1. /\ e.next \in Nat /\ Reached(e, i - 1)
      /\ \A v \in Locals : Steady(v, i - 1) => e.mem[v] = f.mem[v]
  BY Zenon DEF Agree
<1>2. i \in Nat /\ Those("br") \subseteq Nat /\ Stores \subseteq Nat
  BY BodiesAreLists DEF Those, Stores
<1>3. PICK b \in Those("br") : b <= i - 1 /\ body[b].to = e.next
  BY <1>1, <1>2 DEF Reached
<1>4. Reached(e, i)
  BY <1>2, <1>3 DEF Reached
<1>5. Optional(i)
  BY <1>2, <1>3 DEF Optional
<1>6. ASSUME NEW v \in Locals, Steady(v, i)
      PROVE  e.mem[v] = f.mem[v]
  <2>1. CASE i \in Stores /\ body[i].var = v
    <3>1. i \in Sliced
      BY <1>2, <1>6, <2>1 DEF Steady
    <3>2. Op(i) = "store"
      BY <2>1 DEF Stores, Those
    <3>. QED  BY <1>5, <3>1, <3>2, Zenon DEF Exact
  <2>2. CASE ~(i \in Stores /\ body[i].var = v)
    <3>1. \A s \in Stores : body[s].var = v => (s <= i <=> s <= i - 1)
      <4>1. ASSUME NEW s \in Stores, body[s].var = v
            PROVE  s <= i <=> s <= i - 1
        <5>1. s # i /\ s \in Nat
          BY <1>2, <2>2, <4>1
        <5>. QED  BY <1>2, <5>1
      <4>. QED  BY <4>1, Zenon
    <3>2. Steady(v, i - 1)
      BY <1>6, <3>1, Zenon DEF Steady
    <3>. QED  BY <1>1, <3>2, Zenon
  <2>. QED  BY <2>1, <2>2, Zenon
<1>. QED  BY <1>4, <1>6, Zenon DEF Agree

\* So do they agree after an instruction if neither traps.
LEMMA AgreeStep ==
  ASSUME body \in Code, clone \in Clone, Exact, NEW i \in 1..Len(body),
         NEW e, NEW f, Agree(e, f, i - 1), ~(i < e.next),
         NEW g, g = Evaluate(e, i), g.trapped = "no", NEW h, h = Replay(f, i), h.trapped = "no"
  PROVE  Agree(g, h, i)
<1>1. /\ IsEnv(e) /\ IsEnv(f) /\ e.trapped = "no" /\ f.trapped = "no"
      /\ e.input = f.input /\ e.next = f.next /\ ~(i < f.next)
      /\ \A k \in Sliced : Result(e, k) = Result(f, k)
      /\ \A v \in Locals : Steady(v, i - 1) => e.mem[v] = f.mem[v]
      /\ Escaping(e) = Escaping(f)
      /\ e.next \in Nat
  BY Zenon DEF Agree
<1>2. IsEnv(g) /\ Executed(e, i, g)
  <2>1. LET x == Evaluate(e, i) IN IsEnv(x) /\ (x.trapped = "no" => Executed(e, i, x))
    BY <1>1, EvaluateExecutes, Zenon
  <2>. QED  BY <2>1, Zenon
<1>3. /\ IsEnv(h) /\ h.input = f.input
      /\ h.next = IF Op(i) = "br" THEN (IF Result(f, Arg(i, 1)) = 0 THEN body[i].to ELSE i + 1)
                  ELSE f.next
      /\ \A k : k # 0 /\ (k = i => Op(i) \in {"store", "br"}) => Result(h, k) = Result(f, k)
      /\ i \in Sliced => Executed(f, i, h)
      /\ \A v \in Locals : Op(i) # "store" \/ v # body[i].var => h.mem[v] = f.mem[v]
      /\ Escaping(h) = IF Op(i) = "store" /\ StoreEscapes(i)
                       THEN Escaping(f) \cup {<<i, Place(f, Pointer(i))>>} ELSE Escaping(f)
  BY <1>1, SkippedStep
<1>4. /\ g.input = e.input
      /\ g.next = IF Op(i) = "br" THEN (IF Result(e, Arg(i, 1)) = 0 THEN body[i].to ELSE i + 1)
                  ELSE e.next
      /\ \A k : k # 0 /\ (k = i => Op(i) \in {"store", "br"}) => Result(g, k) = Result(e, k)
      /\ IF Op(i) = "store" THEN Stored(e, i, Result(e, Arg(i, 1)), g) ELSE KeepsMemory(e, g)
      /\ ~Traps(e, i)
  <2>1. g.trapped = IF Traps(e, i) THEN "source" ELSE "no"
    BY <1>2, Zenon DEF Executed
  <2>2. ~Traps(e, i)
    BY <2>1
  <2>. QED  BY <1>2, <2>2, Zenon DEF Executed
<1>5. /\ Sliced \subseteq 1..Len(body)
      /\ \A b \in Those("br") : Operands(b) \subseteq Sliced
      /\ \A s \in CmpdAssignStores \cup PreservedStores : ~IsLocal(s) => Pointer(s)[2] \in Sliced
  BY SlicedIsClosed, Zenon
<1>6. i \in Nat /\ Those("br") \subseteq Nat /\ Stores \subseteq Nat /\ i \in DOMAIN body
  BY BodiesAreLists DEF Those, Stores
<1>7. g.next = h.next /\ g.next \in Nat /\ Reached(g, i)
  <2>1. CASE Op(i) = "br"
    <3>1. i \in Those("br") /\ Arg(i, 1) \in Operands(i) /\ body[i].to \in Nat
      BY <1>6, <2>1, OperandsAreEarlier DEF Those
    <3>2. Result(e, Arg(i, 1)) = Result(f, Arg(i, 1))
      BY <1>1, <1>5, <3>1
    <3>3. g.next = h.next
      BY <1>3, <1>4, <2>1, <3>2, Zenon
    <3>4. g.next = body[i].to \/ g.next = i + 1
      BY <1>4, <2>1
    <3>. QED  BY <1>6, <3>1, <3>3, <3>4 DEF Reached
  <2>2. CASE Op(i) # "br"
    <3>1. g.next = e.next /\ h.next = f.next
      BY <1>3, <1>4, <2>2
    <3>2. e.next <= i + 1
      BY <1>1, <1>6
    <3>. QED  BY <1>1, <3>1, <3>2 DEF Reached
  <2>. QED  BY <2>1, <2>2
<1>8. i \in Sliced =>
        /\ Op(i) \notin {"store", "br"} => Value(e, i) = Value(f, i)
        /\ Op(i) = "store" => /\ Result(e, Arg(i, 1)) = Result(f, Arg(i, 1))
                              /\ ~Optional(i)
  BY SlicedAgree, Zenon
<1>9. ASSUME NEW k \in Sliced
      PROVE  Result(g, k) = Result(h, k)
  <2>1. k # 0
    BY <1>5
  <2>2. CASE k = i => Op(i) \in {"store", "br"}
    <3>1. Result(g, k) = Result(e, k) /\ Result(h, k) = Result(f, k)
      BY <1>3, <1>4, <2>1, <2>2, Zenon
    <3>. QED  BY <1>1, <3>1, Zenon
  <2>3. CASE k = i /\ Op(i) \notin {"store", "br"}
    <3>1. Executed(f, i, h)
      BY <1>3, <2>3, Zenon
    <3>2. h.trapped = IF Traps(f, i) THEN "source" ELSE "no"
      BY <3>1, Zenon DEF Executed
    <3>3. ~Traps(f, i)
      BY <3>2
    <3>4. Result(h, i) = Value(f, i) /\ Result(g, i) = Value(e, i)
      BY <1>2, <1>4, <2>3, <3>1, <3>3, Zenon DEF Executed
    <3>. QED  BY <1>8, <2>3, <3>4, Zenon
  <2>. QED  BY <2>2, <2>3, Zenon
<1>10. ASSUME NEW v \in Locals, Steady(v, i)
       PROVE  g.mem[v] = h.mem[v]
  <2>1. CASE Op(i) = "store" /\ body[i].var = v
    <3>1. i \in Sliced
      BY <1>6, <1>10, <2>1 DEF Steady, Stores, Those, Op
    <3>2. Executed(f, i, h)
      BY <1>3, <3>1, Zenon
    <3>3. Stored(f, i, Result(f, Arg(i, 1)), h) /\ Stored(e, i, Result(e, Arg(i, 1)), g)
      BY <1>4, <2>1, <3>2, Zenon DEF Executed
    <3>4. h.mem[v] = Result(f, Arg(i, 1)) /\ g.mem[v] = Result(e, Arg(i, 1))
      BY <2>1, <3>3, Zenon DEF Stored
    <3>. QED  BY <1>8, <2>1, <3>1, <3>4, Zenon
  <2>2. CASE ~(Op(i) = "store" /\ body[i].var = v)
    <3>1. \A s \in Stores : body[s].var = v => (s <= i <=> s <= i - 1)
      <4>1. ASSUME NEW s \in Stores, body[s].var = v
            PROVE  s <= i <=> s <= i - 1
        <5>1. s # i /\ s \in Nat
          BY <1>6, <2>2, <4>1 DEF Stores, Those
        <5>. QED  BY <1>6, <5>1
      <4>. QED  BY <4>1, Zenon
    <3>2. Steady(v, i - 1)
      BY <1>10, <3>1, Zenon DEF Steady
    <3>3. h.mem[v] = f.mem[v]
      BY <1>3, <2>2, Zenon
    <3>4. g.mem[v] = e.mem[v]
      BY <1>4, <2>2, Zenon DEF Stored, KeepsMemory
    <3>. QED  BY <1>1, <3>2, <3>3, <3>4, Zenon
  <2>. QED  BY <2>1, <2>2, Zenon
<1>11. Escaping(g) = Escaping(h)
  <2>1. CASE Op(i) = "store" /\ StoreEscapes(i)
    <3>1. i \in CmpdAssignStores \cup PreservedStores
      <4>1. i \in DOMAIN clone.assigns \cup clone.held
        BY <2>1, KeptIs, Zenon
      <4>. QED  BY <4>1, CloneParts, Zenon
    <3>2. Place(e, Pointer(i)) = Place(f, Pointer(i))
      <4>1. Pointer(i)[2] = 0 \/ Pointer(i)[2] \in Sliced
        BY <1>5, <3>1 DEF Pointer
      <4>2. CASE Pointer(i)[2] = 0
        BY <4>2 DEF Place
      <4>3. CASE Pointer(i)[2] \in Sliced
        <5>1. Result(e, Pointer(i)[2]) = Result(f, Pointer(i)[2])
          BY <1>1, <4>3, Zenon
        <5>. QED  BY <5>1, Zenon DEF Place
      <4>. QED  BY <4>1, <4>2, <4>3, Zenon
    <3>. DEFINE q == <<i, Place(e, Pointer(i))>>
    <3>3. g.puts = e.puts \cup {q}
      BY <1>4, <2>1, Zenon DEF Stored
    <3>4. q[1] = i
      OBVIOUS
    <3>. HIDE DEF q
    <3>5. Escaping(g) = IF StoreEscapes(q[1]) THEN Escaping(e) \cup {q} ELSE Escaping(e)
      BY <3>3, EscapingStored, Zenon
    <3>. QED  BY <1>1, <1>3, <2>1, <3>2, <3>4, <3>5, Zenon DEF q
  <2>2. CASE ~(Op(i) = "store" /\ StoreEscapes(i))
    <3>1. Escaping(g) = Escaping(e)
      <4>1. CASE Op(i) = "store"
        <5>. DEFINE q == <<i, Place(e, Pointer(i))>>
        <5>1. g.puts = e.puts \cup {q}
          BY <1>4, <4>1, Zenon DEF Stored
        <5>2. q[1] = i
          OBVIOUS
        <5>. HIDE DEF q
        <5>3. Escaping(g) = IF StoreEscapes(q[1]) THEN Escaping(e) \cup {q} ELSE Escaping(e)
          BY <5>1, EscapingStored, Zenon
        <5>. QED  BY <2>2, <4>1, <5>2, <5>3, Zenon
      <4>2. CASE Op(i) # "store"
        BY <1>4, <4>2, Zenon DEF KeepsMemory, Escaping
      <4>. QED  BY <4>1, <4>2, Zenon
    <3>. QED  BY <1>1, <1>3, <2>2, <3>1, Zenon
  <2>. QED  BY <2>1, <2>2, Zenon
<1>12. g.input = h.input
  BY <1>1, <1>3, <1>4, Zenon
<1>. QED  BY <1>2, <1>3, <1>7, <1>9, <1>10, <1>11, <1>12, Zenon DEF Agree

\* A trap stops an iteration, and what has not stopped has not trapped before.
LEMMA TrapsStop ==
  ASSUME Len(body) \in Nat, NEW run, run[Len(body)].trapped = "no",
         \A n \in 1..Len(body) : run[n - 1].trapped # "no" => run[n] = run[n - 1]
  PROVE  \A n \in 0..Len(body) : run[n].trapped = "no"
<1>. DEFINE N == Len(body)
            A == {m \in Nat : m <= N => run[N - m].trapped = "no"}
<1>1. 0 \in A
  OBVIOUS
<1>2. ASSUME NEW m \in A PROVE m + 1 \in A
  <2>1. SUFFICES ASSUME m + 1 <= N PROVE run[N - (m + 1)].trapped = "no"
    OBVIOUS
  <2>2. PICK n \in 1..N : n = N - m
    BY <2>1
  <2>3. run[n].trapped = "no" /\ n - 1 = N - (m + 1)
    BY <2>1, <2>2
  <2>4. run[n - 1].trapped # "no" => run[n] = run[n - 1]
    OBVIOUS
  <2>5. run[n - 1].trapped = "no"
    BY <2>3, <2>4, Zenon
  <2>. QED  BY <2>3, <2>5
<1>3. A = Nat
  <2>. HIDE DEF A
  <2>1. A \in SUBSET Nat
    BY DEF A
  <2>. QED  BY <1>1, <1>2, <2>1, Induction
<1>4. ASSUME NEW n \in 0..N PROVE run[n].trapped = "no"
  <2>1. N - n \in Nat /\ N - n <= N /\ N - (N - n) = n
    OBVIOUS
  <2>2. N - n \in A
    <3>. HIDE DEF A
    <3>. QED  BY <1>3, <2>1
  <2>3. run[N - (N - n)].trapped = "no"
    BY <2>1, <2>2
  <2>. QED  BY <2>1, <2>3
<1>. QED  BY <1>4

\* Neither iteration goes on after a trap.
LEMMA TrapsAreFinal ==
  ASSUME NEW e, NEW i, e.trapped # "no"
  PROVE  Evaluate(e, i) = e /\ Replay(e, i) = e
BY Zenon DEF Evaluate, Replay

LEMMA EntryIsEnv ==
  ASSUME mem = [v \in Locals |-> mem[v]], NEW input
  PROVE  LET e == Entry(input)
         IN /\ IsEnv(e) /\ e.mem = mem /\ e.elems = elems /\ e.saved = saved /\ e.input = input
            /\ e.results = Nothing /\ e.next = 1 /\ e.puts = {}
            /\ e.unset = unset /\ e.trapped = "no"
<1>. DEFINE e == Entry(input)
<1>1. e = [mem |-> mem, elems |-> elems, saved |-> saved, input |-> input,
           results |-> Nothing, next |-> 1, puts |-> {}, unset |-> unset, trapped |-> "no"]
  BY Zenon DEF Entry
<1>. HIDE DEF e
<1>2. /\ e.mem = mem /\ e.elems = elems /\ e.saved = saved /\ e.input = input
      /\ e.results = Nothing /\ e.next = 1 /\ e.puts = {}
      /\ e.unset = unset /\ e.trapped = "no"
  BY <1>1, Zenon
<1>3. IsEnv(e)
  BY <1>1, <1>2, Zenon DEF IsEnv
<1>. QED  BY <1>2, <1>3, Zenon DEF e

\* An iteration that is skipped stores to the places of one that is evaluated.
LEMMA PlacesAgree ==
  ASSUME body \in Code, clone \in Clone, mem = [v \in Locals |-> mem[v]], Exact, NEW input,
         Evaluated(input).trapped = "no", Replayed(input).trapped = "no"
  PROVE  Escaping(Replayed(input)) = Escaping(Evaluated(input))
<1>1. Len(body) \in Nat
  BY BodiesAreLists
<1>2. PICK E : /\ E[0] = Entry(input) /\ Evaluated(input) = E[Len(body)]
               /\ \A n \in 1..Len(body) : E[n] = Evaluate(E[n - 1], n)
  BY <1>1, EvaluatedStepwise
<1>3. PICK F : /\ F[0] = Entry(input) /\ Replayed(input) = F[Len(body)]
               /\ \A n \in 1..Len(body) : F[n] = Replay(F[n - 1], n)
  BY <1>1, ReplayedStepwise
<1>4. \A n \in 0..Len(body) : E[n].trapped = "no"
  <2>1. \A n \in 1..Len(body) : E[n - 1].trapped # "no" => E[n] = E[n - 1]
    BY <1>2, TrapsAreFinal, Zenon
  <2>2. E[Len(body)].trapped = "no"
    BY <1>2
  <2>. QED  BY <1>1, <2>1, <2>2, TrapsStop, Zenon
<1>5. \A n \in 0..Len(body) : F[n].trapped = "no"
  <2>1. \A n \in 1..Len(body) : F[n - 1].trapped # "no" => F[n] = F[n - 1]
    BY <1>3, TrapsAreFinal, Zenon
  <2>2. F[Len(body)].trapped = "no"
    BY <1>3
  <2>. QED  BY <1>1, <2>1, <2>2, TrapsStop, Zenon
<1>. DEFINE A == {n \in Nat : n <= Len(body) => Agree(E[n], F[n], n)}
<1>6. 0 \in A
  <2>. DEFINE e == Entry(input)
  <2>1. IsEnv(e) /\ e.next = 1 /\ e.trapped = "no"
    BY EntryIsEnv, Zenon
  <2>. HIDE DEF e
  <2>2. Reached(e, 0) /\ e.next \in Nat
    BY <2>1 DEF Reached
  <2>3. Agree(e, e, 0)
    BY <2>1, <2>2, Zenon DEF Agree
  <2>4. E[0] = e /\ F[0] = e
    BY <1>2, <1>3, Zenon DEF e
  <2>5. Agree(E[0], F[0], 0)
    BY <2>3, <2>4, Zenon
  <2>. QED  BY <2>5
<1>7. ASSUME NEW n \in A PROVE n + 1 \in A
  <2>1. SUFFICES ASSUME n + 1 <= Len(body) PROVE Agree(E[n + 1], F[n + 1], n + 1)
    OBVIOUS
  <2>2. PICK i \in 1..Len(body) : i = n + 1
    BY <1>1, <2>1
  <2>3. i - 1 = n /\ i \in 0..Len(body) /\ n \in 0..Len(body) /\ n <= Len(body)
    BY <1>1, <2>1, <2>2
  <2>4. Agree(E[n], F[n], n)
    BY <2>3
  <2>5. Agree(E[i - 1], F[i - 1], i - 1)
    BY <2>3, <2>4
  <2>6. /\ E[i] = Evaluate(E[i - 1], i) /\ F[i] = Replay(F[i - 1], i)
        /\ E[i].trapped = "no" /\ F[i].trapped = "no"
    BY <1>2, <1>3, <1>4, <1>5, <2>3
  <2>7. CASE i < E[i - 1].next
    <3>1. E[i - 1].next = F[i - 1].next
      BY <2>5, Zenon DEF Agree
    <3>2. E[i] = E[i - 1] /\ F[i] = F[i - 1]
      BY <2>6, <2>7, <3>1, Zenon DEF Evaluate, Replay
    <3>3. Agree(E[i - 1], F[i - 1], i)
      BY <2>5, <2>7, AgreeBeyond, Zenon
    <3>4. Agree(E[i], F[i], i)
      BY <3>2, <3>3, Zenon
    <3>. QED  BY <2>2, <3>4
  <2>8. CASE ~(i < E[i - 1].next)
    <3>1. Agree(E[i], F[i], i)
      BY <2>5, <2>6, <2>8, AgreeStep, Zenon
    <3>. QED  BY <2>2, <3>1
  <2>. QED  BY <2>7, <2>8
<1>8. A = Nat
  <2>. HIDE DEF A
  <2>1. A \in SUBSET Nat
    BY DEF A
  <2>. QED  BY <1>6, <1>7, <2>1, Induction
<1>9. Agree(E[Len(body)], F[Len(body)], Len(body))
  BY <1>1, <1>8
<1>. QED  BY <1>2, <1>3, <1>9, Zenon DEF Agree

-----------------------------------------------------------------------------
(* The loop with its body.                                                 *)

\* The body is well-formed code, there is a clone of it where one can be run, and
\* the memory holds the locals.
BodyInv ==
  /\ body \in Code
  /\ mem = [v \in Locals |-> mem[v]]
  /\ phase # "run" => at = "exit"
  /\ clone \in Clone \cup {NoClone}
  /\ phase = "run" /\ preserve /\ perforated[now] # 0 => clone \in Clone
  /\ at = "check" => perforated[now] # 0
  /\ at = "clone" => preserve /\ perforated[now] # 0

LEMMA InitBodyInv == InitBody => BodyInv
<1>. SUFFICES ASSUME InitBody PROVE BodyInv
  OBVIOUS
<1>1. body \in Code
  <2>1. body \in Bodies \cup {<<>>}
    BY DEF InitBody
  <2>2. <<>> \in Code
    BY DEF Code
  <2>. QED  BY <2>1, <2>2, PreservationAssumption
<1>2. mem = [v \in Locals |-> mem[v]]
  BY DEF InitBody
<1>. QED  BY <1>1, <1>2 DEF InitBody, Init, BodyInv

\* An iteration leaves an environment behind.
LEMMA EvaluatedIsEnv ==
  ASSUME body \in Code, mem = [v \in Locals |-> mem[v]], NEW input
  PROVE  IsEnv(Evaluated(input))
<1>1. Len(body) \in Nat
  BY BodiesAreLists
<1>2. PICK E : /\ E[0] = Entry(input) /\ Evaluated(input) = E[Len(body)]
               /\ \A n \in 1..Len(body) : E[n] = Evaluate(E[n - 1], n)
  BY <1>1, EvaluatedStepwise
<1>. DEFINE A == {n \in Nat : n <= Len(body) => IsEnv(E[n])}
<1>3. 0 \in A
  <2>1. IsEnv(E[0])
    BY <1>2, EntryIsEnv, Zenon
  <2>. QED  BY <2>1
<1>4. ASSUME NEW n \in A PROVE n + 1 \in A
  <2>1. SUFFICES ASSUME n + 1 <= Len(body) PROVE IsEnv(E[n + 1])
    OBVIOUS
  <2>2. PICK i \in 1..Len(body) : i = n + 1
    BY <1>1, <2>1
  <2>3. i - 1 = n /\ n <= Len(body)
    BY <1>1, <2>1, <2>2
  <2>4. IsEnv(E[i - 1])
    BY <2>3
  <2>5. IsEnv(Evaluate(E[i - 1], i))
    <3>1. CASE i < E[i - 1].next \/ E[i - 1].trapped # "no"
      BY <2>4, <3>1, Zenon DEF Evaluate
    <3>2. CASE ~(i < E[i - 1].next \/ E[i - 1].trapped # "no")
      BY <2>4, <3>2, EvaluateExecutes, Zenon
    <3>. QED  BY <3>1, <3>2, Zenon
  <2>. QED  BY <1>2, <2>2, <2>5
<1>5. A = Nat
  <2>. HIDE DEF A
  <2>1. A \in SUBSET Nat
    BY DEF A
  <2>. QED  BY <1>3, <1>4, <2>1, Induction
<1>6. IsEnv(E[Len(body)])
  BY <1>1, <1>5
<1>. QED  BY <1>2, <1>6, Zenon

LEMMA ReplayedIsEnv ==
  ASSUME body \in Code, clone \in Clone, mem = [v \in Locals |-> mem[v]], NEW input
  PROVE  IsEnv(Replayed(input))
<1>1. Len(body) \in Nat
  BY BodiesAreLists
<1>2. PICK F : /\ F[0] = Entry(input) /\ Replayed(input) = F[Len(body)]
               /\ \A n \in 1..Len(body) : F[n] = Replay(F[n - 1], n)
  BY <1>1, ReplayedStepwise
<1>. DEFINE A == {n \in Nat : n <= Len(body) => IsEnv(F[n])}
<1>3. 0 \in A
  <2>1. IsEnv(F[0])
    BY <1>2, EntryIsEnv, Zenon
  <2>. QED  BY <2>1
<1>4. ASSUME NEW n \in A PROVE n + 1 \in A
  <2>1. SUFFICES ASSUME n + 1 <= Len(body) PROVE IsEnv(F[n + 1])
    OBVIOUS
  <2>2. PICK i \in 1..Len(body) : i = n + 1
    BY <1>1, <2>1
  <2>3. i - 1 = n /\ n <= Len(body)
    BY <1>1, <2>1, <2>2
  <2>4. IsEnv(F[i - 1])
    BY <2>3
  <2>5. IsEnv(Replay(F[i - 1], i))
    <3>1. CASE i \notin clone.kept \/ i < F[i - 1].next \/ F[i - 1].trapped # "no"
      BY <2>4, <3>1, Zenon DEF Replay
    <3>2. CASE ~(i \notin clone.kept \/ i < F[i - 1].next \/ F[i - 1].trapped # "no")
      BY <2>4, <3>2, ReplayExecutes, Zenon
    <3>. QED  BY <3>1, <3>2, Zenon
  <2>. QED  BY <1>2, <2>2, <2>5
<1>5. A = Nat
  <2>. HIDE DEF A
  <2>1. A \in SUBSET Nat
    BY DEF A
  <2>. QED  BY <1>3, <1>4, <2>1, Induction
<1>6. IsEnv(F[Len(body)])
  BY <1>1, <1>5
<1>. QED  BY <1>2, <1>6, Zenon

\* What preserveBody finds depends on the body alone.
LEMMA CloneOfBody ==
  ASSUME UNCHANGED body
  PROVE  Clone' = Clone
<1>1. /\ \A i : Op(i)' = Op(i) /\ \A k : Arg(i, k)' = Arg(i, k)
      /\ \A i : Operands(i)' = Operands(i) /\ IsLocal(i)' = IsLocal(i)
      /\ \A op : Those(op)' = Those(op)
      /\ Stores' = Stores
  BY Zenon DEF Op, Arg, Operands, IsLocal, Those, Stores
<1>2. \A i : Pointer(i)' = Pointer(i)
  BY <1>1, Zenon DEF Pointer, IsLocal, Arg
<1>3. ASSUME NEW i PROVE MostRecentStore(i)' = MostRecentStore(i)
  BY <1>1, <1>2, SMT DEF MostRecentStore
<1>4. \A i : Sources(i)' = Sources(i)
  BY <1>1, <1>3, Zenon DEF Sources
<1>5. ASSUME NEW i PROVE Slice(i)' = Slice(i)
  BY SMT DEF Slice, Sources, Op, IsLocal, MostRecentStore, Latest, Operands, Pointer, Arg, Stores, Those
<1>6. ASSUME NEW s, NEW up, NEW down PROVE Assignment(s, up, down)' = Assignment(s, up, down)
  BY SMT DEF Assignment, AssignmentOf, Loads, LoadsOf, Op, IsLocal, MostRecentStore, Latest, Pointer, Arg, Stores, Those
<1>7. \A s : CmpdAssign(s)' = CmpdAssign(s)
  BY <1>6, Zenon DEF CmpdAssign
<1>8. CmpdAssignStores' = CmpdAssignStores
  BY <1>7, <1>1, Zenon DEF CmpdAssignStores
<1>9. PreservedStores' = PreservedStores
  BY <1>8, <1>1, Zenon DEF PreservedStores, StoreEscapes, IsLocal
<1>10. Sliced' = Sliced
  BY <1>1, <1>2, <1>5, <1>8, <1>9 DEF Sliced
<1>11. Preserved' = Preserved
  BY <1>1, <1>7, <1>8, <1>9, <1>10, Zenon DEF Preserved
<1>12. {CmpdAssign(s).op : s \in CmpdAssignStores}' = {CmpdAssign(s).op : s \in CmpdAssignStores}
  BY <1>7, <1>8
<1>13. [s \in CmpdAssignStores |-> CmpdAssign(s)]' = [s \in CmpdAssignStores |-> CmpdAssign(s)]
  BY <1>7, <1>8
<1>. DEFINE Owners ==
              {f \in [{CmpdAssign(s).op : s \in CmpdAssignStores} -> CmpdAssignStores] :
                 \A o \in DOMAIN f : CmpdAssign(f[o]).op = o}
<1>14. Owners' = Owners
  BY <1>7, <1>8, <1>12
<1>15. Clone = [kept : {Preserved}, held : {PreservedStores},
                assigns : {[s \in CmpdAssignStores |-> CmpdAssign(s)]}, owner : Owners]
  BY Zenon DEF Clone
<1>16. Clone' = [kept : {Preserved'}, held : {PreservedStores'},
                 assigns : {[s \in CmpdAssignStores |-> CmpdAssign(s)]'}, owner : Owners']
  BY Zenon DEF Clone
<1>. HIDE DEF Owners
<1>. QED  BY <1>9, <1>11, <1>13, <1>14, <1>15, <1>16, Zenon

\* Steps that leave the body, its clone and the memory alone.
LEMMA LoopBodyInv ==
  ASSUME BodyInv, Build \/ Run, UNCHANGED dataVars
  PROVE  BodyInv'
<1>1. UNCHANGED <<body, clone, mem>>
  BY DEF dataVars
<1>2. /\ (body \in Code)' /\ (mem = [v \in Locals |-> mem[v]])'
      /\ (clone \in Clone \cup {NoClone})'
  <2>1. Clone' = Clone
    BY <1>1, CloneOfBody
  <2>2. mem' = [v \in Locals |-> mem'[v]]
    BY <1>1 DEF BodyInv
  <2>. QED  BY <1>1, <2>1, <2>2 DEF BodyInv
<1>3. clone \in Clone => clone' \in Clone'
  BY <1>1, CloneOfBody
<1>. DEFINE Rest ==
              /\ phase # "run" => at = "exit"
              /\ phase = "run" /\ preserve /\ perforated[now] # 0 => clone \in Clone
              /\ at = "check" => perforated[now] # 0
              /\ at = "clone" => preserve /\ perforated[now] # 0
<1>4. Rest
  BY DEF BodyInv
<1>5. Rest'
  <2>1. CASE Build
    <3>1. phase # "run" /\ phase' # "run" /\ at' = at
      BY <2>1 DEF Build, Configure, Assess, Relax, runVars
    <3>. QED  BY <1>4, <3>1
  <2>2. CASE Reenter
    <3>1. phase' = phase /\ at' = "header" /\ now' = now /\ preserve' = preserve /\ perforated' = perforated
      BY <2>2 DEF Reenter, Preheader
    <3>2. phase = "run"
      BY <2>2 DEF Reenter
    <3>. QED  BY <1>3, <1>4, <3>1, <3>2
  <2>3. CASE Header
    <3>1. /\ phase' = phase /\ phase = "run" /\ now' = now
          /\ preserve' = preserve /\ perforated' = perforated
      BY <2>3 DEF Header, Goto
    <3>2. at' \in {"check", "exit", "body"} /\ (at' = "check" => perforated[now] # 0)
      BY <2>3 DEF Header, Goto, Target
    <3>. QED  BY <1>3, <1>4, <3>1, <3>2
  <2>4. CASE Check
    <3>1. /\ phase' = phase /\ phase = "run" /\ now' = now /\ at = "check"
          /\ preserve' = preserve /\ perforated' = perforated
      BY <2>4 DEF Check, Goto
    <3>2. at' \in {"body", "clone", "latch"} /\ (at' = "clone" => preserve)
      BY <2>4 DEF Check, Goto, SkipDest
    <3>. QED  BY <1>3, <1>4, <3>1, <3>2
  <2>5. CASE Latch
    <3>1. /\ phase' = phase /\ phase = "run" /\ now' = now /\ at' = "header"
          /\ preserve' = preserve /\ perforated' = perforated
      BY <2>5 DEF Latch, Goto
    <3>. QED  BY <1>3, <1>4, <3>1
  <2>. QED  BY <2>1, <2>2, <2>3, <2>4, <2>5 DEF Run
<1>. QED  BY <1>2, <1>5 DEF BodyInv

LEMMA StepBodyInv == BodyInv /\ [NextBody]_<<vars, dataVars>> => BodyInv'
<1>. SUFFICES ASSUME BodyInv, [NextBody]_<<vars, dataVars>> PROVE BodyInv'
  OBVIOUS
<1>1. CASE StartBody
  <2>1. UNCHANGED <<body, mem>>
    BY <1>1 DEF StartBody
  <2>2. phase' = "run" /\ at' = "header" /\ UNCHANGED <<preserve, perforated>>
    BY <1>1 DEF StartBody, Start, Preheader
  <2>3. clone' \in IF preserve /\ perforated[now'] # 0 THEN Clone ELSE {NoClone}
    BY <1>1, Zenon DEF StartBody
  <2>4. Clone' = Clone
    BY <2>1, CloneOfBody
  <2>5. mem' = [v \in Locals |-> mem'[v]] /\ body' \in Code
    BY <2>1 DEF BodyInv
  <2>6. /\ clone' \in Clone' \cup {NoClone}
        /\ preserve' /\ perforated'[now'] # 0 => clone' \in Clone'
    <3>1. preserve' = preserve /\ perforated' = perforated
      BY <2>2
    <3>. QED  BY <2>3, <2>4, <3>1
  <2>. QED  BY <2>2, <2>5, <2>6 DEF BodyInv
<1>2. ASSUME NEW e, IsEnv(e), Leaves(e),
             NEW from, Goto(from, After(e))
      PROVE  BodyInv'
  <2>1. UNCHANGED <<body, clone, preserve, perforated, now, phase>> /\ phase = "run" /\ mem' = e.mem
    BY <1>2 DEF Leaves, Goto
  <2>2. at' \in {"latch", "trap"}
    BY <1>2 DEF Goto, After
  <2>3. mem' = [v \in Locals |-> mem'[v]]
    BY <1>2, <2>1, Zenon DEF IsEnv
  <2>4. Clone' = Clone
    BY <2>1, CloneOfBody
  <2>. QED  BY <2>1, <2>2, <2>3, <2>4 DEF BodyInv
<1>3. CASE EvaluateBody
  <2>1. PICK input \in Inputs : BodyTo(After(Evaluated(input))) /\ Leaves(Evaluated(input))
    BY <1>3, Zenon DEF EvaluateBody
  <2>2. IsEnv(Evaluated(input))
    BY EvaluatedIsEnv, Zenon DEF BodyInv
  <2>. QED  BY <1>2, <2>1, <2>2, Zenon DEF BodyTo
<1>4. CASE ReplayBody
  <2>1. PICK input \in Inputs : CloneTo(After(Replayed(input))) /\ Leaves(Replayed(input))
    BY <1>4, Zenon DEF ReplayBody
  <2>2. clone \in Clone
    BY <1>4 DEF ReplayBody, BodyInv
  <2>3. IsEnv(Replayed(input))
    BY <2>2, ReplayedIsEnv, Zenon DEF BodyInv
  <2>. QED  BY <1>2, <2>1, <2>3, Zenon DEF CloneTo
<1>5. CASE (Build \/ Run) /\ UNCHANGED dataVars
  BY <1>5, LoopBodyInv
<1>6. CASE UNCHANGED <<vars, dataVars>>
  <2>1. UNCHANGED <<body, clone, mem, preserve, perforated, now, phase, at>>
    BY <1>6 DEF vars, dataVars
  <2>2. Clone' = Clone
    BY <2>1, CloneOfBody
  <2>3. mem' = [v \in Locals |-> mem'[v]]
    BY <2>1 DEF BodyInv
  <2>. QED  BY <2>1, <2>2, <2>3 DEF BodyInv
<1>. QED  BY <1>1, <1>3, <1>4, <1>5, <1>6, Zenon DEF NextBody

LEMMA BodyInvariance == SpecBody => []BodyInv
<1>. QED  BY InitBodyInv, StepBodyInv, PTL DEF SpecBody

\* A skipped iteration of a loop stores to the places that an evaluated one would
\* store to in its stead, for all bodies and inputs, where no address or condition
\* is computed from what is repeated.
THEOREM ClonesStoreAlike == SpecBody => []SamePlaces
<1>1. BodyInv => SamePlaces
  <2>. SUFFICES ASSUME BodyInv, at = "clone", Exact, NEW input \in Inputs,
                       Evaluated(input).trapped = "no", Replayed(input).trapped = "no"
                PROVE  Escaping(Replayed(input)) = Escaping(Evaluated(input))
    BY Zenon DEF SamePlaces
  <2>1. body \in Code /\ clone \in Clone /\ mem = [v \in Locals |-> mem[v]]
    BY DEF BodyInv
  <2>. QED  BY <2>1, PlacesAgree, Zenon
<1>. QED  BY <1>1, BodyInvariance, PTL

-----------------------------------------------------------------------------
(* What is saved for an assignment.                                        *)

\* The operation of an assignment works on a variable and on one more operand.
Finds(a, o, up, down, p) ==
  \E x, y \in Operands(o) :
    /\ \/ x = Arg(o, 1) /\ y = Arg(o, 2)
       \/ Op(o) = up /\ x = Arg(o, 2) /\ y = Arg(o, 1)
    /\ Loads(p, up, down)[x].load # 0 /\ a.load = Loads(p, up, down)[x].load
    /\ Len(Changes(a)) = 1 =>
         /\ Loads(p, up, down)[x].inc = <<>> /\ Loads(p, up, down)[x].dec = <<>>
         /\ Changes(a)[1] = y

LEMMA FoundFinds ==
  ASSUME body \in Code, NEW up \in Operators, NEW down \in Operators, up # down,
         NEW p, NEW s \in 1..Len(body), NEW a, Found(a, p, up, down, s)
  PROVE  Len(Changes(a)) \in Nat \ {0} /\ Finds(a, a.op, up, down, p)
<1>. DEFINE L == Loads(p, up, down)
            o == a.op
<1>1. /\ o \in 1..(s - 1) /\ Op(o) \in {up, down} /\ L[o].load # 0
      /\ a = [L[o] EXCEPT !.op = o]
  BY Zenon DEF Found
<1>2. o \in 1..Len(body) /\ o \in 0..Len(body)
  BY <1>1, BodiesAreLists
<1>3. L[o] \in Finding
  BY <1>2, LoadsAreFindings
<1>. HIDE DEF L, o
<1>4. a.load = L[o].load /\ a.inc = L[o].inc /\ a.dec = L[o].dec
  BY <1>1, <1>3 DEF Finding
<1>5. Changes(a) = Changes(L[o])
  BY <1>4, Zenon DEF Changes
<1>6. \E x, y \in Operands(o) :
         /\ \/ x = Arg(o, 1) /\ y = Arg(o, 2)
            \/ Op(o) = up /\ x = Arg(o, 2) /\ y = Arg(o, 1)
         /\ L[x].load # 0 /\ L[o].load = L[x].load
         /\ Len(Changes(L[o])) \in Nat \ {0}
         /\ Len(Changes(L[o])) = 1 => L[x].inc = <<>> /\ L[x].dec = <<>> /\ Changes(L[o])[1] = y
  <2>1. Op(o) \in {up, down} /\ Loads(p, up, down)[o].load # 0
    BY <1>1, Zenon DEF L
  <2>2. LET M == Loads(p, up, down)
        IN \E x, y \in Operands(o) :
             /\ \/ x = Arg(o, 1) /\ y = Arg(o, 2)
                \/ Op(o) = up /\ x = Arg(o, 2) /\ y = Arg(o, 1)
             /\ M[x].load # 0 /\ M[o].load = M[x].load
             /\ Len(Changes(M[o])) \in Nat \ {0}
             /\ Len(Changes(M[o])) = 1 => M[x].inc = <<>> /\ M[x].dec = <<>> /\ Changes(M[o])[1] = y
    BY <1>2, <2>1, OperationsAddOne
  <2>. QED  BY <2>2, Zenon DEF L
<1>. QED  BY <1>4, <1>5, <1>6, Zenon DEF Finds, L, o

LEMMA AssignParts ==
  ASSUME body \in Code, NEW s \in CmpdAssignStores
  PROVE  LET a == CmpdAssign(s)
         IN /\ Len(Changes(a)) \in Nat \ {0}
            /\ Op(a.op) \in {"+", "-"} => Finds(a, a.op, "+", "-", Pointer(s))
            /\ Op(a.op) \notin {"+", "-"} => Finds(a, a.op, "*", "/", Pointer(s))
<1>. DEFINE a == CmpdAssign(s)
<1>1. /\ s \in 1..Len(body)
      /\ IF Op(a.op) \in {"+", "-"} THEN Found(a, Pointer(s), "+", "-", s)
         ELSE Found(a, Pointer(s), "*", "/", s)
  BY CmpdAssignsAreOperations, Zenon
<1>2. "+" \in Operators /\ "-" \in Operators /\ "*" \in Operators /\ "/" \in Operators
  BY DEF Operators
<1>3. "+" # "-" /\ "*" # "/"
  OBVIOUS
<1>. HIDE DEF a
<1>4. CASE Op(a.op) \in {"+", "-"}
  <2>1. Found(a, Pointer(s), "+", "-", s)
    BY <1>1, <1>4, Zenon
  <2>. QED  BY <1>1, <1>2, <1>3, <1>4, <2>1, FoundFinds, Zenon DEF a
<1>5. CASE Op(a.op) \notin {"+", "-"}
  <2>1. Found(a, Pointer(s), "*", "/", s)
    BY <1>1, <1>5, Zenon
  <2>. QED  BY <1>1, <1>2, <1>3, <1>5, <2>1, FoundFinds, Zenon DEF a
<1>. QED  BY <1>4, <1>5, Zenon

\* What is saved for a store, and whether that traps.
SavedFor(e, s) ==
  LET a == clone.assigns[s]
      forward == Op(a.op) \in {"+", "*"}
  IN IF s \notin DOMAIN clone.assigns THEN Result(e, Arg(s, 1))
     ELSE IF Len(Changes(a)) = 1 THEN Result(e, Changes(a)[1])
     ELSE Computed(IF Op(a.op) \in {"+", "-"} THEN "-" ELSE "/",
                   IF forward THEN Result(e, Arg(s, 1)) ELSE Result(e, a.load),
                   IF forward THEN Result(e, a.load) ELSE Result(e, Arg(s, 1)))

LEMMA MoreThanOne == \A n \in Nat \ {0} : n # 1 => n > 1
OBVIOUS

LEMMA SaveSaves ==
  ASSUME body \in Code, NEW e, IsEnv(e), e.trapped = "no", NEW s,
         clone \in Clone \/ clone = NoClone
  PROVE  LET x == Save(e, s)
         IN /\ x.trapped = "no" => x.saved = Updated(e.saved, s, SavedFor(e, s))
            /\ x.trapped # "no" => s \in DOMAIN clone.assigns /\ SeveralFactors(s)
<1>. DEFINE f == IF s \in DOMAIN clone.assigns THEN Increment(e, s)
                 ELSE Gives(e, 0, Result(e, Arg(s, 1)))
            x == Save(e, s)
            w == SavedFor(e, s)
<1>1. \/ f = Gives(e, 0, w)
      \/ f = [e EXCEPT !.trapped = "added"] /\ s \in DOMAIN clone.assigns /\ SeveralFactors(s)
  <2>1. CASE s \notin DOMAIN clone.assigns
    BY <2>1, Zenon DEF SavedFor
  <2>2. CASE s \in DOMAIN clone.assigns
    <3>. DEFINE a == clone.assigns[s]
                one == a.inc \o a.dec
                op == IF Op(a.op) \in {"+", "-"} THEN "-" ELSE "/"
                l == IF Op(a.op) \in {"+", "*"} THEN Result(e, Arg(s, 1)) ELSE Result(e, a.load)
                r == IF Op(a.op) \in {"+", "*"} THEN Result(e, a.load) ELSE Result(e, Arg(s, 1))
    <3>1. f = Increment(e, s)
      BY <2>2, Zenon
    <3>2. CASE Len(one) = 1
      <4>1. Increment(e, s) = Gives(e, 0, Result(e, one[1]))
        BY <3>2, Zenon DEF Increment
      <4>2. w = Result(e, one[1])
        BY <2>2, <3>2, Zenon DEF SavedFor, Changes
      <4>. HIDE DEF f, w
      <4>. QED  BY <3>1, <4>1, <4>2, Zenon
    <3>3. CASE Len(one) # 1
      <4>1. Increment(e, s) = Apply(e, 0, op, l, r, "added")
        BY <3>3, Zenon DEF Increment
      <4>2. w = Computed(op, l, r)
        BY <2>2, <3>3, Zenon DEF SavedFor, Changes
      <4>3. ~Works(op, r) => SeveralFactors(s)
        <5>1. clone \in Clone
          BY <2>2, NoCloneParts
        <5>2. s \in CmpdAssignStores /\ a = CmpdAssign(s)
          BY <2>2, <5>1, CloneParts, Zenon
        <5>3. Len(Changes(a)) \in Nat \ {0} /\ Op(a.op) \in Operators
          BY <5>2, AssignParts, CmpdAssignsAreOperations, Zenon
        <5>4. Len(one) > 1
          <6>1. one = Changes(a)
            BY Zenon DEF Changes
          <6>. HIDE DEF one, a
          <6>2. Len(one) \in Nat \ {0} /\ Len(one) # 1
            BY <3>3, <5>3, <6>1, Zenon
          <6>. QED  BY <6>2, MoreThanOne, Zenon
        <5>5. ~Works(op, r) => op = "/"
          BY DEF Works, Operators
        <5>6. op = "/" => Op(a.op) \in {"*", "/"}
          BY <5>3 DEF Operators
        <5>. HIDE DEF a, one, op, r
        <5>. QED  BY <5>4, <5>5, <5>6, Zenon DEF SeveralFactors, a, one
      <4>. HIDE DEF op, l, r
      <4>4. Apply(e, 0, op, l, r, "added") =
              IF Works(op, r) THEN Gives(e, 0, Computed(op, l, r)) ELSE [e EXCEPT !.trapped = "added"]
        BY ApplyComputes
      <4>. HIDE DEF f, w
      <4>. QED  BY <2>2, <3>1, <4>1, <4>2, <4>3, <4>4, Zenon
    <3>. QED  BY <3>2, <3>3, Zenon
  <2>. QED  BY <2>1, <2>2, Zenon
<1>2. x = [f EXCEPT !.saved = Updated(f.saved, s, Result(f, 0))]
  BY Zenon DEF Save
<1>. HIDE DEF f, w
<1>3. \/ /\ IsEnv(f) /\ f.trapped = "no" /\ f.saved = e.saved /\ Result(f, 0) = w
      \/ IsEnv(f) /\ f.trapped = "added" /\ s \in DOMAIN clone.assigns /\ SeveralFactors(s)
  <2>1. CASE f = Gives(e, 0, w)
    <3>1. /\ IsEnv(f) /\ KeepsRest(e, f) /\ f.trapped = e.trapped /\ f.results = Updated(e.results, 0, w)
      BY <2>1, GivesSets
    <3>2. Result(f, 0) = w
      BY <3>1 DEF Result, Updated, At
    <3>. QED  BY <3>1, <3>2, Zenon DEF KeepsRest
  <2>2. CASE f = [e EXCEPT !.trapped = "added"] /\ s \in DOMAIN clone.assigns /\ SeveralFactors(s)
    <3>1. IsEnv(f) /\ f.trapped = "added"
      BY <2>2, TrapSets, Zenon
    <3>. QED  BY <2>2, <3>1, Zenon
  <2>. QED  BY <1>1, <2>1, <2>2, Zenon
<1>. DEFINE z == Result(f, 0)
<1>. HIDE DEF z
<1>4. x = [mem |-> f.mem, elems |-> f.elems, saved |-> Updated(f.saved, s, z), input |-> f.input,
           results |-> f.results, next |-> f.next, puts |-> f.puts,
           unset |-> f.unset, trapped |-> f.trapped]
  BY <1>2, <1>3 DEF IsEnv, z
<1>. HIDE DEF x
<1>5. x.saved = Updated(f.saved, s, z) /\ x.trapped = f.trapped
  BY <1>4, Zenon
<1>6. CASE f.trapped = "no"
  <2>1. f.saved = e.saved /\ z = w
    BY <1>3, <1>6 DEF z
  <2>2. x.saved = Updated(e.saved, s, w) /\ x.trapped = "no"
    BY <1>5, <1>6, <2>1, Zenon
  <2>. QED  BY <2>2, Zenon DEF x, w
<1>7. CASE f.trapped = "added"
  <2>1. x.trapped = "added" /\ s \in DOMAIN clone.assigns /\ SeveralFactors(s)
    BY <1>3, <1>5, <1>7
  <2>2. x.trapped # "no"
    BY <2>1
  <2>. QED  BY <2>1, <2>2, Zenon DEF x
<1>. QED  BY <1>3, <1>6, <1>7, Zenon

-----------------------------------------------------------------------------
(* Bodies without branches.                                                *)

LEMMA EvaluateStraight ==
  ASSUME body \in Code, clone \in Clone \/ clone = NoClone, NEW e, IsEnv(e), e.next = 1,
         e.trapped = "no", NEW i \in 1..Len(body), Op(i) # "br"
  PROVE  LET g == Evaluate(e, i)
         IN /\ IsEnv(g) /\ g.next = 1
            /\ g.unset = (e.unset \/ ~(Operands(i) \subseteq DOMAIN e.results))
            /\ g.trapped = "no" =>
                 /\ Executed(e, i, g)
                 /\ g.saved = IF i \in clone.held \cup DOMAIN clone.assigns
                              THEN Updated(e.saved, i, SavedFor(e, i)) ELSE e.saved
            /\ g.trapped = "added" => i \in DOMAIN clone.assigns /\ SeveralFactors(i)
<1>. DEFINE g == Evaluate(e, i)
            H == i \in clone.held \cup DOMAIN clone.assigns
            Sets(y) == y.unset = (e.unset \/ ~(Operands(i) \subseteq DOMAIN e.results))
            Goal == /\ IsEnv(g) /\ g.next = 1 /\ Sets(g)
                    /\ g.trapped = "no" =>
                         /\ Executed(e, i, g)
                         /\ g.saved = IF H THEN Updated(e.saved, i, SavedFor(e, i)) ELSE e.saved
                    /\ g.trapped = "added" => i \in DOMAIN clone.assigns /\ SeveralFactors(i)
<1>1. ~(i < e.next)
  OBVIOUS
<1>2. IF i < e.next \/ e.trapped # "no" THEN g = e
      ELSE \E x :
             /\ IsEnv(x) /\ Alike(e, x) /\ Sets(x)
             /\ IF H
                THEN \E u : /\ IsEnv(u) /\ Alike(e, u) /\ u.saved = e.saved
                            /\ u.trapped = "no" /\ u.results = e.results
                            /\ x = Save(u, i)
                            /\ x.trapped \in {"no", "added"}
                            /\ \E v : x.saved = Updated(e.saved, i, v)
                ELSE x.saved = e.saved /\ x.trapped = "no" /\ x.results = e.results
             /\ g = IF x.trapped = "no" THEN Execute(x, i) ELSE x
  BY EvaluateSets
<1>. HIDE DEF g, H, Sets
<1>3. PICK x : /\ IsEnv(x) /\ Alike(e, x) /\ Sets(x)
               /\ IF H
                  THEN \E u : /\ IsEnv(u) /\ Alike(e, u) /\ u.saved = e.saved
                              /\ u.trapped = "no" /\ u.results = e.results
                              /\ x = Save(u, i)
                              /\ x.trapped \in {"no", "added"}
                              /\ \E v : x.saved = Updated(e.saved, i, v)
                  ELSE x.saved = e.saved /\ x.trapped = "no" /\ x.results = e.results
               /\ g = IF x.trapped = "no" THEN Execute(x, i) ELSE x
  BY <1>1, <1>2, Zenon
<1>4. /\ x.trapped = "no" => x.saved = IF H THEN Updated(e.saved, i, SavedFor(e, i)) ELSE e.saved
      /\ x.trapped # "no" => i \in DOMAIN clone.assigns /\ SeveralFactors(i)
  <2>1. CASE H
    <3>1. PICK u : /\ IsEnv(u) /\ u.saved = e.saved /\ u.trapped = "no" /\ u.results = e.results
                   /\ x = Save(u, i)
      BY <1>3, <2>1, Zenon
    <3>2. LET y == Save(u, i)
          IN /\ y.trapped = "no" => y.saved = Updated(u.saved, i, SavedFor(u, i))
             /\ y.trapped # "no" => i \in DOMAIN clone.assigns /\ SeveralFactors(i)
      BY <3>1, SaveSaves, Zenon
    <3>3. SavedFor(u, i) = SavedFor(e, i)
      BY <3>1, Zenon DEF SavedFor, Result
    <3>. QED  BY <2>1, <3>1, <3>2, <3>3, Zenon
  <2>2. CASE ~H
    BY <1>3, <2>2, Zenon
  <2>. QED  BY <2>1, <2>2, Zenon
<1>5. Goal
  <2>1. CASE x.trapped = "no"
    <3>1. g = Execute(x, i)
      BY <1>3, <2>1, Zenon
    <3>2. Executed(e, i, Execute(x, i)) /\ Execute(x, i).saved = x.saved /\ Execute(x, i).unset = x.unset
      BY <1>3, <2>1, ExecutedAlike, Zenon
    <3>3. Executed(e, i, g) /\ g.saved = x.saved /\ g.unset = x.unset
      BY <3>1, <3>2, Zenon
    <3>4. IsEnv(g) /\ g.next = 1 /\ g.trapped = IF Traps(e, i) THEN "source" ELSE "no"
      BY <3>3, Zenon DEF Executed
    <3>5. g.trapped # "added"
      BY <3>4
    <3>6. Sets(g)
      BY <1>3, <3>3, Zenon DEF Sets
    <3>. QED  BY <1>4, <2>1, <3>3, <3>4, <3>5, <3>6, Zenon
  <2>2. CASE x.trapped # "no"
    <3>1. g = x
      BY <1>3, <2>2, Zenon
    <3>2. x.next = e.next
      BY <1>3, Zenon DEF Alike
    <3>. QED  BY <1>3, <1>4, <2>2, <3>1, <3>2, Zenon
  <2>. QED  BY <2>1, <2>2, Zenon
<1>. QED  BY <1>5, Zenon DEF g, H, Sets

\* What an evaluated iteration has computed and saved so far.
HasSaved(f, n) ==
  /\ \A s \in clone.held \cup DOMAIN clone.assigns : s <= n => s \in DOMAIN f
  /\ \A s \in DOMAIN clone.assigns :
       s <= n /\ Op(clone.assigns[s].op) = "/" /\ ~SeveralFactors(s) => At(f, s) # 0
Several == \E s \in DOMAIN clone.assigns : SeveralFactors(s)
HasEvaluated(e, n) ==
  /\ IsEnv(e) /\ e.next = 1 /\ e.unset = FALSE
  /\ e.trapped = "added" => Several
  /\ e.trapped = "no" =>
       /\ \A k \in 1..n : Op(k) \notin {"store", "br"} => k \in DOMAIN e.results
       /\ \A k \in 1..n : Op(k) = "/" => Result(e, Arg(k, 2)) # 0
       /\ HasSaved(e.saved, n)

\* The factor that is saved for a division is the one that it has divided by.
LEMMA DivisorIsSaved ==
  ASSUME body \in Code, clone \in Clone, NEW s \in DOMAIN clone.assigns,
         Op(clone.assigns[s].op) = "/", ~SeveralFactors(s), NEW e
  PROVE  /\ clone.assigns[s].op \in 1..(s - 1)
         /\ SavedFor(e, s) = Result(e, Arg(clone.assigns[s].op, 2))
<1>. DEFINE a == clone.assigns[s]
            o == a.op
<1>1. s \in CmpdAssignStores /\ a = CmpdAssign(s)
  BY CloneParts, Zenon
<1>2. o \in 1..(s - 1)
  BY <1>1, CmpdAssignsAreOperations, Zenon
<1>3. Op(o) \notin {"+", "-"} /\ Op(o) # "*"
  OBVIOUS
<1>4. Len(Changes(a)) \in Nat \ {0} /\ Finds(a, o, "*", "/", Pointer(s))
  BY <1>1, <1>3, AssignParts, Zenon
<1>5. ~(Len(Changes(a)) > 1)
  BY <1>3, Zenon DEF SeveralFactors, Changes
<1>6. Len(Changes(a)) = 1
  <2>1. Len(Changes(a)) \in Nat \ {0}
    BY <1>4
  <2>. DEFINE n == Len(Changes(a))
  <2>2. n \in Nat \ {0} /\ ~(n > 1)
    BY <1>5, <2>1, Zenon
  <2>. HIDE DEF n
  <2>3. n = 1
    BY <2>2
  <2>. QED  BY <2>3 DEF n
<1>7. Changes(a)[1] = Arg(o, 2)
  BY <1>3, <1>4, <1>6, Zenon DEF Finds
<1>. QED  BY <1>2, <1>6, <1>7, Zenon DEF SavedFor

LEMMA EvaluatesOne ==
  ASSUME body \in Code, clone \in Clone \/ clone = NoClone, Straight, NEW e, NEW i \in 1..Len(body),
         HasEvaluated(e, i - 1)
  PROVE  HasEvaluated(Evaluate(e, i), i)
<1>. DEFINE g == Evaluate(e, i)
<1>1. CASE e.trapped # "no"
  <2>1. g = e
    BY <1>1, TrapsAreFinal, Zenon
  <2>. HIDE DEF g
  <2>2. HasEvaluated(g, i)
    BY <1>1, <2>1, Zenon DEF HasEvaluated
  <2>. QED  BY <2>2 DEF g
<1>2. CASE e.trapped = "no"
  <2>1. /\ IsEnv(e) /\ e.next = 1 /\ e.unset = FALSE
        /\ \A k \in 1..(i - 1) : Op(k) \notin {"store", "br"} => k \in DOMAIN e.results
        /\ \A k \in 1..(i - 1) : Op(k) = "/" => Result(e, Arg(k, 2)) # 0
        /\ HasSaved(e.saved, i - 1)
    BY <1>2, Zenon DEF HasEvaluated
  <2>2. Op(i) # "br"
    BY BodiesAreLists DEF Straight, Those
  <2>3. /\ IsEnv(g) /\ g.next = 1
        /\ g.unset = (e.unset \/ ~(Operands(i) \subseteq DOMAIN e.results))
        /\ g.trapped = "no" =>
             /\ Executed(e, i, g)
             /\ g.saved = IF i \in clone.held \cup DOMAIN clone.assigns
                          THEN Updated(e.saved, i, SavedFor(e, i)) ELSE e.saved
        /\ g.trapped = "added" => i \in DOMAIN clone.assigns /\ SeveralFactors(i)
    BY <1>2, <2>1, <2>2, EvaluateStraight, Zenon
  <2>. HIDE DEF g
  <2>4. Operands(i) \subseteq DOMAIN e.results
    BY <2>1, OperandsAreEarlier
  <2>5. g.unset = FALSE
    BY <2>1, <2>3, <2>4
  <2>6. g.trapped = "added" => Several
    BY <2>3, Zenon DEF Several
  <2>7. ASSUME g.trapped = "no"
        PROVE  /\ \A k \in 1..i : Op(k) \notin {"store", "br"} => k \in DOMAIN g.results
               /\ \A k \in 1..i : Op(k) = "/" => Result(g, Arg(k, 2)) # 0
               /\ HasSaved(g.saved, i)
    <3>1. /\ g.trapped = IF Traps(e, i) THEN "source" ELSE "no"
          /\ DOMAIN e.results \subseteq DOMAIN g.results
          /\ \A k : k # 0 /\ (k = i => Op(i) \in {"store", "br"}) => Result(g, k) = Result(e, k)
          /\ Op(i) \notin {"store", "br"} /\ ~Traps(e, i) => i \in DOMAIN g.results
      BY <2>3, <2>7, Zenon DEF Executed
    <3>2. ~Traps(e, i)
      BY <2>7, <3>1
    <3>3. ASSUME NEW k \in 1..i, Op(k) \notin {"store", "br"}
          PROVE  k \in DOMAIN g.results
      <4>1. CASE k = i
        BY <3>1, <3>2, <3>3, <4>1, Zenon
      <4>2. CASE k # i
        <5>1. k \in 1..(i - 1)
          BY <4>2
        <5>. QED  BY <2>1, <3>1, <3>3, <5>1, Zenon
      <4>. QED  BY <4>1, <4>2, Zenon
    <3>4. ASSUME NEW k \in 1..i, Op(k) = "/"
          PROVE  Result(g, Arg(k, 2)) # 0
      <4>1. k \in 1..Len(body)
        BY BodiesAreLists
      <4>2. Arg(k, 2) \in 1..(k - 1)
        <5>1. Arg(k, 2) \in Operands(k)
          BY <3>4, <4>1, OperandsAreEarlier DEF Operators
        <5>. QED  BY <4>1, <5>1, OperandsAreEarlier
      <4>3. Arg(k, 2) # 0 /\ Arg(k, 2) # i
        BY <4>2
      <4>4. Result(g, Arg(k, 2)) = Result(e, Arg(k, 2))
        BY <3>1, <4>3, Zenon
      <4>5. Result(e, Arg(k, 2)) # 0
        <5>1. CASE k = i
          <6>1. Works(Op(i), Result(e, Arg(i, 2)))
            BY <3>2, <3>4, <5>1 DEF Traps, Operators
          <6>. QED  BY <3>4, <5>1, <6>1, Zenon DEF Works
        <5>2. CASE k # i
          <6>1. k \in 1..(i - 1)
            BY <5>2
          <6>. QED  BY <2>1, <3>4, <6>1, Zenon
        <5>. QED  BY <5>1, <5>2, Zenon
      <4>. QED  BY <4>4, <4>5, Zenon
    <3>. DEFINE H == clone.held \cup DOMAIN clone.assigns
    <3>5. \A s \in H : s \in 1..Len(body)
      <4>1. CASE clone \in Clone
        BY <4>1, KindsOfKept, Zenon
      <4>2. CASE clone = NoClone
        BY <4>2, NoCloneParts
      <4>. QED  BY <4>1, <4>2
    <3>6. \A s \in H : s <= i /\ s # i => s <= i - 1
      BY <3>5
    <3>7. /\ \A s \in H : s <= i - 1 => s \in DOMAIN e.saved
          /\ \A s \in DOMAIN clone.assigns :
               s <= i - 1 /\ Op(clone.assigns[s].op) = "/" /\ ~SeveralFactors(s) => At(e.saved, s) # 0
      BY <2>1, Zenon DEF HasSaved
    <3>8. /\ DOMAIN g.saved = IF i \in H THEN DOMAIN e.saved \cup {i} ELSE DOMAIN e.saved
          /\ \A s : s # i => At(g.saved, s) = At(e.saved, s)
          /\ i \in H => At(g.saved, i) = SavedFor(e, i)
      <4>1. CASE i \in H
        <5>1. g.saved = Updated(e.saved, i, SavedFor(e, i))
          BY <2>3, <2>7, <4>1, Zenon
        <5>. QED  BY <4>1, <5>1 DEF Updated, At
      <4>2. CASE i \notin H
        BY <2>3, <2>7, <4>2, Zenon
      <4>. QED  BY <4>1, <4>2, Zenon
    <3>9. ASSUME NEW s \in H, s <= i
          PROVE  s \in DOMAIN g.saved
      BY <3>6, <3>7, <3>8, <3>9
    <3>10. ASSUME NEW s \in DOMAIN clone.assigns, s <= i, Op(clone.assigns[s].op) = "/", ~SeveralFactors(s)
           PROVE  At(g.saved, s) # 0
      <4>1. CASE s = i
        <5>1. clone \in Clone
          BY NoCloneParts
        <5>2. /\ clone.assigns[i].op \in 1..(i - 1)
              /\ SavedFor(e, i) = Result(e, Arg(clone.assigns[i].op, 2))
          BY <3>10, <4>1, <5>1, DivisorIsSaved, Zenon
        <5>3. SavedFor(e, i) # 0
          BY <2>1, <3>10, <4>1, <5>2, Zenon
        <5>. QED  BY <3>8, <3>10, <4>1, <5>3
      <4>2. CASE s # i
        <5>1. s <= i - 1
          BY <3>6, <3>10, <4>2
        <5>. QED  BY <3>7, <3>8, <3>10, <4>2, <5>1, Zenon
      <4>. QED  BY <4>1, <4>2, Zenon
    <3>. HIDE DEF H
    <3>11. HasSaved(g.saved, i)
      BY <3>9, <3>10, Zenon DEF HasSaved, H
    <3>. QED  BY <3>3, <3>4, <3>11, Zenon
  <2>8. HasEvaluated(g, i)
    BY <2>3, <2>5, <2>6, <2>7, Zenon DEF HasEvaluated
  <2>. QED  BY <2>8 DEF g
<1>. QED  BY <1>1, <1>2

\* What a skipped iteration has computed so far.
HasReplayed(f, n) ==
  /\ IsEnv(f) /\ f.next = 1 /\ f.unset = FALSE /\ f.saved = saved
  /\ f.trapped = "added" => Several
  /\ f.trapped = "no" =>
       \A k \in clone.kept : k <= n /\ Op(k) # "store" => k \in DOMAIN f.results

\* Without branches a clone keeps what its instructions use.
LEMMA KeptIsClosed ==
  ASSUME body \in Code, clone \in Clone, Straight, NEW i \in clone.kept
  PROVE  /\ i \in 1..Len(body) /\ Op(i) # "br"
         /\ i \in DOMAIN clone.assigns =>
              /\ clone.assigns[i].op \in clone.kept /\ clone.assigns[i].op \in 1..(i - 1)
              /\ Op(clone.assigns[i].op) # "store"
         /\ i \in DOMAIN clone.assigns \cup clone.held =>
              \A k \in {Pointer(i)[2]} \ {0} : k \in clone.kept /\ k \in 1..(i - 1) /\ Op(k) # "store"
         /\ i \notin DOMAIN clone.owner \cup DOMAIN clone.assigns \cup clone.held =>
              \A k \in Operands(i) : k \in clone.kept /\ k \in 1..(i - 1) /\ Op(k) # "store"
<1>1. /\ clone.kept = Preserved /\ clone.held = PreservedStores
      /\ DOMAIN clone.assigns = CmpdAssignStores
      /\ \A s \in CmpdAssignStores : clone.assigns[s] = CmpdAssign(s)
      /\ DOMAIN clone.owner = {CmpdAssign(s).op : s \in CmpdAssignStores}
  BY CloneParts, Zenon
<1>2. /\ Sliced \subseteq 1..Len(body)
      /\ \A k \in Sliced : Sources(k) \subseteq Sliced
      /\ \A s \in CmpdAssignStores \cup PreservedStores :
           s \in 1..Len(body) /\ (~IsLocal(s) => Pointer(s)[2] \in Sliced)
  BY SlicedIsClosed, Zenon
<1>3. \A o \in DOMAIN clone.owner : o \in 1..Len(body)
  BY KindsOfKept, Zenon
<1>4. clone.kept = DOMAIN clone.owner \cup CmpdAssignStores \cup PreservedStores \cup Sliced
  <2>1. Those("br") = {}
    BY Zenon DEF Straight
  <2>. QED  BY <1>1, <2>1 DEF Preserved
<1>5. i \in 1..Len(body)
  BY <1>2, <1>3, <1>4
<1>6. Op(i) # "br"
  BY <1>5, BodiesAreLists DEF Straight, Those
<1>7. ASSUME i \in DOMAIN clone.assigns
      PROVE  /\ clone.assigns[i].op \in clone.kept /\ clone.assigns[i].op \in 1..(i - 1)
             /\ Op(clone.assigns[i].op) # "store"
  <2>1. i \in CmpdAssignStores /\ clone.assigns[i].op = CmpdAssign(i).op
    BY <1>1, <1>7, Zenon
  <2>2. CmpdAssign(i).op \in 1..(i - 1) /\ Op(CmpdAssign(i).op) \in Operators
    BY <2>1, CmpdAssignsAreOperations, Zenon
  <2>3. "store" \notin Operators
    BY DEF Operators
  <2>4. CmpdAssign(i).op \in clone.kept
    BY <1>1, <1>4, <2>1
  <2>. QED  BY <2>1, <2>2, <2>3, <2>4, Zenon
<1>8. \A k \in Operands(i) : k \in 1..(i - 1) /\ Op(k) # "store"
  BY <1>5, OperandsAreEarlier
<1>9. ASSUME i \in DOMAIN clone.assigns \cup clone.held, NEW k \in {Pointer(i)[2]} \ {0}
      PROVE  k \in clone.kept /\ k \in 1..(i - 1) /\ Op(k) # "store"
  <2>1. ~IsLocal(i) /\ k = Pointer(i)[2]
    BY <1>9 DEF Pointer
  <2>2. i \in CmpdAssignStores \cup PreservedStores /\ Op(i) = "store"
    <3>1. i \in CmpdAssignStores \cup PreservedStores
      BY <1>1, <1>9, Zenon
    <3>2. Op(i) = "store"
      BY <1>9, KindsOfKept
    <3>. QED  BY <3>1, <3>2
  <2>3. k \in Sliced
    BY <1>2, <2>1, <2>2, Zenon
  <2>4. k \in Operands(i)
    BY <1>5, <2>1, <2>2, OperandsAreEarlier
  <2>. QED  BY <1>4, <1>8, <2>3, <2>4
<1>10. ASSUME i \notin DOMAIN clone.owner \cup DOMAIN clone.assigns \cup clone.held, NEW k \in Operands(i)
       PROVE  k \in clone.kept /\ k \in 1..(i - 1) /\ Op(k) # "store"
  <2>1. i \in Sliced
    BY <1>1, <1>4, <1>10
  <2>2. ~(Op(i) = "load" /\ IsLocal(i))
    BY <1>5, <1>10, OperandsAreEarlier
  <2>3. k \in Sliced
    BY <1>2, <1>10, <2>1, <2>2 DEF Sources
  <2>. QED  BY <1>4, <1>8, <1>10, <2>3
<1>. QED  BY <1>5, <1>6, <1>7, <1>9, <1>10, Zenon

LEMMA ReplaysOne ==
  ASSUME body \in Code, clone \in Clone, Straight, HasSaved(saved, Len(body)),
         NEW f, NEW i \in 1..Len(body), HasReplayed(f, i - 1)
  PROVE  HasReplayed(Replay(f, i), i)
<1>. DEFINE g == Replay(f, i)
<1>0. \A k \in clone.kept : k \in 1..Len(body)
  BY KeptIsClosed, Zenon
<1>1. CASE f.trapped # "no"
  <2>1. g = f
    BY <1>1, TrapsAreFinal, Zenon
  <2>. HIDE DEF g
  <2>2. HasReplayed(g, i)
    BY <1>1, <2>1, Zenon DEF HasReplayed
  <2>. QED  BY <2>2 DEF g
<1>2. CASE f.trapped = "no" /\ i \notin clone.kept
  <2>1. g = f
    BY <1>2, Zenon DEF Replay
  <2>. HIDE DEF g
  <2>2. \A k \in clone.kept : k <= i => k <= i - 1
    BY <1>0, <1>2
  <2>3. HasReplayed(g, i)
    BY <2>1, <2>2, Zenon DEF HasReplayed
  <2>. QED  BY <2>3 DEF g
<1>3. CASE f.trapped = "no" /\ i \in clone.kept
  <2>1. /\ IsEnv(f) /\ f.next = 1 /\ f.unset = FALSE /\ f.saved = saved
        /\ \A k \in clone.kept : k <= i - 1 /\ Op(k) # "store" => k \in DOMAIN f.results
    BY <1>3, Zenon DEF HasReplayed
  <2>. DEFINE A == i \in DOMAIN clone.owner
              B == i \in DOMAIN clone.assigns
              C == i \in clone.held
              s == clone.owner[i]
              UA == g.unset = (f.unset \/ s \notin DOMAIN f.saved)
              UB == g.unset = (f.unset \/ ~({clone.assigns[i].op} \cup ({Pointer(i)[2]} \ {0})
                                              \subseteq DOMAIN f.results))
              UC == g.unset = (\/ f.unset \/ i \notin DOMAIN f.saved
                               \/ ~({Pointer(i)[2]} \ {0} \subseteq DOMAIN f.results))
              UD == g.unset = (f.unset \/ ~(Operands(i) \subseteq DOMAIN f.results))
  <2>2. ~(i < f.next)
    BY <2>1
  <2>3. /\ IsEnv(g) /\ g.saved = f.saved
        /\ A => Repeated(f, i, g) /\ UA
        /\ B => StoredAgain(f, i, g) /\ UB
        /\ C => StoredAgain(f, i, g) /\ UC
        /\ i \notin DOMAIN clone.owner \cup DOMAIN clone.assigns \cup clone.held =>
             Executed(f, i, g) /\ UD
    BY <1>3, <2>1, <2>2, ReplayExecutes
  <2>4. /\ Op(i) # "br"
        /\ B => clone.assigns[i].op \in DOMAIN f.results
        /\ B \/ C => {Pointer(i)[2]} \ {0} \subseteq DOMAIN f.results
        /\ i \notin DOMAIN clone.owner \cup DOMAIN clone.assigns \cup clone.held =>
             Operands(i) \subseteq DOMAIN f.results
    <3>1. \A k : k \in clone.kept /\ k \in 1..(i - 1) /\ Op(k) # "store" => k \in DOMAIN f.results
      BY <2>1
    <3>2. Op(i) # "br" /\ (B => clone.assigns[i].op \in DOMAIN f.results)
      BY <1>3, <3>1, KeptIsClosed, Zenon
    <3>3. ASSUME B \/ C, NEW k \in {Pointer(i)[2]} \ {0}
          PROVE  k \in DOMAIN f.results
      <4>1. i \in DOMAIN clone.assigns \cup clone.held
        BY <3>3
      <4>. QED  BY <1>3, <3>1, <3>3, <4>1, KeptIsClosed, Zenon
    <3>4. ASSUME i \notin DOMAIN clone.owner \cup DOMAIN clone.assigns \cup clone.held, NEW k \in Operands(i)
          PROVE  k \in DOMAIN f.results
      BY <1>3, <3>1, <3>4, KeptIsClosed, Zenon
    <3>. QED  BY <3>2, <3>3, <3>4, Zenon
  <2>5. /\ \A t \in clone.held \cup DOMAIN clone.assigns : t \in DOMAIN saved
        /\ \A t \in DOMAIN clone.assigns :
             Op(clone.assigns[t].op) = "/" /\ ~SeveralFactors(t) => At(saved, t) # 0
    <3>1. \A t \in clone.held \cup DOMAIN clone.assigns : t <= Len(body)
      <4>1. \A t \in clone.held \cup DOMAIN clone.assigns : t \in 1..Len(body)
        BY KindsOfKept, Zenon
      <4>. QED  BY <4>1, BodiesAreLists
    <3>. QED  BY <3>1, Zenon DEF HasSaved
  <2>6. A => /\ s \in DOMAIN clone.assigns /\ clone.assigns[s].op = i
             /\ Op(i) \in Operators
    <3>1. A => s \in CmpdAssignStores /\ CmpdAssign(s).op = i
      BY CloneParts, Zenon
    <3>. QED  BY <3>1, CloneParts, Zenon
  <2>7. A => ~B /\ ~C /\ Op(i) # "store"
    BY KindsOfKept DEF Operators
  <2>8. (B \/ C) => Op(i) = "store"
    BY KindsOfKept, Zenon
  <2>. HIDE DEF g, s
  <2>9. g.unset = FALSE
    <3>1. CASE A
      BY <2>1, <2>3, <2>5, <2>6, <3>1
    <3>2. CASE B
      BY <2>1, <2>3, <2>4, <3>2
    <3>3. CASE C
      BY <2>1, <2>3, <2>4, <2>5, <3>3
    <3>4. CASE ~A /\ ~B /\ ~C
      BY <2>1, <2>3, <2>4, <3>4
    <3>. QED  BY <3>1, <3>2, <3>3, <3>4
  <2>. HIDE DEF UA, UB, UC, UD
  <2>10. \A k \in clone.kept : k <= i => k = i \/ k <= i - 1
    BY <1>0
  <2>11. /\ g.next = 1
         /\ g.trapped = "added" => Several
         /\ g.trapped = "no" =>
              /\ DOMAIN f.results \subseteq DOMAIN g.results
              /\ Op(i) # "store" => i \in DOMAIN g.results
    <3>1. CASE A
      <4>1. /\ g.next = 1
            /\ IF Works(Op(i), At(saved, s))
               THEN g.trapped = "no" /\ g.results =
                      Updated(f.results, i, Computed(Op(i), Content(f, Pointer(s)), At(saved, s)))
               ELSE g.trapped = "added"
        BY <2>1, <2>3, <3>1, Zenon DEF Repeated, s
      <4>2. CASE Works(Op(i), At(saved, s))
        <5>1. g.trapped = "no" /\ DOMAIN g.results = DOMAIN f.results \cup {i}
          BY <4>1, <4>2 DEF Updated
        <5>. QED  BY <4>1, <5>1
      <4>3. CASE ~Works(Op(i), At(saved, s))
        <5>1. Op(i) = "/" /\ At(saved, s) = 0
          BY <2>6, <3>1, <4>3, Zenon DEF Works
        <5>2. SeveralFactors(s)
          BY <2>5, <2>6, <3>1, <5>1, Zenon
        <5>3. Several
          BY <2>6, <3>1, <5>2, Zenon DEF Several
        <5>4. g.trapped = "added"
          BY <4>1, <4>3, Zenon
        <5>. QED  BY <4>1, <5>3, <5>4
      <4>. QED  BY <4>2, <4>3
    <3>2. CASE B \/ C
      <4>1. g.next = 1 /\ g.trapped = "no" /\ g.results = f.results
        BY <2>1, <2>3, <3>2, Zenon DEF StoredAgain
      <4>. QED  BY <2>8, <3>2, <4>1
    <3>3. CASE ~A /\ ~B /\ ~C
      <4>1. Executed(f, i, g)
        BY <2>3, <3>3
      <4>2. /\ g.next = 1 /\ DOMAIN f.results \subseteq DOMAIN g.results
            /\ g.trapped = IF Traps(f, i) THEN "source" ELSE "no"
            /\ Op(i) \notin {"store", "br"} /\ ~Traps(f, i) => i \in DOMAIN g.results
        BY <2>1, <2>4, <4>1, Zenon DEF Executed
      <4>. QED  BY <2>4, <4>2
    <3>. QED  BY <3>1, <3>2, <3>3
  <2>12. HasReplayed(g, i)
    <3>1. g.saved = saved
      BY <2>1, <2>3
    <3>2. ASSUME g.trapped = "no", NEW k \in clone.kept, k <= i, Op(k) # "store"
          PROVE  k \in DOMAIN g.results
      <4>1. CASE k = i
        BY <2>11, <3>2, <4>1
      <4>2. CASE k # i
        BY <2>1, <2>10, <2>11, <3>2, <4>2
      <4>. QED  BY <4>1, <4>2
    <3>. QED  BY <2>3, <2>9, <2>11, <3>1, <3>2, Zenon DEF HasReplayed
  <2>. QED  BY <2>12 DEF g
<1>. QED  BY <1>1, <1>2, <1>3, Zenon

LEMMA EvaluatedDefined ==
  ASSUME body \in Code, clone \in Clone \/ clone = NoClone, Straight,
         mem = [v \in Locals |-> mem[v]], unset = FALSE, NEW input
  PROVE  HasEvaluated(Evaluated(input), Len(body))
<1>1. Len(body) \in Nat
  BY BodiesAreLists
<1>2. PICK E : /\ E[0] = Entry(input) /\ Evaluated(input) = E[Len(body)]
               /\ \A n \in 1..Len(body) : E[n] = Evaluate(E[n - 1], n)
  BY <1>1, EvaluatedStepwise
<1>. DEFINE A == {n \in Nat : n <= Len(body) => HasEvaluated(E[n], n)}
<1>3. 0 \in A
  <2>. DEFINE e == Entry(input)
  <2>1. IsEnv(e) /\ e.next = 1 /\ e.unset = FALSE /\ e.trapped = "no" /\ e.saved = saved
    BY EntryIsEnv
  <2>2. \A s \in clone.held \cup DOMAIN clone.assigns : s \in Nat \ {0}
    <3>1. CASE clone \in Clone
      <4>1. \A s \in clone.held \cup DOMAIN clone.assigns : s \in 1..Len(body)
        BY <3>1, KindsOfKept, Zenon
      <4>. QED  BY <4>1
    <3>2. CASE clone = NoClone
      BY <3>2, NoCloneParts
    <3>. QED  BY <3>1, <3>2
  <2>. HIDE DEF e
  <2>3. HasSaved(e.saved, 0)
    BY <2>2 DEF HasSaved
  <2>4. e.trapped # "added"
    BY <2>1
  <2>5. 1..0 = {}
    OBVIOUS
  <2>6. HasEvaluated(e, 0)
    BY <2>1, <2>3, <2>4, <2>5 DEF HasEvaluated
  <2>7. HasEvaluated(E[0], 0)
    BY <1>2, <2>6, Zenon DEF e
  <2>. QED  BY <2>7
<1>4. ASSUME NEW n \in A PROVE n + 1 \in A
  <2>1. SUFFICES ASSUME n + 1 <= Len(body) PROVE HasEvaluated(E[n + 1], n + 1)
    OBVIOUS
  <2>2. PICK i \in 1..Len(body) : i = n + 1
    BY <1>1, <2>1
  <2>3. i - 1 = n /\ n <= Len(body)
    BY <1>1, <2>1, <2>2
  <2>4. HasEvaluated(E[i - 1], i - 1)
    BY <2>3
  <2>5. HasEvaluated(Evaluate(E[i - 1], i), i)
    BY <2>4, EvaluatesOne, Zenon
  <2>. QED  BY <1>2, <2>2, <2>5
<1>5. A = Nat
  <2>. HIDE DEF A
  <2>1. A \in SUBSET Nat
    BY DEF A
  <2>. QED  BY <1>3, <1>4, <2>1, Induction
<1>6. HasEvaluated(E[Len(body)], Len(body))
  BY <1>1, <1>5
<1>. QED  BY <1>2, <1>6, Zenon

LEMMA ReplayedDefined ==
  ASSUME body \in Code, clone \in Clone, Straight, mem = [v \in Locals |-> mem[v]],
         unset = FALSE, HasSaved(saved, Len(body)), NEW input
  PROVE  HasReplayed(Replayed(input), Len(body))
<1>1. Len(body) \in Nat
  BY BodiesAreLists
<1>2. PICK F : /\ F[0] = Entry(input) /\ Replayed(input) = F[Len(body)]
               /\ \A n \in 1..Len(body) : F[n] = Replay(F[n - 1], n)
  BY <1>1, ReplayedStepwise
<1>. DEFINE A == {n \in Nat : n <= Len(body) => HasReplayed(F[n], n)}
<1>3. 0 \in A
  <2>. DEFINE e == Entry(input)
  <2>1. IsEnv(e) /\ e.next = 1 /\ e.unset = FALSE /\ e.trapped = "no" /\ e.saved = saved
    BY EntryIsEnv
  <2>. HIDE DEF e
  <2>2. \A k \in clone.kept : ~(k <= 0)
    BY KeptIsClosed
  <2>3. e.trapped # "added"
    BY <2>1
  <2>4. HasReplayed(e, 0)
    BY <2>1, <2>2, <2>3, Zenon DEF HasReplayed
  <2>5. HasReplayed(F[0], 0)
    BY <1>2, <2>4, Zenon DEF e
  <2>. QED  BY <2>5
<1>4. ASSUME NEW n \in A PROVE n + 1 \in A
  <2>1. SUFFICES ASSUME n + 1 <= Len(body) PROVE HasReplayed(F[n + 1], n + 1)
    OBVIOUS
  <2>2. PICK i \in 1..Len(body) : i = n + 1
    BY <1>1, <2>1
  <2>3. i - 1 = n /\ n <= Len(body)
    BY <1>1, <2>1, <2>2
  <2>4. HasReplayed(F[i - 1], i - 1)
    BY <2>3
  <2>5. HasReplayed(Replay(F[i - 1], i), i)
    BY <2>4, ReplaysOne, Zenon
  <2>. QED  BY <1>2, <2>2, <2>5
<1>5. A = Nat
  <2>. HIDE DEF A
  <2>1. A \in SUBSET Nat
    BY DEF A
  <2>. QED  BY <1>3, <1>4, <2>1, Induction
<1>6. HasReplayed(F[Len(body)], Len(body))
  BY <1>1, <1>5
<1>. QED  BY <1>2, <1>6, Zenon

\* Without branches nothing is used that is not there, and whenever an iteration can
\* be skipped an earlier one has saved all that its clone repeats.
Saves == at \in {"clone", "latch"} \/ (phase = "run" /\ counter # 0 /\ at # "trap")
DefinedInv ==
  Straight =>
    /\ unset = FALSE
    /\ trapped = "added" => Several
    /\ phase # "run" => trapped = "no"
    /\ Saves => HasSaved(saved, Len(body))

LEMMA InitDefinedInv == InitBody => DefinedInv
<1>. SUFFICES ASSUME InitBody PROVE DefinedInv
  OBVIOUS
<1>1. unset = FALSE /\ trapped = "no" /\ at = "exit" /\ counter = 0
  BY DEF InitBody, Init
<1>. QED  BY <1>1 DEF DefinedInv, Saves

\* What the body and the clone are made of stays.
LEMMA SameCode ==
  ASSUME UNCHANGED <<body, clone>>
  PROVE  /\ Straight' <=> Straight
         /\ Several' <=> Several
         /\ UNCHANGED saved => (HasSaved(saved, Len(body))' <=> HasSaved(saved, Len(body)))
         /\ \A f : (f = saved' /\ HasSaved(f, Len(body))) => HasSaved(saved, Len(body))'
<1>1. UNCHANGED body /\ UNCHANGED clone
  OBVIOUS
<1>2. \A i : Op(i)' = Op(i)
  BY <1>1, Zenon DEF Op
<1>3. \A s : SeveralFactors(s)' <=> SeveralFactors(s)
  BY <1>1, <1>2 DEF SeveralFactors
<1>4. Straight' <=> Straight
  BY <1>1 DEF Straight, Those, Op
<1>5. Several' <=> Several
  BY <1>1, <1>3 DEF Several
<1>6. \A f : (f = saved' /\ HasSaved(f, Len(body))) => HasSaved(saved, Len(body))'
  BY <1>1, <1>2, <1>3 DEF HasSaved
<1>7. UNCHANGED saved => (HasSaved(saved, Len(body))' <=> HasSaved(saved, Len(body)))
  BY <1>1, <1>2, <1>3 DEF HasSaved
<1>. QED  BY <1>4, <1>5, <1>6, <1>7

\* A loop skips an iteration only after it has counted one.
LEMMA SkipsLater ==
  ASSUME IInv, Check, at' \in {"clone", "latch"}
  PROVE  counter # 0
<1>1. /\ at' = IF counter % Pow2[perforated[now]] = 0 THEN "body" ELSE SkipDest
  BY DEF Check, Goto
<1>2. counter % Pow2[perforated[now]] # 0
  BY <1>1
<1>3. perforated[now] \in Nat
  BY PerforationAssumption DEF IInv, TypeInv, TypeOK
<1>4. Pow2[perforated[now]] \in Nat \ {0}
  BY <1>3, PowersArePositive
<1>. DEFINE m == Pow2[perforated[now]]
<1>. HIDE DEF m
<1>5. 0 % m = 0
  BY <1>4 DEF m
<1>. QED  BY <1>2, <1>5 DEF m

\* Steps that run neither body nor clone.
LEMMA LoopSaves ==
  ASSUME IInv, Build \/ Run
  PROVE  (Saves' => Saves) /\ (phase' # "run" => phase # "run")
<1>1. CASE Build
  <2>1. phase # "run" /\ phase' # "run" /\ at' = at
    BY <1>1 DEF Build, Configure, Assess, Relax, runVars
  <2>. QED  BY <2>1 DEF Saves
<1>2. CASE Reenter
  BY <1>2 DEF Reenter, Preheader, Saves
<1>3. CASE Header
  <2>1. phase = "run" /\ phase' = "run" /\ at = "header" /\ at' \in {"check", "exit", "body"} /\ counter' = counter
    BY <1>3 DEF Header, Goto, Target
  <2>. QED  BY <2>1 DEF Saves
<1>4. CASE Check
  <2>1. phase = "run" /\ phase' = "run" /\ at = "check" /\ counter' = counter
    BY <1>4 DEF Check, Goto
  <2>. QED  BY <1>4, <2>1, SkipsLater DEF Saves
<1>5. CASE Latch
  <2>1. phase = "run" /\ phase' = "run" /\ at = "latch"
    BY <1>5 DEF Latch, Goto
  <2>. QED  BY <2>1 DEF Saves
<1>. QED  BY <1>1, <1>2, <1>3, <1>4, <1>5 DEF Run

LEMMA StepDefinedInv == BodyInv /\ IInv /\ DefinedInv /\ [NextBody]_<<vars, dataVars>> => DefinedInv'
<1>. SUFFICES ASSUME BodyInv, IInv, DefinedInv, [NextBody]_<<vars, dataVars>>, Straight'
              PROVE  /\ unset' = FALSE
                     /\ trapped' = "added" => Several'
                     /\ phase' # "run" => trapped' = "no"
                     /\ Saves' => HasSaved(saved, Len(body))'
  BY Zenon DEF DefinedInv
<1>1. CASE StartBody
  <2>1. UNCHANGED <<body, unset, trapped>> /\ phase # "run"
    BY <1>1 DEF StartBody, Start
  <2>2. at' = "header" /\ counter' = 0
    BY <1>1 DEF StartBody, Start, Preheader
  <2>3. Straight
    BY <2>1 DEF Straight, Those, Op
  <2>. QED  BY <2>1, <2>2, <2>3 DEF DefinedInv, Saves
<1>2. ASSUME UNCHANGED <<body, clone>>
      PROVE  /\ unset = FALSE
             /\ trapped = "added" => Several'
             /\ phase # "run" => trapped = "no"
             /\ UNCHANGED saved /\ Saves => HasSaved(saved, Len(body))'
             /\ \A f : (f = saved' /\ HasSaved(f, Len(body))) => HasSaved(saved, Len(body))'
             /\ Straight
             /\ Several => Several'
  BY <1>2, SameCode, Zenon DEF DefinedInv
<1>3. CASE EvaluateBody
  <2>1. PICK input \in Inputs : BodyTo(After(Evaluated(input))) /\ Leaves(Evaluated(input))
    BY <1>3, Zenon DEF EvaluateBody
  <2>. DEFINE e == Evaluated(input)
  <2>2. /\ UNCHANGED <<body, clone>> /\ saved' = e.saved /\ unset' = e.unset /\ trapped' = e.trapped
    BY <2>1, Zenon DEF Leaves
  <2>3. phase' = "run" /\ at' = IF e.trapped = "no" THEN "latch" ELSE "trap"
    BY <2>1 DEF BodyTo, Goto, After
  <2>4. HasEvaluated(e, Len(body))
    <3>1. body \in Code /\ (clone \in Clone \/ clone = NoClone) /\ mem = [v \in Locals |-> mem[v]]
      BY DEF BodyInv
    <3>. QED  BY <1>2, <2>2, <3>1, EvaluatedDefined, Zenon
  <2>. HIDE DEF e
  <2>5. /\ e.unset = FALSE /\ (e.trapped = "added" => Several)
        /\ e.trapped = "no" => HasSaved(e.saved, Len(body))
    BY <2>4, Zenon DEF HasEvaluated
  <2>6. Saves' => e.trapped = "no"
    BY <2>3 DEF Saves
  <2>. QED  BY <1>2, <2>2, <2>3, <2>5, <2>6, Zenon
<1>4. CASE ReplayBody
  <2>1. PICK input \in Inputs : CloneTo(After(Replayed(input))) /\ Leaves(Replayed(input))
    BY <1>4, Zenon DEF ReplayBody
  <2>. DEFINE e == Replayed(input)
  <2>2. /\ UNCHANGED <<body, clone>> /\ saved' = e.saved /\ unset' = e.unset /\ trapped' = e.trapped
    BY <2>1, Zenon DEF Leaves
  <2>3. phase' = "run" /\ at' = (IF e.trapped = "no" THEN "latch" ELSE "trap") /\ at = "clone"
    BY <2>1 DEF CloneTo, Goto, After
  <2>4. HasSaved(saved, Len(body))
    BY <1>2, <2>2, <2>3 DEF DefinedInv, Saves
  <2>5. HasReplayed(e, Len(body))
    <3>1. body \in Code /\ clone \in Clone /\ mem = [v \in Locals |-> mem[v]]
      BY <2>3 DEF BodyInv
    <3>. QED  BY <1>2, <2>2, <2>4, <3>1, ReplayedDefined, Zenon
  <2>. HIDE DEF e
  <2>6. e.unset = FALSE /\ (e.trapped = "added" => Several) /\ e.saved = saved
    BY <2>5, Zenon DEF HasReplayed
  <2>. QED  BY <1>2, <2>2, <2>3, <2>4, <2>6, Zenon
<1>5. ASSUME UNCHANGED dataVars, Saves' => Saves, phase' # "run" => phase # "run"
      PROVE  /\ unset' = FALSE
             /\ trapped' = "added" => Several'
             /\ phase' # "run" => trapped' = "no"
             /\ Saves' => HasSaved(saved, Len(body))'
  <2>1. UNCHANGED <<body, clone>> /\ UNCHANGED saved /\ unset' = unset /\ trapped' = trapped
    BY <1>5 DEF dataVars
  <2>. QED  BY <1>2, <1>5, <2>1, Zenon
<1>6. CASE (Build \/ Run) /\ UNCHANGED dataVars
  <2>1. (Saves' => Saves) /\ (phase' # "run" => phase # "run")
    BY <1>6, LoopSaves
  <2>. QED  BY <1>5, <1>6, <2>1, Zenon
<1>7. CASE UNCHANGED <<vars, dataVars>>
  <2>1. UNCHANGED dataVars /\ (Saves' => Saves) /\ (phase' # "run" => phase # "run")
    BY <1>7 DEF vars, Saves
  <2>. QED  BY <1>5, <2>1, Zenon
<1>. QED  BY <1>1, <1>3, <1>4, <1>6, <1>7, Zenon DEF NextBody

LEMMA DefinedInvariance == SpecBody => []DefinedInv
<1>1. SpecBody => []BodyInv /\ []IInv
  BY BodyInvariance, Invariance, PTL
<1>. QED  BY <1>1, InitDefinedInv, StepDefinedInv, PTL DEF SpecBody

\* In a body without branches no clone uses what has not been computed or saved, and
\* no evaluated iteration either; and nothing divides by zero that the source does
\* not, unless an assignment works on several factors at once.
THEOREM ClonesUseWhatIsThere == SpecBody => []ClonesAreDefined
<1>1. BodyInv /\ DefinedInv => ClonesAreDefined
  <2>. SUFFICES ASSUME BodyInv, DefinedInv, Straight
                PROVE  /\ Defined(unset, trapped)
                       /\ at = "clone" =>
                            \A input \in Inputs :
                              Defined(Replayed(input).unset, Replayed(input).trapped)
    BY Zenon DEF ClonesAreDefined
  <2>1. unset = FALSE /\ (trapped = "added" => Several) /\ (Saves => HasSaved(saved, Len(body)))
    BY Zenon DEF DefinedInv
  <2>2. Defined(unset, trapped)
    BY <2>1 DEF Defined, Several
  <2>3. ASSUME at = "clone", NEW input \in Inputs
        PROVE  Defined(Replayed(input).unset, Replayed(input).trapped)
    <3>1. body \in Code /\ clone \in Clone /\ mem = [v \in Locals |-> mem[v]]
      BY <2>3 DEF BodyInv
    <3>2. HasSaved(saved, Len(body))
      BY <2>1, <2>3 DEF Saves
    <3>3. HasReplayed(Replayed(input), Len(body))
      BY <2>1, <3>1, <3>2, ReplayedDefined, Zenon
    <3>4. Replayed(input).unset = FALSE /\ (Replayed(input).trapped = "added" => Several)
      BY <3>3, Zenon DEF HasReplayed
    <3>. QED  BY <3>4 DEF Defined, Several
  <2>. QED  BY <2>2, <2>3, Zenon
<1>. QED  BY <1>1, BodyInvariance, DefinedInvariance, PTL

-----------------------------------------------------------------------------
(* Integers.                                                               *)

LEMMA Widths ==
  /\ Pow2[Bits - 1] \in Nat \ {0} /\ Pow2[Bits] = 2 * Pow2[Bits - 1]
  /\ Garbage \in Int /\ \A input \in Inputs : input \in Int
<1>1. Bits - 1 \in Nat /\ (Bits - 1) + 1 = Bits
  BY PreservationAssumption
<1>2. Pow2[Bits - 1] \in Nat \ {0}
  BY <1>1, PowersArePositive
<1>3. Pow2[Bits] = 2 * Pow2[Bits - 1]
  BY <1>1, PowersOfTwo
<1>. DEFINE h == Pow2[Bits - 1]
<1>4. h \in Nat /\ Inputs \cup {Garbage} \subseteq -h..(h - 1)
  BY <1>2, PreservationAssumption
<1>. HIDE DEF h
<1>5. Garbage \in Int /\ \A input \in Inputs : input \in Int
  BY <1>4
<1>. QED  BY <1>2, <1>3, <1>5

LEMMA WrapsAreInts == \A x \in Int : Wrap(x) \in Int
<1>. DEFINE h == Pow2[Bits - 1]
            w == Pow2[Bits]
<1>1. h \in Nat /\ w \in Nat \ {0}
  BY Widths
<1>2. \A x : Wrap(x) = ((x + h) % w) - h
  BY DEF Wrap
<1>. HIDE DEF h, w
<1>. QED  BY <1>1, <1>2

LEMMA ComputedAreInts ==
  ASSUME NEW op, NEW x \in Int, NEW y \in Int, Works(op, y)
  PROVE  Computed(op, x, y) \in Int
<1>1. CASE op = "/"
  <2>1. y # 0
    BY <1>1 DEF Works
  <2>. DEFINE a == IF x < 0 THEN -x ELSE x
              b == IF y < 0 THEN -y ELSE y
  <2>2. a \in Nat /\ b \in Nat \ {0}
    BY <2>1
  <2>3. Quotient(x, y) = IF (x < 0) = (y < 0) THEN a \div b ELSE -(a \div b)
    BY DEF Quotient
  <2>. HIDE DEF a, b
  <2>4. a \div b \in Int
    BY <2>2
  <2>5. Quotient(x, y) \in Int
    BY <2>3, <2>4
  <2>6. Computed(op, x, y) = Wrap(Quotient(x, y))
    BY <1>1 DEF Computed
  <2>. QED  BY <2>5, <2>6, WrapsAreInts
<1>2. CASE op # "/"
  <2>1. x + y \in Int /\ x - y \in Int /\ x * y \in Int
    OBVIOUS
  <2>2. op \in {"+", "-", "*"}
    BY <1>2 DEF Works, Operators
  <2>3. Computed(op, x, y) \in {Wrap(x + y), Wrap(x - y), Wrap(x * y)}
    BY <2>2, Zenon DEF Computed
  <2>. QED  BY <2>1, <2>3, WrapsAreInts
<1>. QED  BY <1>1, <1>2

\* An integer and what is left of it differ by a multiple of the width.
LEMMA WrapsByMultiples ==
  ASSUME NEW x \in Int
  PROVE  /\ \E k \in Int : Wrap(x) = x + Pow2[Bits] * k
         /\ \A k \in Int : Wrap(x + Pow2[Bits] * k) = Wrap(x)
<1>. DEFINE h == Pow2[Bits - 1]
            w == Pow2[Bits]
<1>1. h \in Nat /\ w \in Nat \ {0}
  BY Widths
<1>2. \A z : Wrap(z) = ((z + h) % w) - h
  BY DEF Wrap
<1>. HIDE DEF h, w
<1>3. PICK y \in Int : y = x + h
  BY <1>1
<1>4. PICK q \in Int, r \in 0..(w - 1) : y = q * w + r
  <2>1. y = w * (y \div w) + (y % w) /\ y % w \in 0..(w - 1) /\ y \div w \in Int
    BY <1>1, <1>3
  <2>2. w * (y \div w) = (y \div w) * w
    BY <1>1, <2>1
  <2>. QED  BY <2>1, <2>2
<1>5. y % w = r
  BY <1>1, <1>4
<1>6. Wrap(x) = x + w * (-q)
  <2>1. PICK m \in Int : m = q * w
    BY <1>1
  <2>2. w * (-q) = -m
    BY <1>1, <2>1
  <2>3. Wrap(x) = r - h
    BY <1>2, <1>3, <1>5
  <2>4. x = m + r - h
    BY <1>1, <1>3, <1>4, <2>1
  <2>. QED  BY <1>1, <2>1, <2>2, <2>3, <2>4
<1>7. ASSUME NEW k \in Int PROVE Wrap(x + w * k) = Wrap(x)
  <2>1. PICK m \in Int : m = q * w
    BY <1>1
  <2>2. PICK n \in Int : n = w * k
    BY <1>1
  <2>3. (q + k) * w = m + n
    BY <1>1, <2>1, <2>2
  <2>4. x + w * k + h = (q + k) * w + r
    BY <1>1, <1>3, <1>4, <2>1, <2>2, <2>3
  <2>5. ((q + k) * w + r) % w = r
    <3>1. q + k \in Int
      OBVIOUS
    <3>. QED  BY <1>1, <3>1
  <2>. QED  BY <1>2, <1>3, <1>5, <2>4, <2>5
<1>8. -q \in Int
  OBVIOUS
<1>. QED  BY <1>6, <1>7, <1>8 DEF w

\* A difference of what is left is what is left of the difference.
LEMMA WrapsCancel ==
  ASSUME NEW m \in Int, NEW y \in Int
  PROVE  /\ Wrap(Wrap(m + y) - m) = Wrap(y) /\ Wrap(Wrap(m - y) - m) = Wrap(-y)
         /\ Wrap(-Wrap(m - y)) = Wrap(y - m) /\ Wrap(Wrap(y - m)) = Wrap(y - m)
<1>. DEFINE w == Pow2[Bits]
<1>1. w \in Int
  BY Widths
<1>2. \A x \in Int : \E k \in Int : Wrap(x) = x + w * k
  BY WrapsByMultiples
<1>3. \A x, k \in Int : Wrap(x + w * k) = Wrap(x)
  BY WrapsByMultiples
<1>. HIDE DEF w
<1>4. m + y \in Int /\ m - y \in Int /\ y - m \in Int /\ -y \in Int
  OBVIOUS
<1>5. Wrap(Wrap(m + y) - m) = Wrap(y)
  <2>1. PICK k \in Int : Wrap(m + y) = (m + y) + w * k
    BY <1>2, <1>4
  <2>2. PICK n \in Int : n = w * k
    BY <1>1
  <2>3. Wrap(m + y) - m = y + w * k
    BY <2>1, <2>2
  <2>. QED  BY <1>3, <2>3
<1>6. Wrap(Wrap(m - y) - m) = Wrap(-y)
  <2>1. PICK k \in Int : Wrap(m - y) = (m - y) + w * k
    BY <1>2, <1>4
  <2>2. PICK n \in Int : n = w * k
    BY <1>1
  <2>3. Wrap(m - y) - m = -y + w * k
    BY <2>1, <2>2
  <2>. QED  BY <1>3, <1>4, <2>3
<1>7. Wrap(-Wrap(m - y)) = Wrap(y - m)
  <2>1. PICK k \in Int : Wrap(m - y) = (m - y) + w * k
    BY <1>2, <1>4
  <2>2. PICK n \in Int : n = w * k
    BY <1>1
  <2>3. w * (-k) = -n
    BY <1>1, <2>2
  <2>4. -Wrap(m - y) = (y - m) + w * (-k)
    BY <2>1, <2>2, <2>3
  <2>5. -k \in Int
    OBVIOUS
  <2>. QED  BY <1>3, <1>4, <2>4, <2>5
<1>8. Wrap(Wrap(y - m)) = Wrap(y - m)
  <2>1. PICK k \in Int : Wrap(y - m) = (y - m) + w * k
    BY <1>2, <1>4
  <2>. QED  BY <1>3, <1>4, <2>1
<1>. QED  BY <1>5, <1>6, <1>7, <1>8

-----------------------------------------------------------------------------
(* Environments that hold integers.                                        *)

Num(e) ==
  /\ e.input \in Int
  /\ \A w \in Locals : e.mem[w] \in Int
  /\ \A x : At(e.elems, x) \in Int
  /\ \A x : At(e.saved, x) \in Int
  /\ \A k : k # 0 => At(e.results, k) \in Int

\* What a store does to the elements.
LEMMA PutElems ==
  ASSUME NEW e, IsEnv(e), NEW i, NEW v
  PROVE  Put(e, i, v).elems =
           IF IsLocal(i) THEN e.elems ELSE Updated(e.elems, Result(e, Pointer(i)[2]), v)
<1>. DEFINE g == Put(e, i, v)
            p == e.puts \cup {<<i, Place(e, Pointer(i))>>}
<1>1. CASE IsLocal(i)
  <2>. DEFINE m == [e.mem EXCEPT ![body[i].var] = v]
  <2>1. g = [mem |-> m, elems |-> e.elems, saved |-> e.saved, input |-> e.input,
             results |-> e.results, next |-> e.next, puts |-> p,
             unset |-> e.unset, trapped |-> e.trapped]
    BY <1>1 DEF Put, IsEnv
  <2>. HIDE DEF g, p, m
  <2>2. g.elems = e.elems
    BY <2>1, Zenon
  <2>. QED  BY <1>1, <2>2 DEF g
<1>2. CASE ~IsLocal(i)
  <2>. DEFINE l == Updated(e.elems, Result(e, Pointer(i)[2]), v)
  <2>1. g = [mem |-> e.mem, elems |-> l, saved |-> e.saved, input |-> e.input,
             results |-> e.results, next |-> e.next, puts |-> p,
             unset |-> e.unset, trapped |-> e.trapped]
    BY <1>2 DEF Put, IsEnv
  <2>. HIDE DEF g, p, l
  <2>2. g.elems = l
    BY <2>1, Zenon
  <2>. QED  BY <1>2, <2>2 DEF g, l
<1>. QED  BY <1>1, <1>2

LEMMA NumUpdated ==
  ASSUME NEW f, \A x : At(f, x) \in Int, NEW i, NEW v \in Int
  PROVE  \A x : At(Updated(f, i, v), x) \in Int
<1>1. ASSUME NEW x PROVE At(Updated(f, i, v), x) \in Int
  <2>1. CASE x = i
    BY <2>1 DEF Updated, At
  <2>2. CASE x # i
    <3>1. At(Updated(f, i, v), x) = At(f, x)
      BY <2>2 DEF Updated, At
    <3>. QED  BY <3>1
  <2>. QED  BY <2>1, <2>2
<1>. QED  BY <1>1, Zenon

\* The results beyond 0, which is where what is saved is computed.
LEMMA NumFurther ==
  ASSUME NEW f, \A k : k # 0 => At(f, k) \in Int, NEW i, NEW v \in Int
  PROVE  \A k : k # 0 => At(Updated(f, i, v), k) \in Int
<1>1. ASSUME NEW x, x # 0 PROVE At(Updated(f, i, v), x) \in Int
  <2>1. CASE x = i
    BY <2>1 DEF Updated, At
  <2>2. CASE x # i
    <3>1. At(Updated(f, i, v), x) = At(f, x)
      BY <2>2 DEF Updated, At
    <3>. QED  BY <1>1, <3>1
  <2>. QED  BY <2>1, <2>2
<1>. QED  BY <1>1, Zenon

LEMMA NumGives ==
  ASSUME NEW e, IsEnv(e), Num(e), NEW i, NEW v, v \in Int, NEW g, g = Gives(e, i, v)
  PROVE  Num(g)
<1>1. /\ KeepsMemory(e, g) /\ KeepsRest(e, g) /\ g.results = Updated(e.results, i, v)
  BY GivesSets
<1>2. /\ \A k : k # 0 => At(e.results, k) \in Int
      /\ g.input = e.input /\ g.mem = e.mem /\ g.elems = e.elems /\ g.saved = e.saved
  BY <1>1, Zenon DEF Num, KeepsMemory, KeepsRest
<1>3. \A k : k # 0 => At(g.results, k) \in Int
  BY <1>1, <1>2, NumFurther, Zenon
<1>. QED  BY <1>2, <1>3, Zenon DEF Num

LEMMA NumPut ==
  ASSUME body \in Code, NEW e, IsEnv(e), Num(e), NEW i \in 1..Len(body), Op(i) = "store",
         NEW v, v \in Int, NEW g, g = Put(e, i, v)
  PROVE  Num(g)
<1>1. /\ KeepsRest(e, g) /\ g.results = e.results
      /\ \A w \in Locals : g.mem[w] = IF w = body[i].var THEN v ELSE e.mem[w]
  BY PutSets
<1>2. g.elems = IF IsLocal(i) THEN e.elems ELSE Updated(e.elems, Result(e, Pointer(i)[2]), v)
  BY PutElems
<1>3. \A w \in Locals : g.mem[w] \in Int
  BY <1>1 DEF Num
<1>4. \A x : At(g.elems, x) \in Int
  <2>1. \A x : At(e.elems, x) \in Int
    BY Zenon DEF Num
  <2>2. \A x : At(Updated(e.elems, Result(e, Pointer(i)[2]), v), x) \in Int
    BY <2>1, NumUpdated, Zenon
  <2>. QED  BY <1>2, <2>1, <2>2, Zenon
<1>. QED  BY <1>1, <1>3, <1>4, Zenon DEF Num, KeepsRest

\* What is read, computed and saved.
LEMMA NumContent ==
  ASSUME body \in Code, NEW e, Num(e), NEW i \in 1..Len(body), Op(i) \in {"load", "store"}
  PROVE  Content(e, Pointer(i)) \in Int
<1>1. CASE IsLocal(i)
  <2>1. Pointer(i) = <<body[i].var, 0>> /\ body[i].var \in Locals
    BY <1>1, OperandsAreEarlier
  <2>2. Content(e, Pointer(i)) = e.mem[body[i].var]
    BY <2>1 DEF Content
  <2>. QED  BY <2>1, <2>2, Zenon DEF Num
<1>2. CASE ~IsLocal(i)
  <2>1. PICK k \in Operands(i) : Pointer(i) = <<"none", k>>
    BY <1>2, OperandsAreEarlier
  <2>2. k # 0
    BY OperandsAreEarlier
  <2>3. Content(e, Pointer(i)) = At(e.elems, Result(e, k))
    BY <2>1, <2>2 DEF Content
  <2>. QED  BY <2>3, Zenon DEF Num
<1>. QED  BY <1>1, <1>2

LEMMA NumResults ==
  ASSUME body \in Code, NEW e, Num(e), NEW i \in 1..Len(body)
  PROVE  \A k \in Operands(i) : k # 0 /\ Result(e, k) \in Int
<1>1. \A k \in Operands(i) : k # 0
  BY OperandsAreEarlier
<1>. QED  BY <1>1, Zenon DEF Num, Result

LEMMA NumValue ==
  ASSUME body \in Code, NEW e, Num(e), NEW i \in 1..Len(body), Op(i) \notin {"store", "br"},
         ~Traps(e, i)
  PROVE  Value(e, i) \in Int
<1>1. /\ Op(i) \in {"in", "gep", "load", "store", "br"} \cup Operators
      /\ Op(i) \in {"gep"} \cup Operators => Arg(i, 1) \in Operands(i)
      /\ Op(i) \in Operators => Arg(i, 2) \in Operands(i)
  BY OperandsAreEarlier
<1>2. CASE Op(i) \in Operators
  <2>1. Result(e, Arg(i, 1)) \in Int /\ Result(e, Arg(i, 2)) \in Int
    BY <1>1, <1>2, NumResults
  <2>2. Works(Op(i), Result(e, Arg(i, 2)))
    BY <1>2, Zenon DEF Traps
  <2>3. Value(e, i) = Computed(Op(i), Result(e, Arg(i, 1)), Result(e, Arg(i, 2)))
    BY <1>2, Zenon DEF Value
  <2>. QED  BY <2>1, <2>2, <2>3, ComputedAreInts
<1>3. CASE Op(i) \notin Operators
  <2>1. Value(e, i) = Reading(e, i)
    BY <1>3, Zenon DEF Value
  <2>2. CASE Op(i) = "in"
    BY <2>1, <2>2, Zenon DEF Reading, Num
  <2>3. CASE Op(i) = "gep"
    <3>1. Reading(e, i) = Result(e, Arg(i, 1))
      BY <2>3 DEF Reading
    <3>. QED  BY <1>1, <2>1, <2>3, <3>1, NumResults
  <2>4. CASE Op(i) = "load"
    <3>1. Reading(e, i) = Content(e, Pointer(i))
      BY <2>4 DEF Reading
    <3>. QED  BY <2>1, <2>4, <3>1, NumContent
  <2>. QED  BY <1>1, <1>3, <2>2, <2>3, <2>4
<1>. QED  BY <1>2, <1>3

LEMMA NumExecute ==
  ASSUME body \in Code, NEW e, IsEnv(e), Num(e), NEW i \in 1..Len(body),
         NEW g, g = Execute(e, i), g.trapped = "no"
  PROVE  Num(g)
<1>1. /\ KeepsRest(e, g)
      /\ Op(i) # "store" => KeepsMemory(e, g)
      /\ Op(i) \in {"store", "br"} => g.results = e.results
      /\ Op(i) \notin {"store", "br"} =>
           IF Traps(e, i) THEN g.results = e.results /\ g.trapped = "source"
           ELSE g.results = Updated(e.results, i, Value(e, i))
  BY ExecuteSets, Zenon
<1>2. CASE Op(i) = "store"
  <2>1. g = Put(e, i, Result(e, Arg(i, 1)))
    BY <1>2 DEF Execute
  <2>2. Arg(i, 1) \in Operands(i)
    BY <1>2, OperandsAreEarlier
  <2>3. Result(e, Arg(i, 1)) \in Int
    BY <2>2, NumResults
  <2>. QED  BY <1>2, <2>1, <2>3, NumPut, Zenon
<1>3. CASE Op(i) # "store"
  <2>1. /\ g.input = e.input /\ g.mem = e.mem /\ g.elems = e.elems /\ g.saved = e.saved
    BY <1>1, <1>3, Zenon DEF KeepsMemory, KeepsRest
  <2>2. \A k : k # 0 => At(e.results, k) \in Int
    BY Zenon DEF Num
  <2>3. \A k : k # 0 => At(g.results, k) \in Int
    <3>1. CASE Op(i) = "br"
      BY <1>1, <2>2, <3>1
    <3>2. CASE Op(i) # "br"
      <4>1. ~Traps(e, i)
        BY <1>1, <1>3, <3>2
      <4>2. Value(e, i) \in Int
        BY <1>3, <3>2, <4>1, NumValue
      <4>3. g.results = Updated(e.results, i, Value(e, i))
        BY <1>1, <1>3, <3>2, <4>1
      <4>. QED  BY <2>2, <4>2, <4>3, NumFurther, Zenon
    <3>. QED  BY <3>1, <3>2
  <2>. QED  BY <2>1, <2>3, Zenon DEF Num
<1>. QED  BY <1>2, <1>3

\* What is saved is an integer, unless that traps.
LEMMA NumSaved ==
  ASSUME body \in Code, clone \in Clone \/ clone = NoClone,
         NEW e, IsEnv(e), Num(e), e.trapped = "no", NEW s \in 1..Len(body), Op(s) = "store",
         Save(e, s).trapped = "no"
  PROVE  SavedFor(e, s) \in Int
<1>1. Arg(s, 1) \in Operands(s)
  BY OperandsAreEarlier
<1>2. Result(e, Arg(s, 1)) \in Int
  BY <1>1, NumResults
<1>3. CASE s \notin DOMAIN clone.assigns
  BY <1>2, <1>3, Zenon DEF SavedFor
<1>4. CASE s \in DOMAIN clone.assigns
  <2>. DEFINE a == clone.assigns[s]
              one == a.inc \o a.dec
              op == IF Op(a.op) \in {"+", "-"} THEN "-" ELSE "/"
              l == IF Op(a.op) \in {"+", "*"} THEN Result(e, Arg(s, 1)) ELSE Result(e, a.load)
              r == IF Op(a.op) \in {"+", "*"} THEN Result(e, a.load) ELSE Result(e, Arg(s, 1))
              f == Increment(e, s)
  <2>1. clone \in Clone
    BY <1>4, NoCloneParts
  <2>2. s \in CmpdAssignStores /\ a = CmpdAssign(s)
    BY <1>4, <2>1, CloneParts, Zenon
  <2>3. /\ a.load # 0
        /\ Len(Changes(a)) = 1 => Changes(a)[1] # 0
    <3>1. /\ Op(a.op) \in {"+", "-"} => Finds(a, a.op, "+", "-", Pointer(s))
          /\ Op(a.op) \notin {"+", "-"} => Finds(a, a.op, "*", "/", Pointer(s))
      BY <2>2, AssignParts, Zenon
    <3>2. a.op \in 1..(s - 1)
      BY <2>2, CmpdAssignsAreOperations, Zenon
    <3>3. a.op \in 1..Len(body)
      BY <3>2
    <3>4. \A y \in Operands(a.op) : y # 0
      BY <3>3, OperandsAreEarlier
    <3>. HIDE DEF a
    <3>. QED  BY <3>1, <3>4, Zenon DEF Finds
  <2>4. CASE Len(one) = 1
    <3>1. SavedFor(e, s) = Result(e, Changes(a)[1])
      BY <1>4, <2>4, Zenon DEF SavedFor, Changes
    <3>2. Changes(a)[1] # 0
      BY <2>3, <2>4, Zenon DEF Changes
    <3>. HIDE DEF a
    <3>. QED  BY <3>1, <3>2, Zenon DEF Num, Result
  <2>5. CASE Len(one) # 1
    <3>1. f = Apply(e, 0, op, l, r, "added")
      BY <2>5, Zenon DEF Increment
    <3>2. SavedFor(e, s) = Computed(op, l, r)
      BY <1>4, <2>5, Zenon DEF SavedFor, Changes
    <3>3. Result(e, a.load) \in Int
      <4>. HIDE DEF a
      <4>. QED  BY <2>3, Zenon DEF Num, Result
    <3>4. l \in Int /\ r \in Int
      BY <1>2, <3>3, Zenon
    <3>5. Works(op, r)
      <4>1. SUFFICES ASSUME ~Works(op, r) PROVE FALSE
        OBVIOUS
      <4>. HIDE DEF op, l, r
      <4>2. Apply(e, 0, op, l, r, "added") =
              IF Works(op, r) THEN Gives(e, 0, Computed(op, l, r)) ELSE [e EXCEPT !.trapped = "added"]
        BY ApplyComputes
      <4>3. f = [e EXCEPT !.trapped = "added"]
        BY <3>1, <4>1, <4>2, Zenon
      <4>4. Save(e, s) = [f EXCEPT !.saved = Updated(f.saved, s, Result(f, 0))]
        BY <1>4, Zenon DEF Save
      <4>. HIDE DEF f
      <4>5. IsEnv(f) /\ f.trapped = "added"
        BY <4>3, TrapSets, Zenon
      <4>. DEFINE x == Save(e, s)
                  z == Updated(f.saved, s, Result(f, 0))
      <4>. HIDE DEF z
      <4>6. x = [mem |-> f.mem, elems |-> f.elems, saved |-> z, input |-> f.input,
                 results |-> f.results, next |-> f.next, puts |-> f.puts,
                 unset |-> f.unset, trapped |-> f.trapped]
        BY <4>4, <4>5 DEF IsEnv, z
      <4>. HIDE DEF x
      <4>7. x.trapped = f.trapped
        BY <4>6, Zenon
      <4>. QED  BY <4>5, <4>7 DEF x
    <3>. HIDE DEF op, l, r
    <3>. QED  BY <3>2, <3>4, <3>5, ComputedAreInts
  <2>. QED  BY <2>4, <2>5
<1>. QED  BY <1>3, <1>4

\* Environments that are alike hold the same integers.
LEMMA NumAlike ==
  ASSUME NEW e, Num(e), NEW x, Alike(e, x), \A y : At(x.saved, y) \in Int
  PROVE  Num(x)
<1>1. x.mem = e.mem /\ x.elems = e.elems /\ x.input = e.input
  BY Zenon DEF Alike, KeepsMemory
<1>2. \A k : k # 0 => At(x.results, k) \in Int
  BY Zenon DEF Alike, Num
<1>. QED  BY <1>1, <1>2, Zenon DEF Num

LEMMA NumEvaluate ==
  ASSUME body \in Code, clone \in Clone \/ clone = NoClone, NEW e, IsEnv(e), Num(e),
         e.trapped = "no", NEW i \in 1..Len(body), NEW g, g = Evaluate(e, i), g.trapped = "no"
  PROVE  IsEnv(g) /\ Num(g)
<1>. DEFINE H == i \in clone.held \cup DOMAIN clone.assigns
<1>1. CASE i < e.next
  <2>1. g = e
    BY <1>1, Zenon DEF Evaluate
  <2>. QED  BY <2>1
<1>2. CASE ~(i < e.next)
  <2>1. IF i < e.next \/ e.trapped # "no" THEN Evaluate(e, i) = e
        ELSE \E x :
               /\ IsEnv(x) /\ Alike(e, x)
               /\ x.unset = (e.unset \/ ~(Operands(i) \subseteq DOMAIN e.results))
               /\ IF H
                  THEN \E u : /\ IsEnv(u) /\ Alike(e, u) /\ u.saved = e.saved
                              /\ u.trapped = "no" /\ u.results = e.results
                              /\ x = Save(u, i)
                              /\ x.trapped \in {"no", "added"}
                              /\ \E v : x.saved = Updated(e.saved, i, v)
                  ELSE x.saved = e.saved /\ x.trapped = "no" /\ x.results = e.results
               /\ Evaluate(e, i) = IF x.trapped = "no" THEN Execute(x, i) ELSE x
    BY EvaluateSets
  <2>. HIDE DEF H
  <2>2. PICK x : /\ IsEnv(x) /\ Alike(e, x)
                 /\ IF H
                    THEN \E u : /\ IsEnv(u) /\ Alike(e, u) /\ u.saved = e.saved
                                /\ u.trapped = "no" /\ x = Save(u, i)
                    ELSE x.saved = e.saved
                 /\ g = IF x.trapped = "no" THEN Execute(x, i) ELSE x
    BY <1>2, <2>1, Zenon
  <2>3. x.trapped = "no"
    <3>1. SUFFICES ASSUME x.trapped # "no" PROVE FALSE
      OBVIOUS
    <3>2. g = x
      BY <2>2, <3>1, Zenon
    <3>. QED  BY <3>1, <3>2
  <2>4. g = Execute(x, i)
    BY <2>2, <2>3, Zenon
  <2>5. \A y : At(e.saved, y) \in Int
    BY Zenon DEF Num
  <2>6. \A y : At(x.saved, y) \in Int
    <3>1. CASE H
      <4>1. PICK u : /\ IsEnv(u) /\ Alike(e, u) /\ u.saved = e.saved
                     /\ u.trapped = "no" /\ x = Save(u, i)
        BY <2>2, <3>1, Zenon
      <4>2. Num(u)
        <5>1. \A y : At(u.saved, y) \in Int
          BY <2>5, <4>1, Zenon
        <5>. QED  BY <4>1, <5>1, NumAlike, Zenon
      <4>3. Op(i) = "store"
        <5>1. clone \in Clone
          BY <3>1, NoCloneParts DEF H
        <5>. QED  BY <3>1, <5>1, KindsOfKept DEF H
      <4>4. Save(u, i).trapped = "no"
        BY <2>3, <4>1
      <4>5. SavedFor(u, i) \in Int
        BY <4>1, <4>2, <4>3, <4>4, NumSaved, Zenon
      <4>6. x.saved = Updated(u.saved, i, SavedFor(u, i))
        <5>1. LET y == Save(u, i)
              IN y.trapped = "no" => y.saved = Updated(u.saved, i, SavedFor(u, i))
          BY <4>1, SaveSaves, Zenon
        <5>. QED  BY <4>1, <4>4, <5>1, Zenon
      <4>7. x.saved = Updated(e.saved, i, SavedFor(u, i))
        BY <4>1, <4>6, Zenon
      <4>. DEFINE v == SavedFor(u, i)
      <4>. HIDE DEF v
      <4>8. v \in Int /\ x.saved = Updated(e.saved, i, v)
        BY <4>5, <4>7 DEF v
      <4>. QED  BY <2>5, <4>8, NumUpdated
    <3>2. CASE ~H
      <4>1. x.saved = e.saved
        BY <2>2, <3>2, Zenon
      <4>. QED  BY <2>5, <4>1, Zenon
    <3>. QED  BY <3>1, <3>2
  <2>7. Num(x)
    BY <2>2, <2>6, NumAlike, Zenon
  <2>8. Num(g)
    BY <2>2, <2>4, <2>7, NumExecute, Zenon
  <2>9. IsEnv(Execute(x, i))
    BY <2>2, ExecuteSets, Zenon
  <2>. QED  BY <2>4, <2>8, <2>9, Zenon
<1>. QED  BY <1>1, <1>2

LEMMA NumReplay ==
  ASSUME body \in Code, clone \in Clone, NEW e, IsEnv(e), Num(e),
         e.trapped = "no", NEW i \in 1..Len(body), NEW g, g = Replay(e, i), g.trapped = "no"
  PROVE  IsEnv(g) /\ Num(g)
<1>1. CASE i \notin clone.kept \/ i < e.next
  <2>1. g = e
    BY <1>1, Zenon DEF Replay
  <2>. QED  BY <2>1
<1>2. CASE ~(i \notin clone.kept \/ i < e.next)
  <2>. DEFINE s == clone.owner[i]
              A == i \in DOMAIN clone.owner
              B == i \in DOMAIN clone.assigns
              C == i \in clone.held
  <2>1. IF i \notin clone.kept \/ i < e.next \/ e.trapped # "no" THEN Replay(e, i) = e
        ELSE \E x :
               /\ IsEnv(x) /\ Alike(e, x) /\ x.saved = e.saved /\ x.trapped = "no"
               /\ x.results = e.results
               /\ A => /\ x.unset = (e.unset \/ ~({s} \subseteq DOMAIN e.saved))
                       /\ Replay(e, i) = Apply(x, i, Op(i), Content(e, Pointer(s)), At(e.saved, s), "added")
               /\ B => /\ x.unset = (e.unset \/ ~({clone.assigns[i].op} \cup ({Pointer(i)[2]} \ {0})
                                                    \subseteq DOMAIN e.results))
                       /\ Replay(e, i) = Put(x, i, Result(e, clone.assigns[i].op))
               /\ C => /\ x.unset = (\/ e.unset \/ ~({i} \subseteq DOMAIN e.saved)
                                     \/ ~({Pointer(i)[2]} \ {0} \subseteq DOMAIN e.results))
                       /\ Replay(e, i) = Put(x, i, At(e.saved, i))
               /\ i \notin DOMAIN clone.owner \cup DOMAIN clone.assigns \cup clone.held =>
                    /\ x.unset = (e.unset \/ ~(Operands(i) \subseteq DOMAIN e.results))
                    /\ Replay(e, i) = Execute(x, i)
    BY ReplaySets, Zenon
  <2>2. i \notin DOMAIN clone.owner \cup DOMAIN clone.assigns \cup clone.held <=> ~A /\ ~B /\ ~C
    OBVIOUS
  <2>3. \E x : /\ IsEnv(x) /\ Alike(e, x) /\ x.saved = e.saved /\ x.trapped = "no"
               /\ A => g = Apply(x, i, Op(i), Content(e, Pointer(s)), At(e.saved, s), "added")
               /\ B => g = Put(x, i, Result(e, clone.assigns[i].op))
               /\ C => g = Put(x, i, At(e.saved, i))
               /\ ~A /\ ~B /\ ~C => g = Execute(x, i)
    <3>. HIDE DEF A, B, C, s
    <3>. QED  BY <1>2, <2>1, <2>2, Zenon
  <2>4. PICK x : /\ IsEnv(x) /\ Alike(e, x) /\ x.saved = e.saved /\ x.trapped = "no"
                 /\ A => g = Apply(x, i, Op(i), Content(e, Pointer(s)), At(e.saved, s), "added")
                 /\ B => g = Put(x, i, Result(e, clone.assigns[i].op))
                 /\ C => g = Put(x, i, At(e.saved, i))
                 /\ ~A /\ ~B /\ ~C => g = Execute(x, i)
    BY <2>3, Zenon
  <2>5. \A y : At(e.saved, y) \in Int
    BY Zenon DEF Num
  <2>6. Num(x)
    <3>1. \A y : At(x.saved, y) \in Int
      BY <2>4, <2>5, Zenon
    <3>. QED  BY <2>4, <3>1, NumAlike, Zenon
  <2>7. CASE A
    <3>1. s \in CmpdAssignStores
      BY <2>7, CloneParts, Zenon
    <3>2. s \in 1..Len(body) /\ Op(s) = "store"
      BY <3>1, CmpdAssignsAreOperations, Zenon
    <3>3. Content(e, Pointer(s)) \in Int
      BY <3>2, NumContent
    <3>. DEFINE l == Content(e, Pointer(s))
                r == At(e.saved, s)
    <3>4. l \in Int /\ r \in Int
      BY <2>5, <3>3, Zenon
    <3>5. g = Apply(x, i, Op(i), l, r, "added")
      BY <2>4, <2>7, Zenon
    <3>. HIDE DEF l, r, s, A
    <3>6. Apply(x, i, Op(i), l, r, "added") =
            IF Works(Op(i), r) THEN Gives(x, i, Computed(Op(i), l, r)) ELSE [x EXCEPT !.trapped = "added"]
      BY ApplyComputes
    <3>7. Works(Op(i), r)
      <4>1. SUFFICES ASSUME ~Works(Op(i), r) PROVE FALSE
        OBVIOUS
      <4>2. g = [x EXCEPT !.trapped = "added"]
        BY <3>5, <3>6, <4>1, Zenon
      <4>3. g.trapped = "added"
        BY <2>4, <4>2, TrapSets, Zenon
      <4>. QED  BY <4>3
    <3>. DEFINE v == Computed(Op(i), l, r)
    <3>8. v \in Int
      BY <3>4, <3>7, ComputedAreInts
    <3>. HIDE DEF v
    <3>9. g = Gives(x, i, v)
      BY <3>5, <3>6, <3>7, Zenon DEF v
    <3>10. IsEnv(g)
      BY <2>4, <3>9, GivesSets
    <3>11. Num(g)
      BY <2>4, <2>6, <3>8, <3>9, NumGives
    <3>. QED  BY <3>10, <3>11
  <2>8. ASSUME NEW v, v \in Int, Op(i) = "store", g = Put(x, i, v)
        PROVE  IsEnv(g) /\ Num(g)
    <3>1. IsEnv(g)
      <4>1. IsEnv(Put(x, i, v))
        BY <2>4, <2>8, PutSets, Zenon
      <4>. QED  BY <2>8, <4>1, Zenon
    <3>2. Num(g)
      BY <2>4, <2>6, <2>8, NumPut, Zenon
    <3>. QED  BY <3>1, <3>2
  <2>9. CASE B
    <3>1. Op(i) = "store" /\ i \in CmpdAssignStores /\ clone.assigns[i] = CmpdAssign(i)
      BY <2>9, KindsOfKept, CloneParts, Zenon
    <3>. DEFINE o == clone.assigns[i].op
    <3>2. o \in 1..(i - 1)
      BY <3>1, CmpdAssignsAreOperations, Zenon
    <3>. HIDE DEF o
    <3>3. o # 0
      BY <3>2
    <3>4. Result(e, o) \in Int
      BY <3>3, Zenon DEF Num, Result
    <3>5. g = Put(x, i, Result(e, o))
      BY <2>4, <2>9, Zenon DEF o
    <3>. QED  BY <2>8, <3>1, <3>4, <3>5, Zenon
  <2>10. CASE C
    <3>1. Op(i) = "store"
      BY <2>10, KindsOfKept, Zenon
    <3>. QED  BY <2>4, <2>5, <2>8, <2>10, <3>1, Zenon
  <2>11. CASE ~A /\ ~B /\ ~C
    <3>1. g = Execute(x, i)
      BY <2>4, <2>11, Zenon
    <3>2. IsEnv(g)
      <4>1. IsEnv(Execute(x, i))
        BY <2>4, ExecuteSets, Zenon
      <4>. QED  BY <3>1, <4>1, Zenon
    <3>3. Num(g)
      BY <2>4, <2>6, <3>1, NumExecute, Zenon
    <3>. QED  BY <3>2, <3>3
  <2>. QED  BY <2>7, <2>9, <2>10, <2>11, Zenon
<1>. QED  BY <1>1, <1>2

\* An iteration that does not trap is one of steps that do not.
LEMMA EvaluatedSteps ==
  ASSUME body \in Code, NEW input, Evaluated(input).trapped = "no"
  PROVE  \E E : /\ E[0] = Entry(input) /\ Evaluated(input) = E[Len(body)]
                /\ \A n \in 1..Len(body) : E[n] = Evaluate(E[n - 1], n)
                /\ \A n \in 0..Len(body) : E[n].trapped = "no"
<1>1. Len(body) \in Nat
  BY BodiesAreLists
<1>2. PICK E : /\ E[0] = Entry(input) /\ Evaluated(input) = E[Len(body)]
               /\ \A n \in 1..Len(body) : E[n] = Evaluate(E[n - 1], n)
  BY <1>1, EvaluatedStepwise
<1>3. \A n \in 1..Len(body) : E[n - 1].trapped # "no" => E[n] = E[n - 1]
  BY <1>2, TrapsAreFinal, Zenon
<1>4. E[Len(body)].trapped = "no"
  BY <1>2, Zenon
<1>5. \A n \in 0..Len(body) : E[n].trapped = "no"
  BY <1>1, <1>3, <1>4, TrapsStop, Zenon
<1>. QED  BY <1>2, <1>5, Zenon

LEMMA ReplayedSteps ==
  ASSUME body \in Code, NEW input, Replayed(input).trapped = "no"
  PROVE  \E F : /\ F[0] = Entry(input) /\ Replayed(input) = F[Len(body)]
                /\ \A n \in 1..Len(body) : F[n] = Replay(F[n - 1], n)
                /\ \A n \in 0..Len(body) : F[n].trapped = "no"
<1>1. Len(body) \in Nat
  BY BodiesAreLists
<1>2. PICK F : /\ F[0] = Entry(input) /\ Replayed(input) = F[Len(body)]
               /\ \A n \in 1..Len(body) : F[n] = Replay(F[n - 1], n)
  BY <1>1, ReplayedStepwise
<1>3. \A n \in 1..Len(body) : F[n - 1].trapped # "no" => F[n] = F[n - 1]
  BY <1>2, TrapsAreFinal, Zenon
<1>4. F[Len(body)].trapped = "no"
  BY <1>2, Zenon
<1>5. \A n \in 0..Len(body) : F[n].trapped = "no"
  BY <1>1, <1>3, <1>4, TrapsStop, Zenon
<1>. QED  BY <1>2, <1>5, Zenon

\* All of them hold integers.
LEMMA NumSteps ==
  ASSUME body \in Code, NEW run, IsEnv(run[0]) /\ Num(run[0]),
         \A n \in 1..Len(body) : IsEnv(run[n - 1]) /\ Num(run[n - 1]) => IsEnv(run[n]) /\ Num(run[n])
  PROVE  \A n \in 0..Len(body) : IsEnv(run[n]) /\ Num(run[n])
<1>1. Len(body) \in Nat
  BY BodiesAreLists
<1>. DEFINE A == {n \in Nat : n <= Len(body) => IsEnv(run[n]) /\ Num(run[n])}
<1>2. 0 \in A
  OBVIOUS
<1>3. ASSUME NEW n \in A PROVE n + 1 \in A
  <2>1. SUFFICES ASSUME n + 1 <= Len(body) PROVE IsEnv(run[n + 1]) /\ Num(run[n + 1])
    OBVIOUS
  <2>2. n + 1 \in 1..Len(body) /\ (n + 1) - 1 = n /\ n <= Len(body)
    BY <1>1, <2>1
  <2>3. IsEnv(run[n]) /\ Num(run[n])
    BY <2>2
  <2>4. PICK m \in 1..Len(body) : m = n + 1 /\ m - 1 = n
    BY <2>2
  <2>5. IsEnv(run[m - 1]) /\ Num(run[m - 1])
    BY <2>3, <2>4
  <2>. QED  BY <2>4, <2>5
<1>4. A = Nat
  <2>1. A \in SUBSET Nat
    OBVIOUS
  <2>. HIDE DEF A
  <2>. QED  BY <1>2, <1>3, <2>1, Induction
<1>5. \A n \in 0..Len(body) : n \in A /\ n <= Len(body)
  BY <1>1, <1>4
<1>. QED  BY <1>5

LEMMA NumEvaluated ==
  ASSUME body \in Code, clone \in Clone \/ clone = NoClone, NEW E,
         IsEnv(E[0]), Num(E[0]),
         \A n \in 1..Len(body) : E[n] = Evaluate(E[n - 1], n),
         \A n \in 0..Len(body) : E[n].trapped = "no"
  PROVE  \A n \in 0..Len(body) : IsEnv(E[n]) /\ Num(E[n])
<1>1. ASSUME NEW n \in 1..Len(body), IsEnv(E[n - 1]), Num(E[n - 1])
      PROVE  IsEnv(E[n]) /\ Num(E[n])
  <2>1. n - 1 \in 0..Len(body) /\ n \in 0..Len(body)
    BY BodiesAreLists
  <2>2. E[n - 1].trapped = "no" /\ E[n].trapped = "no"
    BY <2>1
  <2>. QED  BY <1>1, <2>2, NumEvaluate, Zenon
<1>. QED  BY <1>1, NumSteps, Zenon

LEMMA NumReplayed ==
  ASSUME body \in Code, clone \in Clone, NEW F,
         IsEnv(F[0]), Num(F[0]),
         \A n \in 1..Len(body) : F[n] = Replay(F[n - 1], n),
         \A n \in 0..Len(body) : F[n].trapped = "no"
  PROVE  \A n \in 0..Len(body) : IsEnv(F[n]) /\ Num(F[n])
<1>1. ASSUME NEW n \in 1..Len(body), IsEnv(F[n - 1]), Num(F[n - 1])
      PROVE  IsEnv(F[n]) /\ Num(F[n])
  <2>1. n - 1 \in 0..Len(body) /\ n \in 0..Len(body)
    BY BodiesAreLists
  <2>2. F[n - 1].trapped = "no" /\ F[n].trapped = "no"
    BY <2>1
  <2>. QED  BY <1>1, <2>2, NumReplay, Zenon
<1>. QED  BY <1>1, NumSteps, Zenon

\* The memory of a program that has not trapped.
NumInv ==
  at # "trap" =>
    /\ \A w \in Locals : mem[w] \in Int
    /\ \A x : At(elems, x) \in Int
    /\ \A x : At(saved, x) \in Int

LEMMA NumEntry ==
  ASSUME BodyInv, NumInv, at # "trap", NEW input \in Inputs
  PROVE  IsEnv(Entry(input)) /\ Num(Entry(input)) /\ Entry(input).mem = mem /\ Entry(input).saved = saved
<1>1. mem = [v \in Locals |-> mem[v]]
  BY DEF BodyInv
<1>. DEFINE e == Entry(input)
<1>2. /\ IsEnv(e) /\ e.mem = mem /\ e.elems = elems /\ e.saved = saved /\ e.input = input
      /\ e.results = Nothing
  BY <1>1, EntryIsEnv, Zenon
<1>. HIDE DEF e
<1>3. input \in Int /\ Garbage \in Int
  BY Widths
<1>4. \A k : At(Nothing, k) = Garbage
  BY DEF At, Nothing
<1>5. Num(e)
  <2>1. \A k : k # 0 => At(e.results, k) \in Int
    BY <1>2, <1>3, <1>4
  <2>2. /\ e.input \in Int /\ \A w \in Locals : e.mem[w] \in Int
        /\ \A x : At(e.elems, x) \in Int
        /\ \A x : At(e.saved, x) \in Int
    BY <1>2, <1>3 DEF NumInv
  <2>. QED  BY <2>1, <2>2, Zenon DEF Num
<1>. QED  BY <1>2, <1>5 DEF e

LEMMA InitNumInv == InitBody => NumInv
<1>. SUFFICES ASSUME InitBody PROVE NumInv
  OBVIOUS
<1>1. mem = [v \in Locals |-> 1] /\ elems = Nothing /\ saved = Nothing
  BY DEF InitBody
<1>2. \A k : At(Nothing, k) = Garbage
  BY DEF At, Nothing
<1>. QED  BY <1>1, <1>2, Widths DEF NumInv

LEMMA StepNumInv == BodyInv /\ NumInv /\ [NextBody]_<<vars, dataVars>> => NumInv'
<1>. SUFFICES ASSUME BodyInv, NumInv, [NextBody]_<<vars, dataVars>> PROVE NumInv'
  OBVIOUS
<1>1. ASSUME UNCHANGED <<mem, elems, saved>>, at # "trap" \/ at' = "trap"
      PROVE  NumInv'
  <2>1. mem' = mem /\ elems' = elems /\ saved' = saved
    BY <1>1
  <2>. QED  BY <1>1, <2>1 DEF NumInv, At
<1>2. ASSUME NEW e, Num(e), Leaves(e)
      PROVE  NumInv'
  <2>1. mem' = e.mem /\ elems' = e.elems /\ saved' = e.saved
    BY <1>2, Zenon DEF Leaves
  <2>2. /\ \A w \in Locals : e.mem[w] \in Int
        /\ \A x : At(e.elems, x) \in Int
        /\ \A x : At(e.saved, x) \in Int
    BY <1>2, Zenon DEF Num
  <2>. QED  BY <2>1, <2>2 DEF NumInv, At
<1>3. CASE StartBody
  <2>1. UNCHANGED <<mem, elems, saved>> /\ phase # "run"
    BY <1>3 DEF StartBody, Start
  <2>2. at # "trap"
    BY <2>1 DEF BodyInv
  <2>. QED  BY <1>1, <2>1, <2>2
<1>4. CASE EvaluateBody
  <2>1. PICK input \in Inputs : BodyTo(After(Evaluated(input))) /\ Leaves(Evaluated(input))
    BY <1>4, Zenon DEF EvaluateBody
  <2>. DEFINE e == Evaluated(input)
  <2>2. at = "body" /\ at' = IF e.trapped = "no" THEN "latch" ELSE "trap"
    BY <2>1 DEF BodyTo, Goto, After
  <2>3. CASE e.trapped = "no"
    <3>1. PICK E : /\ E[0] = Entry(input) /\ e = E[Len(body)]
                   /\ \A n \in 1..Len(body) : E[n] = Evaluate(E[n - 1], n)
                   /\ \A n \in 0..Len(body) : E[n].trapped = "no"
      BY <2>3, EvaluatedSteps, Zenon DEF BodyInv
    <3>2. IsEnv(E[0]) /\ Num(E[0])
      BY <2>2, <3>1, NumEntry
    <3>3. body \in Code /\ (clone \in Clone \/ clone = NoClone)
      BY DEF BodyInv
    <3>4. \A n \in 0..Len(body) : IsEnv(E[n]) /\ Num(E[n])
      BY <3>1, <3>2, <3>3, NumEvaluated, Zenon
    <3>5. Len(body) \in 0..Len(body)
      BY <3>3, BodiesAreLists
    <3>6. Num(e)
      BY <3>1, <3>4, <3>5, Zenon
    <3>. QED  BY <1>2, <2>1, <3>6, Zenon
  <2>4. CASE e.trapped # "no"
    BY <2>2, <2>4 DEF NumInv
  <2>. QED  BY <2>3, <2>4
<1>5. CASE ReplayBody
  <2>1. PICK input \in Inputs : CloneTo(After(Replayed(input))) /\ Leaves(Replayed(input))
    BY <1>5, Zenon DEF ReplayBody
  <2>. DEFINE e == Replayed(input)
  <2>2. at = "clone" /\ at' = IF e.trapped = "no" THEN "latch" ELSE "trap"
    BY <2>1 DEF CloneTo, Goto, After
  <2>3. CASE e.trapped = "no"
    <3>1. PICK F : /\ F[0] = Entry(input) /\ e = F[Len(body)]
                   /\ \A n \in 1..Len(body) : F[n] = Replay(F[n - 1], n)
                   /\ \A n \in 0..Len(body) : F[n].trapped = "no"
      BY <2>3, ReplayedSteps, Zenon DEF BodyInv
    <3>2. IsEnv(F[0]) /\ Num(F[0])
      BY <2>2, <3>1, NumEntry
    <3>3. body \in Code /\ clone \in Clone
      BY <2>2 DEF BodyInv
    <3>4. \A n \in 0..Len(body) : IsEnv(F[n]) /\ Num(F[n])
      BY <3>1, <3>2, <3>3, NumReplayed, Zenon
    <3>5. Len(body) \in 0..Len(body)
      BY <3>3, BodiesAreLists
    <3>6. Num(e)
      BY <3>1, <3>4, <3>5, Zenon
    <3>. QED  BY <1>2, <2>1, <3>6, Zenon
  <2>4. CASE e.trapped # "no"
    BY <2>2, <2>4 DEF NumInv
  <2>. QED  BY <2>3, <2>4
<1>6. CASE (Build \/ Run) /\ UNCHANGED dataVars
  <2>1. UNCHANGED <<mem, elems, saved>>
    BY <1>6 DEF dataVars
  <2>2. at # "trap"
    <3>1. CASE Build
      <4>1. phase # "run"
        BY <3>1 DEF Build, Configure, Assess, Relax
      <4>. QED  BY <4>1 DEF BodyInv
    <3>2. CASE Run
      BY <3>2 DEF Run, Reenter, Header, Check, Latch, Goto
    <3>. QED  BY <1>6, <3>1, <3>2
  <2>. QED  BY <1>1, <2>1, <2>2
<1>7. CASE UNCHANGED <<vars, dataVars>>
  <2>1. UNCHANGED <<mem, elems, saved>> /\ at' = at
    BY <1>7 DEF vars, dataVars
  <2>. QED  BY <1>1, <2>1
<1>. QED  BY <1>3, <1>4, <1>5, <1>6, <1>7, Zenon DEF NextBody

LEMMA NumInvariance == SpecBody => []NumInv
<1>. QED  BY BodyInvariance, InitNumInv, StepNumInv, PTL DEF SpecBody

-----------------------------------------------------------------------------
(* What an evaluated iteration without branches computes.                  *)

Wrote(e, i, g) ==
  g.elems = IF IsLocal(i) THEN e.elems
            ELSE Updated(e.elems, Result(e, Pointer(i)[2]), Result(e, Arg(i, 1)))

LEMMA EvaluateWrites ==
  ASSUME body \in Code, NEW e, IsEnv(e), e.trapped = "no", NEW i \in 1..Len(body),
         ~(i < e.next), Op(i) = "store", NEW g, g = Evaluate(e, i), g.trapped = "no"
  PROVE  Wrote(e, i, g)
<1>1. IF i < e.next \/ e.trapped # "no" THEN Evaluate(e, i) = e
      ELSE \E x :
             /\ IsEnv(x) /\ Alike(e, x)
             /\ x.unset = (e.unset \/ ~(Operands(i) \subseteq DOMAIN e.results))
             /\ IF i \in clone.held \cup DOMAIN clone.assigns
                THEN \E u : /\ IsEnv(u) /\ Alike(e, u) /\ u.saved = e.saved
                            /\ u.trapped = "no" /\ u.results = e.results
                            /\ x = Save(u, i)
                            /\ x.trapped \in {"no", "added"}
                            /\ \E v : x.saved = Updated(e.saved, i, v)
                ELSE x.saved = e.saved /\ x.trapped = "no" /\ x.results = e.results
             /\ Evaluate(e, i) = IF x.trapped = "no" THEN Execute(x, i) ELSE x
  BY EvaluateSets
<1>2. PICK x : /\ IsEnv(x) /\ Alike(e, x)
               /\ g = IF x.trapped = "no" THEN Execute(x, i) ELSE x
  BY <1>1, Zenon
<1>3. x.trapped = "no"
  <2>1. SUFFICES ASSUME x.trapped # "no" PROVE FALSE
    OBVIOUS
  <2>2. g = x
    BY <1>2, <2>1, Zenon
  <2>. QED  BY <2>1, <2>2
<1>4. g = Execute(x, i)
  BY <1>2, <1>3, Zenon
<1>5. g = Put(x, i, Result(x, Arg(i, 1)))
  BY <1>4 DEF Execute
<1>6. g.elems = IF IsLocal(i) THEN x.elems
                ELSE Updated(x.elems, Result(x, Pointer(i)[2]), Result(x, Arg(i, 1)))
  BY <1>2, <1>5, PutElems
<1>7. x.elems = e.elems /\ \A k : k # 0 => Result(x, k) = Result(e, k)
  BY <1>2, Zenon DEF Alike, KeepsMemory, Result
<1>8. Arg(i, 1) # 0 /\ (~IsLocal(i) => Pointer(i)[2] # 0)
  <2>1. Arg(i, 1) \in Operands(i) /\ \A k \in Operands(i) : k # 0
    BY OperandsAreEarlier
  <2>2. ~IsLocal(i) => \E k \in Operands(i) : Pointer(i) = <<"none", k>>
    BY OperandsAreEarlier
  <2>. QED  BY <2>1, <2>2
<1>9. Result(x, Arg(i, 1)) = Result(e, Arg(i, 1))
  BY <1>7, <1>8, Zenon
<1>10. ~IsLocal(i) => Result(x, Pointer(i)[2]) = Result(e, Pointer(i)[2])
  BY <1>7, <1>8, Zenon
<1>11. CASE IsLocal(i)
  BY <1>6, <1>7, <1>11, Zenon DEF Wrote
<1>12. CASE ~IsLocal(i)
  <2>1. g.elems = Updated(x.elems, Result(x, Pointer(i)[2]), Result(x, Arg(i, 1)))
    BY <1>6, <1>12, Zenon
  <2>2. g.elems = Updated(e.elems, Result(e, Pointer(i)[2]), Result(e, Arg(i, 1)))
    BY <1>7, <1>9, <1>10, <1>12, <2>1, Zenon
  <2>. QED  BY <1>12, <2>2, Zenon DEF Wrote
<1>. QED  BY <1>11, <1>12

\* The steps of an iteration that does not trap.
Saving(e, i, g) ==
  g.saved = IF i \in clone.held \cup DOMAIN clone.assigns
            THEN Updated(e.saved, i, SavedFor(e, i)) ELSE e.saved
Ran(E) ==
  \A n \in 1..Len(body) :
    /\ Executed(E[n - 1], n, E[n]) /\ Saving(E[n - 1], n, E[n]) /\ E[n].trapped = "no"
    /\ Op(n) = "store" => Wrote(E[n - 1], n, E[n])

LEMMA StraightRan ==
  ASSUME body \in Code, clone \in Clone \/ clone = NoClone, Straight, NEW E,
         IsEnv(E[0]), E[0].next = 1,
         \A n \in 1..Len(body) : E[n] = Evaluate(E[n - 1], n),
         \A n \in 0..Len(body) : E[n].trapped = "no"
  PROVE  Ran(E)
<1>1. Len(body) \in Nat /\ \A n \in 1..Len(body) : Op(n) # "br"
  BY BodiesAreLists DEF Straight, Those
<1>. DEFINE A == {n \in Nat : n <= Len(body) => IsEnv(E[n]) /\ E[n].next = 1}
<1>2. ASSUME NEW n \in 1..Len(body), IsEnv(E[n - 1]), E[n - 1].next = 1
      PROVE  /\ IsEnv(E[n]) /\ E[n].next = 1
             /\ Executed(E[n - 1], n, E[n]) /\ Saving(E[n - 1], n, E[n]) /\ E[n].trapped = "no"
             /\ Op(n) = "store" => Wrote(E[n - 1], n, E[n])
  <2>1. n - 1 \in 0..Len(body) /\ n \in 0..Len(body)
    BY <1>1
  <2>2. E[n - 1].trapped = "no" /\ E[n].trapped = "no" /\ Op(n) # "br" /\ E[n] = Evaluate(E[n - 1], n)
    BY <1>1, <2>1
  <2>3. LET g == Evaluate(E[n - 1], n)
        IN /\ IsEnv(g) /\ g.next = 1
           /\ g.unset = (E[n - 1].unset \/ ~(Operands(n) \subseteq DOMAIN E[n - 1].results))
           /\ g.trapped = "no" =>
                /\ Executed(E[n - 1], n, g)
                /\ g.saved = IF n \in clone.held \cup DOMAIN clone.assigns
                             THEN Updated(E[n - 1].saved, n, SavedFor(E[n - 1], n)) ELSE E[n - 1].saved
           /\ g.trapped = "added" => n \in DOMAIN clone.assigns /\ SeveralFactors(n)
    BY <1>2, <2>2, EvaluateStraight, Zenon
  <2>4. ~(n < E[n - 1].next)
    BY <1>2
  <2>5. Op(n) = "store" => Wrote(E[n - 1], n, E[n])
    BY <1>2, <2>2, <2>4, EvaluateWrites, Zenon
  <2>. QED  BY <2>2, <2>3, <2>5, Zenon DEF Saving
<1>3. 0 \in A
  OBVIOUS
<1>4. ASSUME NEW n \in A PROVE n + 1 \in A
  <2>1. SUFFICES ASSUME n + 1 <= Len(body) PROVE IsEnv(E[n + 1]) /\ E[n + 1].next = 1
    OBVIOUS
  <2>2. PICK m \in 1..Len(body) : m = n + 1 /\ m - 1 = n
    BY <1>1, <2>1
  <2>3. IsEnv(E[m - 1]) /\ E[m - 1].next = 1
    BY <1>1, <2>2
  <2>4. IsEnv(E[m]) /\ E[m].next = 1
    BY <1>2, <2>3, Zenon
  <2>. QED  BY <2>2, <2>4
<1>5. A = Nat
  <2>1. A \in SUBSET Nat
    OBVIOUS
  <2>. HIDE DEF A
  <2>. QED  BY <1>3, <1>4, <2>1, Induction
<1>6. ASSUME NEW n \in 1..Len(body) PROVE IsEnv(E[n - 1]) /\ E[n - 1].next = 1
  BY <1>1, <1>5
<1>. QED  BY <1>2, <1>6, Zenon DEF Ran

\* A result stays.
Res(E, k) == Result(E[k], k)

LEMMA ResultsStay ==
  ASSUME body \in Code, NEW E, Ran(E), NEW k \in 1..Len(body)
  PROVE  \A n \in k..Len(body) : Result(E[n], k) = Res(E, k)
<1>1. Len(body) \in Nat
  BY BodiesAreLists
<1>. DEFINE A == {n \in Nat : k <= n /\ n <= Len(body) => Result(E[n], k) = Res(E, k)}
<1>2. 0 \in A
  OBVIOUS
<1>3. ASSUME NEW n \in A PROVE n + 1 \in A
  <2>1. SUFFICES ASSUME k <= n + 1, n + 1 <= Len(body) PROVE Result(E[n + 1], k) = Res(E, k)
    OBVIOUS
  <2>2. CASE k = n + 1
    BY <2>2 DEF Res
  <2>3. CASE k # n + 1
    <3>1. PICK m \in 1..Len(body) : m = n + 1 /\ m - 1 = n
      BY <1>1, <2>1
    <3>2. Executed(E[m - 1], m, E[m])
      BY Zenon DEF Ran
    <3>3. k # 0 /\ k # m /\ k <= n /\ n <= Len(body)
      BY <1>1, <2>1, <2>3, <3>1
    <3>4. Result(E[m], k) = Result(E[m - 1], k)
      BY <3>2, <3>3, Zenon DEF Executed
    <3>5. Result(E[n], k) = Res(E, k)
      BY <3>3
    <3>. QED  BY <3>1, <3>4, <3>5
  <2>. QED  BY <2>2, <2>3
<1>4. A = Nat
  <2>1. A \in SUBSET Nat
    OBVIOUS
  <2>. HIDE DEF A
  <2>. QED  BY <1>2, <1>3, <2>1, Induction
<1>5. \A n \in k..Len(body) : n \in A /\ k <= n /\ n <= Len(body)
  BY <1>1, <1>4
<1>. QED  BY <1>5

\* An instruction finds the results of its operands and leaves its own.
LEMMA ResultsAre ==
  ASSUME body \in Code, NEW E, Ran(E), NEW i \in 1..Len(body)
  PROVE  /\ \A k \in 1..(i - 1) : Result(E[i - 1], k) = Res(E, k)
         /\ Op(i) \notin {"store", "br"} => Res(E, i) = Value(E[i - 1], i)
<1>1. Len(body) \in Nat
  BY BodiesAreLists
<1>2. \A k \in 1..(i - 1) : Result(E[i - 1], k) = Res(E, k)
  <2>1. \A k \in 1..(i - 1) : k \in 1..Len(body) /\ i - 1 \in k..Len(body)
    BY <1>1
  <2>. QED  BY <2>1, ResultsStay
<1>3. Op(i) \notin {"store", "br"} => Res(E, i) = Value(E[i - 1], i)
  <2>1. Executed(E[i - 1], i, E[i]) /\ E[i].trapped = "no"
    BY Zenon DEF Ran
  <2>2. /\ E[i].trapped = IF Traps(E[i - 1], i) THEN "source" ELSE "no"
        /\ Op(i) \notin {"store", "br"} /\ ~Traps(E[i - 1], i) => Result(E[i], i) = Value(E[i - 1], i)
    BY <2>1, Zenon DEF Executed
  <2>3. ~Traps(E[i - 1], i)
    BY <2>1, <2>2
  <2>. QED  BY <2>2, <2>3, Zenon DEF Res
<1>. QED  BY <1>2, <1>3

\* What is at a place stays there until something may store to it.
Readable(p, n) == (p[2] = 0 /\ p[1] \in Locals) \/ p[2] \in 1..n
Spares(t, p) == Op(t) = "store" => IF p[2] = 0 THEN body[t].var # p[1] ELSE IsLocal(t)

LEMMA ContentIsKept ==
  ASSUME body \in Code, NEW E, Ran(E), NEW i \in 1..Len(body), NEW p, Readable(p, i - 1), Spares(i, p)
  PROVE  Content(E[i], p) = Content(E[i - 1], p)
<1>1. Executed(E[i - 1], i, E[i]) /\ (Op(i) = "store" => Wrote(E[i - 1], i, E[i]))
  BY Zenon DEF Ran
<1>2. /\ IF Op(i) = "store" THEN Stored(E[i - 1], i, Result(E[i - 1], Arg(i, 1)), E[i])
         ELSE KeepsMemory(E[i - 1], E[i])
      /\ \A k : k # 0 /\ (k = i => Op(i) \in {"store", "br"}) => Result(E[i], k) = Result(E[i - 1], k)
  BY <1>1, Zenon DEF Executed
<1>3. CASE p[2] = 0
  <2>1. p[1] \in Locals
    BY <1>3 DEF Readable
  <2>2. E[i].mem[p[1]] = E[i - 1].mem[p[1]]
    <3>1. CASE Op(i) = "store"
      <4>1. body[i].var # p[1]
        BY <1>3, <3>1, Zenon DEF Spares
      <4>2. \A w \in Locals : E[i].mem[w] = IF w = body[i].var THEN Result(E[i - 1], Arg(i, 1))
                                           ELSE E[i - 1].mem[w]
        BY <1>2, <3>1, Zenon DEF Stored
      <4>. QED  BY <2>1, <4>1, <4>2
    <3>2. CASE Op(i) # "store"
      BY <1>2, <3>2, Zenon DEF KeepsMemory
    <3>. QED  BY <3>1, <3>2
  <2>. QED  BY <1>3, <2>2, Zenon DEF Content
<1>4. CASE p[2] # 0
  <2>1. p[2] \in 1..(i - 1)
    BY <1>4 DEF Readable
  <2>2. p[2] # i
    BY <2>1
  <2>3. Result(E[i], p[2]) = Result(E[i - 1], p[2])
    BY <1>2, <1>4, <2>2, Zenon
  <2>4. E[i].elems = E[i - 1].elems
    <3>1. CASE Op(i) = "store"
      <4>1. IsLocal(i)
        BY <1>4, <3>1, Zenon DEF Spares
      <4>. QED  BY <1>1, <3>1, <4>1, Zenon DEF Wrote
    <3>2. CASE Op(i) # "store"
      BY <1>2, <3>2, Zenon DEF KeepsMemory
    <3>. QED  BY <3>1, <3>2
  <2>. QED  BY <1>4, <2>3, <2>4, Zenon DEF Content
<1>. QED  BY <1>3, <1>4

LEMMA ContentStays ==
  ASSUME body \in Code, NEW E, Ran(E), NEW m \in 0..Len(body), NEW n \in m..Len(body),
         NEW p, Readable(p, m), \A t \in (m + 1)..n : Spares(t, p)
  PROVE  Content(E[n], p) = Content(E[m], p)
<1>1. Len(body) \in Nat /\ m \in Nat /\ n \in Nat
  BY BodiesAreLists
<1>. DEFINE A == {j \in Nat : m <= j /\ j <= n => Content(E[j], p) = Content(E[m], p)}
<1>2. 0 \in A
  <2>1. m <= 0 => m = 0
    BY <1>1
  <2>. QED  BY <2>1
<1>3. ASSUME NEW j \in A PROVE j + 1 \in A
  <2>1. SUFFICES ASSUME m <= j + 1, j + 1 <= n PROVE Content(E[j + 1], p) = Content(E[m], p)
    OBVIOUS
  <2>2. CASE m = j + 1
    BY <2>2
  <2>3. CASE m # j + 1
    <3>1. PICK i \in 1..Len(body) : i = j + 1 /\ i - 1 = j
      BY <1>1, <2>1
    <3>2. m <= j /\ j <= n /\ i \in (m + 1)..n
      BY <1>1, <2>1, <2>3, <3>1
    <3>3. Readable(p, i - 1)
      BY <1>1, <3>1, <3>2 DEF Readable
    <3>4. Content(E[i], p) = Content(E[i - 1], p)
      BY <3>2, <3>3, ContentIsKept
    <3>5. Content(E[j], p) = Content(E[m], p)
      BY <3>2
    <3>. QED  BY <3>1, <3>4, <3>5
  <2>. QED  BY <2>2, <2>3
<1>4. A = Nat
  <2>1. A \in SUBSET Nat
    OBVIOUS
  <2>. HIDE DEF A
  <2>. QED  BY <1>2, <1>3, <2>1, Induction
<1>5. n \in A /\ m <= n /\ n <= n
  BY <1>1, <1>4
<1>. QED  BY <1>5

\* A store leaves what it stores.
LEMMA StoreLeaves ==
  ASSUME body \in Code, NEW E, Ran(E), NEW m \in 1..Len(body), Op(m) = "store"
  PROVE  /\ Content(E[m], Pointer(m)) = Res(E, Arg(m, 1))
         /\ Readable(Pointer(m), m)
<1>1. Executed(E[m - 1], m, E[m]) /\ Wrote(E[m - 1], m, E[m])
  BY Zenon DEF Ran
<1>2. /\ Stored(E[m - 1], m, Result(E[m - 1], Arg(m, 1)), E[m])
      /\ \A k : k # 0 /\ (k = m => Op(m) \in {"store", "br"}) => Result(E[m], k) = Result(E[m - 1], k)
  BY <1>1, Zenon DEF Executed
<1>3. Arg(m, 1) \in 1..(m - 1)
  BY OperandsAreEarlier
<1>4. Result(E[m - 1], Arg(m, 1)) = Res(E, Arg(m, 1))
  BY <1>3, ResultsAre
<1>5. CASE IsLocal(m)
  <2>1. Pointer(m) = <<body[m].var, 0>> /\ body[m].var \in Locals
    BY <1>5, OperandsAreEarlier
  <2>2. Pointer(m)[1] = body[m].var /\ Pointer(m)[2] = 0
    BY <2>1
  <2>3. E[m].mem[body[m].var] = Result(E[m - 1], Arg(m, 1))
    BY <1>2, <2>1, Zenon DEF Stored
  <2>4. Content(E[m], Pointer(m)) = Res(E, Arg(m, 1))
    BY <1>4, <2>2, <2>3, Zenon DEF Content
  <2>. QED  BY <2>1, <2>2, <2>4, Zenon DEF Readable
<1>6. CASE ~IsLocal(m)
  <2>1. PICK k \in Operands(m) : Pointer(m) = <<"none", k>>
    BY <1>6, OperandsAreEarlier
  <2>2. Pointer(m)[2] = k /\ k \in 1..(m - 1)
    BY <2>1, OperandsAreEarlier
  <2>3. k # 0 /\ k # m /\ k \in 1..m
    BY <2>2
  <2>4. Result(E[m], k) = Result(E[m - 1], k)
    BY <1>2, <2>3, Zenon
  <2>. DEFINE x == Result(E[m - 1], k)
              v == Result(E[m - 1], Arg(m, 1))
  <2>5. E[m].elems = Updated(E[m - 1].elems, x, v)
    BY <1>1, <1>6, <2>2, Zenon DEF Wrote
  <2>6. Content(E[m], Pointer(m)) = At(E[m].elems, x)
    BY <2>2, <2>3, <2>4, Zenon DEF Content
  <2>. HIDE DEF x, v
  <2>7. At(E[m].elems, x) = v
    BY <2>5 DEF Updated, At
  <2>8. Content(E[m], Pointer(m)) = Res(E, Arg(m, 1))
    BY <1>4, <2>6, <2>7 DEF v
  <2>9. Readable(Pointer(m), m)
    BY <2>2, <2>3 DEF Readable
  <2>. QED  BY <2>8, <2>9
<1>. QED  BY <1>5, <1>6

\* A load finds what the store before it has stored, if nothing may store there between.
LEMMA LoadFinds ==
  ASSUME body \in Code, ReadsBackTheLast, NEW E, Ran(E), NEW i \in 1..Len(body), Op(i) = "load",
         MostRecentStore(i) # 0
  PROVE  Res(E, i) = Res(E, Arg(MostRecentStore(i), 1))
<1>. DEFINE m == MostRecentStore(i)
            p == Pointer(i)
<1>1. /\ m \in 1..Len(body) /\ m \in 0..(i - 1) /\ Op(m) = "store" /\ Pointer(m) = p
      /\ \A s \in 1..(i - 1) : Op(s) = "store" /\ Pointer(s) = p => s <= m
  BY StoreIsLatest
<1>2. Len(body) \in Nat
  BY BodiesAreLists
<1>3. Content(E[m], p) = Res(E, Arg(m, 1)) /\ Readable(p, m)
  <2>1. Content(E[m], Pointer(m)) = Res(E, Arg(m, 1)) /\ Readable(Pointer(m), m)
    BY <1>1, StoreLeaves, Zenon
  <2>. QED  BY <1>1, <2>1, Zenon
<1>4. ASSUME NEW t \in (m + 1)..(i - 1) PROVE Spares(t, p)
  <2>1. SUFFICES ASSUME Op(t) = "store" PROVE IF p[2] = 0 THEN body[t].var # p[1] ELSE IsLocal(t)
    BY Zenon DEF Spares
  <2>2. t \in 1..(i - 1) /\ t \in 1..Len(body) /\ m < t /\ t < i
    BY <1>1, <1>2
  <2>3. Pointer(t) # p
    <3>1. ~(t <= m)
      BY <1>1, <2>2
    <3>. QED  BY <1>1, <2>1, <2>2, <3>1, Zenon
  <2>4. CASE IsLocal(i)
    <3>1. p = <<body[i].var, 0>> /\ body[i].var \in Locals
      BY <2>4, OperandsAreEarlier
    <3>2. body[t].var # body[i].var
      <4>1. SUFFICES ASSUME body[t].var = body[i].var PROVE FALSE
        OBVIOUS
      <4>2. IsLocal(t)
        BY <2>4, <4>1, Zenon DEF IsLocal
      <4>3. Pointer(t) = <<body[t].var, 0>>
        BY <2>2, <4>2, OperandsAreEarlier
      <4>. QED  BY <2>3, <3>1, <4>1, <4>3
    <3>. QED  BY <3>1, <3>2
  <2>5. CASE ~IsLocal(i)
    <3>1. PICK k \in Operands(i) : p = <<"none", k>>
      BY <2>5, OperandsAreEarlier
    <3>2. k # 0
      BY OperandsAreEarlier
    <3>3. p[2] # 0
      BY <3>1, <3>2
    <3>4. i \in Those("load") /\ t \in Stores
      BY <2>1, <2>2, BodiesAreLists DEF Those, Stores
    <3>5. 0 < MostRecentStore(i) /\ MostRecentStore(i) < t
      BY <1>1, <2>2
    <3>6. IsLocal(t)
      BY <2>2, <2>5, <3>4, <3>5, Zenon DEF ReadsBackTheLast
    <3>. QED  BY <3>3, <3>6
  <2>. QED  BY <2>4, <2>5
<1>. HIDE DEF m, p
<1>5. m \in 0..Len(body) /\ i - 1 \in m..Len(body)
  BY <1>1, <1>2
<1>6. Content(E[i - 1], p) = Content(E[m], p)
  BY <1>3, <1>4, <1>5, ContentStays
<1>7. Res(E, i) = Content(E[i - 1], p)
  <2>1. Res(E, i) = Value(E[i - 1], i)
    BY ResultsAre
  <2>2. "load" \notin Operators
    BY DEF Operators
  <2>3. Value(E[i - 1], i) = Content(E[i - 1], p)
    BY <2>2 DEF Value, Reading, p
  <2>. QED  BY <2>1, <2>3
<1>. QED  BY <1>3, <1>6, <1>7 DEF m

LEMMA LoadsCases ==
  ASSUME NEW i, NEW L, NEW p, NEW up, NEW down, up \notin {"load", "store"}, down \notin {"load", "store"}
  PROVE  /\ i = 0 => LoadsOf(i, L, p, up, down) = NotFound
         /\ i # 0 /\ Op(i) = "load" /\ Pointer(i) = p => LoadsOf(i, L, p, up, down) = [NotFound EXCEPT !.load = i]
         /\ i # 0 /\ Op(i) = "load" /\ Pointer(i) # p => LoadsOf(i, L, p, up, down) = L[MostRecentStore(i)]
         /\ i # 0 /\ Op(i) = "store" =>
              LoadsOf(i, L, p, up, down) = IF Op(Arg(i, 1)) = "load" THEN L[Arg(i, 1)] ELSE NotFound
         /\ i # 0 /\ Op(i) \notin {up, down, "load", "store"} => LoadsOf(i, L, p, up, down) = NotFound
<1>1. i = 0 => LoadsOf(i, L, p, up, down) = NotFound
  BY DEF LoadsOf
<1>2. i # 0 /\ Op(i) = "load" /\ Pointer(i) = p => LoadsOf(i, L, p, up, down) = [NotFound EXCEPT !.load = i]
  BY DEF LoadsOf
<1>3. i # 0 /\ Op(i) = "load" /\ Pointer(i) # p => LoadsOf(i, L, p, up, down) = L[MostRecentStore(i)]
  BY DEF LoadsOf
<1>4. i # 0 /\ Op(i) = "store" =>
        LoadsOf(i, L, p, up, down) = IF Op(Arg(i, 1)) = "load" THEN L[Arg(i, 1)] ELSE NotFound
  BY DEF LoadsOf
<1>5. i # 0 /\ Op(i) \notin {up, down, "load", "store"} => LoadsOf(i, L, p, up, down) = NotFound
  BY DEF LoadsOf
<1>. QED  BY <1>1, <1>2, <1>3, <1>4, <1>5

LEMMA AssignmentCases ==
  ASSUME NEW i, NEW found, NEW L, NEW up, NEW down,
         up \notin {"load", "store"}, down \notin {"load", "store"}
  PROVE  /\ i = 0 => AssignmentOf(i, found, L, up, down) = NotFound
         /\ i # 0 /\ Op(i) = "load" => AssignmentOf(i, found, L, up, down) = found[MostRecentStore(i)]
         /\ i # 0 /\ Op(i) = "store" /\ Op(Arg(i, 1)) = "load" =>
              AssignmentOf(i, found, L, up, down) = found[Arg(i, 1)]
         /\ i # 0 /\ Op(i) = "store" /\ Op(Arg(i, 1)) \in {up, down} =>
              AssignmentOf(i, found, L, up, down) =
                IF L[Arg(i, 1)].load = 0 THEN NotFound ELSE [L[Arg(i, 1)] EXCEPT !.op = Arg(i, 1)]
         /\ i # 0 /\ Op(i) # "load" /\ ~(Op(i) = "store" /\ Op(Arg(i, 1)) \in {"load", up, down}) =>
              AssignmentOf(i, found, L, up, down) = NotFound
<1>1. i = 0 => AssignmentOf(i, found, L, up, down) = NotFound
  BY DEF AssignmentOf
<1>2. i # 0 /\ Op(i) = "load" => AssignmentOf(i, found, L, up, down) = found[MostRecentStore(i)]
  BY DEF AssignmentOf
<1>3. i # 0 /\ Op(i) = "store" /\ Op(Arg(i, 1)) = "load" =>
        AssignmentOf(i, found, L, up, down) = found[Arg(i, 1)]
  BY DEF AssignmentOf
<1>4. i # 0 /\ Op(i) = "store" /\ Op(Arg(i, 1)) \in {up, down} =>
        AssignmentOf(i, found, L, up, down) =
          IF L[Arg(i, 1)].load = 0 THEN NotFound ELSE [L[Arg(i, 1)] EXCEPT !.op = Arg(i, 1)]
  BY DEF AssignmentOf
<1>5. i # 0 /\ Op(i) # "load" /\ ~(Op(i) = "store" /\ Op(Arg(i, 1)) \in {"load", up, down}) =>
        AssignmentOf(i, found, L, up, down) = NotFound
  BY DEF AssignmentOf
<1>. QED  BY <1>1, <1>2, <1>3, <1>4, <1>5

\* What an instruction passes on: its result, or what it stores.
Passed(E, i) == IF Op(i) = "store" THEN Res(E, Arg(i, 1)) ELSE Res(E, i)

LEMMA PassedOn ==
  ASSUME body \in Code, ReadsBackTheLast, NEW E, Ran(E), NEW i \in 1..Len(body)
  PROVE  /\ Op(i) = "load" /\ MostRecentStore(i) # 0 => Passed(E, i) = Passed(E, MostRecentStore(i))
         /\ Op(i) = "store" => Passed(E, i) = Res(E, Arg(i, 1)) /\ Passed(E, i) = Passed(E, Arg(i, 1))
<1>1. Op(i) = "load" /\ MostRecentStore(i) # 0 => Passed(E, i) = Passed(E, MostRecentStore(i))
  <2>1. SUFFICES ASSUME Op(i) = "load", MostRecentStore(i) # 0
                 PROVE  Passed(E, i) = Passed(E, MostRecentStore(i))
    OBVIOUS
  <2>2. Op(MostRecentStore(i)) = "store"
    BY <2>1, StoreIsLatest
  <2>3. Res(E, i) = Res(E, Arg(MostRecentStore(i), 1))
    BY <2>1, LoadFinds
  <2>. QED  BY <2>1, <2>2, <2>3 DEF Passed
<1>2. Op(i) = "store" => Passed(E, i) = Res(E, Arg(i, 1)) /\ Passed(E, i) = Passed(E, Arg(i, 1))
  <2>1. Op(i) = "store" => Op(Arg(i, 1)) # "store"
    BY OperandsAreEarlier
  <2>. QED  BY <2>1 DEF Passed
<1>. QED  BY <1>1, <1>2

\* What is found by itself of an operand is the variable that is loaded.
IsLoaded(E, a, p, i) ==
  a.load # 0 =>
    /\ a.load \in 1..i /\ Op(a.load) = "load" /\ Pointer(a.load) = p
    /\ a.inc = <<>> /\ a.dec = <<>> => Passed(E, i) = Res(E, a.load)

LEMMA LoadsAreLoaded ==
  ASSUME body \in Code, ReadsBackTheLast, NEW E, Ran(E), NEW up \in Operators, NEW down \in Operators,
         up # down, NEW p
  PROVE  \A i \in 1..Len(body) : IsLoaded(E, Loads(p, up, down)[i], p, i)
<1>. DEFINE L == Loads(p, up, down)
            A == {n \in Nat : \A i \in 1..Len(body) : i <= n => IsLoaded(E, L[i], p, i)}
<1>1. Len(body) \in Nat
  BY BodiesAreLists
<1>2. \A i \in 0..Len(body) : L[i] = LoadsOf(i, L, p, up, down)
  BY LoadsUnfold
<1>3. L[0].load = 0
  <2>1. L[0] = LoadsOf(0, L, p, up, down)
    <3>. HIDE DEF L
    <3>1. 0 \in 0..Len(body)
      BY <1>1
    <3>. QED  BY <1>2, <3>1
  <2>2. LoadsOf(0, L, p, up, down) = NotFound
    BY DEF LoadsOf
  <2>3. L[0] = NotFound
    BY <2>1, <2>2, Zenon
  <2>. HIDE DEF L
  <2>. QED  BY <2>3 DEF NotFound
<1>4. up \notin {"load", "store"} /\ down \notin {"load", "store"}
  BY DEF Operators
<1>5. 0 \in A
  OBVIOUS
<1>6. ASSUME NEW i \in 1..Len(body), NEW j \in 1..(i - 1), IsLoaded(E, L[j], p, j),
             L[i] = L[j], Passed(E, i) = Passed(E, j)
      PROVE  IsLoaded(E, L[i], p, i)
  <2>. HIDE DEF L
  <2>1. \A k \in 1..j : k \in 1..i
    OBVIOUS
  <2>. QED  BY <1>6, <2>1, Zenon DEF IsLoaded
<1>7. ASSUME NEW n \in A PROVE n + 1 \in A
  <2>1. SUFFICES ASSUME NEW i \in 1..Len(body), i = n + 1 PROVE IsLoaded(E, L[i], p, i)
    <3>1. \A i \in 1..Len(body) : i <= n + 1 => i <= n \/ i = n + 1
      BY <1>1
    <3>. HIDE DEF L
    <3>. QED  BY <2>1, <3>1
  <2>2. \A j \in 1..(i - 1) : j \in 1..Len(body) /\ IsLoaded(E, L[j], p, j)
    <3>1. \A j \in 1..(i - 1) : j \in 1..Len(body) /\ j <= n
      BY <1>1, <2>1
    <3>. HIDE DEF L
    <3>. QED  BY <3>1
  <2>3. L[i] = LoadsOf(i, L, p, up, down) /\ i # 0
    <3>1. i \in 0..Len(body) /\ i # 0
      BY <1>1
    <3>. HIDE DEF L
    <3>. QED  BY <1>2, <3>1
  <2>. HIDE DEF A, L
  <2>4. SUFFICES ASSUME L[i].load # 0 PROVE IsLoaded(E, L[i], p, i)
    BY Zenon DEF IsLoaded
  <2>5. L[i] # NotFound
    BY <2>4 DEF NotFound
  <2>6. CASE Op(i) = "load" /\ Pointer(i) = p
    <3>1. L[i] = [NotFound EXCEPT !.load = i]
      BY <1>4, <2>3, <2>6, LoadsCases
    <3>2. L[i].load = i
      BY <3>1 DEF NotFound
    <3>3. Passed(E, i) = Res(E, i)
      BY <2>6 DEF Passed
    <3>4. i \in 1..i
      OBVIOUS
    <3>. QED  BY <2>6, <3>2, <3>3, <3>4 DEF IsLoaded
  <2>7. CASE Op(i) = "load" /\ Pointer(i) # p
    <3>. DEFINE m == MostRecentStore(i)
    <3>1. L[i] = L[m]
      BY <1>4, <2>3, <2>7, LoadsCases
    <3>2. m # 0
      BY <1>3, <2>4, <3>1
    <3>3. m \in 1..(i - 1)
      BY <3>2, StoreIsLatest
    <3>4. Passed(E, i) = Passed(E, m)
      BY <2>7, <3>2, PassedOn
    <3>. HIDE DEF m
    <3>. QED  BY <1>6, <2>2, <3>1, <3>3, <3>4
  <2>8. CASE Op(i) = "store"
    <3>. DEFINE m == Arg(i, 1)
    <3>1. L[i] = IF Op(m) = "load" THEN L[m] ELSE NotFound
      BY <1>4, <2>3, <2>8, LoadsCases
    <3>2. L[i] = L[m]
      BY <2>5, <3>1
    <3>3. m \in 1..(i - 1)
      BY <2>8, OperandsAreEarlier
    <3>4. Passed(E, i) = Passed(E, m)
      BY <2>8, PassedOn
    <3>. HIDE DEF m
    <3>. QED  BY <1>6, <2>2, <3>2, <3>3, <3>4
  <2>9. CASE Op(i) \in {up, down}
    <3>1. LET M == Loads(p, up, down)
          IN \E a, b \in Operands(i) :
               /\ \/ a = Arg(i, 1) /\ b = Arg(i, 2)
                  \/ Op(i) = up /\ a = Arg(i, 2) /\ b = Arg(i, 1)
               /\ M[a].load # 0 /\ M[i].load = M[a].load
               /\ Len(Changes(M[i])) \in Nat \ {0}
               /\ Len(Changes(M[i])) = 1 => M[a].inc = <<>> /\ M[a].dec = <<>> /\ Changes(M[i])[1] = b
      <4>1. Loads(p, up, down)[i].load # 0
        BY <2>4 DEF L
      <4>. QED  BY <2>9, <4>1, OperationsAddOne
    <3>2. PICK a \in Operands(i) : /\ L[a].load # 0 /\ L[i].load = L[a].load
                                   /\ Len(Changes(L[i])) \in Nat \ {0}
      BY <3>1, Zenon DEF L
    <3>3. a \in 1..(i - 1)
      BY OperandsAreEarlier
    <3>4. /\ L[a].load \in 1..a /\ Op(L[a].load) = "load" /\ Pointer(L[a].load) = p
      BY <2>2, <3>2, <3>3, Zenon DEF IsLoaded
    <3>5. ~(L[i].inc = <<>> /\ L[i].dec = <<>>)
      <4>1. SUFFICES ASSUME L[i].inc = <<>>, L[i].dec = <<>> PROVE FALSE
        OBVIOUS
      <4>2. Changes(L[i]) = <<>> \o <<>>
        BY <4>1, Zenon DEF Changes
      <4>3. Len(<<>> \o <<>>) = 0
        OBVIOUS
      <4>4. Len(Changes(L[i])) = 0
        BY <4>2, <4>3, Zenon
      <4>. QED  BY <3>2, <4>4
    <3>6. L[a].load \in 1..i
      BY <3>3, <3>4
    <3>. QED  BY <3>2, <3>4, <3>5, <3>6, Zenon DEF IsLoaded
  <2>10. CASE Op(i) \notin {up, down, "load", "store"}
    <3>1. L[i] = NotFound
      BY <1>4, <2>3, <2>10, LoadsCases
    <3>. QED  BY <2>5, <3>1
  <2>. QED  BY <2>6, <2>7, <2>8, <2>9, <2>10
<1>8. A = Nat
  <2>1. A \in SUBSET Nat
    BY DEF A
  <2>. HIDE DEF A
  <2>. QED  BY <1>5, <1>7, <2>1, Induction
<1>9. ASSUME NEW i \in 1..Len(body) PROVE IsLoaded(E, L[i], p, i)
  <2>1. i \in A /\ i <= i
    BY <1>1, <1>8
  <2>. QED  BY <2>1, Zenon
<1>. QED  BY <1>9, Zenon DEF L

\* The operation that is found of a store computes what it stores.
LEMMA AssignmentsArePassed ==
  ASSUME body \in Code, ReadsBackTheLast, NEW E, Ran(E), NEW up \in Operators, NEW down \in Operators,
         NEW s \in 1..Len(body), Op(s) = "store", Assignment(s, up, down).op # 0
  PROVE  Res(E, Arg(s, 1)) = Res(E, Assignment(s, up, down).op)
<1>. DEFINE L == Loads(Pointer(s), up, down)
<1>1. Len(body) \in Nat
  BY BodiesAreLists
<1>2. PICK found : /\ Assignment(s, up, down) = found[s]
                   /\ \A i \in 0..Len(body) : found[i] = AssignmentOf(i, found, L, up, down)
  BY AssignmentUnfolds
<1>3. \A i \in 0..Len(body) : L[i] \in Finding
  BY LoadsAreFindings
<1>. HIDE DEF L
<1>. DEFINE A == {n \in Nat : \A i \in 1..Len(body) :
                    i <= n /\ found[i].op # 0 => Passed(E, i) = Res(E, found[i].op)}
<1>4. found[0].op = 0
  <2>1. found[0] = NotFound
    <3>1. AssignmentOf(0, found, L, up, down) = NotFound
      BY DEF AssignmentOf
    <3>2. 0 \in 0..Len(body)
      BY <1>1
    <3>. QED  BY <1>2, <3>1, <3>2
  <2>. QED  BY <2>1 DEF NotFound
<1>5. 0 \in A
  OBVIOUS
<1>6. up \notin {"load", "store"} /\ down \notin {"load", "store"}
  BY DEF Operators
<1>7. ASSUME NEW n \in A PROVE n + 1 \in A
  <2>1. SUFFICES ASSUME NEW i \in 1..Len(body), i = n + 1, found[i].op # 0
                 PROVE  Passed(E, i) = Res(E, found[i].op)
    <3>1. \A i \in 1..Len(body) : i <= n + 1 => i <= n \/ i = n + 1
      BY <1>1
    <3>. QED  BY <2>1, <3>1
  <2>2. ASSUME NEW j \in 1..(i - 1), found[j].op # 0
        PROVE  Passed(E, j) = Res(E, found[j].op)
    <3>1. j \in 1..Len(body) /\ j <= n
      BY <1>1, <2>1
    <3>. QED  BY <2>2, <3>1
  <2>3. found[i] = AssignmentOf(i, found, L, up, down) /\ i # 0
    <3>1. i \in 0..Len(body) /\ i # 0
      BY <1>1
    <3>. QED  BY <1>2, <3>1
  <2>. HIDE DEF A
  <2>5. found[i] # NotFound
    BY <2>1 DEF NotFound
  <2>6. CASE Op(i) = "load"
    <3>. DEFINE m == MostRecentStore(i)
    <3>1. found[i] = found[m]
      BY <1>6, <2>3, <2>6, AssignmentCases
    <3>2. m # 0
      BY <1>4, <2>1, <3>1
    <3>3. m \in 1..(i - 1)
      BY <3>2, StoreIsLatest
    <3>4. Passed(E, i) = Passed(E, m)
      BY <2>6, <3>2, PassedOn
    <3>. HIDE DEF m
    <3>. QED  BY <2>1, <2>2, <3>1, <3>3, <3>4
  <2>7. CASE Op(i) = "store" /\ Op(Arg(i, 1)) = "load"
    <3>. DEFINE m == Arg(i, 1)
    <3>1. found[i] = found[m]
      BY <1>6, <2>3, <2>7, AssignmentCases
    <3>3. m \in 1..(i - 1)
      BY <2>7, OperandsAreEarlier
    <3>4. Passed(E, i) = Passed(E, m)
      BY <2>7, PassedOn
    <3>. HIDE DEF m
    <3>. QED  BY <2>1, <2>2, <3>1, <3>3, <3>4
  <2>8. CASE Op(i) = "store" /\ Op(Arg(i, 1)) \in {up, down}
    <3>. DEFINE m == Arg(i, 1)
    <3>1. Op(m) # "load"
      BY <1>6, <2>8
    <3>2. found[i] = IF L[m].load = 0 THEN NotFound ELSE [L[m] EXCEPT !.op = m]
      BY <1>6, <2>3, <2>8, <3>1, AssignmentCases
    <3>3. m \in 0..Len(body)
      BY <1>1, <2>8, OperandsAreEarlier
    <3>4. found[i] = [L[m] EXCEPT !.op = m]
      BY <2>5, <3>2
    <3>. HIDE DEF m
    <3>5. found[i].op = m
      BY <1>3, <3>3, <3>4 DEF Finding
    <3>6. Passed(E, i) = Res(E, m)
      BY <2>8, PassedOn DEF m
    <3>. QED  BY <3>5, <3>6
  <2>9. CASE ~(Op(i) = "load") /\ ~(Op(i) = "store" /\ Op(Arg(i, 1)) \in {"load", up, down})
    <3>1. found[i] = NotFound
      BY <1>6, <2>3, <2>9, AssignmentCases
    <3>. QED  BY <2>5, <3>1
  <2>. QED  BY <2>6, <2>7, <2>8, <2>9
<1>8. A = Nat
  <2>1. A \in SUBSET Nat
    OBVIOUS
  <2>. HIDE DEF A
  <2>. QED  BY <1>5, <1>7, <2>1, Induction
<1>9. Passed(E, s) = Res(E, found[s].op)
  <2>1. s \in A /\ s <= s
    BY <1>1, <1>8
  <2>2. found[s].op # 0
    BY <1>2, Zenon
  <2>. QED  BY <2>1, <2>2
<1>10. Passed(E, s) = Res(E, Arg(s, 1))
  BY Zenon DEF Passed
<1>. QED  BY <1>2, <1>9, <1>10, Zenon

-----------------------------------------------------------------------------
(* What is saved for an assignment is what its variable gains.             *)

\* What a variable gains if the value that is saved for its assignment is repeated.
Gain(s, y) == IF Op(clone.assigns[s].op) = "+" THEN Wrap(y) ELSE Wrap(-y)

\* The only store to a local that is assigned to.
LEMMA AccumulatesParts ==
  ASSUME body \in Code, clone \in Clone, NEW s \in DOMAIN clone.assigns, Accumulates(s)
  PROVE  LET a == clone.assigns[s]
         IN /\ s \in 1..Len(body) /\ Op(s) = "store" /\ Pointer(s) = <<body[s].var, 0>>
            /\ body[s].var \in Locals
            /\ \A t \in 1..Len(body) : Op(t) = "store" /\ t # s => body[t].var # body[s].var
            /\ Op(a.op) \in {"+", "-"} /\ a.op \in 1..(s - 1)
            /\ a = Assignment(s, "+", "-") /\ Found(a, Pointer(s), "+", "-", s)
<1>. DEFINE a == clone.assigns[s]
<1>1. s \in CmpdAssignStores /\ a = CmpdAssign(s)
  BY CloneParts
<1>2. Op(a.op) \in {"+", "-"} /\ IsLocal(s) /\ \A t \in Stores \ {s} : body[t].var # body[s].var
  BY Zenon DEF Accumulates
<1>3. /\ s \in 1..Len(body) /\ Op(s) = "store" /\ a.op \in 1..(s - 1)
      /\ Found(a, Pointer(s), "+", "-", s)
  <2>1. /\ s \in 1..Len(body) /\ Op(s) = "store"
        /\ CmpdAssign(s).op \in 1..(s - 1)
        /\ IF Op(CmpdAssign(s).op) \in {"+", "-"}
           THEN Found(CmpdAssign(s), Pointer(s), "+", "-", s)
           ELSE Found(CmpdAssign(s), Pointer(s), "*", "/", s)
    BY <1>1, CmpdAssignsAreOperations, Zenon
  <2>. HIDE DEF a
  <2>. QED  BY <1>1, <1>2, <2>1, Zenon
<1>4. Pointer(s) = <<body[s].var, 0>> /\ body[s].var \in Locals
  BY <1>2, <1>3, OperandsAreEarlier
<1>5. \A t \in 1..Len(body) : Op(t) = "store" /\ t # s => body[t].var # body[s].var
  BY <1>2, BodiesAreLists DEF Stores, Those
<1>6. a = Assignment(s, "+", "-")
  <2>1. a = IF Assignment(s, "+", "-").op # 0 THEN Assignment(s, "+", "-") ELSE Assignment(s, "*", "/")
    BY <1>1, Zenon DEF CmpdAssign
  <2>. HIDE DEF a
  <2>2. ASSUME a = Assignment(s, "*", "/") PROVE FALSE
    <3>1. Assignment(s, "*", "/").op # 0
      BY <1>3, <2>2
    <3>2. "*" \in Operators /\ "/" \in Operators
      BY DEF Operators
    <3>3. Found(Assignment(s, "*", "/"), Pointer(s), "*", "/", s)
      BY <1>3, <3>1, <3>2, AssignmentsAreOperations, Zenon
    <3>4. Op(Assignment(s, "*", "/").op) \in {"*", "/"}
      BY <3>3, Zenon DEF Found
    <3>. QED  BY <1>2, <2>2, <3>4
  <2>. QED  BY <2>1, <2>2
<1>. QED  BY <1>2, <1>3, <1>4, <1>5, <1>6

\* What is saved stays until the end.
LEMMA SavedStays ==
  ASSUME body \in Code, NEW E, Ran(E), NEW s \in DOMAIN clone.assigns, s \in 1..Len(body)
  PROVE  At(E[Len(body)].saved, s) = SavedFor(E[s - 1], s)
<1>1. Len(body) \in Nat
  BY BodiesAreLists
<1>. DEFINE A == {n \in Nat : s <= n /\ n <= Len(body) => At(E[n].saved, s) = SavedFor(E[s - 1], s)}
<1>2. 0 \in A
  BY <1>1
<1>3. ASSUME NEW n \in A PROVE n + 1 \in A
  <2>1. SUFFICES ASSUME s <= n + 1, n + 1 <= Len(body)
                 PROVE  At(E[n + 1].saved, s) = SavedFor(E[s - 1], s)
    OBVIOUS
  <2>2. PICK i \in 1..Len(body) : i = n + 1 /\ i - 1 = n
    BY <1>1, <2>1
  <2>3. Saving(E[i - 1], i, E[i])
    BY Zenon DEF Ran
  <2>4. CASE i = s
    <3>1. E[s].saved = Updated(E[s - 1].saved, s, SavedFor(E[s - 1], s))
      BY <2>3, <2>4, Zenon DEF Saving
    <3>2. At(E[s].saved, s) = SavedFor(E[s - 1], s)
      <4>. DEFINE v == SavedFor(E[s - 1], s)
      <4>1. E[s].saved = Updated(E[s - 1].saved, s, v)
        BY <3>1
      <4>. HIDE DEF v
      <4>2. At(E[s].saved, s) = v
        BY <4>1 DEF Updated, At
      <4>. QED  BY <4>2 DEF v
    <3>. QED  BY <2>2, <2>4, <3>2
  <2>5. CASE i # s
    <3>1. s <= n /\ n <= Len(body)
      BY <1>1, <2>1, <2>2, <2>5
    <3>2. At(E[n].saved, s) = SavedFor(E[s - 1], s)
      BY <3>1
    <3>3. \/ E[i].saved = E[i - 1].saved
          \/ \E v : E[i].saved = Updated(E[i - 1].saved, i, v)
      BY <2>3, Zenon DEF Saving
    <3>4. At(E[i].saved, s) = At(E[i - 1].saved, s)
      BY <2>5, <3>3 DEF Updated, At
    <3>. QED  BY <2>2, <3>2, <3>4
  <2>. QED  BY <2>4, <2>5
<1>4. A = Nat
  <2>1. A \in SUBSET Nat
    OBVIOUS
  <2>. HIDE DEF A
  <2>. QED  BY <1>2, <1>3, <2>1, Induction
<1>5. Len(body) \in A /\ s <= Len(body) /\ Len(body) <= Len(body)
  BY <1>1, <1>4
<1>. QED  BY <1>5

\* The variable before and after.
LEMMA BeforeAndAfter ==
  ASSUME body \in Code, clone \in Clone, NEW E, Ran(E),
         NEW s \in DOMAIN clone.assigns, Accumulates(s)
  PROVE  /\ E[Len(body)].mem[body[s].var] = Res(E, Arg(s, 1))
         /\ \A l \in 1..(s - 1) : Op(l) = "load" /\ Pointer(l) = Pointer(s) =>
              Res(E, l) = E[0].mem[body[s].var]
<1>. DEFINE v == body[s].var
            p == Pointer(s)
<1>1. /\ s \in 1..Len(body) /\ Op(s) = "store" /\ p = <<v, 0>> /\ v \in Locals
      /\ \A t \in 1..Len(body) : Op(t) = "store" /\ t # s => body[t].var # v
  BY AccumulatesParts
<1>2. Len(body) \in Nat
  BY BodiesAreLists
<1>. HIDE DEF v, p
<1>3. p[1] = v /\ p[2] = 0
  BY <1>1
<1>4. \A n : Readable(p, n) /\ Content(E[n], p) = E[n].mem[v]
  BY <1>1, <1>3, Zenon DEF Readable, Content
<1>5. \A t \in 1..Len(body) : t # s => Spares(t, p)
  BY <1>1, <1>3, Zenon DEF Spares
<1>6. E[Len(body)].mem[v] = Res(E, Arg(s, 1))
  <2>1. \A t \in (s + 1)..Len(body) : Spares(t, p)
    BY <1>1, <1>2, <1>5
  <2>2. s \in 0..Len(body) /\ Len(body) \in s..Len(body)
    BY <1>1, <1>2
  <2>3. Content(E[Len(body)], p) = Content(E[s], p)
    BY <1>4, <2>1, <2>2, ContentStays
  <2>4. Content(E[s], p) = Res(E, Arg(s, 1))
    BY <1>1, StoreLeaves, Zenon DEF p
  <2>. QED  BY <1>4, <2>3, <2>4
<1>7. ASSUME NEW l \in 1..(s - 1), Op(l) = "load", Pointer(l) = p
      PROVE  Res(E, l) = E[0].mem[v]
  <2>1. \A t \in (0 + 1)..(l - 1) : Spares(t, p)
    <3>1. \A t \in (0 + 1)..(l - 1) : t \in 1..Len(body) /\ t # s
      BY <1>1, <1>2
    <3>. QED  BY <1>5, <3>1, Zenon
  <2>2. 0 \in 0..Len(body) /\ l - 1 \in 0..Len(body) /\ l \in 1..Len(body)
    BY <1>1, <1>2
  <2>3. Content(E[l - 1], p) = Content(E[0], p)
    BY <1>4, <2>1, <2>2, ContentStays
  <2>4. "load" \notin Operators
    BY DEF Operators
  <2>5. Value(E[l - 1], l) = Content(E[l - 1], p)
    BY <1>7, <2>4 DEF Value, Reading
  <2>6. Res(E, l) = Value(E[l - 1], l)
    BY <1>7, <2>2, ResultsAre
  <2>. QED  BY <1>4, <2>3, <2>5, <2>6
<1>. QED  BY <1>6, <1>7 DEF v, p

\* Integers: two ways round to a difference, and what an operation adds.
LEMMA GainsCancel ==
  ASSUME NEW s, NEW m \in Int, NEW y \in Int, Op(clone.assigns[s].op) \in {"+", "-"}
  PROVE  /\ Op(clone.assigns[s].op) = "+" => Wrap(Wrap(m + y) - m) = Gain(s, y)
         /\ Op(clone.assigns[s].op) = "-" => Wrap(Wrap(m - y) - m) = Gain(s, y)
         /\ Op(clone.assigns[s].op) = "+" => Wrap(y - m) = Gain(s, Wrap(y - m))
         /\ Op(clone.assigns[s].op) = "-" => Wrap(y - m) = Gain(s, Wrap(m - y))
<1>1. /\ Wrap(Wrap(m + y) - m) = Wrap(y) /\ Wrap(Wrap(m - y) - m) = Wrap(-y)
      /\ Wrap(-Wrap(m - y)) = Wrap(y - m) /\ Wrap(Wrap(y - m)) = Wrap(y - m)
  BY WrapsCancel
<1>. QED  BY <1>1 DEF Gain

LEMMA GainIsSaved ==
  ASSUME body \in Code, clone \in Clone, ReadsBackTheLast, NEW E, Ran(E),
         \A n \in 0..Len(body) : Num(E[n]),
         NEW s \in DOMAIN clone.assigns, Accumulates(s)
  PROVE  LET v == body[s].var
         IN Wrap(E[Len(body)].mem[v] - E[0].mem[v]) = Gain(s, At(E[Len(body)].saved, s))
<1>. DEFINE a == clone.assigns[s]
            o == a.op
            v == body[s].var
            p == Pointer(s)
            m == E[0].mem[v]
            z == E[Len(body)].mem[v]
            L == Loads(p, "+", "-")
<1>1. Len(body) \in Nat
  BY BodiesAreLists
<1>2. /\ s \in 1..Len(body) /\ Op(s) = "store" /\ v \in Locals
      /\ Op(o) \in {"+", "-"} /\ o \in 1..(s - 1)
      /\ a = Assignment(s, "+", "-") /\ Found(a, p, "+", "-", s)
  BY AccumulatesParts
<1>3. "+" \in Operators /\ "-" \in Operators /\ o # 0 /\ o \in 1..Len(body)
  BY <1>1, <1>2 DEF Operators
<1>4. m \in Int /\ z \in Int
  <2>1. 0 \in 0..Len(body) /\ Len(body) \in 0..Len(body)
    BY <1>1
  <2>. QED  BY <1>2, <2>1, Zenon DEF Num
<1>5. z = Res(E, Arg(s, 1)) /\ \A l \in 1..(s - 1) : Op(l) = "load" /\ Pointer(l) = p => Res(E, l) = m
  BY BeforeAndAfter
<1>6. z = Res(E, o)
  <2>1. Assignment(s, "+", "-").op # 0 /\ o = Assignment(s, "+", "-").op
    BY <1>2, <1>3, Zenon
  <2>2. Res(E, Arg(s, 1)) = Res(E, Assignment(s, "+", "-").op)
    BY <1>2, <1>3, <2>1, AssignmentsArePassed, Zenon
  <2>. QED  BY <1>5, <2>1, <2>2, Zenon
<1>7. \A i \in 1..Len(body) : IsLoaded(E, L[i], p, i)
  BY <1>3, LoadsAreLoaded
<1>8. /\ a.load # 0 /\ a.load \in 1..(s - 1) /\ Res(E, a.load) = m
  <2>1. L[o].load # 0 /\ a = [L[o] EXCEPT !.op = o]
    BY <1>2, Zenon DEF Found
  <2>2. L[o] \in Finding
    <3>1. o \in 0..Len(body)
      BY <1>3
    <3>. QED  BY <1>3, <3>1, LoadsAreFindings
  <2>. HIDE DEF L, p, v
  <2>3. a.load = L[o].load
    <3>. HIDE DEF a, o
    <3>. QED  BY <2>1, <2>2 DEF Finding
  <2>4. L[o].load \in 1..o /\ Op(L[o].load) = "load" /\ Pointer(L[o].load) = p
    BY <1>3, <1>7, <2>1, Zenon DEF IsLoaded
  <2>5. a.load \in 1..(s - 1) /\ Op(a.load) = "load" /\ Pointer(a.load) = p
    <3>1. \A l \in 1..o : l \in 1..(s - 1)
      BY <1>2
    <3>. QED  BY <2>3, <2>4, <3>1, Zenon
  <2>. QED  BY <1>5, <2>1, <2>3, <2>5, Zenon
<1>9. At(E[Len(body)].saved, s) = SavedFor(E[s - 1], s)
  BY <1>2, SavedStays
<1>10. \A k \in 1..(s - 1) : Result(E[s - 1], k) = Res(E, k)
  BY <1>2, ResultsAre
<1>11. Arg(s, 1) \in 1..(s - 1)
  BY <1>2, OperandsAreEarlier
<1>12. CASE Len(Changes(a)) # 1
  <2>1. SavedFor(E[s - 1], s) = Computed("-", IF Op(o) = "+" THEN z ELSE m, IF Op(o) = "+" THEN m ELSE z)
    <3>1. Result(E[s - 1], Arg(s, 1)) = z /\ Result(E[s - 1], a.load) = m
      BY <1>5, <1>8, <1>10, <1>11, Zenon
    <3>. HIDE DEF z, m
    <3>2. Op(a.op) \in {"+", "*"} <=> Op(o) = "+"
      BY <1>2
    <3>3. (IF Op(a.op) \in {"+", "-"} THEN "-" ELSE "/") = "-"
      BY <1>2
    <3>. QED  BY <1>12, <3>1, <3>2, <3>3, Zenon DEF SavedFor
  <2>2. \A x, y : Computed("-", x, y) = Wrap(x - y)
    BY DEF Computed
  <2>. HIDE DEF m, z, o, a
  <2>3. /\ Op(o) = "+" => SavedFor(E[s - 1], s) = Wrap(z - m)
        /\ Op(o) = "-" => SavedFor(E[s - 1], s) = Wrap(m - z)
    BY <2>1, <2>2
  <2>4. /\ Op(o) = "+" => Wrap(z - m) = Gain(s, Wrap(z - m))
        /\ Op(o) = "-" => Wrap(z - m) = Gain(s, Wrap(m - z))
    <3>1. Op(clone.assigns[s].op) \in {"+", "-"}
      BY <1>2 DEF o, a
    <3>2. /\ Op(clone.assigns[s].op) = "+" => Wrap(z - m) = Gain(s, Wrap(z - m))
          /\ Op(clone.assigns[s].op) = "-" => Wrap(z - m) = Gain(s, Wrap(m - z))
      BY <1>4, <3>1, GainsCancel
    <3>. QED  BY <3>2, Zenon DEF o, a
  <2>5. Wrap(z - m) = Gain(s, SavedFor(E[s - 1], s))
    BY <1>2, <2>3, <2>4
  <2>. QED  BY <1>9, <2>5, Zenon DEF z, m
<1>13. CASE Len(Changes(a)) = 1
  <2>1. Finds(a, o, "+", "-", p)
    <3>1. s \in CmpdAssignStores /\ a = CmpdAssign(s)
      BY CloneParts
    <3>. HIDE DEF a, p
    <3>2. Finds(CmpdAssign(s), CmpdAssign(s).op, "+", "-", Pointer(s))
      BY <1>2, <3>1, AssignParts
    <3>. QED  BY <3>1, <3>2, Zenon DEF p
  <2>2. PICK x \in Operands(o), y \in Operands(o) :
               /\ (x = Arg(o, 1) /\ y = Arg(o, 2)) \/ (Op(o) = "+" /\ x = Arg(o, 2) /\ y = Arg(o, 1))
               /\ L[x].load # 0 /\ a.load = L[x].load
               /\ L[x].inc = <<>> /\ L[x].dec = <<>>
               /\ Changes(a)[1] = y
    BY <1>13, <2>1, Zenon DEF Finds
  <2>3. /\ x \in 1..(o - 1) /\ Op(x) \notin {"store", "br"}
        /\ y \in 1..(o - 1) /\ Op(y) \notin {"store", "br"}
    BY <1>3, OperandsAreEarlier
  <2>4. x \in 1..Len(body) /\ y \in 1..(s - 1)
    BY <1>1, <1>2, <2>3
  <2>5. Res(E, x) = m
    <3>1. Passed(E, x) = Res(E, L[x].load)
      BY <1>7, <2>2, <2>4, Zenon DEF IsLoaded
    <3>2. Passed(E, x) = Res(E, x)
      BY <2>3 DEF Passed
    <3>. QED  BY <1>8, <2>2, <3>1, <3>2, Zenon
  <2>6. SavedFor(E[s - 1], s) = Res(E, y)
    <3>1. SavedFor(E[s - 1], s) = Result(E[s - 1], Changes(a)[1])
      BY <1>13, Zenon DEF SavedFor
    <3>. QED  BY <1>10, <2>2, <2>4, <3>1, Zenon
  <2>7. z = Computed(Op(o), Res(E, Arg(o, 1)), Res(E, Arg(o, 2)))
    <3>1. Op(o) \in Operators /\ Op(o) \notin {"store", "br"}
      BY <1>2, <1>3
    <3>2. Res(E, o) = Value(E[o - 1], o) /\ \A k \in 1..(o - 1) : Result(E[o - 1], k) = Res(E, k)
      BY <1>3, <3>1, ResultsAre
    <3>3. Value(E[o - 1], o) = Computed(Op(o), Result(E[o - 1], Arg(o, 1)), Result(E[o - 1], Arg(o, 2)))
      BY <3>1, Zenon DEF Value
    <3>4. Arg(o, 1) \in 1..(o - 1) /\ Arg(o, 2) \in 1..(o - 1)
      BY <1>3, <3>1, OperandsAreEarlier
    <3>. QED  BY <1>6, <3>2, <3>3, <3>4, Zenon
  <2>8. Res(E, y) \in Int
    <3>1. y \in 0..Len(body) /\ y # 0
      BY <1>1, <1>2, <2>4
    <3>. QED  BY <3>1, Zenon DEF Num, Res, Result
  <2>9. \A i, j : Computed("-", i, j) = Wrap(i - j) /\ Computed("+", i, j) = Wrap(i + j)
    BY DEF Computed
  <2>. DEFINE c == Res(E, y)
  <2>10. /\ Op(o) = "+" => z = Wrap(m + c)
         /\ Op(o) = "-" => z = Wrap(m - c)
    <3>1. Op(o) = "+" => z = Wrap(m + c) \/ z = Wrap(c + m)
      BY <2>2, <2>5, <2>7, <2>9
    <3>2. Op(o) = "-" => z = Wrap(m - c)
      BY <2>2, <2>5, <2>7, <2>9
    <3>. HIDE DEF m, z, c, o
    <3>3. c + m = m + c
      BY <1>4, <2>8 DEF c
    <3>. QED  BY <3>1, <3>2, <3>3
  <2>. HIDE DEF m, z, o, a, c
  <2>11. /\ Op(o) = "+" => Wrap(Wrap(m + c) - m) = Gain(s, c)
         /\ Op(o) = "-" => Wrap(Wrap(m - c) - m) = Gain(s, c)
    BY <1>2, <1>4, <2>8, GainsCancel DEF o, a, c
  <2>12. Wrap(z - m) = Gain(s, c)
    BY <1>2, <2>10, <2>11
  <2>. QED  BY <1>9, <2>6, <2>12, Zenon DEF z, m, c
<1>. QED  BY <1>12, <1>13

-----------------------------------------------------------------------------
(* A skipped iteration repeats what is saved.                              *)

\* What an instruction does in a skipped iteration without branches.
Skipped(f, n, g) ==
  /\ g.saved = f.saved
  /\ \A k : k # 0 /\ k # n => Result(g, k) = Result(f, k)
  /\ \A w \in Locals : Op(n) # "store" \/ body[n].var # w => g.mem[w] = f.mem[w]
  /\ n \in DOMAIN clone.owner =>
       Result(g, n) = Computed(Op(n), Content(f, Pointer(clone.owner[n])), At(f.saved, clone.owner[n]))
  /\ n \in DOMAIN clone.assigns =>
       \A w \in Locals : body[n].var = w => g.mem[w] = Result(f, clone.assigns[n].op)

LEMMA StraightSkips ==
  ASSUME body \in Code, clone \in Clone, NEW f, IsEnv(f), f.next = 1, f.trapped = "no",
         NEW n \in 1..Len(body), Op(n) # "br", NEW g, g = Replay(f, n), g.trapped = "no"
  PROVE  IsEnv(g) /\ g.next = 1 /\ Skipped(f, n, g)
<1>1. ~(n < f.next)
  BY BodiesAreLists
<1>2. CASE n \notin clone.kept
  <2>1. g = f
    BY <1>2, Zenon DEF Replay
  <2>2. n \notin DOMAIN clone.owner /\ n \notin DOMAIN clone.assigns
    BY <1>2, KeptIs
  <2>. QED  BY <2>1, <2>2, Zenon DEF Skipped
<1>3. CASE n \in clone.kept
  <2>1. LET h == Replay(f, n)
        IN /\ IsEnv(h) /\ h.saved = f.saved
           /\ n \in DOMAIN clone.owner =>
                Repeated(f, n, h) /\ h.unset = (f.unset \/ clone.owner[n] \notin DOMAIN f.saved)
           /\ n \in DOMAIN clone.assigns =>
                /\ StoredAgain(f, n, h)
                /\ h.unset = (f.unset \/ ~({clone.assigns[n].op} \cup ({Pointer(n)[2]} \ {0})
                                             \subseteq DOMAIN f.results))
           /\ n \in clone.held =>
                /\ StoredAgain(f, n, h)
                /\ h.unset = (\/ f.unset \/ n \notin DOMAIN f.saved
                              \/ ~({Pointer(n)[2]} \ {0} \subseteq DOMAIN f.results))
           /\ n \notin DOMAIN clone.owner \cup DOMAIN clone.assigns \cup clone.held =>
                /\ Executed(f, n, h)
                /\ h.unset = (f.unset \/ ~(Operands(n) \subseteq DOMAIN f.results))
    BY <1>1, <1>3, ReplayExecutes
  <2>2. /\ IsEnv(g) /\ g.saved = f.saved
        /\ n \in DOMAIN clone.owner => Repeated(f, n, g)
        /\ n \in DOMAIN clone.assigns \cup clone.held => StoredAgain(f, n, g)
        /\ n \notin DOMAIN clone.owner \cup DOMAIN clone.assigns \cup clone.held => Executed(f, n, g)
    BY <2>1, Zenon
  <2>3. /\ n \in DOMAIN clone.owner => n \notin DOMAIN clone.assigns /\ n \notin clone.held
        /\ n \in DOMAIN clone.assigns \cup clone.held => Op(n) = "store"
    BY KindsOfKept
  <2>4. CASE n \in DOMAIN clone.owner
    <3>. DEFINE v == Computed(Op(n), Content(f, Pointer(clone.owner[n])), At(f.saved, clone.owner[n]))
    <3>1. KeepsMemory(f, g) /\ g.next = f.next
      BY <2>2, <2>4, Zenon DEF Repeated
    <3>2. g.results = Updated(f.results, n, v)
      <4>1. IF Works(Op(n), At(f.saved, clone.owner[n]))
            THEN g.trapped = "no" /\ g.results = Updated(f.results, n, v)
            ELSE g.trapped = "added" /\ g.results = f.results
        BY <2>2, <2>4, Zenon DEF Repeated
      <4>2. g.trapped # "added"
        OBVIOUS
      <4>. QED  BY <4>1, <4>2, Zenon
    <3>. HIDE DEF v
    <3>3. /\ \A k : k # n => Result(g, k) = Result(f, k)
          /\ Result(g, n) = v
      BY <3>2 DEF Result, At, Updated
    <3>4. n \notin DOMAIN clone.assigns
      BY <2>3, <2>4
    <3>5. \A w \in Locals : g.mem[w] = f.mem[w]
      BY <3>1, Zenon DEF KeepsMemory
    <3>. QED  BY <2>2, <3>1, <3>3, <3>4, <3>5, Zenon DEF Skipped, v
  <2>5. CASE n \in DOMAIN clone.assigns \cup clone.held
    <3>1. /\ g.next = f.next /\ g.results = f.results
          /\ Stored(f, n, IF n \in DOMAIN clone.assigns THEN Result(f, clone.assigns[n].op)
                          ELSE At(f.saved, n), g)
      BY <2>2, <2>5, Zenon DEF StoredAgain
    <3>2. n \notin DOMAIN clone.owner
      BY <2>3, <2>5
    <3>3. \A k : Result(g, k) = Result(f, k)
      BY <3>1, Zenon DEF Result
    <3>4. \A w \in Locals : body[n].var # w => g.mem[w] = f.mem[w]
      BY <3>1, Zenon DEF Stored
    <3>5. n \in DOMAIN clone.assigns =>
            \A w \in Locals : body[n].var = w => g.mem[w] = Result(f, clone.assigns[n].op)
      BY <3>1, Zenon DEF Stored
    <3>6. Op(n) = "store"
      BY <2>3, <2>5
    <3>. QED  BY <2>2, <3>1, <3>2, <3>3, <3>4, <3>5, <3>6, Zenon DEF Skipped
  <2>6. CASE n \notin DOMAIN clone.owner \cup DOMAIN clone.assigns \cup clone.held
    <3>1. Executed(f, n, g)
      BY <2>2, <2>6
    <3>2. g.next = f.next
      BY <3>1, Zenon DEF Executed
    <3>3. \A k : k # 0 /\ k # n => Result(g, k) = Result(f, k)
      BY <3>1, Zenon DEF Executed
    <3>4. \A w \in Locals : Op(n) # "store" \/ body[n].var # w => g.mem[w] = f.mem[w]
      <4>1. IF Op(n) = "store" THEN Stored(f, n, Result(f, Arg(n, 1)), g) ELSE KeepsMemory(f, g)
        BY <3>1, Zenon DEF Executed
      <4>2. CASE Op(n) = "store"
        BY <4>1, <4>2, Zenon DEF Stored
      <4>3. CASE Op(n) # "store"
        BY <4>1, <4>3, Zenon DEF KeepsMemory
      <4>. QED  BY <4>2, <4>3
    <3>. QED  BY <2>2, <2>6, <3>2, <3>3, <3>4, Zenon DEF Skipped
  <2>. QED  BY <2>4, <2>5, <2>6
<1>. QED  BY <1>2, <1>3

LEMMA StraightSkipped ==
  ASSUME body \in Code, clone \in Clone, Straight, NEW F, IsEnv(F[0]), F[0].next = 1,
         \A n \in 1..Len(body) : F[n] = Replay(F[n - 1], n),
         \A n \in 0..Len(body) : F[n].trapped = "no"
  PROVE  \A n \in 1..Len(body) : Skipped(F[n - 1], n, F[n])
<1>1. Len(body) \in Nat /\ \A n \in 1..Len(body) : Op(n) # "br"
  BY BodiesAreLists DEF Straight, Those
<1>. DEFINE A == {n \in Nat : n <= Len(body) => IsEnv(F[n]) /\ F[n].next = 1}
<1>2. ASSUME NEW n \in 1..Len(body), IsEnv(F[n - 1]), F[n - 1].next = 1
      PROVE  IsEnv(F[n]) /\ F[n].next = 1 /\ Skipped(F[n - 1], n, F[n])
  <2>1. n - 1 \in 0..Len(body) /\ n \in 0..Len(body)
    BY <1>1
  <2>2. F[n - 1].trapped = "no" /\ F[n].trapped = "no" /\ Op(n) # "br" /\ F[n] = Replay(F[n - 1], n)
    BY <1>1, <2>1
  <2>. QED  BY <1>2, <2>2, StraightSkips
<1>3. 0 \in A
  OBVIOUS
<1>4. ASSUME NEW n \in A PROVE n + 1 \in A
  <2>1. SUFFICES ASSUME n + 1 <= Len(body) PROVE IsEnv(F[n + 1]) /\ F[n + 1].next = 1
    OBVIOUS
  <2>2. PICK m \in 1..Len(body) : m = n + 1 /\ m - 1 = n
    BY <1>1, <2>1
  <2>3. IsEnv(F[m - 1]) /\ F[m - 1].next = 1
    BY <1>1, <2>2
  <2>4. IsEnv(F[m]) /\ F[m].next = 1
    BY <1>2, <2>3, Zenon
  <2>. QED  BY <2>2, <2>4
<1>5. A = Nat
  <2>1. A \in SUBSET Nat
    OBVIOUS
  <2>. HIDE DEF A
  <2>. QED  BY <1>3, <1>4, <2>1, Induction
<1>6. ASSUME NEW n \in 1..Len(body) PROVE IsEnv(F[n - 1]) /\ F[n - 1].next = 1
  BY <1>1, <1>5
<1>. QED  BY <1>2, <1>6, Zenon

\* The variable of an assignment ends with what its operation makes of it and of what
\* is saved.
LEMMA SkippedRepeats ==
  ASSUME body \in Code, clone \in Clone, NEW F,
         \A n \in 1..Len(body) : Skipped(F[n - 1], n, F[n]),
         NEW s \in DOMAIN clone.assigns, Accumulates(s)
  PROVE  F[Len(body)].mem[body[s].var] =
           Computed(Op(clone.assigns[s].op), F[0].mem[body[s].var], At(F[0].saved, s))
<1>. DEFINE o == clone.assigns[s].op
            v == body[s].var
            m == F[0].mem[v]
            r == Computed(Op(o), m, At(F[0].saved, s))
<1>1. Len(body) \in Nat
  BY BodiesAreLists
<1>2. /\ s \in 1..Len(body) /\ Op(s) = "store" /\ v \in Locals /\ Pointer(s) = <<v, 0>>
      /\ Op(o) \in {"+", "-"} /\ o \in 1..(s - 1)
      /\ \A t \in 1..Len(body) : Op(t) = "store" /\ t # s => body[t].var # v
  BY AccumulatesParts
<1>3. o \in DOMAIN clone.owner /\ clone.owner[o] = s
  <2>1. s \in CmpdAssignStores /\ o = CmpdAssign(s).op
    BY CloneParts
  <2>2. o \in DOMAIN clone.owner
    BY <2>1, CloneParts
  <2>3. clone.owner[o] \in DOMAIN clone.assigns /\ clone.assigns[clone.owner[o]].op = o
    BY <2>2, CloneParts
  <2>4. \A t \in DOMAIN clone.assigns \ {s} : clone.assigns[t].op # o
    BY Zenon DEF Accumulates
  <2>. QED  BY <2>2, <2>3, <2>4
<1>. HIDE DEF v, o, m, r
<1>. DEFINE Holds(n) ==
              /\ F[n].saved = F[0].saved
              /\ n < s => F[n].mem[v] = m
              /\ o <= n => Result(F[n], o) = r
              /\ s <= n => F[n].mem[v] = r
            A == {n \in Nat : n <= Len(body) => Holds(n)}
<1>4. 0 \in A
  <2>1. ~(o <= 0) /\ ~(s <= 0)
    BY <1>1, <1>2
  <2>. QED  BY <2>1 DEF m
<1>5. ASSUME NEW n \in A PROVE n + 1 \in A
  <2>1. SUFFICES ASSUME n + 1 <= Len(body) PROVE Holds(n + 1)
    OBVIOUS
  <2>2. PICK i \in 1..Len(body) : i = n + 1 /\ i - 1 = n
    BY <1>1, <2>1
  <2>3. Skipped(F[i - 1], i, F[i])
    OBVIOUS
  <2>4. Holds(n)
    BY <1>1, <2>1
  <2>5. F[i].saved = F[0].saved
    BY <2>2, <2>3, <2>4, Zenon DEF Skipped
  <2>6. i # s => F[i].mem[v] = F[i - 1].mem[v]
    <3>1. i # s => Op(i) # "store" \/ body[i].var # v
      BY <1>2
    <3>. QED  BY <1>2, <2>3, <3>1, Zenon DEF Skipped
  <2>7. i # o => Result(F[i], o) = Result(F[i - 1], o)
    <3>1. o # 0
      BY <1>2
    <3>. QED  BY <2>3, <3>1, Zenon DEF Skipped
  <2>8. i = o => Result(F[i], o) = r
    <3>1. SUFFICES ASSUME i = o PROVE Result(F[i], o) = r
      OBVIOUS
    <3>2. Result(F[i], o) = Computed(Op(o), Content(F[i - 1], Pointer(s)), At(F[i - 1].saved, s))
      BY <1>3, <2>3, <3>1, Zenon DEF Skipped
    <3>3. F[i - 1].mem[v] = m /\ F[i - 1].saved = F[0].saved
      BY <1>2, <2>2, <2>4, <3>1
    <3>4. Content(F[i - 1], Pointer(s)) = m
      <4>1. Pointer(s)[1] = v /\ Pointer(s)[2] = 0
        BY <1>2
      <4>. QED  BY <3>3, <4>1, Zenon DEF Content
    <3>. QED  BY <3>2, <3>3, <3>4, Zenon DEF r
  <2>9. i = s => F[i].mem[v] = r
    <3>1. SUFFICES ASSUME i = s PROVE F[i].mem[v] = r
      OBVIOUS
    <3>2. F[i].mem[v] = Result(F[i - 1], o)
      BY <1>2, <2>3, <3>1, Zenon DEF Skipped, v, o
    <3>3. Result(F[i - 1], o) = r
      BY <1>2, <2>2, <2>4, <3>1
    <3>. QED  BY <3>2, <3>3
  <2>10. n + 1 < s => F[i].mem[v] = m
    <3>1. n + 1 < s => n < s /\ i # s
      BY <1>2, <2>2
    <3>. QED  BY <2>2, <2>4, <2>6, <3>1
  <2>11. o <= n + 1 => Result(F[i], o) = r
    <3>1. o <= n + 1 => o <= n \/ i = o
      BY <1>2, <2>2
    <3>2. o <= n => i # o
      BY <1>2, <2>2
    <3>. QED  BY <2>2, <2>4, <2>7, <2>8, <3>1, <3>2
  <2>12. s <= n + 1 => F[i].mem[v] = r
    <3>1. s <= n + 1 => s <= n \/ i = s
      BY <1>2, <2>2
    <3>2. s <= n => i # s
      BY <1>2, <2>2
    <3>. QED  BY <2>2, <2>4, <2>6, <2>9, <3>1, <3>2
  <2>. QED  BY <2>2, <2>5, <2>10, <2>11, <2>12
<1>6. A = Nat
  <2>1. A \in SUBSET Nat
    OBVIOUS
  <2>. HIDE DEF A
  <2>. QED  BY <1>4, <1>5, <2>1, Induction
<1>7. Holds(Len(body)) /\ s <= Len(body)
  <2>1. Len(body) \in A /\ Len(body) <= Len(body) /\ s <= Len(body)
    BY <1>1, <1>2, <1>6
  <2>. QED  BY <2>1
<1>8. F[Len(body)].mem[v] = r
  BY <1>7
<1>. QED  BY <1>8, Zenon DEF v, r, m, o

\* While an iteration can be skipped, what is saved for an assignment is what its
\* variable has gained.
HeldInv ==
  (Straight /\ ReadsBackTheLast /\ Saves) =>
    \A s \in DOMAIN clone.assigns :
      Accumulates(s) => gained[body[s].var] = Gain(s, At(saved, s))

LEMMA InitHeldInv == InitBody => HeldInv
<1>. SUFFICES ASSUME InitBody PROVE HeldInv
  OBVIOUS
<1>1. at = "exit" /\ counter = 0
  BY DEF InitBody, Init
<1>. QED  BY <1>1 DEF HeldInv, Saves

\* What an assignment is depends on the body and on its clone.
LEMMA SameAssignments ==
  ASSUME UNCHANGED <<body, clone>>
  PROVE  /\ Straight' <=> Straight
         /\ ReadsBackTheLast' <=> ReadsBackTheLast
         /\ \A s : Accumulates(s)' <=> Accumulates(s)
         /\ \A s : Gain(s, At(saved, s))' = Gain(s, At(saved', s))
<1>1. UNCHANGED body /\ UNCHANGED clone
  OBVIOUS
<1>2. \A i : Op(i)' = Op(i) /\ Pointer(i)' = Pointer(i) /\ (IsLocal(i)' <=> IsLocal(i))
  BY <1>1 DEF Op, Pointer, IsLocal, Arg
<1>3. Stores' = Stores /\ Those("load")' = Those("load")
  BY <1>1 DEF Stores, Those, Op
<1>4. \A i : MostRecentStore(i)' = MostRecentStore(i)
  BY <1>1 DEF MostRecentStore, Latest, Stores, Those, Op, Pointer, IsLocal, Arg
<1>5. Straight' <=> Straight
  BY <1>1, SameCode
<1>6. ReadsBackTheLast' <=> ReadsBackTheLast
  BY <1>2, <1>3, <1>4 DEF ReadsBackTheLast
<1>7. \A s : Accumulates(s)' <=> Accumulates(s)
  BY <1>1, <1>2, <1>3 DEF Accumulates
<1>8. \A s : Gain(s, At(saved, s))' = Gain(s, At(saved', s))
  BY <1>1 DEF Gain, At, Op, Wrap
<1>. QED  BY <1>5, <1>6, <1>7, <1>8

\* What an evaluated iteration leaves behind.
LEMMA EvaluatedHolds ==
  ASSUME BodyInv, NumInv, at = "body", Straight, ReadsBackTheLast, NEW input \in Inputs,
         Evaluated(input).trapped = "no", NEW s \in DOMAIN clone.assigns, Accumulates(s)
  PROVE  LET v == body[s].var
         IN v \in Locals /\ Wrap(Evaluated(input).mem[v] - mem[v]) = Gain(s, At(Evaluated(input).saved, s))
<1>1. body \in Code /\ clone \in Clone
  <2>1. clone # NoClone
    BY NoCloneParts
  <2>. QED  BY <2>1 DEF BodyInv
<1>2. PICK E : /\ E[0] = Entry(input) /\ Evaluated(input) = E[Len(body)]
               /\ \A n \in 1..Len(body) : E[n] = Evaluate(E[n - 1], n)
               /\ \A n \in 0..Len(body) : E[n].trapped = "no"
  BY <1>1, EvaluatedSteps
<1>3. IsEnv(E[0]) /\ Num(E[0]) /\ E[0].mem = mem /\ E[0].next = 1
  <2>1. at # "trap"
    OBVIOUS
  <2>2. IsEnv(Entry(input)) /\ Num(Entry(input)) /\ Entry(input).mem = mem
    BY <2>1, NumEntry
  <2>3. Entry(input).next = 1
    BY EntryIsEnv DEF BodyInv
  <2>. QED  BY <1>2, <2>2, <2>3, Zenon
<1>4. Ran(E)
  BY <1>1, <1>2, <1>3, StraightRan
<1>5. \A n \in 0..Len(body) : Num(E[n])
  BY <1>1, <1>2, <1>3, NumEvaluated
<1>6. Wrap(E[Len(body)].mem[body[s].var] - E[0].mem[body[s].var]) = Gain(s, At(E[Len(body)].saved, s))
  BY <1>1, <1>4, <1>5, GainIsSaved
<1>7. body[s].var \in Locals
  BY <1>1, AccumulatesParts
<1>. QED  BY <1>2, <1>3, <1>6, <1>7, Zenon

LEMMA StepHeldInv ==
  BodyInv /\ IInv /\ DefinedInv /\ NumInv /\ HeldInv /\ [NextBody]_<<vars, dataVars>> => HeldInv'
<1>. SUFFICES ASSUME BodyInv, IInv, DefinedInv, NumInv, HeldInv, [NextBody]_<<vars, dataVars>>,
                     Straight', ReadsBackTheLast', Saves'
              PROVE  \A s \in DOMAIN clone'.assigns :
                       Accumulates(s)' => gained'[body'[s].var] = Gain(s, At(saved, s))'
  BY Zenon DEF HeldInv
<1>1. ~StartBody
  <2>1. SUFFICES ASSUME StartBody PROVE FALSE
    OBVIOUS
  <2>2. at' = "header" /\ counter' = 0
    BY <2>1 DEF StartBody, Start, Preheader
  <2>. QED  BY <2>2 DEF Saves
<1>2. ASSUME UNCHANGED <<body, clone>>,
             \A s \in DOMAIN clone.assigns :
               Accumulates(s) => gained'[body[s].var] = Gain(s, At(saved', s))
      PROVE  \A s \in DOMAIN clone'.assigns :
               Accumulates(s)' => gained'[body'[s].var] = Gain(s, At(saved, s))'
  <2>1. /\ \A s : Accumulates(s)' <=> Accumulates(s)
        /\ \A s : Gain(s, At(saved, s))' = Gain(s, At(saved', s))
    BY <1>2, SameAssignments, Zenon
  <2>2. body' = body /\ clone' = clone
    BY <1>2
  <2>. QED  BY <1>2, <2>1, <2>2, Zenon
<1>3. ASSUME UNCHANGED <<body, clone>>
      PROVE  Straight /\ ReadsBackTheLast
  BY <1>3, SameAssignments, Zenon
<1>4. CASE EvaluateBody
  <2>1. PICK input \in Inputs : /\ BodyTo(After(Evaluated(input))) /\ Leaves(Evaluated(input))
                                /\ gained' = [v \in Locals |-> Wrap(Evaluated(input).mem[v] - mem[v])]
    BY <1>4, Zenon DEF EvaluateBody
  <2>. DEFINE e == Evaluated(input)
  <2>2. UNCHANGED <<body, clone>> /\ saved' = e.saved
    BY <2>1, Zenon DEF Leaves
  <2>3. e.trapped = "no" /\ at = "body"
    <3>1. at' = IF e.trapped = "no" THEN "latch" ELSE "trap"
      BY <2>1 DEF BodyTo, Goto, After
    <3>2. at' # "trap"
      BY DEF Saves
    <3>. QED  BY <1>4, <3>1, <3>2 DEF EvaluateBody
  <2>4. ASSUME NEW s \in DOMAIN clone.assigns, Accumulates(s)
        PROVE  gained'[body[s].var] = Gain(s, At(saved', s))
    <3>1. /\ body[s].var \in Locals
          /\ Wrap(e.mem[body[s].var] - mem[body[s].var]) = Gain(s, At(e.saved, s))
      BY <1>3, <2>2, <2>3, <2>4, EvaluatedHolds
    <3>. HIDE DEF e
    <3>2. gained'[body[s].var] = Wrap(e.mem[body[s].var] - mem[body[s].var])
      BY <2>1, <3>1, Zenon DEF e
    <3>. QED  BY <2>2, <3>1, <3>2, Zenon
  <2>. QED  BY <1>2, <2>2, <2>4, Zenon
<1>5. ASSUME UNCHANGED <<body, clone>>, gained' = gained, saved' = saved, Saves
      PROVE  \A s \in DOMAIN clone'.assigns :
               Accumulates(s)' => gained'[body'[s].var] = Gain(s, At(saved, s))'
  <2>1. Straight /\ ReadsBackTheLast
    BY <1>3, <1>5
  <2>2. \A s \in DOMAIN clone.assigns :
          Accumulates(s) => gained'[body[s].var] = Gain(s, At(saved', s))
    BY <1>5, <2>1, Zenon DEF HeldInv
  <2>. QED  BY <1>2, <1>5, <2>2, Zenon
<1>6. CASE ReplayBody
  <2>1. PICK input \in Inputs : Leaves(Replayed(input)) /\ gained' = gained
    BY <1>6, Zenon DEF ReplayBody
  <2>. DEFINE e == Replayed(input)
  <2>2. UNCHANGED <<body, clone>> /\ saved' = e.saved
    BY <2>1, Zenon DEF Leaves
  <2>3. at = "clone" /\ Saves
    BY <1>6 DEF ReplayBody, Saves
  <2>4. Straight /\ unset = FALSE /\ HasSaved(saved, Len(body))
    BY <1>3, <2>2, <2>3, Zenon DEF DefinedInv
  <2>5. body \in Code /\ clone \in Clone /\ mem = [v \in Locals |-> mem[v]]
    BY <2>3 DEF BodyInv
  <2>6. HasReplayed(e, Len(body))
    BY <2>4, <2>5, ReplayedDefined, Zenon
  <2>7. saved' = saved
    BY <2>2, <2>6, Zenon DEF HasReplayed
  <2>. QED  BY <1>5, <2>1, <2>2, <2>3, <2>7, Zenon
<1>7. CASE (Build \/ Run) /\ UNCHANGED dataVars
  <2>1. Saves
    BY <1>7, LoopSaves
  <2>2. UNCHANGED <<body, clone>> /\ gained' = gained /\ saved' = saved
    BY <1>7 DEF dataVars
  <2>. QED  BY <1>5, <2>1, <2>2, Zenon
<1>8. CASE UNCHANGED <<vars, dataVars>>
  <2>1. UNCHANGED <<body, clone>> /\ gained' = gained /\ saved' = saved
    BY <1>8 DEF dataVars
  <2>2. Saves
    BY <1>8 DEF vars, Saves
  <2>. QED  BY <1>5, <2>1, <2>2, Zenon
<1>. QED  BY <1>1, <1>4, <1>6, <1>7, <1>8, Zenon DEF NextBody

\* A skipped iteration changes a local as the last evaluated one has done, where one
\* store adds to it or subtracts from it, whatever the width of the integers.
THEOREM ClonesRepeatIncrements == SpecBody => []IncrementsAreHeld
<1>1. SpecBody => []HeldInv
  <2>1. SpecBody => []BodyInv /\ []IInv /\ []DefinedInv /\ []NumInv
    BY BodyInvariance, Invariance, DefinedInvariance, NumInvariance, PTL
  <2>. QED  BY <2>1, InitHeldInv, StepHeldInv, PTL DEF SpecBody
<1>2. BodyInv /\ NumInv /\ HeldInv => IncrementsAreHeld
  <2>. SUFFICES ASSUME BodyInv, NumInv, HeldInv, at = "clone", Straight, ReadsBackTheLast,
                       NEW s \in DOMAIN clone.assigns, NEW input \in Inputs,
                       Accumulates(s), Replayed(input).trapped = "no"
                PROVE  Wrap(Replayed(input).mem[body[s].var] - mem[body[s].var]) = gained[body[s].var]
    BY Zenon DEF IncrementsAreHeld
  <2>. DEFINE v == body[s].var
              y == At(saved, s)
              o == clone.assigns[s].op
  <2>1. body \in Code /\ clone \in Clone
    BY DEF BodyInv
  <2>2. gained[v] = Gain(s, y)
    <3>1. Saves
      BY DEF Saves
    <3>. QED  BY <3>1, Zenon DEF HeldInv
  <2>3. PICK F : /\ F[0] = Entry(input) /\ Replayed(input) = F[Len(body)]
                 /\ \A n \in 1..Len(body) : F[n] = Replay(F[n - 1], n)
                 /\ \A n \in 0..Len(body) : F[n].trapped = "no"
    BY <2>1, ReplayedSteps
  <2>4. IsEnv(F[0]) /\ F[0].mem = mem /\ F[0].saved = saved /\ F[0].next = 1
    <3>1. LET e == Entry(input)
          IN IsEnv(e) /\ e.mem = mem /\ e.saved = saved /\ e.next = 1
      BY EntryIsEnv DEF BodyInv
    <3>. QED  BY <2>3, <3>1, Zenon
  <2>5. \A n \in 1..Len(body) : Skipped(F[n - 1], n, F[n])
    BY <2>1, <2>3, <2>4, StraightSkipped
  <2>6. F[Len(body)].mem[v] = Computed(Op(o), F[0].mem[v], At(F[0].saved, s))
    BY <2>1, <2>5, SkippedRepeats
  <2>7. Replayed(input).mem[v] = Computed(Op(o), mem[v], y)
    BY <2>3, <2>4, <2>6, Zenon
  <2>8. v \in Locals /\ Op(o) \in {"+", "-"}
    BY <2>1, AccumulatesParts
  <2>9. mem[v] \in Int /\ y \in Int
    <3>1. at # "trap"
      OBVIOUS
    <3>. QED  BY <2>8, <3>1, Zenon DEF NumInv
  <2>. DEFINE m == mem[v]
              z == Replayed(input).mem[v]
  <2>10. \A i, j : Computed("-", i, j) = Wrap(i - j) /\ Computed("+", i, j) = Wrap(i + j)
    BY DEF Computed
  <2>. HIDE DEF v, y, o, m, z
  <2>11. /\ Op(o) = "+" => z = Wrap(m + y)
         /\ Op(o) = "-" => z = Wrap(m - y)
    BY <2>7, <2>10 DEF z, m
  <2>12. /\ Op(o) = "+" => Wrap(Wrap(m + y) - m) = Gain(s, y)
         /\ Op(o) = "-" => Wrap(Wrap(m - y) - m) = Gain(s, y)
    BY <2>8, <2>9, GainsCancel DEF o, m
  <2>13. Wrap(z - m) = Gain(s, y)
    BY <2>8, <2>11, <2>12
  <2>. QED  BY <2>2, <2>13, Zenon DEF z, m, v
<1>. QED  BY <1>1, <1>2, BodyInvariance, NumInvariance, PTL

-----------------------------------------------------------------------------
(* Types.                                                                  *)

\* What an iteration leaves of the types of the variables.
Typed(e) ==
  DOMAIN e.saved \subseteq Stores /\ e.unset \in BOOLEAN /\ e.trapped \in {"no", "source", "added"}

LEMMA ClonesAreOfBodies ==
  ASSUME body \in Code, clone \in Clone \/ clone = NoClone
  PROVE  /\ clone.kept \subseteq DOMAIN body /\ clone.held \subseteq Stores
         /\ DOMAIN clone.assigns \subseteq Stores
<1>1. CASE clone \in Clone
  <2>1. /\ clone.kept = Preserved /\ clone.held = PreservedStores
        /\ DOMAIN clone.assigns = CmpdAssignStores
    BY <1>1, CloneParts
  <2>2. PreservedStores \subseteq Stores /\ CmpdAssignStores \subseteq Stores /\ Stores \subseteq DOMAIN body
    BY DEF PreservedStores, CmpdAssignStores, Stores, Those
  <2>3. Those("br") \subseteq DOMAIN body
    BY DEF Those
  <2>4. Sliced \subseteq DOMAIN body
    BY SlicedIsClosed, BodiesAreLists
  <2>5. {CmpdAssign(s).op : s \in CmpdAssignStores} \subseteq DOMAIN body
    <3>1. ASSUME NEW s \in CmpdAssignStores PROVE CmpdAssign(s).op \in DOMAIN body
      <4>1. s \in 1..Len(body) /\ CmpdAssign(s).op \in 1..(s - 1)
        BY CmpdAssignsAreOperations
      <4>2. Len(body) \in Nat /\ DOMAIN body = 1..Len(body)
        BY BodiesAreLists
      <4>3. \A o \in 1..(s - 1) : o \in 1..Len(body)
        BY <4>1, <4>2
      <4>. QED  BY <4>1, <4>2, <4>3, Zenon
    <3>. QED  BY <3>1, Zenon
  <2>6. Preserved \subseteq DOMAIN body
    BY <2>2, <2>3, <2>4, <2>5, Zenon DEF Preserved
  <2>. QED  BY <2>1, <2>2, <2>6, Zenon
<1>2. CASE clone = NoClone
  BY <1>2 DEF NoClone, Nothing
<1>. QED  BY <1>1, <1>2

LEMMA WhateverTheBody ==
  (body \in Code /\ (clone \in Clone \/ clone = NoClone)) =>
    clone.kept \subseteq DOMAIN body /\ clone.held \subseteq Stores /\ DOMAIN clone.assigns \subseteq Stores
BY ClonesAreOfBodies

LEMMA EvaluateTyped ==
  ASSUME body \in Code, clone \in Clone \/ clone = NoClone, NEW e, IsEnv(e), Typed(e),
         NEW i \in 1..Len(body), NEW g, g = Evaluate(e, i)
  PROVE  IsEnv(g) /\ Typed(g)
<1>1. LET h == Evaluate(e, i)
      IN IF i < e.next \/ e.trapped # "no" THEN h = e
         ELSE \E x :
                /\ IsEnv(x) /\ Alike(e, x)
                /\ x.unset = (e.unset \/ ~(Operands(i) \subseteq DOMAIN e.results))
                /\ IF i \in clone.held \cup DOMAIN clone.assigns
                   THEN \E u : /\ IsEnv(u) /\ Alike(e, u) /\ u.saved = e.saved
                               /\ u.trapped = "no" /\ u.results = e.results
                               /\ x = Save(u, i)
                               /\ x.trapped \in {"no", "added"}
                               /\ \E v : x.saved = Updated(e.saved, i, v)
                   ELSE x.saved = e.saved /\ x.trapped = "no" /\ x.results = e.results
                /\ h = IF x.trapped = "no" THEN Execute(x, i) ELSE x
  BY EvaluateSets
<1>2. CASE g = e
  BY <1>2, Zenon
<1>3. CASE g # e
  <2>1. PICK x : /\ IsEnv(x)
                 /\ x.unset = (e.unset \/ ~(Operands(i) \subseteq DOMAIN e.results))
                 /\ x.trapped \in {"no", "added"}
                 /\ \/ x.saved = e.saved
                    \/ /\ i \in clone.held \cup DOMAIN clone.assigns
                       /\ \E v : x.saved = Updated(e.saved, i, v)
                 /\ g = IF x.trapped = "no" THEN Execute(x, i) ELSE x
    BY <1>1, <1>3
  <2>2. Typed(x)
    <3>1. x.unset \in BOOLEAN
      BY <2>1
    <3>2. DOMAIN e.saved \subseteq Stores
      BY Zenon DEF Typed
    <3>3. DOMAIN x.saved \subseteq Stores
      <4>1. CASE x.saved = e.saved
        BY <3>2, <4>1, Zenon
      <4>2. ASSUME i \in clone.held \cup DOMAIN clone.assigns, NEW v, x.saved = Updated(e.saved, i, v)
            PROVE  DOMAIN x.saved \subseteq Stores
        <5>1. DOMAIN x.saved = DOMAIN e.saved \cup {i}
          BY <4>2 DEF Updated
        <5>2. i \in Stores
          BY <4>2, ClonesAreOfBodies
        <5>. QED  BY <3>2, <5>1, <5>2
      <4>. QED  BY <2>1, <4>1, <4>2, Zenon
    <3>4. x.trapped \in {"no", "source", "added"}
      BY <2>1
    <3>. QED  BY <3>1, <3>3, <3>4, Zenon DEF Typed
  <2>3. CASE g = x
    BY <2>1, <2>2, <2>3, Zenon
  <2>4. CASE g = Execute(x, i) /\ x.trapped = "no"
    <3>1. LET h == Execute(x, i)
          IN /\ IsEnv(h) /\ KeepsRest(x, h)
             /\ Op(i) = "store" =>
                  /\ h.puts = x.puts \cup {<<i, Place(x, Pointer(i))>>}
                  /\ \A w \in Locals :
                       h.mem[w] = IF w = body[i].var THEN Result(x, Arg(i, 1)) ELSE x.mem[w]
             /\ Op(i) # "store" => KeepsMemory(x, h)
             /\ Op(i) \in {"store", "br"} => h.results = x.results /\ h.trapped = x.trapped
             /\ h.next = IF Op(i) = "br" THEN (IF Result(x, Arg(i, 1)) = 0 THEN body[i].to ELSE i + 1)
                         ELSE x.next
             /\ Op(i) \notin {"store", "br"} =>
                  IF Traps(x, i) THEN h.results = x.results /\ h.trapped = "source"
                  ELSE h.results = Updated(x.results, i, Value(x, i)) /\ h.trapped = x.trapped
      BY <2>1, ExecuteSets
    <3>2. IsEnv(g) /\ KeepsRest(x, g) /\ (g.trapped = x.trapped \/ g.trapped = "source")
      BY <2>4, <3>1, Zenon
    <3>3. g.saved = x.saved /\ g.unset = x.unset /\ g.trapped \in {"no", "source", "added"}
      BY <2>4, <3>2 DEF KeepsRest
    <3>. QED  BY <2>2, <3>2, <3>3, Zenon DEF Typed
  <2>. QED  BY <2>1, <2>3, <2>4
<1>. QED  BY <1>2, <1>3

LEMMA ReplayTyped ==
  ASSUME body \in Code, clone \in Clone, NEW f, IsEnv(f), Typed(f),
         NEW i \in 1..Len(body), NEW g, g = Replay(f, i)
  PROVE  IsEnv(g) /\ Typed(g)
<1>1. CASE i \notin clone.kept \/ i < f.next \/ f.trapped # "no"
  <2>1. g = f
    BY <1>1, Zenon DEF Replay
  <2>. QED  BY <2>1
<1>2. CASE ~(i \notin clone.kept \/ i < f.next \/ f.trapped # "no")
  <2>1. LET h == Replay(f, i)
        IN /\ IsEnv(h) /\ h.saved = f.saved
           /\ i \in DOMAIN clone.owner =>
                Repeated(f, i, h) /\ h.unset = (f.unset \/ clone.owner[i] \notin DOMAIN f.saved)
           /\ i \in DOMAIN clone.assigns =>
                /\ StoredAgain(f, i, h)
                /\ h.unset = (f.unset \/ ~({clone.assigns[i].op} \cup ({Pointer(i)[2]} \ {0})
                                             \subseteq DOMAIN f.results))
           /\ i \in clone.held =>
                /\ StoredAgain(f, i, h)
                /\ h.unset = (\/ f.unset \/ i \notin DOMAIN f.saved
                              \/ ~({Pointer(i)[2]} \ {0} \subseteq DOMAIN f.results))
           /\ i \notin DOMAIN clone.owner \cup DOMAIN clone.assigns \cup clone.held =>
                /\ Executed(f, i, h)
                /\ h.unset = (f.unset \/ ~(Operands(i) \subseteq DOMAIN f.results))
    BY <1>2, ReplayExecutes
  <2>2. /\ IsEnv(g) /\ g.saved = f.saved
        /\ \/ Repeated(f, i, g) \/ StoredAgain(f, i, g) \/ Executed(f, i, g)
    BY <2>1, Zenon
  <2>3. g.unset \in BOOLEAN
    BY <2>1
  <2>4. g.trapped \in {"no", "source", "added"}
    <3>1. g.trapped = "no" \/ g.trapped = "source" \/ g.trapped = "added"
      <4>1. CASE Repeated(f, i, g)
        BY <4>1, Zenon DEF Repeated
      <4>2. CASE StoredAgain(f, i, g)
        BY <4>2, Zenon DEF StoredAgain
      <4>3. CASE Executed(f, i, g)
        BY <4>3, Zenon DEF Executed
      <4>. QED  BY <2>2, <4>1, <4>2, <4>3
    <3>. QED  BY <3>1
  <2>. QED  BY <2>2, <2>3, <2>4, Zenon DEF Typed
<1>. QED  BY <1>1, <1>2

LEMMA TypedSteps ==
  ASSUME body \in Code, NEW run, IsEnv(run[0]), Typed(run[0]),
         \A n \in 1..Len(body) : IsEnv(run[n - 1]) /\ Typed(run[n - 1]) => IsEnv(run[n]) /\ Typed(run[n])
  PROVE  Typed(run[Len(body)])
<1>1. Len(body) \in Nat
  BY BodiesAreLists
<1>. DEFINE A == {n \in Nat : n <= Len(body) => IsEnv(run[n]) /\ Typed(run[n])}
<1>2. 0 \in A
  OBVIOUS
<1>3. ASSUME NEW n \in A PROVE n + 1 \in A
  <2>1. SUFFICES ASSUME n + 1 <= Len(body) PROVE IsEnv(run[n + 1]) /\ Typed(run[n + 1])
    OBVIOUS
  <2>2. PICK m \in 1..Len(body) : m = n + 1 /\ m - 1 = n
    BY <1>1, <2>1
  <2>3. IsEnv(run[n]) /\ Typed(run[n])
    BY <1>1, <2>1
  <2>. QED  BY <2>2, <2>3
<1>4. A = Nat
  <2>1. A \in SUBSET Nat
    OBVIOUS
  <2>. HIDE DEF A
  <2>. QED  BY <1>2, <1>3, <2>1, Induction
<1>5. Len(body) \in A /\ Len(body) <= Len(body)
  BY <1>1, <1>4
<1>. QED  BY <1>5

\* What an iteration begins with.
LEMMA TypedEntry ==
  ASSUME TypeOKBody, mem = [v \in Locals |-> mem[v]], NEW input
  PROVE  IsEnv(Entry(input)) /\ Typed(Entry(input))
<1>1. LET e == Entry(input)
      IN /\ IsEnv(e) /\ e.mem = mem /\ e.elems = elems /\ e.saved = saved /\ e.input = input
         /\ e.results = Nothing /\ e.next = 1 /\ e.puts = {}
         /\ e.unset = unset /\ e.trapped = "no"
  BY EntryIsEnv
<1>2. DOMAIN saved \subseteq Stores /\ unset \in BOOLEAN
  BY DEF TypeOKBody
<1>3. "no" \in {"no", "source", "added"}
  OBVIOUS
<1>. QED  BY <1>1, <1>2, <1>3, Zenon DEF Typed

LEMMA IterationsAreTyped ==
  ASSUME BodyInv, TypeOKBody, NEW input
  PROVE  /\ Typed(Evaluated(input))
         /\ clone \in Clone => Typed(Replayed(input))
<1>1. body \in Code /\ mem = [v \in Locals |-> mem[v]] /\ (clone \in Clone \/ clone = NoClone)
  BY DEF BodyInv
<1>2. Len(body) \in Nat
  BY <1>1, BodiesAreLists
<1>3. IsEnv(Entry(input)) /\ Typed(Entry(input))
  BY <1>1, TypedEntry
<1>4. Typed(Evaluated(input))
  <2>1. PICK run : /\ run[0] = Entry(input) /\ Evaluated(input) = run[Len(body)]
                   /\ \A n \in 1..Len(body) : run[n] = Evaluate(run[n - 1], n)
    BY <1>2, EvaluatedStepwise
  <2>2. \A n \in 1..Len(body) : IsEnv(run[n - 1]) /\ Typed(run[n - 1]) => IsEnv(run[n]) /\ Typed(run[n])
    BY <1>1, <2>1, EvaluateTyped
  <2>3. IsEnv(run[0]) /\ Typed(run[0])
    BY <1>3, <2>1, Zenon
  <2>4. Typed(run[Len(body)])
    BY <1>1, <2>2, <2>3, TypedSteps
  <2>. QED  BY <2>1, <2>4, Zenon
<1>5. ASSUME clone \in Clone PROVE Typed(Replayed(input))
  <2>1. PICK run : /\ run[0] = Entry(input) /\ Replayed(input) = run[Len(body)]
                   /\ \A n \in 1..Len(body) : run[n] = Replay(run[n - 1], n)
    BY <1>2, ReplayedStepwise
  <2>2. \A n \in 1..Len(body) : IsEnv(run[n - 1]) /\ Typed(run[n - 1]) => IsEnv(run[n]) /\ Typed(run[n])
    BY <1>1, <1>5, <2>1, ReplayTyped
  <2>3. IsEnv(run[0]) /\ Typed(run[0])
    BY <1>3, <2>1, Zenon
  <2>4. Typed(run[Len(body)])
    BY <1>1, <2>2, <2>3, TypedSteps
  <2>. QED  BY <2>1, <2>4, Zenon
<1>. QED  BY <1>4, <1>5

\* The part of the type invariant that is about the body and its data.
DataTypes ==
  /\ body \in Bodies \cup {<<>>}
  /\ clone.kept \subseteq DOMAIN body /\ clone.held \subseteq Stores
  /\ DOMAIN clone.assigns \subseteq Stores
  /\ DOMAIN mem = Locals /\ DOMAIN gained = Locals
  /\ DOMAIN saved \subseteq Stores
  /\ unset \in BOOLEAN /\ trapped \in {"no", "source", "added"}

LEMMA StepDataTypes ==
  TypeOKBody /\ BodyInv /\ BodyInv' /\ [NextBody]_<<vars, dataVars>> => DataTypes'
<1>. SUFFICES ASSUME TypeOKBody, BodyInv, BodyInv', [NextBody]_<<vars, dataVars>>
              PROVE  DataTypes'
  OBVIOUS
<1>1. UNCHANGED body /\ Stores' = Stores
  BY DEF NextBody, StartBody, EvaluateBody, ReplayBody, Leaves, dataVars, Stores, Those, Op
<1>2. (body \in Bodies \cup {<<>>})'
  BY <1>1 DEF TypeOKBody
<1>3. (clone.kept \subseteq DOMAIN body /\ clone.held \subseteq Stores
       /\ DOMAIN clone.assigns \subseteq Stores)'
  <2>2. ((body \in Code /\ (clone \in Clone \/ clone = NoClone)) =>
          clone.kept \subseteq DOMAIN body /\ clone.held \subseteq Stores
          /\ DOMAIN clone.assigns \subseteq Stores)'
    BY WhateverTheBody, PTL
  <2>3. (body \in Code /\ (clone \in Clone \/ clone = NoClone))'
    BY DEF BodyInv
  <2>. QED  BY <2>2, <2>3
<1>4. (DOMAIN mem = Locals)'
  BY DEF BodyInv
<1>5. ASSUME NEW e, Typed(e), Leaves(e)
      PROVE  DOMAIN saved' \subseteq Stores' /\ unset' \in BOOLEAN /\ trapped' \in {"no", "source", "added"}
  <2>1. saved' = e.saved /\ unset' = e.unset /\ trapped' = e.trapped
    BY <1>5, Zenon DEF Leaves
  <2>. QED  BY <1>1, <1>5, <2>1, Zenon DEF Typed
<1>6. ASSUME UNCHANGED <<saved, unset, trapped>>
      PROVE  DOMAIN saved' \subseteq Stores' /\ unset' \in BOOLEAN /\ trapped' \in {"no", "source", "added"}
  BY <1>1, <1>6 DEF TypeOKBody
<1>7. DOMAIN gained' = Locals /\ DOMAIN saved' \subseteq Stores' /\ unset' \in BOOLEAN
      /\ trapped' \in {"no", "source", "added"}
  <2>1. CASE EvaluateBody
    <3>1. PICK input \in Inputs : /\ Leaves(Evaluated(input))
                                  /\ gained' = [v \in Locals |-> Wrap(Evaluated(input).mem[v] - mem[v])]
      BY <2>1, Zenon DEF EvaluateBody
    <3>2. Typed(Evaluated(input))
      BY IterationsAreTyped
    <3>3. DOMAIN gained' = Locals
      BY <3>1
    <3>. QED  BY <1>5, <3>1, <3>2, <3>3, Zenon
  <2>2. CASE ReplayBody
    <3>1. PICK input \in Inputs : Leaves(Replayed(input)) /\ gained' = gained
      BY <2>2, Zenon DEF ReplayBody
    <3>2. clone \in Clone
      BY <2>2 DEF ReplayBody, BodyInv
    <3>3. Typed(Replayed(input))
      BY <3>2, IterationsAreTyped
    <3>4. DOMAIN gained' = Locals
      BY <3>1 DEF TypeOKBody
    <3>. QED  BY <1>5, <3>1, <3>3, <3>4, Zenon
  <2>3. CASE UNCHANGED <<saved, unset, trapped, gained>>
    <3>1. DOMAIN gained' = Locals
      BY <2>3 DEF TypeOKBody
    <3>. QED  BY <1>6, <2>3, <3>1
  <2>. QED  BY <2>1, <2>2, <2>3 DEF NextBody, StartBody, dataVars
<1>. QED  BY <1>2, <1>3, <1>4, <1>7 DEF DataTypes

\* The variables of a loop with its body keep their types: what is saved is saved for
\* stores, and a clone is one of the body that runs.
THEOREM BodyTypeCorrect == SpecBody => []TypeOKBody
<1>1. InitBody => DataTypes
  <2>. SUFFICES ASSUME InitBody PROVE DataTypes
    OBVIOUS
  <2>1. body \in Bodies \cup {<<>>}
    BY DEF InitBody
  <2>. QED  BY <2>1 DEF InitBody, DataTypes, NoClone, Nothing
<1>2. TypeOKBody <=> TypeOK /\ DataTypes
  BY DEF TypeOKBody, DataTypes
<1>3. SpecBody => []TypeOK /\ []BodyInv
  BY TypeCorrect, BodyInvariance, PTL
<1>. QED  BY <1>1, <1>2, <1>3, StepDataTypes, PTL DEF SpecBody
=============================================================================
