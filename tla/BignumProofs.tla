----------------------------- MODULE BignumProofs ------------------------------
(***************************************************************************)
(* Theorems about big integers, for limbs of any width and numbers of any  *)
(* length: sums, differences, products, comparisons, the digits of a       *)
(* number, and long division.                                              *)
(***************************************************************************)
EXTENDS Bignum, SequenceTheorems, WellFoundedInduction, TLAPS

-----------------------------------------------------------------------------
(* Induction and recursion.                                                *)

(* What holds of 0, and of i when it holds of i - 1, holds up to n.        *)
LEMMA Upwards ==
  ASSUME NEW n \in Nat, NEW T, 0 \in T, \A i \in 1..n : i - 1 \in T => i \in T
  PROVE  0..n \subseteq T
<1> DEFINE U == (0..n) \ T
<1>1. PICK R : R = OpToRel(<, Nat) /\ IsWellFoundedOn(R, Nat)
  BY NatLessThanWellFounded
<1>2. \A i, j \in Nat : <<i, j>> \in R <=> i < j
  BY <1>1 DEF OpToRel
<1>3. U # {} => \E i \in U : \A j \in U : ~(<<j, i>> \in R)
  <2>1. U \subseteq Nat
    OBVIOUS
  <2> HIDE DEF U
  <2> QED
    BY <1>1, <2>1, WFMin
<1>4. ASSUME NEW i \in U, \A j \in U : ~(<<j, i>> \in R)
      PROVE  FALSE
  <2>1. i \in Nat /\ i \in 1..n /\ i \notin T /\ i - 1 \in Nat /\ i - 1 < i /\ i - 1 \in 0..n
    OBVIOUS
  <2>2. i - 1 \notin U
    BY <1>2, <1>4, <2>1
  <2> QED
    BY <2>1, <2>2
<1> QED
  BY <1>3, <1>4

(* What holds of n, and of i - 1 when it holds of i, holds from n down.    *)
LEMMA Downwards ==
  ASSUME NEW n \in Nat, NEW T, n \in T, \A i \in 1..n : i \in T => i - 1 \in T
  PROVE  0..n \subseteq T
<1> DEFINE U == {i \in 0..n : n - i \in T}
<1>1. 0 \in U
  OBVIOUS
<1>2. ASSUME NEW i \in 1..n, i - 1 \in U
      PROVE  i \in U
  <2>1. n - i + 1 \in 1..n /\ n - i + 1 \in T /\ (n - i + 1) - 1 = n - i
    BY <1>2
  <2> QED
    BY <2>1
<1>3. 0..n \subseteq U
  <2> HIDE DEF U
  <2> QED
    BY <1>1, <1>2, Upwards
<1>4. ASSUME NEW i \in 0..n
      PROVE  i \in T
  <2>1. n - i \in U /\ n - (n - i) = i
    BY <1>3
  <2> QED
    BY <2>1
<1> QED
  BY <1>4

(* A set of numbers up to n that is not empty has a greatest element.      *)
LEMMA Greatest ==
  ASSUME NEW n \in Nat, NEW U, U \subseteq 1..n, U # {}
  PROVE  \E i \in U : \A j \in U : j <= i
<1> DEFINE T == {i \in 0..n : (\E j \in U : j <= i) => \E k \in U : \A j \in U : j <= i => j <= k}
<1>1. 0 \in T
  OBVIOUS
<1>2. ASSUME NEW i \in 1..n, i - 1 \in T
      PROVE  i \in T
  <2>1. CASE i \in U
    <3>1. \A j \in U : j <= i => j <= i
      OBVIOUS
    <3> QED
      BY <2>1, <3>1
  <2>2. CASE i \notin U
    <3>1. \A j \in U : j <= i <=> j <= i - 1
      BY <2>2
    <3> QED
      BY <1>2, <3>1
  <2> QED
    BY <2>1, <2>2
<1>3. n \in T
  <2> HIDE DEF T
  <2>1. 0..n \subseteq T
    BY <1>1, <1>2, Upwards
  <2> QED
    BY <2>1
<1>4. \A j \in U : j <= n
  OBVIOUS
<1>5. PICK i \in U : TRUE
  OBVIOUS
<1> QED
  BY <1>3, <1>4, <1>5

(* A recursive definition has a solution: F gives each value from the one  *)
(* before.                                                                 *)
StepOn(F, S, n) == F \in [S \X (1..n) -> S]
Solution(g, c, F, S, n) ==
  g \in [0..n -> S] /\ g[0] = c /\ \A i \in 1..n : g[i] = F[<<g[i - 1], i>>]

LEMMA Recursion ==
  ASSUME NEW n \in Nat, NEW S, NEW c, c \in S, NEW F, StepOn(F, S, n)
  PROVE  \E g : Solution(g, c, F, S, n)
<1> F \in [S \X (1..n) -> S]
  BY DEF StepOn
<1> DEFINE Solves(g, k) == /\ g \in [0..k -> S] /\ g[0] = c
                           /\ \A i \in 1..k : g[i] = F[<<g[i - 1], i>>]
           T == {k \in 0..n : \E g : Solves(g, k)}
<1>1. 0 \in T
  <2>1. Solves([i \in 0..0 |-> c], 0)
    OBVIOUS
  <2> HIDE DEF Solves
  <2> QED
    BY <2>1
<1>2. ASSUME NEW k \in 1..n, k - 1 \in T
      PROVE  k \in T
  <2>1. PICK g : Solves(g, k - 1)
    BY <1>2
  <2> DEFINE h == [i \in 0..k |-> IF i = k THEN F[<<g[k - 1], k>>] ELSE g[i]]
  <2>2. g[k - 1] \in S /\ F[<<g[k - 1], k>>] \in S
    BY <2>1
  <2>3. h \in [0..k -> S] /\ h[0] = c
    BY <2>1, <2>2
  <2>4. ASSUME NEW i \in 1..k
        PROVE  h[i] = F[<<h[i - 1], i>>]
    <3>1. CASE i = k
      <4>1. h[i - 1] = g[k - 1] /\ h[i] = F[<<g[k - 1], k>>]
        BY <3>1
      <4> QED
        BY <3>1, <4>1
    <3>2. CASE i # k
      <4>1. h[i - 1] = g[i - 1] /\ h[i] = g[i] /\ i \in 1..(k - 1)
        BY <3>2
      <4> QED
        BY <2>1, <4>1
    <3> QED
      BY <3>1, <3>2
  <2>5. Solves(h, k)
    BY <2>3, <2>4
  <2> HIDE DEF Solves, h
  <2> QED
    BY <2>5
<1>3. 0..n \subseteq T
  <2> HIDE DEF T
  <2> QED
    BY <1>1, <1>2, Upwards
<1>4. \E g : Solves(g, n)
  <2> HIDE DEF Solves
  <2> QED
    BY <1>3
<1>5. PICK g : Solves(g, n)
  BY <1>4
<1>6. Solution(g, c, F, S, n)
  BY <1>5 DEF Solution
<1> QED
  BY <1>6

-----------------------------------------------------------------------------
(* Limbs and the value of a sequence of limbs.                             *)

LEMMA BaseFacts ==
  /\ Half \in Nat /\ Half >= 2 /\ Base = Half * Half
  /\ Base \in Nat /\ Base >= 4 /\ Half < Base
  /\ Limbs = 0..(Base - 1) /\ Limbs \subseteq Nat /\ 0 \in Limbs /\ 1 \in Limbs
<1>1. Half \in Nat /\ Half >= 2
  BY BignumAssumption
<1>2. Base = Half * Half
  BY DEF Base
<1> HIDE DEF Half
<1>3. Base \in Nat /\ Base >= 2 * Half
  BY <1>1, <1>2
<1> QED
  BY <1>1, <1>2, <1>3 DEF Limbs

LEMMA LimbFacts ==
  /\ Base \in Nat /\ Base >= 4 /\ Limbs = 0..(Base - 1)
  /\ Limbs \subseteq Nat /\ 0 \in Limbs /\ 1 \in Limbs
BY BaseFacts

(* The remainder and the quotient are known from one division with a       *)
(* remainder that is small enough.                                         *)
LEMMA DivMod ==
  ASSUME NEW b \in Nat \ {0}, NEW q \in Int, NEW r \in 0..(b - 1)
  PROVE  (b * q + r) % b = r /\ (b * q + r) \div b = q
OBVIOUS

LEMMA DivModExists ==
  ASSUME NEW b \in Nat \ {0}, NEW u \in Nat
  PROVE  /\ u % b \in 0..(b - 1) /\ u \div b \in Nat /\ u = b * (u \div b) + (u % b)
OBVIOUS

(* v[i] is the value of the limbs above the i lowest ones, of the n limbs  *)
(* of a number with zeros above its own.                                   *)
Values(data, n, v) ==
  /\ v \in [0..n -> Nat] /\ v[n] = 0
  /\ \A i \in 1..n : v[i - 1] = Limb(data, i) + Base * v[i]

LEMMA LimbIsLimb ==
  ASSUME NEW data \in Seq(Limbs), NEW i \in Nat \ {0}
  PROVE  /\ Limb(data, i) \in Limbs
         /\ i <= Len(data) => Limb(data, i) = data[i]
         /\ i > Len(data) => Limb(data, i) = 0
BY BaseFacts DEF Limb

LEMMA HornerExists ==
  ASSUME NEW n \in Nat, NEW d \in [1..n -> Nat], NEW b \in Nat
  PROVE  \E g \in [0..n -> Nat] : g[0] = 0 /\ \A i \in 1..n : g[i] = d[n - i + 1] + b * g[i - 1]
<1> DEFINE G == [p \in Nat \X (1..n) |-> d[n - p[2] + 1] + b * p[1]]
<1>1. G \in [Nat \X (1..n) -> Nat]
  <2>1. ASSUME NEW p \in Nat \X (1..n)
        PROVE  d[n - p[2] + 1] + b * p[1] \in Nat
    <3>1. p[1] \in Nat /\ p[2] \in 1..n
      OBVIOUS
    <3>2. b * p[1] \in Nat /\ n - p[2] + 1 \in 1..n
      BY <3>1
    <3> QED
      BY <3>1, <3>2
  <2> QED
    BY <2>1
<1>2. \A i \in 1..n, m \in Nat : G[<<m, i>>] = d[n - i + 1] + b * m
  OBVIOUS
<1> HIDE DEF G
<1>3. PICK g \in [0..n -> Nat] : g[0] = 0 /\ \A i \in 1..n : g[i] = G[<<g[i - 1], i>>]
  <2>1. StepOn(G, Nat, n)
    BY <1>1 DEF StepOn
  <2>2. PICK c : c \in Nat /\ c = 0
    OBVIOUS
  <2>3. PICK g : Solution(g, c, G, Nat, n)
    BY <2>1, <2>2, Recursion
  <2> QED
    BY <2>2, <2>3 DEF Solution
<1>4. ASSUME NEW i \in 1..n
      PROVE  g[i] = d[n - i + 1] + b * g[i - 1]
  <2>1. g[i - 1] \in Nat
    OBVIOUS
  <2> QED
    BY <1>2, <1>3, <2>1
<1> QED
  BY <1>3, <1>4

LEMMA MagnitudeOwn ==
  ASSUME NEW data \in Seq(Limbs)
  PROVE  \E v : Values(data, Len(data), v) /\ v[0] = Magnitude(data)
<1> DEFINE n == Len(data)
           F(f) == [i \in 0..n |-> IF i = 0 THEN 0 ELSE data[n - i + 1] + Base * f[i - 1]]
           t == CHOOSE f : f = F(f)
<1> Base \in Nat /\ Limbs \subseteq Nat
  BY LimbFacts
<1>0. n \in Nat /\ \A i \in 1..n : n - i + 1 \in 1..n /\ data[n - i + 1] \in Nat /\ data[i] \in Nat
  <2>0. n \in Nat /\ \A i \in 1..n : data[i] \in Limbs
    OBVIOUS
  <2>1. n \in Nat /\ \A i \in 1..n : data[i] \in Nat
    BY <2>0
  <2> HIDE DEF n
  <2> QED
    BY <2>1
<1>1. data \in [1..n -> Nat]
  BY <1>0
<1> HIDE DEF n, F, t
<1>4. PICK g \in [0..n -> Nat] : g[0] = 0 /\ \A i \in 1..n : g[i] = data[n - i + 1] + Base * g[i - 1]
  BY <1>0, <1>1, HornerExists
<1> USE DEF F
<1>5. g = F(g)
  <2>1. ASSUME NEW i \in 0..n
        PROVE  g[i] = IF i = 0 THEN 0 ELSE data[n - i + 1] + Base * g[i - 1]
    <3>1. i = 0 \/ i \in 1..n
      OBVIOUS
    <3> QED
      BY <1>4, <3>1
  <2> QED
    BY <1>4, <2>1
<1>6. Magnitude(data) = t[n]
  BY DEF Magnitude, n, t
<1>7. t = F(t)
  <2> HIDE DEF F
  <2> QED
    BY <1>5 DEF t
<1>8. t[0] = 0 /\ \A i \in 1..n : t[i] = data[n - i + 1] + Base * t[i - 1]
  <2>1. \A i \in 0..n : t[i] = IF i = 0 THEN 0 ELSE data[n - i + 1] + Base * t[i - 1]
    BY <1>7
  <2> HIDE DEF F
  <2> QED
    BY <1>0, <2>1
<1> HIDE DEF F
<1> DEFINE T == {i \in 0..n : t[i] = g[i]}
<1>9. 0 \in T
  BY <1>0, <1>4, <1>8
<1>10. ASSUME NEW i \in 1..n, i - 1 \in T
       PROVE  i \in T
  BY <1>4, <1>8, <1>10
<1>11. 0..n \subseteq T
  <2> HIDE DEF T
  <2> QED
    BY <1>0, <1>9, <1>10, Upwards
<1> DEFINE v == [i \in 0..n |-> g[n - i]]
<1>12. v \in [0..n -> Nat] /\ v[n] = 0 /\ v[0] = Magnitude(data)
  BY <1>0, <1>4, <1>6, <1>11
<1>13. ASSUME NEW i \in 1..n
       PROVE  v[i - 1] = Limb(data, i) + Base * v[i]
  <2>1. v[i - 1] = g[n - i + 1] /\ v[i] = g[n - i] /\ n - i + 1 \in 1..n
    BY <1>0
  <2>2. PICK k \in 1..n : k = n - i + 1
    BY <2>1
  <2>3. g[k] = data[n - k + 1] + Base * g[k - 1]
    BY <1>4
  <2>4. n - k + 1 = i /\ k - 1 = n - i
    BY <1>0, <2>2
  <2>5. Limb(data, i) = data[i]
    BY <1>0 DEF Limb, n
  <2> QED
    BY <2>1, <2>2, <2>3, <2>4, <2>5
<1>14. Values(data, n, v)
  BY <1>12, <1>13 DEF Values
<1> HIDE DEF v
<1> QED
  BY <1>12, <1>14 DEF n

(* The same with zeros above.                                              *)
LEMMA MagnitudeValues ==
  ASSUME NEW data \in Seq(Limbs), NEW n \in Nat, Len(data) <= n
  PROVE  \E v : Values(data, n, v) /\ v[0] = Magnitude(data)
<1>1. PICK w : Values(data, Len(data), w) /\ w[0] = Magnitude(data)
  BY MagnitudeOwn
<1> DEFINE v == [i \in 0..n |-> IF i <= Len(data) THEN w[i] ELSE 0]
<1>2. w \in [0..Len(data) -> Nat] /\ w[Len(data)] = 0
      /\ \A i \in 1..Len(data) : w[i - 1] = Limb(data, i) + Base * w[i]
  BY <1>1 DEF Values
<1>3. v \in [0..n -> Nat] /\ v[n] = 0 /\ v[0] = w[0]
  BY <1>2
<1>4. ASSUME NEW i \in 1..n
      PROVE  v[i - 1] = Limb(data, i) + Base * v[i]
  <2>1. CASE i <= Len(data)
    BY <1>2, <2>1
  <2>2. CASE i > Len(data)
    <3>1. v[i - 1] = 0 /\ v[i] = 0 /\ Limb(data, i) = 0
      BY <1>2, <2>2, LimbIsLimb
    <3> QED
      BY <3>1, BaseFacts
  <2> QED
    BY <2>1, <2>2
<1>5. Values(data, n, v)
  BY <1>3, <1>4 DEF Values
<1> HIDE DEF v
<1> QED
  BY <1>1, <1>3, <1>5

(* These equations determine the value.                                    *)
LEMMA MagnitudeIs ==
  ASSUME NEW data \in Seq(Limbs), NEW n \in Nat, Len(data) <= n, NEW w \in [0..n -> Int],
         w[n] = 0, \A i \in 1..n : w[i - 1] = Limb(data, i) + Base * w[i]
  PROVE  w[0] = Magnitude(data) /\ Values(data, n, w)
<1>1. PICK v : Values(data, n, v) /\ v[0] = Magnitude(data)
  BY MagnitudeValues
<1>2. v \in [0..n -> Nat] /\ v[n] = 0 /\ \A i \in 1..n : v[i - 1] = Limb(data, i) + Base * v[i]
  BY <1>1 DEF Values
<1> DEFINE T == {i \in 0..n : v[i] = w[i]}
<1>3. n \in T
  BY <1>2
<1>4. ASSUME NEW i \in 1..n, i \in T
      PROVE  i - 1 \in T
  BY <1>2, <1>4
<1>5. 0..n \subseteq T
  <2> HIDE DEF T
  <2> QED
    BY <1>3, <1>4, Downwards
<1>6. w = v
  BY <1>2, <1>5
<1> QED
  BY <1>1, <1>6

-----------------------------------------------------------------------------
(* Numbers without leading zeros, and what normalize makes of a number.    *)
Proper(a) ==
  /\ a \in Bigs /\ a.data # <<>>
  /\ a.data[Len(a.data)] # 0 \/ a = BigZero

Trimmed(a) ==
  /\ a \in Bigs /\ a.data # <<>>
  /\ Len(a.data) > 1 => a.data[Len(a.data)] # 0

LEMMA BigFacts ==
  ASSUME NEW a \in Bigs
  PROVE  /\ a.sign \in {1, -1} /\ a.data \in Seq(Limbs) /\ Len(a.data) \in Nat
         /\ \A s, d : Big(s, d).sign = s /\ Big(s, d).data = d
         /\ \A s \in {1, -1}, d \in Seq(Limbs) : Big(s, d) \in Bigs
BY DEF Bigs, Big

LEMMA MagnitudeNat ==
  ASSUME NEW data \in Seq(Limbs)
  PROVE  Magnitude(data) \in Nat
<1>1. PICK v : Values(data, Len(data), v) /\ v[0] = Magnitude(data)
  BY MagnitudeOwn
<1>2. Len(data) \in Nat
  OBVIOUS
<1> QED
  BY <1>1, <1>2 DEF Values

LEMMA MagnitudeZero ==
  ASSUME NEW data \in Seq(Limbs)
  PROVE  Magnitude(data) = 0 <=> \A i \in 1..Len(data) : data[i] = 0
<1>0. PICK n \in Nat : n = Len(data)
  OBVIOUS
<1>1. PICK v : Values(data, n, v) /\ v[0] = Magnitude(data)
  BY <1>0, MagnitudeOwn
<1>2. /\ v \in [0..n -> Nat] /\ v[n] = 0 /\ Base \in Nat /\ Base >= 4
      /\ \A i \in 1..n : data[i] \in Nat /\ v[i - 1] = data[i] + Base * v[i]
  <2>1. \A i \in 1..n : data[i] \in Limbs /\ Limb(data, i) = data[i]
    BY <1>0, LimbIsLimb
  <2> QED
    BY <1>1, <2>1, LimbFacts DEF Values
<1>3. ASSUME \A i \in 1..n : data[i] = 0
      PROVE  v[0] = 0
  <2> DEFINE T == {i \in 0..n : v[i] = 0}
  <2>1. n \in T
    BY <1>2
  <2>2. ASSUME NEW i \in 1..n, i \in T
        PROVE  i - 1 \in T
    <3>1. v[i] = 0 /\ data[i] = 0 /\ v[i - 1] = data[i] + Base * v[i]
      BY <1>2, <1>3, <2>2
    <3>2. Base * 0 = 0
      BY <1>2
    <3> QED
      BY <3>1, <3>2
  <2>3. 0..n \subseteq T
    <3> HIDE DEF T
    <3> QED
      BY <2>1, <2>2, Downwards
  <2> QED
    BY <2>3
<1>4. ASSUME v[0] = 0
      PROVE  \A i \in 1..n : data[i] = 0
  <2>0. ASSUME NEW i \in 1..n, v[i - 1] = 0
        PROVE  data[i] = 0 /\ v[i] = 0
    <3>1. v[i] \in Nat /\ data[i] \in Nat /\ 0 = data[i] + Base * v[i]
      BY <1>2, <2>0
    <3>2. Base * v[i] \in Nat /\ Base * v[i] >= v[i]
      BY <1>2, <3>1, SMTT(60)
    <3>3. PICK p \in Nat : p = Base * v[i] /\ p >= v[i]
      BY <3>2
    <3> QED
      BY <3>1, <3>3
  <2> DEFINE T == {i \in 0..n : v[i] = 0}
  <2>1. 0 \in T
    BY <1>4
  <2>2. ASSUME NEW i \in 1..n, i - 1 \in T
        PROVE  i \in T
    BY <2>0, <2>2
  <2>3. 0..n \subseteq T
    <3> HIDE DEF T
    <3> QED
      BY <2>1, <2>2, Upwards
  <2>4. ASSUME NEW i \in 1..n
        PROVE  data[i] = 0
    <3>1. i - 1 \in 0..n
      OBVIOUS
    <3> QED
      BY <2>0, <2>3, <3>1
  <2> QED
    BY <2>4
<1> QED
  BY <1>0, <1>1, <1>3, <1>4

LEMMA IsZeroMeans ==
  ASSUME NEW a \in Bigs
  PROVE  /\ IsZero(a) <=> Magnitude(a.data) = 0
         /\ IsZero(a) <=> BigVal(a) = 0
<1>1. IsZero(a) <=> Magnitude(a.data) = 0
  BY BigFacts, MagnitudeZero DEF IsZero
<1>2. Magnitude(a.data) \in Nat
  BY BigFacts, MagnitudeNat
<1> QED
  BY <1>1, <1>2, BigFacts DEF BigVal

LEMMA BigZeroFacts == Proper(BigZero) /\ BigVal(BigZero) = 0 /\ Magnitude(BigZero.data) = 0
<1>1. BigZero \in Bigs /\ BigZero.data = <<0>> /\ BigZero.sign = 1
  BY BaseFacts DEF BigZero, Big, Bigs
<1>2. <<0>> \in Seq(Limbs)
  BY BaseFacts
<1>3. Magnitude(<<0>>) = 0
  <2>1. PICK d : d = <<0>>
    OBVIOUS
  <2>2. d \in Seq(Limbs) /\ Len(d) = 1 /\ d[1] = 0
    BY <1>2, <2>1
  <2>3. \A i \in 1..Len(d) : d[i] = 0
    BY <2>2
  <2> QED
    BY <2>1, <2>2, <2>3, MagnitudeZero
<1> QED
  BY <1>1, <1>3 DEF Proper, BigVal

LEMMA ProperIsTrimmed ==
  ASSUME NEW a, Proper(a)
  PROVE  Trimmed(a) /\ (IsZero(a) => a = BigZero)
<1>1. a.data \in Seq(Limbs) /\ Len(a.data) \in Nat /\ a \in Bigs /\ a.data # <<>>
  BY BigFacts DEF Proper
<1>2. CASE a = BigZero
  <2>1. BigZero.data = <<0>>
    BY DEF BigZero, Big
  <2>2. Len(BigZero.data) = 1
    BY <2>1
  <2> QED
    BY <1>1, <1>2, <2>2 DEF Trimmed
<1>3. CASE a.data[Len(a.data)] # 0
  <2>1. Len(a.data) \in DOMAIN a.data
    BY <1>1
  <2> QED
    BY <1>1, <1>3, <2>1 DEF Trimmed, IsZero
<1> QED
  BY <1>2, <1>3 DEF Proper

(* The limbs above the highest one that counts do not.                     *)
LEMMA MagnitudeCut ==
  ASSUME NEW data \in Seq(Limbs), NEW m \in 1..Len(data),
         \A i \in 1..Len(data) : i > m => data[i] = 0
  PROVE  /\ SubSeq(data, 1, m) \in Seq(Limbs) /\ Len(SubSeq(data, 1, m)) = m
         /\ \A i \in 1..m : SubSeq(data, 1, m)[i] = data[i]
         /\ Magnitude(SubSeq(data, 1, m)) = Magnitude(data)
<1> DEFINE cut == SubSeq(data, 1, m)
<1>0. PICK n \in Nat : n = Len(data)
  OBVIOUS
<1>1. cut \in Seq(Limbs) /\ Len(cut) = m /\ \A i \in 1..m : cut[i] = data[i]
  OBVIOUS
<1> HIDE DEF cut
<1>2. PICK v : Values(data, n, v) /\ v[0] = Magnitude(data)
  BY <1>0, MagnitudeOwn
<1>3. ASSUME NEW i \in 1..n
      PROVE  Limb(data, i) = Limb(cut, i)
  <2>1. CASE i <= m
    BY <1>0, <1>1, <2>1, LimbIsLimb
  <2>2. CASE i > m
    BY <1>0, <1>1, <2>2, LimbIsLimb
  <2> QED
    BY <2>1, <2>2
<1>4. v \in [0..n -> Int] /\ v[n] = 0 /\ \A i \in 1..n : v[i - 1] = Limb(cut, i) + Base * v[i]
  BY <1>2, <1>3 DEF Values
<1>5. v[0] = Magnitude(cut)
  <2>1. Len(cut) <= n
    BY <1>0, <1>1
  <2> QED
    BY <1>1, <1>4, <2>1, MagnitudeIs
<1> QED
  BY <1>1, <1>2, <1>5 DEF cut

(* normalize keeps the number (NumBigObj::normalize).                      *)
LEMMA NormalizeKeeps ==
  ASSUME NEW a \in Bigs
  PROVE  /\ Proper(Normalize(a)) /\ BigVal(Normalize(a)) = BigVal(a)
         /\ Magnitude(Normalize(a).data) = Magnitude(a.data)
         /\ IsZero(a) => Normalize(a) = BigZero
         /\ ~IsZero(a) => Normalize(a).sign = a.sign
         /\ Len(Normalize(a).data) <= Len(a.data) \/ Normalize(a) = BigZero
<1> DEFINE used == {i \in DOMAIN a.data : a.data[i] # 0}
           n == Len(a.data)
<1>0. a.data \in Seq(Limbs) /\ a.sign \in {1, -1} /\ n \in Nat /\ DOMAIN a.data = 1..n
  BY BigFacts
<1>1. CASE used = {}
  <2>1. IsZero(a)
    BY <1>1 DEF IsZero
  <2>2. Normalize(a) = BigZero
    BY <1>1 DEF Normalize
  <2>3. Magnitude(a.data) = 0 /\ BigVal(a) = 0
    BY <2>1, IsZeroMeans
  <2> QED
    BY <2>1, <2>2, <2>3, BigZeroFacts
<1>2. CASE used # {}
  <2>1. PICK i \in used : \A j \in used : j <= i
    BY <1>0, <1>2, Greatest
  <2>2. Max(used) \in used /\ \A j \in used : Max(used) >= j
    <3>1. \E k \in used : \A j \in used : k >= j
      BY <1>0, <2>1
    <3> HIDE DEF used
    <3> QED
      BY <3>1 DEF Max
  <2>3. PICK m \in 1..n : m = Max(used) /\ a.data[m] # 0 /\ \A j \in 1..n : j > m => a.data[j] = 0
    <3>1. PICK m : m = Max(used)
      OBVIOUS
    <3>2. m \in 1..n /\ a.data[m] # 0
      BY <1>0, <2>2, <3>1
    <3>3. ASSUME NEW j \in 1..n, j > m
          PROVE  a.data[j] = 0
      <4>1. j \notin used
        <5>1. \A k \in used : m >= k
          BY <2>2, <3>1
        <5>2. ~(m >= j)
          BY <1>0, <3>2, <3>3
        <5> QED
          BY <5>1, <5>2
      <4> QED
        BY <1>0, <4>1
    <3> QED
      BY <3>1, <3>2, <3>3
  <2> DEFINE cut == SubSeq(a.data, 1, m)
  <2>4. Normalize(a) = Big(a.sign, cut)
    BY <1>2, <2>3 DEF Normalize
  <2>5. /\ cut \in Seq(Limbs) /\ Len(cut) = m /\ cut[m] # 0
        /\ Magnitude(cut) = Magnitude(a.data)
    <3>1. m \in 1..Len(a.data) /\ \A j \in 1..Len(a.data) : j > m => a.data[j] = 0
      BY <2>3
    <3>2. Magnitude(cut) = Magnitude(a.data) /\ cut \in Seq(Limbs) /\ Len(cut) = m
          /\ \A j \in 1..m : cut[j] = a.data[j]
      BY <1>0, <3>1, MagnitudeCut
    <3> HIDE DEF cut
    <3>3. cut[m] = a.data[m]
      BY <3>2
    <3> QED
      BY <2>3, <3>2, <3>3
  <2> HIDE DEF cut
  <2>6. ~IsZero(a)
    BY <1>0, <2>3 DEF IsZero
  <2>7. Normalize(a) \in Bigs /\ Normalize(a).sign = a.sign /\ Normalize(a).data = cut
    BY <1>0, <2>4, <2>5, BigFacts
  <2>8. cut # <<>>
    BY <2>5
  <2>9. m <= n
    OBVIOUS
  <2> QED
    BY <2>3, <2>5, <2>6, <2>7, <2>8, <2>9 DEF Proper, BigVal
<1> QED
  BY <1>1, <1>2

-----------------------------------------------------------------------------
(* The sum of the magnitudes.                                              *)

(* The carry the code computes is the carry.                               *)
LEMMA SumOfLimbs ==
  ASSUME NEW u \in Limbs, NEW w \in Limbs, NEW c \in {0, 1},
         NEW s, s = (u + w + c) % Base,
         NEW k, k = IF s < u \/ (s = u /\ c > 0) THEN 1 ELSE 0
  PROVE  s \in Limbs /\ k \in {0, 1} /\ u + w + c = s + Base * k
<1>1. PICK b \in Nat : b = Base /\ b >= 4
  BY LimbFacts
<1>2. u \in 0..(b - 1) /\ w \in 0..(b - 1) /\ Limbs = 0..(b - 1)
  BY <1>1, LimbFacts
<1>3. CASE u + w + c < b
  <2>1. s = u + w + c
    <3>1. u + w + c \in 0..(b - 1) /\ b * 0 + (u + w + c) = u + w + c
      BY <1>2, <1>3
    <3>2. (b * 0 + (u + w + c)) % b = u + w + c
      BY <1>1, <3>1, DivMod
    <3> QED
      BY <1>1, <3>1, <3>2
  <2>2. k = 0
    BY <1>2, <2>1
  <2>3. Base * 0 = 0
    BY <1>1
  <2> QED
    BY <1>2, <1>3, <2>1, <2>2, <2>3
<1>4. CASE u + w + c >= b
  <2>1. s = u + w + c - b
    <3>1. PICK r \in 0..(b - 1) : r = u + w + c - b
      BY <1>2, <1>4
    <3>2. (b * 1 + r) % b = r
      BY <1>1, DivMod
    <3>3. b * 1 + r = u + w + c
      BY <1>1, <1>2, <3>1
    <3> QED
      BY <1>1, <3>1, <3>2, <3>3
  <2>2. k = 1
    BY <1>2, <1>4, <2>1
  <2>3. Base * 1 = b
    BY <1>1
  <2> QED
    BY <1>2, <1>4, <2>1, <2>2, <2>3
<1> QED
  BY <1>2, <1>3, <1>4

LEMMA SumCarries ==
  ASSUME NEW n \in Nat, NEW d \in [1..n -> Limbs], NEW e \in [1..n -> Limbs]
  PROVE  \E g : /\ g \in [0..n -> {0, 1}] /\ g[0] = 0
                /\ \A i \in 1..n :
                     g[i] = IF \/ (d[i] + e[i] + g[i - 1]) % Base < d[i]
                               \/ (d[i] + e[i] + g[i - 1]) % Base = d[i] /\ g[i - 1] > 0
                            THEN 1 ELSE 0
<1> DEFINE K(c, i) == IF \/ (d[i] + e[i] + c) % Base < d[i]
                         \/ (d[i] + e[i] + c) % Base = d[i] /\ c > 0
                      THEN 1 ELSE 0
           G == [p \in {0, 1} \X (1..n) |-> K(p[1], p[2])]
<1>1. StepOn(G, {0, 1}, n)
  <2>1. \A c, i : K(c, i) \in {0, 1}
    OBVIOUS
  <2> HIDE DEF K
  <2> QED
    BY <2>1 DEF StepOn
<1>2. \A i \in 1..n, c \in {0, 1} : G[<<c, i>>] = K(c, i)
  <2> HIDE DEF K
  <2> QED
    OBVIOUS
<1> HIDE DEF G
<1>3. PICK c : c \in {0, 1} /\ c = 0
  OBVIOUS
<1>4. PICK g : Solution(g, c, G, {0, 1}, n)
  BY <1>1, <1>3, Recursion
<1>5. g \in [0..n -> {0, 1}] /\ g[0] = 0 /\ \A i \in 1..n : g[i] = G[<<g[i - 1], i>>]
  BY <1>3, <1>4 DEF Solution
<1>6. \A i \in 1..n : g[i] = K(g[i - 1], i)
  <2> HIDE DEF K
  <2>1. \A i \in 1..n : g[i - 1] \in {0, 1}
    BY <1>5
  <2> QED
    BY <1>2, <1>5, <2>1
<1> QED
  BY <1>5, <1>6

LEMMA AddAbsExact ==
  ASSUME NEW a \in Bigs, NEW b \in Bigs
  PROVE  /\ Proper(AddAbs(a, b))
         /\ AddAbs(a, b) = BigZero \/ AddAbs(a, b).sign = 1
         /\ Len(b.data) <= Len(a.data) =>
              Magnitude(AddAbs(a, b).data) = Magnitude(a.data) + Magnitude(b.data)
<1> DEFINE n == Len(a.data)
           S(i, c) == (a.data[i] + Limb(b.data, i) + c) % Base
           F(f) == [i \in 0..n |->
                      IF i = 0 THEN 0
                      ELSE IF S(i, f[i - 1]) < a.data[i] \/ (S(i, f[i - 1]) = a.data[i] /\ f[i - 1] > 0)
                           THEN 1 ELSE 0]
           t == CHOOSE f : f = F(f)
           sum == [i \in 1..(n + 1) |-> IF i <= n THEN S(i, t[i - 1]) ELSE t[n]]
<1>1. AddAbs(a, b) = Normalize(Big(1, sum))
  BY DEF AddAbs
<1>2. /\ a.data \in Seq(Limbs) /\ b.data \in Seq(Limbs) /\ n \in Nat /\ Len(b.data) \in Nat
      /\ a.data \in [1..n -> Limbs]
  <2>1. a.data \in Seq(Limbs) /\ b.data \in Seq(Limbs)
    BY BigFacts
  <2> QED
    BY <2>1
<1>3. PICK N \in Nat : N = n /\ N = Len(a.data)
  BY <1>2
<1>4. \A i \in 1..N : Limb(b.data, i) \in Limbs /\ a.data[i] \in Limbs /\ Limb(a.data, i) = a.data[i]
  BY <1>2, <1>3, LimbIsLimb
<1> DEFINE e == [i \in 1..N |-> Limb(b.data, i)]
<1>5. PICK g : /\ g \in [0..N -> {0, 1}] /\ g[0] = 0
               /\ \A i \in 1..N :
                    g[i] = IF \/ (a.data[i] + e[i] + g[i - 1]) % Base < a.data[i]
                              \/ (a.data[i] + e[i] + g[i - 1]) % Base = a.data[i] /\ g[i - 1] > 0
                           THEN 1 ELSE 0
  <2>1. e \in [1..N -> Limbs] /\ a.data \in [1..N -> Limbs]
    BY <1>2, <1>3, <1>4
  <2> HIDE DEF e
  <2> QED
    BY <2>1, SumCarries
<1>6. \A i \in 1..N :
        g[i] = IF S(i, g[i - 1]) < a.data[i] \/ (S(i, g[i - 1]) = a.data[i] /\ g[i - 1] > 0)
               THEN 1 ELSE 0
  BY <1>5
<1> HIDE DEF e, S
<1>7. g = F(g)
  <2> HIDE DEF F
  <2>1. F(g) = [i \in 0..N |->
                  IF i = 0 THEN 0
                  ELSE IF S(i, g[i - 1]) < a.data[i] \/ (S(i, g[i - 1]) = a.data[i] /\ g[i - 1] > 0)
                       THEN 1 ELSE 0]
    BY <1>3 DEF F
  <2>2. \A i \in 0..N : i = 0 \/ i \in 1..N
    OBVIOUS
  <2> QED
    BY <1>5, <1>6, <2>1, <2>2
<1>8. t = F(t)
  <2> HIDE DEF F
  <2> QED
    BY <1>7
<1> HIDE DEF t, n
<1>9. t[0] = 0 /\ \A i \in 1..N :
        t[i] = IF S(i, t[i - 1]) < a.data[i] \/ (S(i, t[i - 1]) = a.data[i] /\ t[i - 1] > 0)
               THEN 1 ELSE 0
  <2>1. \A i \in 0..N :
          t[i] = IF i = 0 THEN 0
                 ELSE IF S(i, t[i - 1]) < a.data[i] \/ (S(i, t[i - 1]) = a.data[i] /\ t[i - 1] > 0)
                      THEN 1 ELSE 0
    BY <1>3, <1>8
  <2> HIDE DEF F
  <2> QED
    BY <2>1
<1> HIDE DEF F
<1> DEFINE Bit == {0, 1}
           T == {i \in 0..N : t[i] \in Bit}
<1>10. \A i \in 0..N : t[i] \in {0, 1} /\ t[i] \in Nat /\ t[i] \in Limbs
  <2>1. 0 \in T
    BY <1>9
  <2>2. ASSUME NEW i \in 1..N
        PROVE  i \in T
    BY <1>9
  <2>3. \A i \in 0..N : i = 0 \/ i \in 1..N
    OBVIOUS
  <2> QED
    BY <2>1, <2>2, <2>3, LimbFacts
<1>11. ASSUME NEW i \in 1..N
       PROVE  /\ S(i, t[i - 1]) \in Limbs
              /\ a.data[i] + Limb(b.data, i) + t[i - 1] = S(i, t[i - 1]) + Base * t[i]
  <2>1. t[i - 1] \in {0, 1}
    BY <1>10
  <2>2. S(i, t[i - 1]) = (a.data[i] + Limb(b.data, i) + t[i - 1]) % Base
    BY DEF S
  <2> QED
    BY <1>4, <1>9, <2>1, <2>2, SumOfLimbs
<1>12. /\ sum \in Seq(Limbs) /\ Len(sum) = N + 1 /\ sum[N + 1] = t[N]
       /\ \A i \in 1..N : sum[i] = S(i, t[i - 1])
  <2>1. sum = [i \in 1..(N + 1) |-> IF i <= N THEN S(i, t[i - 1]) ELSE t[N]]
    BY <1>3
  <2>2. \A i \in 1..(N + 1) : (IF i <= N THEN S(i, t[i - 1]) ELSE t[N]) \in Limbs
    BY <1>10, <1>11, LimbFacts
  <2> HIDE DEF sum
  <2> QED
    BY <2>1, <2>2
<1> HIDE DEF sum
<1>13. ASSUME Len(b.data) <= Len(a.data)
       PROVE  Magnitude(sum) = Magnitude(a.data) + Magnitude(b.data)
  <2>13. PICK v : Values(a.data, N, v) /\ v[0] = Magnitude(a.data)
    BY <1>2, <1>3, <1>13, MagnitudeValues
  <2>14. PICK w : Values(b.data, N, w) /\ w[0] = Magnitude(b.data)
    BY <1>2, <1>3, <1>13, MagnitudeValues
  <2>15. /\ v \in [0..N -> Nat] /\ w \in [0..N -> Nat] /\ v[N] = 0 /\ w[N] = 0
         /\ \A i \in 1..N : v[i - 1] = a.data[i] + Base * v[i] /\ w[i - 1] = Limb(b.data, i) + Base * w[i]
    BY <1>4, <2>13, <2>14 DEF Values
  <2> DEFINE z == [i \in 0..(N + 1) |-> IF i = N + 1 THEN 0 ELSE v[i] + w[i] + t[i]]
  <2>16. z \in [0..(N + 1) -> Int] /\ z[N + 1] = 0
    <3>1. \A i \in 0..N : v[i] + w[i] + t[i] \in Int
      BY <1>10, <2>15
    <3> QED
      BY <3>1
  <2>17. ASSUME NEW i \in 1..(N + 1)
         PROVE  z[i - 1] = Limb(sum, i) + Base * z[i]
    <3>1. Limb(sum, i) = sum[i] /\ Base \in Nat
      <4>1. i \in Nat \ {0} /\ i <= Len(sum)
        BY <1>12
      <4> QED
        BY <1>12, <4>1, LimbIsLimb, LimbFacts
    <3>2. CASE i = N + 1
      <4>1. z[i - 1] = t[N] /\ z[i] = 0 /\ sum[i] = t[N] /\ t[N] \in {0, 1}
        <5>1. i - 1 = N /\ N \in 0..(N + 1) /\ N # N + 1 /\ i \in 0..(N + 1) /\ N \in 0..N
          BY <3>2
        <5>2. t[N] \in {0, 1} /\ t[N] \in Nat /\ v[N] = 0 /\ w[N] = 0
          BY <1>10, <2>15, <5>1
        <5>3. z[N] = v[N] + w[N] + t[N] /\ z[i] = 0
          BY <3>2, <5>1
        <5> QED
          BY <1>12, <3>2, <5>1, <5>2, <5>3
      <4>2. Base * 0 = 0
        BY <3>1
      <4> QED
        BY <3>1, <4>1, <4>2
    <3>3. CASE i # N + 1
      <4>0. i \in 1..N /\ i - 1 \in 0..N
        BY <3>3
      <4>1. z[i - 1] = v[i - 1] + w[i - 1] + t[i - 1] /\ z[i] = v[i] + w[i] + t[i]
        BY <4>0
      <4>2. PICK p \in Limbs, q \in Limbs, s \in Limbs :
              p = a.data[i] /\ q = Limb(b.data, i) /\ s = S(i, t[i - 1]) /\ sum[i] = s
        BY <1>4, <1>11, <1>12, <4>0
      <4>3. /\ v[i - 1] = p + Base * v[i] /\ w[i - 1] = q + Base * w[i]
            /\ p + q + t[i - 1] = s + Base * t[i]
        BY <1>11, <2>15, <4>0, <4>2
      <4>4. v[i] \in Nat /\ w[i] \in Nat /\ t[i] \in Nat /\ t[i - 1] \in Nat
        BY <1>10, <2>15, <4>0
      <4>5. p \in Nat /\ q \in Nat /\ s \in Nat
        BY LimbFacts
      <4>6. Base * (v[i] + w[i] + t[i]) = Base * v[i] + Base * w[i] + Base * t[i]
        BY <3>1, <4>4
      <4>7. PICK bv \in Nat, bw \in Nat, bt \in Nat : bv = Base * v[i] /\ bw = Base * w[i] /\ bt = Base * t[i]
        BY <3>1, <4>4
      <4> HIDE DEF z
      <4>8. Base * z[i] = bv + bw + bt
        BY <4>1, <4>6, <4>7
      <4>9. z[i - 1] = s + (bv + bw + bt)
        <5>1. v[i - 1] = p + bv /\ w[i - 1] = q + bw /\ p + q + t[i - 1] = s + bt
          BY <4>3, <4>7
        <5>2. PICK c \in Nat : c = t[i - 1]
          BY <4>4
        <5>3. z[i - 1] = (p + bv) + (q + bw) + c /\ p + q + c = s + bt
          BY <4>1, <5>1, <5>2
        <5> QED
          BY <4>5, <5>3
      <4> QED
        BY <3>1, <4>2, <4>8, <4>9
    <3> QED
      BY <3>2, <3>3
  <2>18. Magnitude(sum) = Magnitude(a.data) + Magnitude(b.data)
    <3>1. z[0] = v[0] + w[0] /\ v[0] \in Nat /\ w[0] \in Nat
      <4>1. z[0] = v[0] + w[0] + t[0] /\ v[0] \in Nat /\ w[0] \in Nat
        BY <2>15
      <4> QED
        BY <1>9, <4>1
    <3> HIDE DEF z
    <3>2. z[0] = Magnitude(sum)
      <4>1. PICK m \in Nat : m = N + 1
        OBVIOUS
      <4>2. z \in [0..m -> Int] /\ z[m] = 0 /\ \A i \in 1..m : z[i - 1] = Limb(sum, i) + Base * z[i]
        BY <2>16, <2>17, <4>1
      <4>3. Len(sum) <= m
        BY <1>12, <4>1
      <4> QED
        BY <1>12, <4>2, <4>3, MagnitudeIs
    <3> QED
      BY <2>13, <2>14, <3>1, <3>2
  <2> QED
    BY <2>18
<1>14. Big(1, sum) \in Bigs /\ Big(1, sum).data = sum /\ Big(1, sum).sign = 1
  BY <1>12 DEF Big, Bigs
<1>15. AddAbs(a, b) = BigZero \/ AddAbs(a, b).sign = 1
  BY <1>1, <1>14, NormalizeKeeps
<1> QED
  BY <1>1, <1>13, <1>14, <1>15, NormalizeKeeps

-----------------------------------------------------------------------------
(* The difference of the magnitudes.                                       *)

LEMMA DifferenceOfLimbs ==
  ASSUME NEW u \in Limbs, NEW w \in Limbs, NEW c \in {0, 1},
         NEW s, s = (u - w - c) % Base,
         NEW k, k = IF u < w \/ (u = w /\ c > 0) THEN 1 ELSE 0
  PROVE  s \in Limbs /\ k \in {0, 1} /\ u - w - c = s - Base * k
<1>1. PICK b \in Nat : b = Base /\ b >= 4
  BY LimbFacts
<1>2. u \in 0..(b - 1) /\ w \in 0..(b - 1) /\ Limbs = 0..(b - 1)
  BY <1>1, LimbFacts
<1>3. CASE u - w - c >= 0
  <2>1. PICK r \in 0..(b - 1) : r = u - w - c
    BY <1>2, <1>3
  <2>2. (b * 0 + r) % b = r
    BY <1>1, DivMod
  <2>3. b * 0 + r = r /\ Base * 0 = 0
    BY <1>1
  <2>4. s = r
    BY <1>1, <2>1, <2>2, <2>3
  <2>5. k = 0
    BY <1>2, <1>3
  <2> QED
    BY <1>2, <2>1, <2>3, <2>4, <2>5
<1>4. CASE u - w - c < 0
  <2>1. PICK r \in 0..(b - 1) : r = u - w - c + b
    BY <1>2, <1>4
  <2>2. PICK q \in Int : q = -1
    OBVIOUS
  <2>3. (b * q + r) % b = r
    BY <1>1, DivMod
  <2>4. b * q + r = u - w - c /\ Base * 1 = b
    BY <1>1, <1>2, <2>1, <2>2
  <2>5. s = r
    BY <1>1, <2>3, <2>4
  <2>6. k = 1
    BY <1>2, <1>4
  <2> QED
    BY <1>2, <2>1, <2>4, <2>5, <2>6
<1> QED
  BY <1>2, <1>3, <1>4

LEMMA DifferenceCarries ==
  ASSUME NEW n \in Nat, NEW d \in [1..n -> Limbs], NEW e \in [1..n -> Limbs]
  PROVE  \E g : /\ g \in [0..n -> {0, 1}] /\ g[0] = 0
                /\ \A i \in 1..n :
                     g[i] = IF d[i] < e[i] \/ (d[i] = e[i] /\ g[i - 1] > 0) THEN 1 ELSE 0
<1> DEFINE K(c, i) == IF d[i] < e[i] \/ (d[i] = e[i] /\ c > 0) THEN 1 ELSE 0
           G == [p \in {0, 1} \X (1..n) |-> K(p[1], p[2])]
<1>1. StepOn(G, {0, 1}, n)
  <2>1. \A c, i : K(c, i) \in {0, 1}
    OBVIOUS
  <2> HIDE DEF K
  <2> QED
    BY <2>1 DEF StepOn
<1>2. \A i \in 1..n, c \in {0, 1} : G[<<c, i>>] = K(c, i)
  <2> HIDE DEF K
  <2> QED
    OBVIOUS
<1> HIDE DEF G
<1>3. PICK c : c \in {0, 1} /\ c = 0
  OBVIOUS
<1>4. PICK g : Solution(g, c, G, {0, 1}, n)
  BY <1>1, <1>3, Recursion
<1>5. g \in [0..n -> {0, 1}] /\ g[0] = 0 /\ \A i \in 1..n : g[i] = G[<<g[i - 1], i>>]
  BY <1>3, <1>4 DEF Solution
<1>6. \A i \in 1..n : g[i] = K(g[i - 1], i)
  <2> HIDE DEF K
  <2>1. \A i \in 1..n : g[i - 1] \in {0, 1}
    BY <1>5
  <2> QED
    BY <1>2, <1>5, <2>1
<1> QED
  BY <1>5, <1>6

(* The borrow out of the highest limb is zero: there is nothing to borrow  *)
(* from.                                                                   *)
LEMMA NoBorrowLeft ==
  ASSUME NEW n \in Nat, NEW z \in [0..n -> Int], NEW s \in [1..n -> Limbs],
         z[0] >= 0, \A i \in 1..n : z[i - 1] = s[i] + Base * z[i]
  PROVE  z[n] >= 0
<1>1. SUFFICES ASSUME z[n] < 0
               PROVE  FALSE
  BY DEF Limbs
<1>2. PICK b \in Nat : b = Base /\ b >= 4 /\ Limbs = 0..(b - 1)
  BY LimbFacts
<1> DEFINE T == {i \in 0..n : z[i] < 0}
<1>3. n \in T
  BY <1>1
<1>4. ASSUME NEW i \in 1..n, i \in T
      PROVE  i - 1 \in T
  <2>1. z[i] \in Int /\ z[i] <= -1 /\ z[i - 1] = s[i] + b * z[i] /\ s[i] \in 0..(b - 1)
    BY <1>2, <1>4
  <2>2. b * z[i] <= -b
    <3>1. PICK m \in Nat : z[i] = -1 - m
      <4>1. -1 - z[i] \in Nat /\ z[i] = -1 - (-1 - z[i])
        BY <2>1, SMTT(60)
      <4> QED
        BY <4>1
    <3>2. b * m \in Nat /\ b * (-1 - m) = -b - b * m
      OBVIOUS
    <3> QED
      BY <3>1, <3>2
  <2>3. PICK m \in Int : m = b * z[i]
    BY <2>1
  <2>4. z[i - 1] < 0
    BY <2>1, <2>2, <2>3
  <2> QED
    BY <2>4
<1>5. 0..n \subseteq T
  <2> HIDE DEF T
  <2> QED
    BY <1>3, <1>4, Downwards
<1> QED
  BY <1>5

LEMMA SubAbsExact ==
  ASSUME NEW a \in Bigs, NEW b \in Bigs, Len(b.data) <= Len(a.data),
         Magnitude(b.data) <= Magnitude(a.data)
  PROVE  /\ Proper(SubAbs(a, b))
         /\ SubAbs(a, b) = BigZero \/ SubAbs(a, b).sign = 1
         /\ Magnitude(SubAbs(a, b).data) = Magnitude(a.data) - Magnitude(b.data)
<1> DEFINE n == Len(a.data)
           F(f) == [i \in 0..n |->
                      IF i = 0 THEN 0
                      ELSE IF \/ a.data[i] < Limb(b.data, i)
                              \/ a.data[i] = Limb(b.data, i) /\ f[i - 1] > 0
                           THEN 1 ELSE 0]
           t == CHOOSE f : f = F(f)
           diff == [i \in 1..n |-> (a.data[i] - Limb(b.data, i) - t[i - 1]) % Base]
<1>1. SubAbs(a, b) = Normalize(Big(1, diff))
  BY DEF SubAbs
<1>2. /\ a.data \in Seq(Limbs) /\ b.data \in Seq(Limbs) /\ n \in Nat /\ Len(b.data) \in Nat
      /\ a.data \in [1..n -> Limbs]
  <2>1. a.data \in Seq(Limbs) /\ b.data \in Seq(Limbs)
    BY BigFacts
  <2> QED
    BY <2>1
<1>3. PICK N \in Nat : N = n /\ N = Len(a.data)
  BY <1>2
<1>4. \A i \in 1..N : Limb(b.data, i) \in Limbs /\ a.data[i] \in Limbs /\ Limb(a.data, i) = a.data[i]
  BY <1>2, <1>3, LimbIsLimb
<1> DEFINE d == a.data
           e == [i \in 1..N |-> Limb(b.data, i)]
<1>5. PICK g : /\ g \in [0..N -> {0, 1}] /\ g[0] = 0
               /\ \A i \in 1..N :
                    g[i] = IF d[i] < e[i] \/ (d[i] = e[i] /\ g[i - 1] > 0) THEN 1 ELSE 0
  <2>1. d \in [1..N -> Limbs] /\ e \in [1..N -> Limbs]
    BY <1>2, <1>3, <1>4
  <2> HIDE DEF d, e
  <2> QED
    BY <2>1, DifferenceCarries
<1>6. \A i \in 1..N :
        g[i] = IF \/ a.data[i] < Limb(b.data, i)
                  \/ a.data[i] = Limb(b.data, i) /\ g[i - 1] > 0
               THEN 1 ELSE 0
  BY <1>5
<1> HIDE DEF e
<1>7. g = F(g)
  <2> HIDE DEF F
  <2>1. F(g) = [i \in 0..N |->
                  IF i = 0 THEN 0
                  ELSE IF \/ a.data[i] < Limb(b.data, i)
                          \/ a.data[i] = Limb(b.data, i) /\ g[i - 1] > 0
                       THEN 1 ELSE 0]
    BY <1>3 DEF F
  <2>2. \A i \in 0..N : i = 0 \/ i \in 1..N
    OBVIOUS
  <2> QED
    BY <1>5, <1>6, <2>1, <2>2
<1>8. t = F(t)
  <2> HIDE DEF F
  <2> QED
    BY <1>7
<1> HIDE DEF t, n
<1>9. t[0] = 0 /\ \A i \in 1..N :
        t[i] = IF \/ a.data[i] < Limb(b.data, i)
                  \/ a.data[i] = Limb(b.data, i) /\ t[i - 1] > 0
               THEN 1 ELSE 0
  <2>1. \A i \in 0..N :
          t[i] = IF i = 0 THEN 0
                 ELSE IF \/ a.data[i] < Limb(b.data, i)
                         \/ a.data[i] = Limb(b.data, i) /\ t[i - 1] > 0
                      THEN 1 ELSE 0
    BY <1>3, <1>8
  <2> HIDE DEF F
  <2> QED
    BY <2>1
<1> HIDE DEF F
<1>10. \A i \in 0..N : t[i] \in {0, 1} /\ t[i] \in Nat
  <2>1. t[0] \in {0, 1}
    BY <1>9
  <2>2. ASSUME NEW i \in 1..N
        PROVE  t[i] \in {0, 1}
    BY <1>9
  <2>3. \A i \in 0..N : i = 0 \/ i \in 1..N
    OBVIOUS
  <2> QED
    BY <2>1, <2>2, <2>3
<1> DEFINE S(i) == (a.data[i] - Limb(b.data, i) - t[i - 1]) % Base
<1>11. ASSUME NEW i \in 1..N
       PROVE  /\ S(i) \in Limbs
              /\ a.data[i] - Limb(b.data, i) - t[i - 1] = S(i) - Base * t[i]
  <2>1. t[i - 1] \in {0, 1}
    BY <1>10
  <2> QED
    BY <1>4, <1>9, <2>1, DifferenceOfLimbs
<1>12. diff \in Seq(Limbs) /\ Len(diff) = N /\ \A i \in 1..N : diff[i] = S(i) /\ diff[i] \in Limbs
  <2>1. diff = [i \in 1..N |-> S(i)]
    BY <1>3
  <2> HIDE DEF diff, S
  <2> QED
    BY <1>11, <2>1
<1> HIDE DEF diff, S
<1>13. PICK v : Values(a.data, N, v) /\ v[0] = Magnitude(a.data)
  BY <1>2, <1>3, MagnitudeValues
<1>14. PICK w : Values(b.data, N, w) /\ w[0] = Magnitude(b.data)
  BY <1>2, <1>3, MagnitudeValues
<1>15. /\ v \in [0..N -> Nat] /\ w \in [0..N -> Nat] /\ v[N] = 0 /\ w[N] = 0
       /\ \A i \in 1..N : v[i - 1] = a.data[i] + Base * v[i] /\ w[i - 1] = Limb(b.data, i) + Base * w[i]
  BY <1>4, <1>13, <1>14 DEF Values
<1> DEFINE z == [i \in 0..N |-> v[i] - w[i] - t[i]]
<1>16. z \in [0..N -> Int] /\ \A i \in 0..N : z[i] = v[i] - w[i] - t[i]
  <2>1. \A i \in 0..N : v[i] - w[i] - t[i] \in Int
    BY <1>10, <1>15
  <2> QED
    BY <2>1
<1> HIDE DEF z
<1>17. ASSUME NEW i \in 1..N
       PROVE  z[i - 1] = diff[i] + Base * z[i]
  <2>1. Base \in Nat
    BY LimbFacts
  <2>0. i \in 0..N /\ i - 1 \in 0..N
    OBVIOUS
  <2>2. z[i - 1] = v[i - 1] - w[i - 1] - t[i - 1] /\ z[i] = v[i] - w[i] - t[i]
    BY <1>16, <2>0
  <2>3. PICK p \in Nat, q \in Nat, s \in Nat :
          p = a.data[i] /\ q = Limb(b.data, i) /\ s = S(i) /\ diff[i] = s
    BY <1>4, <1>11, <1>12, LimbFacts
  <2>4. v[i] \in Nat /\ w[i] \in Nat /\ t[i] \in Nat /\ t[i - 1] \in Nat
    BY <1>10, <1>15, <2>0
  <2>5. Base * (v[i] - w[i] - t[i]) = Base * v[i] - Base * w[i] - Base * t[i]
    BY <2>1, <2>4
  <2>6. PICK bv \in Nat, bw \in Nat, bt \in Nat : bv = Base * v[i] /\ bw = Base * w[i] /\ bt = Base * t[i]
    <3>1. Base * v[i] \in Nat /\ Base * w[i] \in Nat /\ Base * t[i] \in Nat
      BY <2>1, <2>4
    <3> QED
      BY <3>1
  <2>7. Base * z[i] = bv - bw - bt
    BY <2>2, <2>5, <2>6
  <2>8. v[i - 1] = p + bv /\ w[i - 1] = q + bw /\ p - q - t[i - 1] = s - bt
    BY <1>11, <1>15, <2>3, <2>6
  <2>9. PICK c \in Nat : c = t[i - 1]
    BY <2>4
  <2>10. z[i - 1] = (p + bv) - (q + bw) - c /\ p - q - c = s - bt
    BY <2>2, <2>8, <2>9
  <2>11. z[i - 1] = s + (bv - bw - bt)
    BY <2>10
  <2> QED
    BY <2>3, <2>7, <2>11
<1>18. z[N] = 0 /\ z[0] = Magnitude(a.data) - Magnitude(b.data)
  <2>1. z[0] = v[0] - w[0] - t[0] /\ v[0] \in Nat /\ w[0] \in Nat /\ z[N] = 0 - 0 - t[N] /\ t[N] \in {0, 1}
    BY <1>10, <1>15, <1>16
  <2>2. z[0] = v[0] - w[0] /\ z[0] >= 0
    BY <1>9, <1>13, <1>14, <2>1
  <2>3. diff \in [1..N -> Limbs]
    BY <1>12
  <2>4. z[N] >= 0
    BY <1>16, <1>17, <2>2, <2>3, NoBorrowLeft
  <2> QED
    BY <1>13, <1>14, <2>1, <2>2, <2>4
<1>19. Magnitude(diff) = Magnitude(a.data) - Magnitude(b.data)
  <2>1. \A i \in 1..N : z[i - 1] = Limb(diff, i) + Base * z[i]
    BY <1>12, <1>17, LimbIsLimb
  <2>2. Len(diff) <= N /\ z[0] = Magnitude(diff)
    <3>1. diff \in Seq(Limbs) /\ Len(diff) <= N /\ z \in [0..N -> Int] /\ z[N] = 0
      BY <1>12, <1>16, <1>18
    <3> QED
      BY <2>1, <3>1, MagnitudeIs
  <2> QED
    BY <1>18, <2>2
<1>20. Big(1, diff) \in Bigs /\ Big(1, diff).data = diff /\ Big(1, diff).sign = 1
  BY <1>12 DEF Big, Bigs
<1>21. SubAbs(a, b) = BigZero \/ SubAbs(a, b).sign = 1
  BY <1>1, <1>20, NormalizeKeeps
<1> QED
  BY <1>1, <1>19, <1>20, <1>21, NormalizeKeeps

-----------------------------------------------------------------------------
(* Comparing magnitudes.                                                   *)

(* What is greater above stays greater, whatever the limbs below are.      *)
LEMMA GreaterAbove ==
  ASSUME NEW d \in Seq(Limbs), NEW e \in Seq(Limbs), NEW n \in Nat, NEW v, NEW w,
         Values(d, n, v), Values(e, n, w), NEW k \in 0..n, v[k] > w[k]
  PROVE  v[0] > w[0]
<1>1. /\ v \in [0..n -> Nat] /\ w \in [0..n -> Nat]
      /\ \A i \in 1..n : v[i - 1] = Limb(d, i) + Base * v[i] /\ w[i - 1] = Limb(e, i) + Base * w[i]
  BY DEF Values
<1>2. PICK b \in Nat : b = Base /\ b >= 4 /\ Limbs = 0..(b - 1)
  BY LimbFacts
<1> DEFINE T == {i \in 0..n : i <= k => v[i] > w[i]}
<1>3. n \in T
  OBVIOUS
<1>4. ASSUME NEW i \in 1..n, i \in T
      PROVE  i - 1 \in T
  <2>1. CASE i <= k
    <3>1. v[i] \in Nat /\ w[i] \in Nat /\ v[i] > w[i]
      BY <1>1, <1>4, <2>1
    <3>2. PICK p \in 0..(b - 1), q \in 0..(b - 1) : p = Limb(d, i) /\ q = Limb(e, i)
      <4>1. i \in Nat \ {0}
        OBVIOUS
      <4>2. Limb(d, i) \in Limbs /\ Limb(e, i) \in Limbs
        BY <4>1, LimbIsLimb
      <4> QED
        BY <1>2, <4>2
    <3>3. PICK m \in Nat : v[i] = w[i] + 1 + m
      <4>1. v[i] - w[i] - 1 \in Nat /\ v[i] = w[i] + 1 + (v[i] - w[i] - 1)
        BY <3>1
      <4> QED
        BY <4>1
    <3>4. b * m \in Nat /\ b * w[i] \in Nat /\ b * (w[i] + 1 + m) = b * w[i] + b + b * m
      <4>1. PICK u \in Nat : u = w[i]
        BY <3>1
      <4>2. b * m \in Nat /\ b * u \in Nat /\ b * (u + 1 + m) = b * u + b + b * m
        OBVIOUS
      <4> QED
        BY <4>1, <4>2
    <3>5. v[i - 1] = p + b * v[i] /\ w[i - 1] = q + b * w[i]
      BY <1>1, <1>2, <3>2
    <3>6. v[i - 1] = p + (b * w[i] + b + b * m)
      BY <3>3, <3>4, <3>5
    <3>7. PICK bw \in Nat, bm \in Nat : bw = b * w[i] /\ bm = b * m
      BY <3>4
    <3>8. v[i - 1] = p + (bw + b + bm)
      BY <3>6, <3>7
    <3>9. w[i - 1] = q + bw
      BY <3>5, <3>7
    <3>10. p + (bw + b + bm) > q + bw
      OBVIOUS
    <3> QED
      BY <3>8, <3>9, <3>10
  <2>2. CASE i > k
    <3>1. CASE i - 1 = k
      BY <3>1
    <3>2. CASE i - 1 # k
      BY <2>2, <3>2
    <3> QED
      BY <3>1, <3>2
  <2> QED
    BY <2>1, <2>2
<1>5. 0..n \subseteq T
  <2> HIDE DEF T
  <2> QED
    BY <1>3, <1>4, Downwards
<1> QED
  BY <1>5

LEMMA LongerIsGreater ==
  ASSUME NEW a, NEW b, Trimmed(a), Trimmed(b), Len(a.data) > Len(b.data)
  PROVE  Magnitude(a.data) > Magnitude(b.data)
<1>1. a.data \in Seq(Limbs) /\ b.data \in Seq(Limbs)
  BY BigFacts DEF Trimmed
<1>2. PICK n \in Nat : n = Len(a.data)
  BY <1>1
<1>3. Len(b.data) \in Nat /\ Len(b.data) >= 1 /\ Len(b.data) < n
  BY <1>1, <1>2 DEF Trimmed
<1>4. a.data[n] # 0 /\ a.data[n] \in Nat
  <2>4. a.data[n] \in Limbs
    BY <1>1, <1>2, <1>3
  <2> QED
    BY <1>2, <1>3, <2>4, LimbFacts DEF Trimmed
<1>5. PICK v : Values(a.data, n, v) /\ v[0] = Magnitude(a.data)
  BY <1>1, <1>2, MagnitudeValues
<1>6. PICK w : Values(b.data, n, w) /\ w[0] = Magnitude(b.data)
  BY <1>1, <1>3, MagnitudeValues
<1>7. n \in 1..n /\ n - 1 \in 0..n
  BY <1>3
<1>8. Limb(a.data, n) = a.data[n] /\ Limb(b.data, n) = 0
  BY <1>1, <1>2, <1>3, LimbIsLimb
<1>9. v[n - 1] = a.data[n] + Base * 0 /\ w[n - 1] = 0 + Base * 0 /\ Base * 0 = 0
  <2>1. v[n - 1] = Limb(a.data, n) + Base * v[n] /\ v[n] = 0
    BY <1>5, <1>7 DEF Values
  <2>2. w[n - 1] = Limb(b.data, n) + Base * w[n] /\ w[n] = 0
    BY <1>6, <1>7 DEF Values
  <2>3. Base * 0 = 0
    BY LimbFacts
  <2> QED
    BY <1>8, <2>1, <2>2, <2>3
<1>10. v[n - 1] > w[n - 1]
  BY <1>4, <1>9
<1> QED
  BY <1>1, <1>5, <1>6, <1>7, <1>10, GreaterAbove

(* Two numbers that differ in the limb k and agree above it.               *)
LEMMA TopDecides ==
  ASSUME NEW d \in Seq(Limbs), NEW e \in Seq(Limbs), NEW n \in Nat, Len(d) = n, Len(e) = n,
         NEW k \in 1..n, \A i \in 1..n : i > k => d[i] = e[i], d[k] > e[k]
  PROVE  Magnitude(d) > Magnitude(e)
<1>1. PICK v : Values(d, n, v) /\ v[0] = Magnitude(d)
  BY MagnitudeValues
<1>2. PICK w : Values(e, n, w) /\ w[0] = Magnitude(e)
  BY MagnitudeValues
<1>3. \A i \in 1..n : d[i] \in Nat /\ e[i] \in Nat /\ Limb(d, i) = d[i] /\ Limb(e, i) = e[i]
  <2>1. \A i \in 1..n : d[i] \in Limbs /\ e[i] \in Limbs
    OBVIOUS
  <2>2. ASSUME NEW i \in 1..n
        PROVE  Limb(d, i) = d[i] /\ Limb(e, i) = e[i]
    BY DEF Limb
  <2> QED
    BY <2>1, <2>2, LimbFacts
<1>4. /\ v \in [0..n -> Nat] /\ w \in [0..n -> Nat] /\ v[n] = 0 /\ w[n] = 0 /\ Base \in Nat
      /\ \A i \in 1..n : v[i - 1] = d[i] + Base * v[i] /\ w[i - 1] = e[i] + Base * w[i]
  BY <1>1, <1>2, <1>3, LimbFacts DEF Values
<1> DEFINE T == {i \in 0..n : i >= k => v[i] = w[i]}
<1>5. n \in T
  BY <1>4
<1>6. ASSUME NEW i \in 1..n, i \in T
      PROVE  i - 1 \in T
  <2>1. CASE i > k
    <3>1. v[i] = w[i] /\ d[i] = e[i]
      BY <1>6, <2>1
    <3>2. v[i - 1] = w[i - 1]
      BY <1>4, <3>1
    <3> QED
      BY <3>2
  <2>2. CASE i <= k
    BY <2>2
  <2> QED
    BY <2>1, <2>2
<1>7. 0..n \subseteq T
  <2> HIDE DEF T
  <2> QED
    BY <1>5, <1>6, Downwards
<1>8. v[k] = w[k] /\ v[k] \in Nat
  BY <1>4, <1>7
<1>9. v[k - 1] > w[k - 1] /\ k - 1 \in 0..n
  <2>1. PICK p \in Nat : p = Base * v[k]
    BY <1>4, <1>8
  <2>2. v[k - 1] = d[k] + p /\ w[k - 1] = e[k] + p
    BY <1>4, <1>8, <2>1
  <2> QED
    BY <1>3, <2>2
<1> QED
  BY <1>1, <1>2, <1>9, GreaterAbove

(* The comparison of the code is the comparison of the numbers.            *)
LEMMA CmpAbsMeans ==
  ASSUME NEW a, NEW b, Trimmed(a), Trimmed(b)
  PROVE  /\ \/ CmpAbs(a, b) = 1 /\ Magnitude(a.data) > Magnitude(b.data)
            \/ CmpAbs(a, b) = 0 /\ a.data = b.data
            \/ CmpAbs(a, b) = -1 /\ Magnitude(a.data) < Magnitude(b.data)
         /\ CmpAbs(a, b) >= 0 => Len(b.data) <= Len(a.data)
         /\ CmpAbs(a, b) < 0 => Len(a.data) <= Len(b.data)
<1> DEFINE differ == {i \in DOMAIN a.data : a.data[i] # b.data[i]}
           top == CHOOSE i \in differ : \A j \in differ : j <= i
<1>1. a.data \in Seq(Limbs) /\ b.data \in Seq(Limbs)
  BY BigFacts DEF Trimmed
<1>2. PICK n \in Nat : n = Len(a.data) /\ DOMAIN a.data = 1..n
  BY <1>1
<1>3. Len(b.data) \in Nat
  BY <1>1
<1>4. Magnitude(a.data) \in Nat /\ Magnitude(b.data) \in Nat
  BY <1>1, MagnitudeNat
<1>5. CASE Len(a.data) # Len(b.data)
  <2>1. CASE Len(a.data) > Len(b.data)
    <3>1. Magnitude(a.data) > Magnitude(b.data)
      BY <2>1, LongerIsGreater
    <3>2. CmpAbs(a, b) = 1
      BY <1>5, <2>1 DEF CmpAbs
    <3> QED
      BY <1>2, <1>3, <2>1, <3>1, <3>2
  <2>2. CASE ~(Len(a.data) > Len(b.data))
    <3>1. Len(b.data) > Len(a.data)
      BY <1>2, <1>3, <1>5, <2>2
    <3>2. Magnitude(b.data) > Magnitude(a.data)
      BY <3>1, LongerIsGreater
    <3>3. CmpAbs(a, b) = -1
      BY <1>5, <2>2 DEF CmpAbs
    <3> QED
      BY <1>2, <1>3, <1>4, <3>1, <3>2, <3>3
  <2> QED
    BY <2>1, <2>2
<1>6. CASE Len(a.data) = Len(b.data)
  <2>1. CASE differ = {}
    <3>1. CmpAbs(a, b) = 0
      BY <1>6, <2>1 DEF CmpAbs
    <3>2. \A i \in 1..n : a.data[i] = b.data[i]
      BY <1>2, <2>1
    <3>3. a.data = b.data
      BY <1>1, <1>2, <1>6, <3>2
    <3> QED
      BY <1>1, <1>2, <1>6, <3>1, <3>3
  <2>2. CASE differ # {}
    <3>1. differ \subseteq 1..n
      BY <1>2
    <3>2. top \in differ /\ \A j \in differ : j <= top
      <4>1. \E i \in differ : \A j \in differ : j <= i
        <5> HIDE DEF differ
        <5> QED
          BY <2>2, <3>1, Greatest
      <4> HIDE DEF differ
      <4> QED
        BY <4>1
    <3>3. CmpAbs(a, b) = IF a.data[top] > b.data[top] THEN 1 ELSE -1
      BY <1>6, <2>2 DEF CmpAbs
    <3> HIDE DEF top
    <3>4. PICK k \in 1..n : k = top
      BY <3>1, <3>2
    <3>5. a.data[k] # b.data[k] /\ \A i \in 1..n : i > k => a.data[i] = b.data[i]
      <4>1. k \in differ /\ \A j \in differ : j <= k
        BY <3>2, <3>4
      <4>2. ASSUME NEW i \in 1..n, i > k
            PROVE  i \notin differ
        <5>1. ~(i <= k)
          BY <4>2
        <5> HIDE DEF differ
        <5> QED
          BY <4>1, <5>1
      <4> QED
        BY <1>2, <4>1, <4>2
    <3>6. a.data[k] \in Nat /\ b.data[k] \in Nat
      <4>1. a.data[k] \in Limbs /\ b.data[k] \in Limbs
        BY <1>1, <1>2, <1>6
      <4> QED
        BY <4>1, LimbFacts
    <3>7. CASE a.data[k] > b.data[k]
      <4>1. Magnitude(a.data) > Magnitude(b.data)
        BY <1>1, <1>2, <1>6, <3>5, <3>7, TopDecides
      <4> QED
        BY <1>1, <1>2, <1>6, <3>3, <3>4, <3>7, <4>1
    <3>8. CASE ~(a.data[k] > b.data[k])
      <4>1. b.data[k] > a.data[k]
        BY <3>5, <3>6, <3>8
      <4>2. Magnitude(b.data) > Magnitude(a.data)
        BY <1>1, <1>2, <1>6, <3>5, <4>1, TopDecides
      <4> QED
        BY <1>2, <1>4, <1>6, <3>3, <3>4, <3>8, <4>2
    <3> QED
      BY <3>7, <3>8
  <2> QED
    BY <2>1, <2>2
<1> QED
  BY <1>5, <1>6

-----------------------------------------------------------------------------
(* Signed numbers.                                                         *)

LEMMA SignedFacts ==
  ASSUME NEW a \in Bigs, NEW s \in {1, -1}
  PROVE  /\ Signed(s, a) \in Bigs /\ Signed(s, a).sign = s /\ Signed(s, a).data = a.data
         /\ Trimmed(a) => Trimmed(Signed(s, a))
         /\ IsZero(Signed(s, a)) <=> IsZero(a)
         /\ BigVal(Signed(s, a)) = s * Magnitude(a.data)
<1>1. /\ Signed(s, a) \in Bigs /\ Signed(s, a).sign = s /\ Signed(s, a).data = a.data
  BY DEF Signed, Bigs
<1> QED
  BY <1>1 DEF Trimmed, IsZero, BigVal

LEMMA ValueBySign ==
  ASSUME NEW a \in Bigs
  PROVE  /\ Magnitude(a.data) \in Nat /\ BigVal(a) \in Int
         /\ a.sign = 1 => BigVal(a) = Magnitude(a.data)
         /\ a.sign = -1 => BigVal(a) = -Magnitude(a.data)
         /\ a.sign = 1 \/ a.sign = -1
<1>1. PICK m \in Nat : m = Magnitude(a.data)
  BY BigFacts, MagnitudeNat
<1>2. a.sign = 1 \/ a.sign = -1
  BY BigFacts
<1>3. BigVal(a) = a.sign * m
  BY <1>1 DEF BigVal
<1>4. 1 * m = m /\ (-1) * m = -m
  OBVIOUS
<1> QED
  BY <1>1, <1>2, <1>3, <1>4

(* The comparison of big integers is that of the numbers.                  *)
LEMMA CmpMeans ==
  ASSUME NEW a, NEW b, Trimmed(a), Trimmed(b)
  PROVE  \/ Cmp(a, b) = 1 /\ BigVal(a) > BigVal(b)
         \/ Cmp(a, b) = 0 /\ BigVal(a) = BigVal(b)
         \/ Cmp(a, b) = -1 /\ BigVal(a) < BigVal(b)
<1>1. a \in Bigs /\ b \in Bigs
  BY DEF Trimmed
<1>2. PICK m \in Nat, n \in Nat : m = Magnitude(a.data) /\ n = Magnitude(b.data)
  BY <1>1, ValueBySign
<1>3. /\ \/ a.sign = 1 /\ BigVal(a) = m
         \/ a.sign = -1 /\ BigVal(a) = -m
      /\ \/ b.sign = 1 /\ BigVal(b) = n
         \/ b.sign = -1 /\ BigVal(b) = -n
  BY <1>1, <1>2, ValueBySign
<1>4. (IsZero(a) <=> m = 0) /\ (IsZero(b) <=> n = 0)
  BY <1>1, <1>2, IsZeroMeans
<1>5. CASE IsZero(a) /\ IsZero(b)
  <2>1. Cmp(a, b) = 0
    BY <1>5 DEF Cmp
  <2> QED
    BY <1>3, <1>4, <1>5, <2>1
<1>6. CASE IsZero(a) /\ ~IsZero(b)
  <2>1. Cmp(a, b) = IF b.sign > 0 THEN -1 ELSE 1
    BY <1>6 DEF Cmp
  <2> QED
    BY <1>3, <1>4, <1>6, <2>1
<1>7. CASE ~IsZero(a) /\ IsZero(b)
  <2>1. Cmp(a, b) = IF a.sign > 0 THEN 1 ELSE -1
    BY <1>7 DEF Cmp
  <2> QED
    BY <1>3, <1>4, <1>7, <2>1
<1>8. CASE ~IsZero(a) /\ ~IsZero(b)
  <2>1. Cmp(a, b) = IF a.sign # b.sign THEN IF a.sign > b.sign THEN 1 ELSE -1
                    ELSE b.sign * CmpAbs(a, b)
    BY <1>8 DEF Cmp
  <2>2. CASE a.sign # b.sign
    BY <1>3, <1>4, <1>8, <2>1, <2>2
  <2>3. CASE a.sign = b.sign
    <3>1. Cmp(a, b) = b.sign * CmpAbs(a, b)
      BY <2>1, <2>3
    <3>2. \/ CmpAbs(a, b) = 1 /\ m > n
          \/ CmpAbs(a, b) = 0 /\ m = n
          \/ CmpAbs(a, b) = -1 /\ m < n
      BY <1>2, CmpAbsMeans
    <3> QED
      BY <1>3, <2>3, <3>1, <3>2
  <2> QED
    BY <2>2, <2>3
<1> QED
  BY <1>5, <1>6, <1>7, <1>8

(* The sum of big integers: a big integer, and the sum when no magnitude   *)
(* is added to a shorter one.                                              *)
LongEnough(a, b) == a.sign # b.sign \/ IsZero(a) \/ Len(b.data) <= Len(a.data)

LEMMA BigAddExact ==
  ASSUME NEW a, NEW b, Trimmed(a), Trimmed(b)
  PROVE  /\ BigAdd(a, b) \in Bigs
         /\ LongEnough(a, b) => BigVal(BigAdd(a, b)) = BigVal(a) + BigVal(b)
<1>1. a \in Bigs /\ b \in Bigs
  BY DEF Trimmed
<1>2. PICK m \in Nat, n \in Nat : m = Magnitude(a.data) /\ n = Magnitude(b.data)
  BY <1>1, ValueBySign
<1>3. /\ \/ a.sign = 1 /\ BigVal(a) = m
         \/ a.sign = -1 /\ BigVal(a) = -m
      /\ \/ b.sign = 1 /\ BigVal(b) = n
         \/ b.sign = -1 /\ BigVal(b) = -n
      /\ a.sign \in {1, -1} /\ b.sign \in {1, -1}
  BY <1>1, <1>2, ValueBySign
<1>4. (IsZero(a) <=> m = 0) /\ (IsZero(b) <=> n = 0)
  BY <1>1, <1>2, IsZeroMeans
<1>5. CASE IsZero(a)
  <2>1. BigAdd(a, b) = b
    BY <1>5 DEF BigAdd
  <2> QED
    BY <1>1, <1>3, <1>4, <1>5, <2>1
<1>6. CASE ~IsZero(a) /\ IsZero(b)
  <2>1. BigAdd(a, b) = a
    BY <1>6 DEF BigAdd
  <2> QED
    BY <1>1, <1>3, <1>4, <1>6, <2>1
<1>7. CASE ~IsZero(a) /\ ~IsZero(b) /\ a.sign = b.sign
  <2>1. BigAdd(a, b) = Signed(a.sign, AddAbs(a, b))
    BY <1>7 DEF BigAdd
  <2>2. AddAbs(a, b) \in Bigs
    BY <1>1, AddAbsExact DEF Proper
  <2>3. BigAdd(a, b) \in Bigs
    BY <1>3, <2>1, <2>2, SignedFacts
  <2>4. ASSUME LongEnough(a, b)
        PROVE  BigVal(BigAdd(a, b)) = BigVal(a) + BigVal(b)
    <3>1. Magnitude(AddAbs(a, b).data) = m + n
      BY <1>1, <1>2, <1>7, <2>4, AddAbsExact DEF LongEnough
    <3>2. BigAdd(a, b).sign = a.sign /\ Magnitude(BigAdd(a, b).data) = m + n
      BY <1>3, <2>1, <2>2, <3>1, SignedFacts
    <3> QED
      BY <1>3, <1>7, <2>3, <3>2, ValueBySign
  <2> QED
    BY <2>3, <2>4
<1>8. CASE ~IsZero(a) /\ ~IsZero(b) /\ a.sign # b.sign /\ CmpAbs(a, b) >= 0
  <2>1. BigAdd(a, b) = Signed(a.sign, SubAbs(a, b))
    BY <1>8 DEF BigAdd
  <2>2. Len(b.data) <= Len(a.data) /\ n <= m
    BY <1>2, <1>8, CmpAbsMeans
  <2>3. SubAbs(a, b) \in Bigs /\ Magnitude(SubAbs(a, b).data) = m - n
    BY <1>1, <1>2, <2>2, SubAbsExact DEF Proper
  <2>4. BigAdd(a, b) \in Bigs /\ BigAdd(a, b).sign = a.sign /\ Magnitude(BigAdd(a, b).data) = m - n
    BY <1>3, <2>1, <2>3, SignedFacts
  <2> QED
    BY <1>3, <1>8, <2>4, ValueBySign
<1>9. CASE ~IsZero(a) /\ ~IsZero(b) /\ a.sign # b.sign /\ ~(CmpAbs(a, b) >= 0)
  <2>1. BigAdd(a, b) = Signed(b.sign, SubAbs(b, a))
    BY <1>9 DEF BigAdd
  <2>2. Len(a.data) <= Len(b.data) /\ m <= n
    BY <1>2, <1>9, CmpAbsMeans
  <2>3. SubAbs(b, a) \in Bigs /\ Magnitude(SubAbs(b, a).data) = n - m
    BY <1>1, <1>2, <2>2, SubAbsExact DEF Proper
  <2>4. BigAdd(a, b) \in Bigs /\ BigAdd(a, b).sign = b.sign /\ Magnitude(BigAdd(a, b).data) = n - m
    BY <1>3, <2>1, <2>3, SignedFacts
  <2> QED
    BY <1>3, <1>9, <2>4, ValueBySign
<1> QED
  BY <1>5, <1>6, <1>7, <1>8, <1>9

(* The difference.  With one object as both arguments it is the double,    *)
(* negative: the sign of both is turned.                                   *)
LEMMA BigSubExact ==
  ASSUME NEW a, NEW b, Trimmed(a), Trimmed(b)
  PROVE  /\ \A same \in BOOLEAN : BigSub(a, b, same) \in Bigs
         /\ LongEnough(a, Signed(-b.sign, b)) => BigVal(BigSub(a, b, FALSE)) = BigVal(a) - BigVal(b)
<1>1. a \in Bigs /\ b \in Bigs /\ a.sign \in {1, -1} /\ b.sign \in {1, -1}
      /\ -a.sign \in {1, -1} /\ -b.sign \in {1, -1}
  BY BigFacts DEF Trimmed
<1> DEFINE c == Signed(-b.sign, b)
           d == Signed(-a.sign, a)
<1>2. Trimmed(c) /\ c \in Bigs /\ c.sign = -b.sign /\ c.data = b.data
  BY <1>1, SignedFacts
<1>3. Trimmed(d)
  BY <1>1, SignedFacts
<1>4. BigVal(c) = -BigVal(b) /\ BigVal(b) \in Int /\ BigVal(a) \in Int
  <2>1. PICK n \in Nat : n = Magnitude(b.data) /\ n = Magnitude(c.data)
    BY <1>1, <1>2, ValueBySign
  <2> HIDE DEF c
  <2> QED
    BY <1>1, <1>2, <2>1, ValueBySign
<1>5. BigSub(a, b, FALSE) = BigAdd(a, c) /\ BigSub(a, b, TRUE) = BigAdd(d, c)
  BY DEF BigSub
<1> HIDE DEF c, d
<1>6. BigAdd(a, c) \in Bigs /\ BigAdd(d, c) \in Bigs
      /\ (LongEnough(a, c) => BigVal(BigAdd(a, c)) = BigVal(a) + BigVal(c))
  BY <1>2, <1>3, BigAddExact
<1>7. LongEnough(a, c) => BigVal(BigSub(a, b, FALSE)) = BigVal(a) - BigVal(b)
  BY <1>4, <1>5, <1>6
<1> QED
  BY <1>5, <1>6, <1>7 DEF c

-----------------------------------------------------------------------------
(* The product of two limbs, through the products of their halves.         *)

Adds(b, u, w, s) == s = (u + w) % b

LEMMA AddModulo ==
  ASSUME NEW b \in Nat \ {0}, NEW u \in 0..(b - 1), NEW w \in 0..(b - 1),
         NEW s, Adds(b, u, w, s)
  PROVE  /\ s \in 0..(b - 1)
         /\ \E k \in {0, 1} : /\ u + w = s + b * k
                              /\ k = IF s < u THEN 1 ELSE 0
                              /\ k = IF s < w THEN 1 ELSE 0
<1>0. s = (u + w) % b
  BY DEF Adds
<1>1. CASE u + w < b
  <2>1. PICK r \in 0..(b - 1) : r = u + w
    BY <1>1
  <2>2. (b * 0 + r) % b = r
    BY DivMod
  <2>3. b * 0 + r = r /\ b * 0 = 0
    OBVIOUS
  <2>4. s = r
    BY <1>0, <2>1, <2>2, <2>3
  <2> QED
    BY <2>1, <2>3, <2>4
<1>2. CASE u + w >= b
  <2>1. PICK r \in 0..(b - 1) : r = u + w - b
    BY <1>2
  <2>2. (b * 1 + r) % b = r
    BY DivMod
  <2>3. b * 1 + r = u + w /\ b * 1 = b
    BY <2>1
  <2>4. s = r
    BY <1>0, <2>2, <2>3
  <2> QED
    BY <2>1, <2>3, <2>4
<1> QED
  BY <1>1, <1>2

LEMMA ModuloSkips ==
  ASSUME NEW b \in Nat \ {0}, NEW q \in Nat, NEW u \in Nat
  PROVE  (u + b * q) % b = u % b
<1>1. PICK m \in Nat, r \in 0..(b - 1) : m = u \div b /\ r = u % b /\ u = b * m + r
  BY DivModExists
<1>2. PICK p \in Int : p = m + q
  OBVIOUS
<1>3. (b * p + r) % b = r
  BY DivMod
<1>4. b * p + r = u + b * q
  BY <1>1, <1>2
<1> QED
  BY <1>1, <1>3, <1>4

LEMMA SmallModulo ==
  ASSUME NEW b \in Nat \ {0}, NEW u \in 0..(b - 1)
  PROVE  u % b = u
<1>1. (b * 0 + u) % b = u
  BY DivMod
<1>2. b * 0 + u = u
  OBVIOUS
<1> QED
  BY <1>1, <1>2

LEMMA ProductOfHalves ==
  ASSUME NEW h \in Nat, NEW al \in Nat, NEW ah \in Nat, NEW bl \in Nat, NEW bh \in Nat
  PROVE  (al + h * ah) * (bl + h * bh)
           = al * bl + h * (al * bh + ah * bl) + (h * h) * (ah * bh)
OBVIOUS

LEMMA HalfProduct ==
  ASSUME NEW h \in Nat, h >= 2, NEW p \in 0..(h - 1), NEW q \in 0..(h - 1)
  PROVE  p * q \in Nat /\ p * q <= h * h - 2 * h + 1
<1>1. PICK c \in Nat, d \in Nat : h - 1 = p + c /\ h - 1 = q + d
  <2>1. h - 1 - p \in Nat /\ h - 1 - q \in Nat
    OBVIOUS
  <2> QED
    BY <2>1
<1>2. (p + c) * (q + d) = p * q + p * d + c * q + c * d
  OBVIOUS
<1>3. p * q \in Nat /\ p * d \in Nat /\ c * q \in Nat /\ c * d \in Nat
  OBVIOUS
<1>4. (h - 1) * (h - 1) = h * h - 2 * h + 1
  OBVIOUS
<1>5. PICK e \in Nat, f \in Nat, g \in Nat, k \in Nat :
        e = p * q /\ f = p * d /\ g = c * q /\ k = c * d
  BY <1>3
<1>6. (h - 1) * (h - 1) = e + f + g + k
  BY <1>1, <1>2, <1>5
<1>7. PICK hh \in Int : hh = h * h
  OBVIOUS
<1> QED
  BY <1>4, <1>5, <1>6, <1>7

LEMMA HalvesOf ==
  ASSUME NEW u \in Limbs
  PROVE  /\ u % Half \in 0..(Half - 1) /\ u \div Half \in 0..(Half - 1)
         /\ u = (u % Half) + Half * (u \div Half)
<1>1. PICK h \in Nat \ {0} : h = Half /\ h >= 2 /\ u \in Nat /\ u < h * h
  <2>1. PICK b \in Nat : b = Base /\ b = Half * Half
    BY BaseFacts
  <2>2. u \in 0..(b - 1)
    BY <2>1, LimbFacts
  <2>3. u \in Nat /\ u < b
    BY <2>1, <2>2
  <2> QED
    BY <2>1, <2>3, BaseFacts
<1>2. u % h \in 0..(h - 1) /\ u \div h \in Nat /\ u = h * (u \div h) + (u % h)
  BY <1>1, DivModExists
<1>3. PICK q \in Nat, r \in 0..(h - 1) : q = u \div h /\ r = u % h /\ u = h * q + r
  BY <1>2
<1>4. q <= h - 1
  <2>1. SUFFICES ASSUME q >= h
                 PROVE  FALSE
    BY <1>1
  <2>2. PICK e \in Nat : q = h + e
    <3>1. q - h \in Nat /\ q = h + (q - h)
      BY <1>1, <2>1
    <3> QED
      BY <3>1
  <2>3. h * (h + e) = h * h + h * e /\ h * e \in Nat /\ h * h \in Nat
    BY <1>1
  <2>4. PICK hh \in Nat, he \in Nat : hh = h * h /\ he = h * e
    BY <2>3
  <2>5. u = hh + he + r /\ u < hh
    BY <1>1, <1>3, <2>2, <2>3, <2>4
  <2> QED
    BY <1>3, <2>5
<1> QED
  BY <1>1, <1>3, <1>4

(* What is computed from the products of halves.                           *)
MulSteps(h, b, p0, p1, p2, p3, dest, carry,
         mid, ml, mh, mc, low0, high0, low1, high1, low2, high2) ==
  /\ mid = (p1 + p2) % b /\ mid = ml + h * mh
  /\ mc = IF mid < p1 THEN 1 ELSE 0
  /\ low0 = (p0 + mid * h) % b
  /\ high0 = (p3 + mh + mc * h + (IF low0 < p0 THEN 1 ELSE 0)) % b
  /\ low1 = (low0 + dest) % b
  /\ high1 = (high0 + (IF low1 < dest THEN 1 ELSE 0)) % b
  /\ low2 = (low1 + carry) % b
  /\ high2 = (high1 + (IF low2 < carry THEN 1 ELSE 0)) % b

(* The limb and the carry, in terms of the products of halves.             *)
LEMMA LowAndHigh ==
  ASSUME NEW h \in Nat, h >= 2, NEW b \in Nat, b = h * h,
         NEW p0 \in Nat, NEW p1 \in Nat, NEW p2 \in Nat, NEW p3 \in Nat,
         p0 <= b - 2 * h + 1, p1 <= b - 2 * h + 1, p2 <= b - 2 * h + 1,
         p0 + h * (p1 + p2) + b * p3 <= b * b - 2 * b + 1,
         NEW dest \in 0..(b - 1), NEW carry \in 0..(b - 1),
         NEW mid, NEW ml \in 0..(h - 1), NEW mh \in Nat, NEW mc,
         NEW low0, NEW high0, NEW low1, NEW high1, NEW low2, NEW high2,
         MulSteps(h, b, p0, p1, p2, p3, dest, carry,
         mid, ml, mh, mc, low0, high0, low1, high1, low2, high2)
  PROVE  /\ low2 \in 0..(b - 1) /\ high2 \in 0..(b - 1)
         /\ p0 + h * (p1 + p2) + b * p3 + dest + carry = low2 + b * high2
<1>00. PICK uu \in Nat : uu = p0 + h * (p1 + p2) + b * p3 /\ uu <= b * b - 2 * b + 1
  <2>1. h * (p1 + p2) \in Nat /\ b * p3 \in Nat
    OBVIOUS
  <2> QED
    BY <2>1
<1>0. b \in Nat \ {0} /\ b >= 2 * h /\ b >= 4
  <2>1. PICK e \in Nat : h = 2 + e
    <3>1. h - 2 \in Nat /\ h = 2 + (h - 2)
      OBVIOUS
    <3> QED
      BY <3>1
  <2>2. h * (2 + e) = 2 * h + h * e /\ h * e \in Nat
    OBVIOUS
  <2>3. PICK he \in Nat : he = h * e
    BY <2>2
  <2> QED
    BY <2>1, <2>2, <2>3
<1>1. p0 \in 0..(b - 1) /\ p1 \in 0..(b - 1) /\ p2 \in 0..(b - 1)
  BY <1>0
<1>2. /\ mid \in 0..(b - 1) /\ mc \in {0, 1} /\ p1 + p2 = mid + b * mc
  <2>1. mid \in 0..(b - 1) /\ \E k \in {0, 1} : /\ p1 + p2 = mid + b * k
                                                /\ k = IF mid < p1 THEN 1 ELSE 0
    <3>1. Adds(b, p1, p2, mid)
      BY DEF Adds, MulSteps
    <3> QED
      BY <1>0, <1>1, <3>1, AddModulo
  <2> QED
    BY <2>1 DEF MulSteps
<1>3. h * ml \in 0..(b - 1)
  <2>1. PICK e \in Nat : h - 1 = ml + e
    <3>1. h - 1 - ml \in Nat /\ h - 1 = ml + (h - 1 - ml)
      OBVIOUS
    <3> QED
      BY <3>1
  <2>2. h = ml + e + 1
    BY <2>1
  <2>3. h * (ml + e + 1) = h * ml + h * e + h /\ h * ml \in Nat /\ h * e \in Nat
    OBVIOUS
  <2>4. PICK hm \in Nat, he \in Nat : hm = h * ml /\ he = h * e
    BY <2>3
  <2>5. b = hm + he + h
    BY <2>2, <2>3, <2>4
  <2> QED
    BY <2>4, <2>5
<1>4. low0 = (p0 + h * ml) % b
  <2>1. mid * h = h * ml + b * mh
    BY <1>2, SMTT(60) DEF MulSteps
  <2>2. p0 + h * ml \in Nat
    BY <1>3
  <2>3. PICK m \in Nat : m = p0 + h * ml
    BY <2>2
  <2>4. (m + b * mh) % b = m % b
    BY <1>0, ModuloSkips
  <2>5. p0 + mid * h = m + b * mh
    BY <1>3, <2>1, <2>3
  <2> QED
    BY <2>3, <2>4, <2>5 DEF MulSteps
<1>5. PICK k0 \in {0, 1} : /\ low0 \in 0..(b - 1) /\ p0 + h * ml = low0 + b * k0
                           /\ k0 = IF low0 < p0 THEN 1 ELSE 0
  <2>1. PICK w \in 0..(b - 1) : w = h * ml
    BY <1>3
  <2>2. Adds(b, p0, w, low0)
    BY <1>4, <2>1 DEF Adds
  <2> QED
    BY <1>0, <1>1, <2>1, <2>2, AddModulo
<1>6. PICK k1 \in {0, 1} : /\ low1 \in 0..(b - 1) /\ low0 + dest = low1 + b * k1
                           /\ k1 = IF low1 < dest THEN 1 ELSE 0
  <2>1. Adds(b, low0, dest, low1)
    BY DEF Adds, MulSteps
  <2> QED
    BY <1>0, <1>5, <2>1, AddModulo
<1>7. PICK k2 \in {0, 1} : /\ low2 \in 0..(b - 1) /\ low1 + carry = low2 + b * k2
                           /\ k2 = IF low2 < carry THEN 1 ELSE 0
  <2>1. Adds(b, low1, carry, low2)
    BY DEF Adds, MulSteps
  <2> QED
    BY <1>0, <1>6, <2>1, AddModulo
<1>8. PICK z \in Nat : z = p3 + mh + mc * h + k0
  <2>1. mc * h \in Nat /\ k0 \in Nat
    BY <1>2
  <2> QED
    BY <2>1
<1>9. uu = low0 + b * z
  <2>1. h * (p1 + p2) = h * (ml + h * mh + b * mc)
    BY <1>2 DEF MulSteps
  <2>2. h * (ml + h * mh + b * mc) = h * ml + b * mh + b * (mc * h)
    BY <1>2
  <2>3. b * z = b * p3 + b * mh + b * (mc * h) + b * k0
    <3>1. PICK c \in Nat : c = mc * h
      BY <1>2
    <3>2. k0 \in Nat
      OBVIOUS
    <3>3. b * (p3 + mh + c + k0) = b * p3 + b * mh + b * c + b * k0
      BY <3>2
    <3> QED
      BY <1>8, <3>1, <3>3
  <2>4. PICK x1 \in Nat, x2 \in Nat, x3 \in Nat, x4 \in Nat, x5 \in Nat :
          x1 = b * p3 /\ x2 = b * mh /\ x3 = b * (mc * h) /\ x4 = b * k0 /\ x5 = h * ml
    <3>1. b * p3 \in Nat /\ b * mh \in Nat /\ h * ml \in Nat
      OBVIOUS
    <3>2. mc * h \in Nat /\ k0 \in Nat
      BY <1>2
    <3>3. b * (mc * h) \in Nat /\ b * k0 \in Nat
      BY <3>2
    <3> QED
      BY <3>1, <3>3
  <2>5. uu = p0 + (x5 + x2 + x3) + x1
    BY <1>00, <2>1, <2>2, <2>4
  <2>6. p0 + x5 = low0 + x4
    BY <1>5, <2>4
  <2>7. b * z = x1 + x2 + x3 + x4
    BY <2>3, <2>4
  <2> QED
    BY <1>5, <2>5, <2>6, <2>7
<1>10. uu + dest + carry = low2 + b * (z + k1 + k2)
  <2>1. b * (z + k1 + k2) = b * z + b * k1 + b * k2
    OBVIOUS
  <2>2. PICK x1 \in Nat, x2 \in Nat, x3 \in Nat : x1 = b * z /\ x2 = b * k1 /\ x3 = b * k2
    <3>1. k1 \in Nat /\ k2 \in Nat
      OBVIOUS
    <3>2. b * z \in Nat /\ b * k1 \in Nat /\ b * k2 \in Nat
      BY <3>1
    <3> QED
      BY <3>2
  <2> QED
    BY <1>5, <1>6, <1>7, <1>9, <2>1, <2>2
<1>11. z + k1 + k2 <= b - 1
  <2>1. SUFFICES ASSUME z + k1 + k2 >= b
                 PROVE  FALSE
    BY <1>0
  <2>2. PICK e \in Nat : z + k1 + k2 = b + e
    <3>1. z + k1 + k2 - b \in Nat /\ z + k1 + k2 = b + (z + k1 + k2 - b)
      BY <2>1
    <3> QED
      BY <3>1
  <2>3. b * (b + e) = b * b + b * e /\ b * e \in Nat /\ b * b \in Nat
    OBVIOUS
  <2>4. PICK bb \in Nat, be \in Nat : bb = b * b /\ be = b * e
    BY <2>3
  <2>5. uu + dest + carry = low2 + bb + be
    <3>1. PICK q \in Nat : q = z + k1 + k2 /\ q = b + e
      BY <2>2
    <3>2. uu + dest + carry = low2 + b * q
      BY <1>10, <3>1
    <3>3. b * q = bb + be
      BY <2>3, <2>4, <3>1
    <3>4. low2 \in Int
      BY <1>7
    <3>5. PICK m \in Nat : m = b * q
      OBVIOUS
    <3> QED
      BY <3>2, <3>3, <3>4, <3>5
  <2>6. uu <= bb - 2 * b + 1
    BY <1>00, <2>4
  <2> QED
    BY <1>7, <2>5, <2>6
<1>12. high0 = z
  <2>1. z \in 0..(b - 1)
    BY <1>11
  <2>2. z % b = z
    BY <1>0, <2>1, SmallModulo
  <2>3. (IF low0 < p0 THEN 1 ELSE 0) = k0
    BY <1>5
  <2> QED
    BY <1>8, <2>2, <2>3 DEF MulSteps
<1>13. high1 = z + k1
  <2>1. PICK q \in 0..(b - 1) : q = z + k1
    BY <1>11
  <2>2. q % b = q
    BY <1>0, SmallModulo
  <2>3. (IF low1 < dest THEN 1 ELSE 0) = k1
    BY <1>6
  <2> QED
    BY <1>12, <2>1, <2>2, <2>3 DEF MulSteps
<1>14. high2 = z + k1 + k2 /\ high2 \in 0..(b - 1)
  <2>1. PICK q \in 0..(b - 1) : q = z + k1 + k2
    BY <1>11
  <2>2. q % b = q
    BY <1>0, SmallModulo
  <2>3. (IF low2 < carry THEN 1 ELSE 0) = k2
    BY <1>7
  <2> QED
    BY <1>13, <2>1, <2>2, <2>3 DEF MulSteps
<1> QED
  BY <1>00, <1>7, <1>10, <1>14

LEMMA MulLimbExact ==
  ASSUME NEW ua \in Limbs, NEW ub \in Limbs, NEW dest \in Limbs, NEW carry \in Limbs
  PROVE  /\ MulLimb(ua, ub, dest, carry)[1] \in Limbs /\ MulLimb(ua, ub, dest, carry)[2] \in Limbs
         /\ ua * ub + dest + carry
              = MulLimb(ua, ub, dest, carry)[1] + Base * MulLimb(ua, ub, dest, carry)[2]
<1>1. PICK h \in Nat : h = Half /\ h >= 2
  BY BaseFacts
<1>2. PICK b \in Nat : b = Base /\ b = h * h /\ b >= 4 /\ Limbs = 0..(b - 1)
  BY <1>1, BaseFacts
<1>3. PICK al \in 0..(h - 1), ah \in 0..(h - 1) : al = ua % Half /\ ah = ua \div Half /\ ua = al + h * ah
  BY <1>1, HalvesOf
<1>4. PICK bl \in 0..(h - 1), bh \in 0..(h - 1) : bl = ub % Half /\ bh = ub \div Half /\ ub = bl + h * bh
  BY <1>1, HalvesOf
<1>5. PICK p0 \in Nat, p1 \in Nat, p2 \in Nat, p3 \in Nat :
        /\ p0 = al * bl /\ p1 = al * bh /\ p2 = ah * bl /\ p3 = ah * bh
        /\ p0 <= b - 2 * h + 1 /\ p1 <= b - 2 * h + 1 /\ p2 <= b - 2 * h + 1
  <2>1. al * bl \in Nat /\ al * bl <= b - 2 * h + 1
    BY <1>1, <1>2, HalfProduct
  <2>2. al * bh \in Nat /\ al * bh <= b - 2 * h + 1
    BY <1>1, <1>2, HalfProduct
  <2>3. ah * bl \in Nat /\ ah * bl <= b - 2 * h + 1
    BY <1>1, <1>2, HalfProduct
  <2>4. ah * bh \in Nat
    OBVIOUS
  <2> QED
    BY <2>1, <2>2, <2>3, <2>4
<1>6. PICK uu \in Nat : uu = ua * ub /\ uu = p0 + h * (p1 + p2) + b * p3
  <2>1. ua \in Nat /\ ub \in Nat /\ ua * ub \in Nat
    BY <1>2
  <2>2. (al + h * ah) * (bl + h * bh) = al * bl + h * (al * bh + ah * bl) + (h * h) * (ah * bh)
    BY ProductOfHalves
  <2>3. ua * ub = p0 + h * (p1 + p2) + b * p3
    BY <1>2, <1>3, <1>4, <1>5, <2>2
  <2> QED
    BY <2>1, <2>3
<1>7. uu <= b * b - 2 * b + 1
  <2>1. ua \in 0..(b - 1) /\ ub \in 0..(b - 1) /\ b >= 2
    BY <1>2
  <2>2. ua * ub <= b * b - 2 * b + 1
    BY <2>1, HalfProduct
  <2> QED
    BY <1>6, <2>2
<1>8. PICK mid \in Limbs : mid = (p1 + p2) % b
  <2>1. p1 + p2 \in Nat /\ b \in Nat \ {0}
    BY <1>2
  <2>2. PICK m \in Nat : m = p1 + p2
    BY <2>1
  <2>3. m % b \in 0..(b - 1)
    BY <2>1, DivModExists
  <2> QED
    BY <1>2, <2>2, <2>3
<1>10. PICK ml \in 0..(h - 1), mh \in Nat : mh = mid \div Half /\ mid = ml + h * mh
  <2>1. PICK q \in 0..(h - 1), r \in 0..(h - 1) : q = mid \div Half /\ r = mid % Half /\ mid = r + h * q
    BY <1>1, HalvesOf
  <2> QED
    BY <2>1
<1>11. PICK mc : mc = IF mid < p1 THEN 1 ELSE 0
  OBVIOUS
<1>12. PICK low0 : low0 = (p0 + mid * h) % b
  OBVIOUS
<1>13. PICK high0 : high0 = (p3 + mh + mc * h + (IF low0 < p0 THEN 1 ELSE 0)) % b
  OBVIOUS
<1>14. PICK low1 : low1 = (low0 + dest) % b
  OBVIOUS
<1>15. PICK high1 : high1 = (high0 + (IF low1 < dest THEN 1 ELSE 0)) % b
  OBVIOUS
<1>16. PICK low2 : low2 = (low1 + carry) % b
  OBVIOUS
<1>17. PICK high2 : high2 = (high1 + (IF low2 < carry THEN 1 ELSE 0)) % b
  OBVIOUS
<1>18. dest \in 0..(b - 1) /\ carry \in 0..(b - 1)
  BY <1>2
<1>19. MulSteps(h, b, p0, p1, p2, p3, dest, carry,
         mid, ml, mh, mc, low0, high0, low1, high1, low2, high2)
  BY <1>8, <1>10, <1>11, <1>12, <1>13, <1>14, <1>15, <1>16, <1>17 DEF MulSteps
<1>21. /\ low2 \in 0..(b - 1) /\ high2 \in 0..(b - 1)
       /\ p0 + h * (p1 + p2) + b * p3 + dest + carry = low2 + b * high2
  <2>1. p0 + h * (p1 + p2) + b * p3 <= b * b - 2 * b + 1
    BY <1>6, <1>7
  <2>2. p0 <= b - 2 * h + 1 /\ p1 <= b - 2 * h + 1 /\ p2 <= b - 2 * h + 1
    BY <1>5
  <2>3. h >= 2 /\ b = h * h
    BY <1>1, <1>2
  <2> QED
    BY <1>18, <1>19, <2>1, <2>2, <2>3, LowAndHigh
<1>20. MulLimb(ua, ub, dest, carry) = <<low2, high2>>
  BY <1>1, <1>2, <1>3, <1>4, <1>5, <1>8, <1>10, <1>11, <1>12, <1>13, <1>14, <1>15, <1>16, <1>17
     DEF MulLimb
<1> QED
  BY <1>2, <1>6, <1>21, <1>20

-----------------------------------------------------------------------------
(* One row of the product.                                                 *)

(* Where all limbs above are zero the value above is zero.                 *)
LEMMA ZerosAbove ==
  ASSUME NEW d \in Seq(Limbs), NEW n \in Nat, NEW v, Values(d, n, v), NEW k \in 0..n,
         \A i \in 1..n : i > k => Limb(d, i) = 0
  PROVE  v[k] = 0
<1>1. /\ v \in [0..n -> Nat] /\ v[n] = 0 /\ Base \in Nat
      /\ \A i \in 1..n : v[i - 1] = Limb(d, i) + Base * v[i]
  BY LimbFacts DEF Values
<1> DEFINE T == {i \in 0..n : i >= k => v[i] = 0}
<1>2. n \in T
  BY <1>1
<1>3. ASSUME NEW i \in 1..n, i \in T
      PROVE  i - 1 \in T
  <2>1. CASE i > k
    <3>1. v[i] = 0 /\ Limb(d, i) = 0 /\ v[i - 1] = Limb(d, i) + Base * v[i]
      BY <1>1, <1>3, <2>1
    <3>2. Base * 0 = 0
      BY <1>1
    <3> QED
      BY <3>1, <3>2
  <2>2. CASE i <= k
    BY <2>2
  <2> QED
    BY <2>1, <2>2
<1>4. 0..n \subseteq T
  <2> HIDE DEF T
  <2> QED
    BY <1>2, <1>3, Downwards
<1> QED
  BY <1>4

(* Results of N limbs.                                                     *)
Vectors(N) == [1..N -> Limbs]

(* The inner loop: c[j] is the carry after j limbs of b, and the limbs     *)
(* from i on have got their products.                                      *)
CellStep(ua, b, i, p, j) ==
  <<[p[1] EXCEPT ![i + j - 1] = MulLimb(ua, b[j], p[1][i + j - 1], p[2])[1]],
    MulLimb(ua, b[j], p[1][i + j - 1], p[2])[2]>>

LEMMA CellStepIs ==
  ASSUME NEW N \in Nat, NEW ua \in Limbs, NEW b, NEW i \in 1..N, NEW j \in Nat, j >= 1,
         i + j - 1 <= N, b[j] \in Limbs, NEW d \in Vectors(N), NEW c \in Limbs
  PROVE  \E e \in Vectors(N), k \in Limbs :
           /\ CellStep(ua, b, i, <<d, c>>, j) = <<e, k>>
           /\ \A l \in 1..N : l # i + j - 1 => e[l] = d[l]
           /\ ua * b[j] + d[i + j - 1] + c = e[i + j - 1] + Base * k
<1>1. PICK at \in 1..N : at = i + j - 1
  OBVIOUS
<1>2. PICK r \in Limbs, k \in Limbs :
        /\ r = MulLimb(ua, b[j], d[at], c)[1] /\ k = MulLimb(ua, b[j], d[at], c)[2]
        /\ ua * b[j] + d[at] + c = r + Base * k
  <2>1. d[at] \in Limbs
    BY DEF Vectors
  <2> QED
    BY <2>1, MulLimbExact
<1> DEFINE e == [d EXCEPT ![at] = r]
<1>3. e \in Vectors(N) /\ e[at] = r /\ \A l \in 1..N : l # at => e[l] = d[l]
  BY DEF Vectors
<1>4. CellStep(ua, b, i, <<d, c>>, j) = <<e, k>>
  BY <1>1, <1>2 DEF CellStep
<1> HIDE DEF e
<1> QED
  BY <1>1, <1>2, <1>3, <1>4

(* What is known after j limbs of b.                                       *)
Multiplied(ua, b, result, i, N, m, P, c) ==
  /\ P \in [0..m -> Vectors(N)] /\ c \in [0..m -> Limbs]
  /\ P[0] = result /\ c[0] = 0
  /\ \A j \in 1..m :
       /\ CellStep(ua, b, i, <<P[j - 1], c[j - 1]>>, j) = <<P[j], c[j]>>
       /\ \A l \in 1..N : l # i + j - 1 => P[j][l] = P[j - 1][l]
       /\ ua * b[j] + P[j - 1][i + j - 1] + c[j - 1] = P[j][i + j - 1] + Base * c[j]

LEMMA CellsExist ==
  ASSUME NEW N \in Nat, NEW ua \in Limbs, NEW m \in Nat, NEW b \in [1..m -> Limbs],
         NEW i \in 1..N, i + m <= N, NEW result \in Vectors(N)
  PROVE  \E P, c : Multiplied(ua, b, result, i, N, m, P, c)
<1> DEFINE S == Vectors(N) \X Limbs
           F == [q \in S \X (1..m) |-> CellStep(ua, b, i, q[1], q[2])]
<1>1. ASSUME NEW p \in S, NEW j \in 1..m
      PROVE  /\ CellStep(ua, b, i, p, j) \in S
             /\ F[<<p, j>>] = CellStep(ua, b, i, p, j)
             /\ \A l \in 1..N : l # i + j - 1 => CellStep(ua, b, i, p, j)[1][l] = p[1][l]
             /\ ua * b[j] + p[1][i + j - 1] + p[2]
                  = CellStep(ua, b, i, p, j)[1][i + j - 1] + Base * CellStep(ua, b, i, p, j)[2]
  <2>1. PICK d \in Vectors(N), k \in Limbs : p = <<d, k>>
    OBVIOUS
  <2>2. b[j] \in Limbs /\ j \in Nat /\ j >= 1 /\ i + j - 1 <= N
    OBVIOUS
  <2>3. PICK e \in Vectors(N), f \in Limbs :
           /\ CellStep(ua, b, i, <<d, k>>, j) = <<e, f>>
           /\ \A l \in 1..N : l # i + j - 1 => e[l] = d[l]
           /\ ua * b[j] + d[i + j - 1] + k = e[i + j - 1] + Base * f
    BY <2>2, CellStepIs, SMTT(60)
  <2>6. p[1] = d /\ p[2] = k
    BY <2>1
  <2>7. PICK q : q = CellStep(ua, b, i, p, j) /\ q[1] = e /\ q[2] = f /\ q \in S
    BY <2>1, <2>3
  <2>4. <<p, j>> \in S \X (1..m)
    OBVIOUS
  <2>5. F[<<p, j>>] = CellStep(ua, b, i, p, j)
    BY <2>4
  <2> HIDE DEF F
  <2> QED
    BY <2>1, <2>3, <2>5, <2>6, <2>7
<1>2. StepOn(F, S, m)
  <2>1. ASSUME NEW q \in S \X (1..m)
        PROVE  CellStep(ua, b, i, q[1], q[2]) \in S
    BY <1>1
  <2> HIDE DEF S
  <2> QED
    BY <2>1 DEF StepOn
<1> HIDE DEF F
<1>3. <<result, 0>> \in S
  BY LimbFacts
<1>4. PICK start : start = <<result, 0>> /\ start \in S
  BY <1>3
<1>5. PICK g : Solution(g, start, F, S, m)
  <2> HIDE DEF S
  <2> QED
    BY <1>2, <1>4, Recursion
<1>6. g \in [0..m -> S] /\ g[0] = start /\ \A j \in 1..m : g[j] = F[<<g[j - 1], j>>]
  <2> HIDE DEF S
  <2> QED
    BY <1>5 DEF Solution
<1>7. ASSUME NEW j \in 0..m
      PROVE  g[j] \in S /\ g[j] = <<g[j][1], g[j][2]>>
  BY <1>6
<1> DEFINE P == [j \in 0..m |-> g[j][1]]
           c == [j \in 0..m |-> g[j][2]]
<1>8. P \in [0..m -> Vectors(N)] /\ c \in [0..m -> Limbs] /\ P[0] = result /\ c[0] = 0
  BY <1>4, <1>6, <1>7
<1>9. ASSUME NEW j \in 1..m
      PROVE  /\ CellStep(ua, b, i, <<P[j - 1], c[j - 1]>>, j) = <<P[j], c[j]>>
             /\ \A l \in 1..N : l # i + j - 1 => P[j][l] = P[j - 1][l]
             /\ ua * b[j] + P[j - 1][i + j - 1] + c[j - 1] = P[j][i + j - 1] + Base * c[j]
  <2>1. j - 1 \in 0..m /\ j \in 0..m
    OBVIOUS
  <2>2. PICK p \in S : p = g[j - 1] /\ p = <<P[j - 1], c[j - 1]>> /\ p[1] = P[j - 1] /\ p[2] = c[j - 1]
    BY <1>7, <2>1
  <2>3. g[j] = CellStep(ua, b, i, p, j) /\ g[j] = <<P[j], c[j]>> /\ g[j][1] = P[j] /\ g[j][2] = c[j]
    <3>1. g[j] = F[<<p, j>>]
      BY <1>6, <2>2
    <3>2. g[j] = CellStep(ua, b, i, p, j)
      BY <1>1, <3>1
    <3>3. g[j] = <<P[j], c[j]>>
      BY <1>7, <2>1
    <3> HIDE DEF P, c, S
    <3> QED
      BY <3>2, <3>3
  <2>4. /\ \A l \in 1..N : l # i + j - 1 => CellStep(ua, b, i, p, j)[1][l] = p[1][l]
        /\ ua * b[j] + p[1][i + j - 1] + p[2]
             = CellStep(ua, b, i, p, j)[1][i + j - 1] + Base * CellStep(ua, b, i, p, j)[2]
    BY <1>1
  <2> HIDE DEF P, c, S
  <2> QED
    BY <2>2, <2>3, <2>4
<1>10. Multiplied(ua, b, result, i, N, m, P, c)
  <2> HIDE DEF P, c
  <2> QED
    BY <1>8, <1>9 DEF Multiplied
<1> HIDE DEF P, c
<1> QED
  BY <1>10

(* The limbs outside of the row keep their values, and those of the row    *)
(* the values that their steps gave them.                                  *)
Kept(result, i, N, m, P) ==
  /\ \A j \in 0..m, l \in 1..N : l < i \/ l >= i + j => P[j][l] = result[l]
  /\ \A j \in 1..m : P[m][i + j - 1] = P[j][i + j - 1]

LEMMA Untouched ==
  ASSUME NEW N \in Nat, NEW ua, NEW m \in Nat, NEW b, NEW i \in 1..N, i + m <= N,
         NEW result \in Vectors(N), NEW P, NEW c, Multiplied(ua, b, result, i, N, m, P, c)
  PROVE  Kept(result, i, N, m, P)
<1>1. P[0] = result /\ \A j \in 1..m : \A l \in 1..N : l # i + j - 1 => P[j][l] = P[j - 1][l]
  BY DEF Multiplied
<1>2. \A j \in 0..m, l \in 1..N : l < i \/ l >= i + j => P[j][l] = result[l]
  <2> DEFINE T == {j \in 0..m : \A l \in 1..N : l < i \/ l >= i + j => P[j][l] = result[l]}
  <2>1. 0 \in T
    BY <1>1
  <2>2. ASSUME NEW j \in 1..m, j - 1 \in T
        PROVE  j \in T
    <3>1. ASSUME NEW l \in 1..N, l < i \/ l >= i + j
          PROVE  P[j][l] = result[l]
      <4>1. l # i + j - 1 /\ (l < i \/ l >= i + (j - 1))
        BY <3>1
      <4>2. P[j - 1][l] = result[l]
        BY <2>2, <4>1
      <4> QED
        BY <1>1, <4>1, <4>2
    <3> QED
      BY <3>1
  <2>3. 0..m \subseteq T
    <3> HIDE DEF T
    <3> QED
      BY <2>1, <2>2, Upwards
  <2> QED
    BY <2>3
<1>3. ASSUME NEW j \in 1..m
      PROVE  P[m][i + j - 1] = P[j][i + j - 1]
  <2> DEFINE T == {k \in 0..m : k >= j => P[k][i + j - 1] = P[j][i + j - 1]}
  <2>1. 0 \in T
    OBVIOUS
  <2>2. ASSUME NEW k \in 1..m, k - 1 \in T
        PROVE  k \in T
    <3>1. CASE k > j
      <4>1. i + j - 1 \in 1..N /\ i + j - 1 # i + k - 1 /\ k - 1 >= j
        BY <3>1
      <4>2. P[k - 1][i + j - 1] = P[j][i + j - 1]
        BY <2>2, <4>1
      <4> QED
        BY <1>1, <4>1, <4>2
    <3>2. CASE k = j
      BY <3>2
    <3>3. CASE k < j
      BY <3>3
    <3> QED
      BY <3>1, <3>2, <3>3
  <2>3. 0..m \subseteq T
    <3> HIDE DEF T
    <3> QED
      BY <2>1, <2>2, Upwards
  <2> QED
    BY <2>3
<1> QED
  BY <1>2, <1>3 DEF Kept

(* The carry of a row goes into a limb that is still zero, and no further. *)
UpStep(p, at) ==
  IF p[2] = 0 THEN p
  ELSE <<[p[1] EXCEPT ![at] = (p[1][at] + p[2]) % Base],
         IF (p[1][at] + p[2]) % Base < p[1][at] THEN 1 ELSE 0>>

LEMMA UpStepIs ==
  ASSUME NEW N \in Nat, NEW d \in Vectors(N), NEW at \in 1..N, d[at] = 0, NEW c \in Limbs
  PROVE  UpStep(<<d, c>>, at) = <<[d EXCEPT ![at] = c], 0>>
<1>1. CASE c = 0
  <2>1. [d EXCEPT ![at] = c] = d
    BY <1>1 DEF Vectors
  <2>2. UpStep(<<d, c>>, at) = <<d, c>>
    BY <1>1 DEF UpStep
  <2> QED
    BY <1>1, <2>1, <2>2
<1>2. CASE c # 0
  <2>1. PICK b \in Nat \ {0} : b = Base /\ c \in 0..(b - 1)
    BY LimbFacts
  <2>2. c % b = c
    BY <2>1, SmallModulo
  <2>3. (d[at] + c) % Base = c
    BY <2>1, <2>2
  <2>4. ~(c < 0)
    BY <2>1
  <2> QED
    BY <1>2, <2>3, <2>4 DEF UpStep
<1> QED
  BY <1>1, <1>2

(* A row is what the inner loop makes, and its last carry.                 *)
RowIs(ua, b, result, i, N, m, P, c) ==
  /\ Multiplied(ua, b, result, i, N, m, P, c)
  /\ MulRow(ua, b, result, i) = [P[m] EXCEPT ![i + m] = c[m]]

LEMMA MulRowIs ==
  ASSUME NEW N \in Nat, NEW ua \in Limbs, NEW m \in Nat, NEW b \in Seq(Limbs), Len(b) = m,
         NEW i \in 1..N, i + m <= N, NEW result \in Seq(Limbs), Len(result) = N,
         \A k \in 1..N : k >= i + m => result[k] = 0
  PROVE  \E P, c : RowIs(ua, b, result, i, N, m, P, c)
<1> DEFINE over == Len(result) - Len(b) - i + 1
           F(f) == [j \in 0..Len(b) |-> IF j = 0 THEN <<result, 0>> ELSE CellStep(ua, b, i, f[j - 1], j)]
           cell == CHOOSE f : f = F(f)
           G(f) == [k \in 0..over |->
                      IF k = 0 THEN cell[Len(b)] ELSE UpStep(f[k - 1], i + Len(b) + k - 1)]
           up == CHOOSE f : f = G(f)
<1>1. MulRow(ua, b, result, i) = up[over][1]
  BY DEF MulRow, CellStep, UpStep
<1>2. b \in [1..m -> Limbs] /\ result \in Vectors(N)
  BY DEF Vectors
<1>3. PICK P, c : Multiplied(ua, b, result, i, N, m, P, c)
  BY <1>2, CellsExist
<1>4. /\ P \in [0..m -> Vectors(N)] /\ c \in [0..m -> Limbs] /\ P[0] = result /\ c[0] = 0
      /\ \A j \in 1..m : CellStep(ua, b, i, <<P[j - 1], c[j - 1]>>, j) = <<P[j], c[j]>>
  BY <1>3 DEF Multiplied
<1> DEFINE g == [j \in 0..m |-> <<P[j], c[j]>>]
<1>5. g = F(g)
  <2>1. F(g) = [j \in 0..m |-> IF j = 0 THEN <<result, 0>> ELSE CellStep(ua, b, i, g[j - 1], j)]
    OBVIOUS
  <2> HIDE DEF F
  <2>2. ASSUME NEW j \in 0..m
        PROVE  g[j] = IF j = 0 THEN <<result, 0>> ELSE CellStep(ua, b, i, g[j - 1], j)
    <3>1. CASE j = 0
      BY <1>4, <3>1
    <3>2. CASE j # 0
      <4>1. j \in 1..m /\ j - 1 \in 0..m
        BY <3>2
      <4>2. g[j - 1] = <<P[j - 1], c[j - 1]>> /\ g[j] = <<P[j], c[j]>>
        BY <4>1
      <4> HIDE DEF g
      <4> QED
        BY <1>4, <3>2, <4>1, <4>2
    <3> QED
      BY <3>1, <3>2
  <2>3. g = [j \in 0..m |-> g[j]]
    OBVIOUS
  <2> HIDE DEF g
  <2> QED
    BY <2>1, <2>2, <2>3
<1>6. cell = F(cell)
  <2> HIDE DEF F, g
  <2> QED
    BY <1>5
<1> HIDE DEF cell
<1>7. cell[0] = <<result, 0>> /\ \A j \in 1..m : cell[j] = CellStep(ua, b, i, cell[j - 1], j)
  <2>1. \A j \in 0..m : cell[j] = IF j = 0 THEN <<result, 0>> ELSE CellStep(ua, b, i, cell[j - 1], j)
    BY <1>6
  <2> HIDE DEF F
  <2> QED
    BY <2>1
<1> HIDE DEF F, g
<1> DEFINE T == {j \in 0..m : cell[j] = <<P[j], c[j]>>}
<1>8. 0 \in T
  BY <1>4, <1>7
<1>9. ASSUME NEW j \in 1..m, j - 1 \in T
      PROVE  j \in T
  <2>1. cell[j - 1] = <<P[j - 1], c[j - 1]>>
    BY <1>9
  <2>2. cell[j] = CellStep(ua, b, i, cell[j - 1], j) /\ j \in 0..m
    BY <1>7
  <2>3. cell[j] = <<P[j], c[j]>>
    BY <1>4, <2>1, <2>2
  <2> QED
    BY <2>2, <2>3
<1>10. 0..m \subseteq T
  <2> HIDE DEF T
  <2> QED
    BY <1>8, <1>9, Upwards
<1>11. cell[m] = <<P[m], c[m]>> /\ P[m] \in Vectors(N) /\ c[m] \in Limbs
  BY <1>4, <1>10
<1> HIDE DEF T
<1>12. PICK at \in 1..N : at = i + m /\ P[m][at] = 0
  <2>1. i + m \in 1..N /\ i + m >= i + m
    OBVIOUS
  <2>2. ASSUME NEW j \in 0..m, NEW l \in 1..N, l >= i + j
        PROVE  P[j][l] = result[l]
    <3> HIDE DEF over, F, cell, G, up
    <3>0. result \in Vectors(N) /\ i + m <= N /\ m \in Nat /\ N \in Nat /\ i \in 1..N
      BY <1>2
    <3>1. Kept(result, i, N, m, P)
      BY <1>3, <3>0, Untouched
    <3>2. P[j][l] = result[l]
      BY <2>2, <3>1 DEF Kept
    <3> QED
      BY <3>2
  <2>3. P[m][i + m] = result[i + m]
    BY <2>1, <2>2
  <2> QED
    BY <2>1, <2>3
<1> DEFINE last == <<[P[m] EXCEPT ![at] = c[m]], 0>>
           h == [k \in 0..over |-> IF k = 0 THEN cell[m] ELSE last]
<1>13. UpStep(cell[m], at) = last
  BY <1>11, <1>12, UpStepIs
<1>14. \A k : UpStep(last, k) = last
  BY DEF UpStep
<1> HIDE DEF last
<1>15. over \in Nat /\ over >= 1
  OBVIOUS
<1>16. PICK o \in Nat : o = over /\ o >= 1
  BY <1>15
<1>17. \A f : G(f) = [k \in 0..o |-> IF k = 0 THEN cell[m] ELSE UpStep(f[k - 1], at + k - 1)]
  BY <1>12, <1>16
<1>18. h = G(h)
  <2>1. h = [k \in 0..o |-> IF k = 0 THEN cell[m] ELSE last]
    BY <1>16
  <2> HIDE DEF G, h, over
  <2>2. ASSUME NEW k \in 0..o
        PROVE  h[k] = IF k = 0 THEN cell[m] ELSE UpStep(h[k - 1], at + k - 1)
    <3>1. CASE k = 0
      BY <2>1, <3>1
    <3>2. CASE k = 1
      <4>1. h[1] = last /\ h[0] = cell[m] /\ at + k - 1 = at
        BY <2>1, <3>2, <1>16
      <4> QED
        BY <1>13, <3>2, <4>1
    <3>3. CASE k # 0 /\ k # 1
      <4>1. h[k] = last /\ h[k - 1] = last
        BY <2>1, <3>3
      <4> QED
        BY <1>14, <3>3, <4>1
    <3> QED
      BY <3>1, <3>2, <3>3
  <2>3. h = [k \in 0..o |-> h[k]]
    BY <2>1
  <2> QED
    BY <1>17, <2>2, <2>3
<1>19. up = G(up)
  <2> HIDE DEF G, h
  <2> QED
    BY <1>18
<1> HIDE DEF up
<1>20. up[0] = cell[m] /\ \A k \in 1..o : up[k] = UpStep(up[k - 1], at + k - 1)
  <2> HIDE DEF G
  <2>1. \A k \in 0..o : up[k] = IF k = 0 THEN cell[m] ELSE UpStep(up[k - 1], at + k - 1)
    BY <1>17, <1>19
  <2> QED
    BY <2>1
<1> HIDE DEF G, h, over
<1> DEFINE U == {k \in 0..o : k >= 1 => up[k] = last}
<1>21. 0 \in U
  OBVIOUS
<1>22. ASSUME NEW k \in 1..o, k - 1 \in U
       PROVE  k \in U
  <2>1. CASE k = 1
    <3>1. up[1] = UpStep(up[0], at) /\ up[0] = cell[m]
      <4>1. up[k] = UpStep(up[k - 1], at + k - 1) /\ k - 1 = 0 /\ at + k - 1 = at
        BY <1>20, <2>1
      <4> QED
        BY <1>20, <2>1, <4>1
    <3> QED
      BY <1>13, <2>1, <3>1
  <2>2. CASE k # 1
    <3>1. up[k - 1] = last
      BY <1>22, <2>2
    <3> QED
      BY <1>14, <1>20, <3>1
  <2> QED
    BY <2>1, <2>2
<1>23. 0..o \subseteq U
  <2> HIDE DEF U
  <2> QED
    BY <1>21, <1>22, Upwards
<1>24. up[over] = last
  BY <1>16, <1>23
<1>25. MulRow(ua, b, result, i) = [P[m] EXCEPT ![i + m] = c[m]]
  BY <1>1, <1>12, <1>24 DEF last
<1>26. RowIs(ua, b, result, i, N, m, P, c)
  BY <1>3, <1>25 DEF RowIs
<1> QED
  BY <1>26

LEMMA VectorIsSequence ==
  ASSUME NEW N \in Nat, NEW d \in Vectors(N)
  PROVE  d \in Seq(Limbs) /\ Len(d) = N /\ \A k \in 1..N : Limb(d, k) = d[k]
<1>1. d = [k \in 1..N |-> d[k]] /\ \A k \in 1..N : d[k] \in Limbs
  BY DEF Vectors
<1>2. d \in Seq(Limbs)
  BY <1>1, SeqDef DEF Vectors
<1>3. DOMAIN d = 1..N
  BY <1>1
<1>4. Len(d) = N
  BY <1>2, <1>3, LenProperties
<1> QED
  BY <1>2, <1>3, <1>4 DEF Limb

(* A row limb by limb: c[j] is the carry into the limb above the j lowest  *)
(* ones of b.                                                              *)
Row(ua, b, result, i, N, m, row, c) ==
  /\ row \in Vectors(N) /\ c \in [0..m -> Limbs] /\ c[0] = 0 /\ row[i + m] = c[m]
  /\ \A j \in 1..m : ua * b[j] + result[i + j - 1] + c[j - 1] = row[i + j - 1] + Base * c[j]
  /\ \A k \in 1..N : k < i \/ k > i + m => row[k] = result[k]

LEMMA MulRowLimbs ==
  ASSUME NEW N \in Nat, NEW ua \in Limbs, NEW m \in Nat, NEW b \in Seq(Limbs), Len(b) = m,
         NEW i \in 1..N, i + m <= N, NEW result \in Seq(Limbs), Len(result) = N,
         \A k \in 1..N : k >= i + m => result[k] = 0
  PROVE  \E c : Row(ua, b, result, i, N, m, MulRow(ua, b, result, i), c)
<1>1. PICK P, c : /\ Multiplied(ua, b, result, i, N, m, P, c)
                  /\ MulRow(ua, b, result, i) = [P[m] EXCEPT ![i + m] = c[m]]
  <2>1. \E P, c : RowIs(ua, b, result, i, N, m, P, c)
    BY MulRowIs
  <2> QED
    BY <2>1 DEF RowIs
<1>2. result \in Vectors(N)
  BY DEF Vectors
<1>3. Kept(result, i, N, m, P)
  BY <1>1, <1>2, Untouched
<1>4. /\ P \in [0..m -> Vectors(N)] /\ c \in [0..m -> Limbs] /\ c[0] = 0
      /\ \A j \in 1..m : ua * b[j] + P[j - 1][i + j - 1] + c[j - 1] = P[j][i + j - 1] + Base * c[j]
  BY <1>1 DEF Multiplied
<1>5. PICK row : row = MulRow(ua, b, result, i)
  OBVIOUS
<1>6. i + m \in 1..N /\ P[m] \in Vectors(N) /\ c[m] \in Limbs
  BY <1>4
<1>7. row \in Vectors(N) /\ row[i + m] = c[m] /\ \A k \in 1..N : k # i + m => row[k] = P[m][k]
  BY <1>1, <1>5, <1>6 DEF Vectors
<1>8. ASSUME NEW j \in 1..m
      PROVE  ua * b[j] + result[i + j - 1] + c[j - 1] = row[i + j - 1] + Base * c[j]
  <2>1. i + j - 1 \in 1..N /\ i + j - 1 # i + m /\ i + j - 1 >= i + (j - 1) /\ j - 1 \in 0..m
    OBVIOUS
  <2>2. P[j - 1][i + j - 1] = result[i + j - 1]
    BY <1>3, <2>1 DEF Kept
  <2>3. row[i + j - 1] = P[j][i + j - 1]
    BY <1>3, <1>7, <2>1 DEF Kept
  <2> QED
    BY <1>4, <2>2, <2>3
<1>9. ASSUME NEW k \in 1..N, k < i \/ k > i + m
      PROVE  row[k] = result[k]
  <2>1. k # i + m /\ m \in 0..m /\ (k < i \/ k >= i + m)
    BY <1>9
  <2>2. P[m][k] = result[k]
    BY <1>3, <2>1 DEF Kept
  <2> QED
    BY <1>7, <2>1, <2>2
<1> QED
  BY <1>4, <1>5, <1>7, <1>8, <1>9 DEF Row

(* The values above a limb, from those one limb higher.                    *)
RowSums(base, ua, low, lowest, carry, got, next, vh, uh, wh) ==
  /\ ua * low + lowest + carry = got + base * next
  /\ wh = vh + ua * uh + next

RowSumsBelow(base, ua, low, lowest, carry, got, vh, uh, wh) ==
  got + base * wh = (lowest + base * vh) + ua * (low + base * uh) + carry

LEMMA RowStep ==
  ASSUME NEW base \in Nat, NEW ua \in Nat, NEW low \in Nat, NEW lowest \in Nat, NEW carry \in Nat,
         NEW got \in Nat, NEW next \in Nat, NEW vh \in Nat, NEW uh \in Nat, NEW wh \in Nat,
         RowSums(base, ua, low, lowest, carry, got, next, vh, uh, wh)
  PROVE  RowSumsBelow(base, ua, low, lowest, carry, got, vh, uh, wh)
<1>1. ua * low + lowest + carry = got + base * next /\ wh = vh + ua * uh + next
  BY DEF RowSums
<1>2. PICK q \in Nat : q = ua * uh
  OBVIOUS
<1>3. ua * (low + base * uh) = ua * low + base * q
  BY <1>2
<1>4. base * wh = base * vh + base * q + base * next
  BY <1>1, <1>2
<1> QED
  BY <1>1, <1>3, <1>4 DEF RowSumsBelow

RowValued(ua, b, result, i, N, m, row, c, v, u, w) ==
  /\ Row(ua, b, result, i, N, m, row, c)
  /\ Values(result, N, v) /\ Values(b, m, u) /\ Values(row, N, w)

LEMMA RowValue ==
  ASSUME NEW N \in Nat, NEW ua \in Limbs, NEW m \in Nat, NEW b \in Seq(Limbs), NEW i \in 1..N,
         NEW result \in Seq(Limbs), NEW row, NEW c, NEW v, NEW u, NEW w,
         RowValued(ua, b, result, i, N, m, row, c, v, u, w),
         Len(b) = m, i + m <= N, Len(result) = N,
         \A k \in 1..N : k >= i + m => result[k] = 0
  PROVE  w[i - 1] = v[i - 1] + ua * u[0]
<1>0. /\ Row(ua, b, result, i, N, m, row, c)
      /\ Values(result, N, v) /\ Values(b, m, u) /\ Values(row, N, w)
  BY DEF RowValued
<1>1. /\ row \in Vectors(N) /\ c \in [0..m -> Limbs] /\ c[0] = 0 /\ row[i + m] = c[m]
      /\ \A j \in 1..m : ua * b[j] + result[i + j - 1] + c[j - 1] = row[i + j - 1] + Base * c[j]
      /\ \A k \in 1..N : k < i \/ k > i + m => row[k] = result[k]
  BY <1>0 DEF Row
<1>2. row \in Seq(Limbs) /\ Len(row) = N /\ \A k \in 1..N : Limb(row, k) = row[k]
  BY <1>1, VectorIsSequence
<1>3. /\ \A k \in 1..N : Limb(result, k) = result[k] /\ result[k] \in Limbs
      /\ \A k \in 1..m : Limb(b, k) = b[k] /\ b[k] \in Limbs
  BY LimbIsLimb
<1>4. /\ v \in [0..N -> Nat] /\ w \in [0..N -> Nat] /\ u \in [0..m -> Nat]
      /\ u[m] = 0 /\ Base \in Nat /\ Limbs \subseteq Nat
      /\ \A k \in 1..N : v[k - 1] = result[k] + Base * v[k]
      /\ \A k \in 1..N : w[k - 1] = row[k] + Base * w[k]
      /\ \A k \in 1..m : u[k - 1] = b[k] + Base * u[k]
  BY <1>0, <1>2, <1>3, LimbFacts DEF Values
<1>12. Limbs \subseteq Nat /\ Base \in Nat
  BY LimbFacts
<1>13. v \in [0..N -> Nat] /\ w \in [0..N -> Nat] /\ u \in [0..m -> Nat] /\ c \in [0..m -> Nat]
  BY <1>0, <1>1, <1>12 DEF Values
<1>11. c[m] \in Nat /\ m \in 0..m /\ ua \in Nat /\ u[0] \in Nat
  BY <1>12, <1>13
<1> DEFINE T == {j \in 0..m : w[i + j - 1] = v[i + j - 1] + ua * u[j] + c[j]}
<1>5. m \in T
  <2>1. i + m - 1 \in 0..N /\ i + m \in 0..N /\ i + m \in 1..N
    OBVIOUS
  <2>2. v[i + m - 1] = 0
    <3>1. \A k \in 1..N : k > i + m - 1 => Limb(result, k) = 0
      BY <1>3
    <3>2. PICK at \in 0..N : at = i + m - 1
      BY <2>1
    <3> QED
      BY <1>0, <3>1, <3>2, ZerosAbove
  <2>3. w[i + m] = 0
    <3>1. \A k \in 1..N : k > i + m => Limb(row, k) = 0
      BY <1>1, <1>2
    <3>2. PICK at \in 0..N : at = i + m
      BY <2>1
    <3> QED
      BY <1>0, <1>2, <3>1, <3>2, ZerosAbove
  <2>4. w[i + m - 1] = c[m]
    <3>1. w[i + m - 1] = row[i + m] + Base * w[i + m]
      BY <1>4, <2>1
    <3>2. Base * 0 = 0
      BY <1>4
    <3> QED
      BY <1>1, <1>11, <2>3, <3>1, <3>2
  <2>5. ua * u[m] = 0
    BY <1>4
  <2> QED
    BY <1>11, <2>2, <2>4, <2>5
<1>6. ASSUME NEW j \in 1..m, j \in T
      PROVE  j - 1 \in T
  <2>1. PICK at \in 1..N : at = i + j - 1 /\ at - 1 = i + (j - 1) - 1
    OBVIOUS
  <2>2. j - 1 \in 0..m /\ j \in 0..m
    OBVIOUS
  <2>3. /\ ua \in Nat /\ b[j] \in Nat /\ result[at] \in Nat /\ c[j - 1] \in Nat /\ row[at] \in Nat
        /\ c[j] \in Nat /\ v[at] \in Nat /\ u[j] \in Nat /\ w[at] \in Nat
    <3>1. b[j] \in Limbs /\ result[at] \in Limbs /\ c[j - 1] \in Limbs /\ row[at] \in Limbs /\ c[j] \in Limbs
      BY <1>1, <1>3, <2>1, <2>2 DEF Vectors
    <3>2. v[at] \in Nat /\ u[j] \in Nat /\ w[at] \in Nat
      BY <1>13, <2>1, <2>2, SMTT(60)
    <3> QED
      BY <1>11, <1>12, <3>1, <3>2
  <2>4. RowSums(Base, ua, b[j], result[at], c[j - 1], row[at], c[j], v[at], u[j], w[at])
    BY <1>1, <1>6, <2>1 DEF RowSums
  <2>5. row[at] + Base * w[at] = (result[at] + Base * v[at]) + ua * (b[j] + Base * u[j]) + c[j - 1]
    <3>1. RowSumsBelow(Base, ua, b[j], result[at], c[j - 1], row[at], v[at], u[j], w[at])
      BY <1>12, <2>3, <2>4, RowStep
    <3> QED
      BY <3>1 DEF RowSumsBelow
  <2>6. w[at - 1] = v[at - 1] + ua * u[j - 1] + c[j - 1]
    BY <1>4, <2>5
  <2> QED
    BY <2>1, <2>2, <2>6
<1>7. 0..m \subseteq T
  <2> HIDE DEF T
  <2> QED
    BY <1>5, <1>6, Downwards
<1>8. w[i + 0 - 1] = v[i + 0 - 1] + ua * u[0] + c[0]
  <2>1. 0 \in T
    BY <1>7
  <2> QED
    BY <2>1
<1>9. i + 0 - 1 = i - 1 /\ i - 1 \in 0..N /\ 0 \in 0..m
  OBVIOUS
<1>10. ua * u[0] \in Nat /\ v[i - 1] \in Nat
  BY <1>9, <1>11, <1>13
<1> QED
  BY <1>1, <1>8, <1>9, <1>10

-----------------------------------------------------------------------------
(* The whole product.                                                      *)

(* The value above a limb is known from the limbs above it.                *)
LEMMA SameAbove ==
  ASSUME NEW d, NEW e, NEW n \in Nat, NEW v, NEW w, Values(d, n, v), Values(e, n, w),
         NEW k \in 0..n, \A i \in 1..n : i > k => Limb(d, i) = Limb(e, i)
  PROVE  v[k] = w[k]
<1>1. /\ v[n] = 0 /\ \A i \in 1..n : v[i - 1] = Limb(d, i) + Base * v[i]
      /\ w[n] = 0 /\ \A i \in 1..n : w[i - 1] = Limb(e, i) + Base * w[i]
  BY DEF Values
<1> DEFINE T == {i \in 0..n : i >= k => v[i] = w[i]}
<1>2. n \in T
  BY <1>1
<1>3. ASSUME NEW i \in 1..n, i \in T
      PROVE  i - 1 \in T
  <2>1. CASE i > k
    <3>1. v[i] = w[i] /\ Limb(d, i) = Limb(e, i)
      BY <1>3, <2>1
    <3>2. v[i - 1] = Limb(d, i) + Base * v[i] /\ w[i - 1] = Limb(e, i) + Base * w[i]
      BY <1>1
    <3>3. v[i - 1] = w[i - 1]
      BY <3>1, <3>2, Zenon
    <3> QED
      BY <3>3
  <2>2. CASE i <= k
    BY <2>2
  <2> QED
    BY <2>1, <2>2
<1>4. 0..n \subseteq T
  <2> HIDE DEF T
  <2> QED
    BY <1>2, <1>3, Downwards
<1> QED
  BY <1>4

(* The result while rows are added: its limbs above the k + m lowest are   *)
(* still zero.                                                             *)
Open(d, N, k, m) == d \in Vectors(N) /\ \A l \in 1..N : l > k + m => d[l] = 0

NextRow(a, b, d, i) == IF a[i] = 0 THEN d ELSE MulRow(a[i], b, d, i)

(* What a row adds: at its own limb, the product; below it, nothing.       *)
RowAdds(a, b, d, i, N, m) ==
  /\ Open(NextRow(a, b, d, i), N, i, m)
  /\ \A l \in 1..N : l < i => NextRow(a, b, d, i)[l] = d[l]
  /\ \A u, v, w : Values(b, m, u) /\ Values(d, N, v) /\ Values(NextRow(a, b, d, i), N, w)
                    => w[i - 1] = v[i - 1] + a[i] * u[0]

LEMMA NextRowAdds ==
  ASSUME NEW n \in Nat, NEW m \in Nat, NEW N \in Nat, N = n + m,
         NEW a \in Seq(Limbs), Len(a) = n, NEW b \in Seq(Limbs), Len(b) = m,
         NEW i \in 1..n, NEW d, Open(d, N, i - 1, m)
  PROVE  RowAdds(a, b, d, i, N, m)
<1>1. /\ d \in Vectors(N) /\ (\A l \in 1..N : l > (i - 1) + m => d[l] = 0)
      /\ i \in 1..N /\ i + m <= N /\ a[i] \in Limbs /\ i - 1 \in 0..N
  BY DEF Open
<1>2. d \in Seq(Limbs) /\ Len(d) = N
  BY <1>1, VectorIsSequence
<1>3. CASE a[i] = 0
  <2>1. NextRow(a, b, d, i) = d
    BY <1>3 DEF NextRow
  <2>2. Open(d, N, i, m)
    BY <1>1 DEF Open
  <2>3. ASSUME NEW u, NEW v, NEW w, Values(b, m, u), Values(d, N, v), Values(d, N, w)
        PROVE  w[i - 1] = v[i - 1] + a[i] * u[0]
    <3>1. w[i - 1] = v[i - 1]
      BY <1>1, <2>3, SameAbove
    <3>2. u \in [0..m -> Nat] /\ v \in [0..N -> Nat]
      BY <2>3 DEF Values
    <3>3. u[0] \in Nat /\ v[i - 1] \in Nat
      BY <1>1, <3>2
    <3> QED
      BY <1>3, <3>1, <3>3
  <2> QED
    BY <2>1, <2>2, <2>3 DEF RowAdds
<1>4. CASE a[i] # 0
  <2>0. PICK ua \in Limbs : ua = a[i]
    BY <1>1
  <2>1. PICK row : ua = a[i] /\ row = MulRow(ua, b, d, i) /\ NextRow(a, b, d, i) = row
    BY <2>0, <1>4 DEF NextRow
  <2>2. \A l \in 1..N : l >= i + m => d[l] = 0
    BY <1>1
  <2>3. PICK c : Row(ua, b, d, i, N, m, row, c)
    BY <1>1, <1>2, <2>1, <2>2, MulRowLimbs, SMTT(60)
  <2>4. row \in Vectors(N) /\ \A k \in 1..N : k < i \/ k > i + m => row[k] = d[k]
    BY <2>3 DEF Row
  <2>5. Open(row, N, i, m)
    BY <1>1, <2>4 DEF Open
  <2>6. ASSUME NEW u, NEW v, NEW w, Values(b, m, u), Values(d, N, v), Values(row, N, w)
        PROVE  w[i - 1] = v[i - 1] + a[i] * u[0]
    <3>1. i \in 1..N /\ i + m <= N /\ \A l \in 1..N : l >= i + m => d[l] = 0
      BY <1>1, <2>2
    <3>2. RowValued(ua, b, d, i, N, m, row, c, v, u, w)
      BY <2>3, <2>6 DEF RowValued
    <3>3. w[i - 1] = v[i - 1] + ua * u[0]
      BY <1>2, <3>1, <3>2, RowValue, SMTT(60)
    <3> QED
      BY <2>1, <3>3
  <2> QED
    BY <2>1, <2>4, <2>5, <2>6 DEF RowAdds
<1> QED
  BY <1>3, <1>4

(* The result after each of the rows.                                      *)
Rows(a, b, n, N, m, D) ==
  /\ D[0] = Zeros(N)
  /\ \A i \in 1..n : D[i] = NextRow(a, b, D[i - 1], i)
  /\ \A i \in 0..n : Open(D[i], N, i, m)

LEMMA RowsStayOpen ==
  ASSUME NEW n \in Nat, NEW m \in Nat, NEW N \in Nat, N = n + m,
         NEW a \in Seq(Limbs), Len(a) = n, NEW b \in Seq(Limbs), Len(b) = m,
         NEW D, D[0] = Zeros(N),
         \A i \in 1..n : Open(D[i - 1], N, i - 1, m) => D[i] = NextRow(a, b, D[i - 1], i)
  PROVE  Rows(a, b, n, N, m, D)
<1> DEFINE T == {i \in 0..n : Open(D[i], N, i, m)}
<1>1. 0 \in T
  <2>1. Zeros(N) = [i \in 1..N |-> 0]
    BY DEF Zeros
  <2>2. Open(Zeros(N), N, 0, m)
    BY <2>1, LimbFacts DEF Open, Vectors
  <2> QED
    BY <2>2
<1>2. ASSUME NEW i \in 1..n, i - 1 \in T
      PROVE  i \in T
  <2>1. D[i] = NextRow(a, b, D[i - 1], i)
    BY <1>2
  <2>2. RowAdds(a, b, D[i - 1], i, N, m)
    BY <1>2, NextRowAdds
  <2> QED
    BY <2>1, <2>2 DEF RowAdds
<1>3. 0..n \subseteq T
  <2> HIDE DEF T
  <2> QED
    BY <1>1, <1>2, Upwards
<1>4. \A i \in 0..n : Open(D[i], N, i, m)
  BY <1>3
<1>5. \A i \in 1..n : D[i] = NextRow(a, b, D[i - 1], i)
  BY <1>4
<1> QED
  BY <1>4, <1>5 DEF Rows

LEMMA RowsExist ==
  ASSUME NEW n \in Nat, NEW m \in Nat, NEW N \in Nat, N = n + m,
         NEW a \in Seq(Limbs), Len(a) = n, NEW b \in Seq(Limbs), Len(b) = m
  PROVE  \E D : Rows(a, b, n, N, m, D) /\ D \in [0..n -> Vectors(N)]
<1> DEFINE F == [q \in Vectors(N) \X (1..n) |->
                   IF NextRow(a, b, q[1], q[2]) \in Vectors(N) THEN NextRow(a, b, q[1], q[2]) ELSE q[1]]
<1>1. StepOn(F, Vectors(N), n)
  BY DEF StepOn
<1>2. \A d \in Vectors(N), i \in 1..n :
        NextRow(a, b, d, i) \in Vectors(N) => F[<<d, i>>] = NextRow(a, b, d, i)
  OBVIOUS
<1> HIDE DEF F
<1>3. Zeros(N) \in Vectors(N)
  BY LimbFacts DEF Zeros, Vectors
<1>4. PICK D : Solution(D, Zeros(N), F, Vectors(N), n)
  BY <1>1, <1>3, Recursion
<1>5. D \in [0..n -> Vectors(N)] /\ D[0] = Zeros(N) /\ \A i \in 1..n : D[i] = F[<<D[i - 1], i>>]
  BY <1>4 DEF Solution
<1>6. ASSUME NEW i \in 1..n, Open(D[i - 1], N, i - 1, m)
      PROVE  D[i] = NextRow(a, b, D[i - 1], i)
  <2>1. RowAdds(a, b, D[i - 1], i, N, m)
    BY <1>6, NextRowAdds
  <2>2. NextRow(a, b, D[i - 1], i) \in Vectors(N) /\ D[i - 1] \in Vectors(N)
    BY <1>6, <2>1 DEF RowAdds, Open
  <2> QED
    BY <1>2, <1>5, <2>2
<1>7. Rows(a, b, n, N, m, D)
  BY <1>5, <1>6, RowsStayOpen
<1> QED
  BY <1>5, <1>7

(* The value of the product above a limb, from those one limb higher.      *)
ProductSums(base, low, q, r, ak, vk, factor) == low + base * q = r + ak * factor
ProductSumsBelow(base, low, q, r, ak, vk, factor) ==
  low + base * (q + vk * factor) = r + (ak + base * vk) * factor

LEMMA ProductStep ==
  ASSUME NEW base \in Nat, NEW low \in Nat, NEW q \in Nat, NEW r \in Nat, NEW ak \in Nat,
         NEW vk \in Nat, NEW factor \in Nat, ProductSums(base, low, q, r, ak, vk, factor)
  PROVE  ProductSumsBelow(base, low, q, r, ak, vk, factor)
<1>1. low + base * q = r + ak * factor
  BY DEF ProductSums
<1>2. PICK p \in Nat : p = vk * factor
  OBVIOUS
<1>3. base * (q + p) = base * q + base * p
  OBVIOUS
<1>4. (ak + base * vk) * factor = ak * factor + base * p
  BY <1>2
<1> QED
  BY <1>1, <1>2, <1>3, <1>4 DEF ProductSumsBelow

RowsProduct(D, n, va, u) == Magnitude(D[n]) = va[0] * u[0]
RowsValued(a, b, n, N, m, D, va, u) ==
  Rows(a, b, n, N, m, D) /\ Values(a, n, va) /\ Values(b, m, u)

LEMMA RowsValue ==
  ASSUME NEW n \in Nat, NEW m \in Nat, NEW N \in Nat, NEW a \in Seq(Limbs), NEW b \in Seq(Limbs),
         NEW D, NEW va, NEW u, RowsValued(a, b, n, N, m, D, va, u),
         N = n + m, Len(a) = n, Len(b) = m
  PROVE  RowsProduct(D, n, va, u)
<1>0. Rows(a, b, n, N, m, D) /\ Values(a, n, va) /\ Values(b, m, u)
  BY DEF RowsValued
<1>1. /\ D[0] = Zeros(N)
      /\ \A i \in 1..n : D[i] = NextRow(a, b, D[i - 1], i)
      /\ \A i \in 0..n : Open(D[i], N, i, m)
  BY <1>0 DEF Rows
<1>2. \A k \in 0..n : D[k] \in Vectors(N) /\ D[k] \in Seq(Limbs) /\ Len(D[k]) = N
                      /\ \A l \in 1..N : Limb(D[k], l) = D[k][l] /\ D[k][l] \in Nat
  <2>1. ASSUME NEW k \in 0..n
        PROVE  D[k] \in Vectors(N)
    BY <1>1 DEF Open
  <2>2. ASSUME NEW d \in Vectors(N)
        PROVE  d \in Seq(Limbs) /\ Len(d) = N /\ \A l \in 1..N : Limb(d, l) = d[l] /\ d[l] \in Nat
    <3>1. d \in Seq(Limbs) /\ Len(d) = N /\ \A l \in 1..N : Limb(d, l) = d[l]
      BY VectorIsSequence
    <3>2. \A l \in 1..N : d[l] \in Nat
      BY LimbFacts DEF Vectors
    <3> QED
      BY <3>1, <3>2
  <2> QED
    BY <2>1, <2>2
<1>3. \A k \in 0..n : \E v : Values(D[k], N, v)
  <2>1. ASSUME NEW k \in 0..n
        PROVE  \E v : Values(D[k], N, v)
    <3>1. D[k] \in Seq(Limbs) /\ Len(D[k]) = N
      BY <1>2
    <3> QED
      BY <3>1, MagnitudeOwn
  <2> QED
    BY <2>1
<1> DEFINE V == [k \in 0..n |-> CHOOSE v : Values(D[k], N, v)]
<1>4. \A k \in 0..n : Values(D[k], N, V[k])
  BY <1>3
<1> HIDE DEF V
<1>5. /\ \A k \in 0..n : V[k] \in [0..N -> Nat] /\ V[k][N] = 0
      /\ \A k \in 0..n, i \in 1..N : V[k][i - 1] = D[k][i] + Base * V[k][i]
  BY <1>2, <1>4 DEF Values
<1>6. \A i \in 1..n : RowAdds(a, b, D[i - 1], i, N, m)
  <2>1. ASSUME NEW i \in 1..n
        PROVE  RowAdds(a, b, D[i - 1], i, N, m)
    <3>1. Open(D[i - 1], N, i - 1, m)
      BY <1>1
    <3> QED
      BY <3>1, NextRowAdds
  <2> QED
    BY <2>1
<1>7. \A i \in 1..n : V[i][i - 1] = V[i - 1][i - 1] + a[i] * u[0]
  <2>1. ASSUME NEW i \in 1..n
        PROVE  V[i][i - 1] = V[i - 1][i - 1] + a[i] * u[0]
    <3>1. D[i] = NextRow(a, b, D[i - 1], i) /\ i - 1 \in 0..n /\ i \in 0..n
      BY <1>1
    <3>2. Values(NextRow(a, b, D[i - 1], i), N, V[i]) /\ Values(D[i - 1], N, V[i - 1])
      BY <1>4, <3>1
    <3> QED
      BY <1>0, <1>6, <3>2 DEF RowAdds
  <2> QED
    BY <2>1
<1>8. \A k \in 0..n, l \in 1..N : l <= k => D[n][l] = D[k][l]
  <2> DEFINE T == {k \in 0..n : \A l \in 1..N : l <= k => D[n][l] = D[k][l]}
  <2>1. n \in T
    OBVIOUS
  <2>2. ASSUME NEW k \in 1..n, k \in T
        PROVE  k - 1 \in T
    <3>1. \A l \in 1..N : l < k => D[k][l] = D[k - 1][l]
      BY <1>1, <1>6 DEF RowAdds
    <3>2. \A l \in 1..N : l <= k - 1 => l < k /\ l <= k
      OBVIOUS
    <3>3. \A l \in 1..N : l <= k - 1 => D[n][l] = D[k - 1][l]
      BY <2>2, <3>1, <3>2
    <3> QED
      BY <3>3
  <2>3. 0..n \subseteq T
    <3> HIDE DEF T
    <3> QED
      BY <2>1, <2>2, Downwards
  <2> QED
    BY <2>3
<1>9. /\ va \in [0..n -> Nat] /\ va[n] = 0 /\ Base \in Nat /\ u[0] \in Nat
      /\ \A i \in 1..n : a[i] \in Nat /\ va[i - 1] = a[i] + Base * va[i]
  <2>1. ASSUME NEW i \in 1..n
        PROVE  Limb(a, i) = a[i] /\ a[i] \in Nat
    <3>1. i \in Nat \ {0} /\ i <= Len(a)
      OBVIOUS
    <3>2. Limb(a, i) = a[i] /\ Limb(a, i) \in Limbs
      BY <3>1, LimbIsLimb
    <3> QED
      BY <3>2, LimbFacts
  <2>2. Base \in Nat /\ va \in [0..n -> Nat] /\ va[n] = 0 /\ u \in [0..m -> Nat]
        /\ \A i \in 1..n : va[i - 1] = Limb(a, i) + Base * va[i]
    BY <1>0, LimbFacts DEF Values
  <2> QED
    BY <2>1, <2>2
<1> DEFINE T == {k \in 0..n : V[n][k] = V[k][k] + va[k] * u[0]}
<1>10. n \in T
  <2>1. V[n][n] \in Nat
    <3>1. n \in 0..n /\ n \in 0..N
      OBVIOUS
    <3>2. V[n] \in [0..N -> Nat]
      BY <1>5, <3>1
    <3> QED
      BY <3>1, <3>2
  <2> QED
    BY <1>9, <2>1
<1>11. ASSUME NEW k \in 1..n, k \in T
       PROVE  k - 1 \in T
  <2>1. k \in 1..N /\ k - 1 \in 0..N /\ k \in 0..N /\ k - 1 \in 0..n /\ k \in 0..n /\ n \in 0..n
    OBVIOUS
  <2>2. V[n][k - 1] = D[n][k] + Base * V[n][k] /\ V[k][k - 1] = D[k][k] + Base * V[k][k]
    BY <1>5, <2>1
  <2>3. D[n][k] = D[k][k]
    BY <1>8, <2>1
  <2>4. V[k][k - 1] = V[k - 1][k - 1] + a[k] * u[0]
    BY <1>7
  <2>5. V[n][k] = V[k][k] + va[k] * u[0]
    BY <1>11
  <2>6. PICK low \in Nat : low = D[k][k]
    BY <1>2, <2>1
  <2>7. PICK q \in Nat : q = V[k][k]
    BY <1>5, <2>1
  <2>8. PICK r \in Nat : r = V[k - 1][k - 1]
    BY <1>5, <2>1
  <2>9. PICK ak \in Nat, vk \in Nat, factor \in Nat, base \in Nat :
          ak = a[k] /\ vk = va[k] /\ factor = u[0] /\ base = Base
    BY <1>9, <2>1
  <2>10. ProductSums(base, low, q, r, ak, vk, factor)
    BY <2>2, <2>4, <2>6, <2>7, <2>8, <2>9 DEF ProductSums
  <2>11. low + base * (q + vk * factor) = r + (ak + base * vk) * factor
    <3>1. ProductSumsBelow(base, low, q, r, ak, vk, factor)
      BY <2>10, ProductStep
    <3> QED
      BY <3>1 DEF ProductSumsBelow
  <2>12. V[n][k - 1] = V[k - 1][k - 1] + va[k - 1] * u[0]
    <3>1. va[k - 1] = ak + base * vk
      BY <1>9, <2>9
    <3>2. V[n][k - 1] = low + base * (q + vk * factor)
      BY <2>2, <2>3, <2>5, <2>6, <2>7, <2>9
    <3> QED
      BY <2>8, <2>9, <2>11, <3>1, <3>2
  <2> QED
    BY <2>1, <2>12
<1>12. 0..n \subseteq T
  <2> HIDE DEF T
  <2> QED
    BY <1>10, <1>11, Downwards
<1>13. V[n][0] = V[0][0] + va[0] * u[0]
  <2>1. 0 \in T
    BY <1>12
  <2> QED
    BY <2>1
<1>14. V[0][0] = 0
  <2>1. Zeros(N) = [i \in 1..N |-> 0]
    BY DEF Zeros
  <2>2. \A i \in 1..N : i > 0 => Limb(D[0], i) = 0
    BY <1>1, <1>2, <2>1, SMTT(60)
  <2>3. PICK k \in 0..N : k = 0
    OBVIOUS
  <2>4. D[0] \in Seq(Limbs) /\ Values(D[0], N, V[0])
    <3>1. 0 \in 0..n
      OBVIOUS
    <3> QED
      BY <1>2, <1>4, <3>1
  <2>5. V[0][k] = 0
    BY <2>2, <2>3, <2>4, ZerosAbove
  <2> QED
    BY <2>3, <2>5
<1>15. V[n][0] = Magnitude(D[n])
  <2>1. n \in 0..n
    OBVIOUS
  <2>2. D[n] \in Seq(Limbs) /\ Len(D[n]) <= N /\ Values(D[n], N, V[n])
    BY <1>2, <1>4, <2>1
  <2>3. PICK w : Values(D[n], N, w) /\ w[0] = Magnitude(D[n])
    BY <2>2, MagnitudeValues
  <2>4. PICK k \in 0..N : k = 0
    OBVIOUS
  <2>5. V[n][k] = w[k]
    <3>1. PICK d, v : d = D[n] /\ v = V[n]
      OBVIOUS
    <3>2. Values(d, N, v) /\ Values(d, N, w)
      BY <2>2, <2>3, <3>1
    <3>3. v[k] = w[k]
      BY <3>2, SameAbove
    <3> QED
      BY <3>1, <3>3
  <2> QED
    BY <2>3, <2>4, <2>5
<1>16. va[0] * u[0] \in Nat
  BY <1>9
<1> QED
  BY <1>13, <1>14, <1>15, <1>16 DEF RowsProduct

RowsOf(a, b, n, N, m, D) ==
  Rows(a.data, b.data, n, N, m, D) /\ MulAbs(a, b) = Normalize(Big(1, D[n]))

LEMMA MulAbsIs ==
  ASSUME NEW n \in Nat, NEW m \in Nat, NEW N \in Nat, N = n + m,
         NEW a \in Bigs, Len(a.data) = n, NEW b \in Bigs, Len(b.data) = m,
         ~IsZero(a), ~IsZero(b)
  PROVE  \E D : RowsOf(a, b, n, N, m, D)
<1> DEFINE F(f) == [i \in 0..Len(a.data) |->
                      IF i = 0 THEN Zeros(Len(a.data) + Len(b.data))
                      ELSE IF a.data[i] = 0 THEN f[i - 1]
                      ELSE MulRow(a.data[i], b.data, f[i - 1], i)]
           rows == CHOOSE f : f = F(f)
<1>1. MulAbs(a, b) = Normalize(Big(1, rows[n]))
  BY DEF MulAbs
<1>2. a.data \in Seq(Limbs) /\ b.data \in Seq(Limbs)
  BY BigFacts
<1>3. PICK D : Rows(a.data, b.data, n, N, m, D) /\ D \in [0..n -> Vectors(N)]
  BY <1>2, RowsExist
<1>4. \A f : F(f) = [i \in 0..n |-> IF i = 0 THEN Zeros(N) ELSE NextRow(a.data, b.data, f[i - 1], i)]
  BY DEF NextRow
<1> HIDE DEF F
<1>5. D = F(D)
  <2>1. D = [i \in 0..n |-> D[i]]
    BY <1>3
  <2>2. \A i \in 0..n : D[i] = IF i = 0 THEN Zeros(N) ELSE NextRow(a.data, b.data, D[i - 1], i)
    BY <1>3 DEF Rows
  <2> QED
    BY <1>4, <2>1, <2>2
<1>6. rows = F(rows)
  BY <1>5
<1> HIDE DEF rows
<1>7. rows[0] = Zeros(N) /\ \A i \in 1..n : rows[i] = NextRow(a.data, b.data, rows[i - 1], i)
  <2>1. \A i \in 0..n : rows[i] = IF i = 0 THEN Zeros(N) ELSE NextRow(a.data, b.data, rows[i - 1], i)
    BY <1>4, <1>6
  <2> QED
    BY <2>1
<1>8. Rows(a.data, b.data, n, N, m, rows)
  BY <1>2, <1>7, RowsStayOpen
<1>9. RowsOf(a, b, n, N, m, rows)
  BY <1>1, <1>8 DEF RowsOf
<1> QED
  BY <1>9

(* mulabs gives the product of the magnitudes.                             *)
LEMMA MulAbsExact ==
  ASSUME NEW a \in Bigs, NEW b \in Bigs
  PROVE  /\ Proper(MulAbs(a, b))
         /\ Magnitude(MulAbs(a, b).data) = Magnitude(a.data) * Magnitude(b.data)
<1>1. CASE IsZero(a) \/ IsZero(b)
  <2>1. MulAbs(a, b) = BigZero
    BY <1>1 DEF MulAbs
  <2>2. Magnitude(a.data) \in Nat /\ Magnitude(b.data) \in Nat
    BY ValueBySign
  <2>3. Magnitude(a.data) = 0 \/ Magnitude(b.data) = 0
    BY <1>1, IsZeroMeans
  <2> QED
    BY <2>1, <2>2, <2>3, BigZeroFacts
<1>2. CASE ~IsZero(a) /\ ~IsZero(b)
  <2>1. PICK n \in Nat, m \in Nat, N \in Nat : n = Len(a.data) /\ m = Len(b.data) /\ N = n + m
    <3>1. Len(a.data) \in Nat /\ Len(b.data) \in Nat
      BY BigFacts
    <3> QED
      BY <3>1
  <2>2. PICK D : /\ Rows(a.data, b.data, n, N, m, D)
                 /\ MulAbs(a, b) = Normalize(Big(1, D[n]))
    <3>1. \E D : RowsOf(a, b, n, N, m, D)
      BY <1>2, <2>1, MulAbsIs
    <3> QED
      BY <3>1 DEF RowsOf
  <2>3. a.data \in Seq(Limbs) /\ b.data \in Seq(Limbs)
    BY BigFacts
  <2>4. PICK va : Values(a.data, n, va) /\ va[0] = Magnitude(a.data)
    BY <2>1, <2>3, MagnitudeOwn
  <2>5. PICK u : Values(b.data, m, u) /\ u[0] = Magnitude(b.data)
    BY <2>1, <2>3, MagnitudeOwn
  <2>6. Magnitude(D[n]) = va[0] * u[0]
    <3>1. PICK d, e : d = a.data /\ e = b.data
      OBVIOUS
    <3>2. d \in Seq(Limbs) /\ Len(d) = n /\ e \in Seq(Limbs) /\ Len(e) = m
      BY <2>1, <2>3, <3>1
    <3>3. RowsValued(d, e, n, N, m, D, va, u)
      BY <2>2, <2>4, <2>5, <3>1 DEF RowsValued
    <3>4. RowsProduct(D, n, va, u)
      BY <2>1, <3>2, <3>3, RowsValue
    <3> QED
      BY <3>4 DEF RowsProduct
  <2>7. D[n] \in Seq(Limbs)
    <3>1. Open(D[n], N, n, m)
      BY <2>2 DEF Rows
    <3> QED
      BY <3>1, VectorIsSequence DEF Open
  <2>8. Big(1, D[n]) \in Bigs /\ Big(1, D[n]).data = D[n]
    BY <2>7 DEF Big, Bigs
  <2>9. Proper(Normalize(Big(1, D[n]))) /\ Magnitude(Normalize(Big(1, D[n])).data) = Magnitude(D[n])
    BY <2>8, NormalizeKeeps
  <2> QED
    BY <2>2, <2>4, <2>5, <2>6, <2>9
<1> QED
  BY <1>1, <1>2

(* The product of signed numbers.                                          *)
LEMMA BigMulExact ==
  ASSUME NEW a \in Bigs, NEW b \in Bigs
  PROVE  BigMul(a, b) \in Bigs /\ BigVal(BigMul(a, b)) = BigVal(a) * BigVal(b)
<1>1. Magnitude(a.data) \in Nat /\ Magnitude(b.data) \in Nat /\ BigVal(a) \in Int /\ BigVal(b) \in Int
  BY ValueBySign
<1>2. CASE IsZero(a) \/ IsZero(b)
  <2>1. BigMul(a, b) = BigZero /\ BigZero \in Bigs
    BY <1>2, BigZeroFacts DEF BigMul, Proper
  <2>2. BigVal(a) = 0 \/ BigVal(b) = 0
    BY <1>2, IsZeroMeans
  <2> QED
    BY <1>1, <2>1, <2>2, BigZeroFacts
<1>3. CASE ~IsZero(a) /\ ~IsZero(b)
  <2>1. PICK s \in {1, -1} : s = IF a.sign = b.sign THEN 1 ELSE -1
    OBVIOUS
  <2>2. BigMul(a, b) = Signed(s, MulAbs(a, b))
    BY <1>3, <2>1 DEF BigMul
  <2>3. MulAbs(a, b) \in Bigs
    BY MulAbsExact DEF Proper
  <2>4. Signed(s, MulAbs(a, b)) \in Bigs
        /\ BigVal(Signed(s, MulAbs(a, b))) = s * Magnitude(MulAbs(a, b).data)
    BY <2>3, SignedFacts
  <2>5. Magnitude(MulAbs(a, b).data) = Magnitude(a.data) * Magnitude(b.data)
    BY MulAbsExact
  <2>6. s * (Magnitude(a.data) * Magnitude(b.data)) = BigVal(a) * BigVal(b)
    <3>1. PICK p \in Nat, q \in Nat, z \in Nat :
            p = Magnitude(a.data) /\ q = Magnitude(b.data) /\ z = p * q
      BY <1>1
    <3>2. /\ (a.sign = 1 /\ BigVal(a) = p) \/ (a.sign = -1 /\ BigVal(a) = -p)
          /\ (b.sign = 1 /\ BigVal(b) = q) \/ (b.sign = -1 /\ BigVal(b) = -q)
      BY <3>1, ValueBySign
    <3>3. p * q = z /\ (-p) * q = -z /\ p * (-q) = -z /\ (-p) * (-q) = z
      BY <3>1
    <3> QED
      BY <2>1, <3>1, <3>2, <3>3
  <2> QED
    BY <2>2, <2>4, <2>5, <2>6
<1> QED
  BY <1>2, <1>3

-----------------------------------------------------------------------------
(* Digits d, highest first, spell a number when Horner's scheme gives it.  *)
Digits == 0..(Radix - 1)
Spells(d, n) ==
  /\ d \in Seq(Digits) /\ d # <<>>
  /\ \E h \in [0..Len(d) -> Nat] :
       /\ h[0] = 0 /\ h[Len(d)] = n
       /\ \A i \in 1..Len(d) : h[i] = Radix * h[i - 1] + d[i]

LEMMA RadixFacts ==
  /\ Radix \in Nat /\ Radix >= 2 /\ Digits \subseteq Nat /\ Radix \in Limbs /\ Digits \subseteq Limbs
<1>1. /\ Radix \in Nat /\ Radix >= 2 /\ Chunk \in Nat /\ Radix <= Chunk /\ Chunk <= Half
      /\ Half \in Nat /\ Half < Base /\ Base \in Nat /\ Limbs = 0..(Base - 1)
  BY BaseFacts, BignumAssumption
<1> QED
  BY <1>1 DEF Digits

LEMMA OneDigit ==
  ASSUME NEW d \in Digits
  PROVE  Spells(<<d>>, d)
<1>1. d \in Nat /\ Radix \in Nat
  BY RadixFacts
<1>2. PICK h : h = [i \in 0..1 |-> IF i = 0 THEN 0 ELSE d]
  OBVIOUS
<1>3. h \in [0..1 -> Nat] /\ h[0] = 0 /\ h[1] = d
  BY <1>1, <1>2
<1>4. PICK s : s = <<d>>
  OBVIOUS
<1>5. s \in Seq(Digits) /\ s # <<>> /\ Len(s) = 1 /\ s[1] = d
  BY <1>4
<1>6. \A i \in 1..1 : h[i] = Radix * h[i - 1] + s[i]
  <2>1. Radix * 0 + d = d
    BY <1>1
  <2> QED
    BY <1>3, <1>5, <2>1
<1> QED
  BY <1>3, <1>4, <1>5, <1>6 DEF Spells

LEMMA AppendSpells ==
  ASSUME NEW s, NEW m \in Nat, Spells(s, m), NEW d \in Digits
  PROVE  Spells(Append(s, d), Radix * m + d)
<1>1. d \in Nat /\ Radix \in Nat
  BY RadixFacts
<1>2. s \in Seq(Digits)
  BY DEF Spells
<1>0. PICK n \in Nat : n = Len(s)
  BY <1>2
<1>3. PICK t : n = Len(s) /\ t = Append(s, d)
  BY <1>0
<1>4. t \in Seq(Digits) /\ t # <<>> /\ Len(t) = n + 1 /\ t[n + 1] = d /\ \A i \in 1..n : t[i] = s[i]
  BY <1>2, <1>3
<1>5. PICK h \in [0..n -> Nat] : /\ h[0] = 0 /\ h[n] = m
                                 /\ \A i \in 1..n : h[i] = Radix * h[i - 1] + s[i]
  BY <1>3 DEF Spells
<1>6. PICK q \in Nat : q = Radix * m + d
  BY <1>1
<1>7. PICK k : k = [i \in 0..(n + 1) |-> IF i <= n THEN h[i] ELSE q]
  OBVIOUS
<1>8. k \in [0..(n + 1) -> Nat] /\ k[0] = 0 /\ k[n + 1] = q
  BY <1>5, <1>7
<1>9. ASSUME NEW i \in 1..(n + 1)
      PROVE  k[i] = Radix * k[i - 1] + t[i]
  <2>1. CASE i <= n
    <3>1. i \in 1..n /\ i \in 0..(n + 1) /\ i - 1 \in 0..(n + 1) /\ i - 1 <= n
      BY <2>1
    <3> QED
      BY <1>4, <1>5, <1>7, <2>1, <3>1
  <2>2. CASE i = n + 1
    <3>1. i - 1 = n /\ n \in 0..(n + 1)
      BY <2>2
    <3>2. k[i - 1] = m
      BY <1>5, <1>7, <3>1
    <3> QED
      BY <1>4, <1>6, <1>8, <2>2, <3>2
  <2> QED
    BY <2>1, <2>2
<1> QED
  BY <1>3, <1>4, <1>6, <1>8, <1>9 DEF Spells

-----------------------------------------------------------------------------
(* A chunk of digits is divided off.                                       *)

(* div128by64: two half limbs at a time.                                   *)
Rems == 0..(Chunk - 1)
Div128Is(hi, lo, d) == d[1] \in Limbs /\ d[2] \in Rems /\ hi * Base + lo = Chunk * d[1] + d[2]

LEMMA ChunkFacts ==
  /\ Chunk \in Nat /\ Chunk >= 2 /\ Chunk <= Half /\ Rems \subseteq Nat /\ 0 \in Rems
  /\ Half \in Nat /\ Half >= 2 /\ Base = Half * Half /\ Base \in Nat /\ Limbs = 0..(Base - 1)
<1>1. Radix \in Nat /\ Radix >= 2
  BY RadixFacts
<1>2. Chunk \in Nat /\ Chunk >= 2 /\ Chunk <= Half
  BY <1>1, BignumAssumption
<1> QED
  BY <1>2, BaseFacts DEF Rems

(* The quotient and the rest, with a bound of the quotient.                *)
LEMMA RestAndQuotient ==
  ASSUME NEW c \in Nat, c >= 1, NEW h \in Nat, NEW p \in Nat, p < c * h
  PROVE  \E q \in Nat, r \in Nat :
           q = p \div c /\ r = p % c /\ p = c * q + r /\ r < c /\ q < h
<1>1. PICK q \in Nat, r \in Nat : q = p \div c /\ r = p % c /\ p = c * q + r /\ r < c
  OBVIOUS
<1>2. q < h
  <2>1. SUFFICES ASSUME q >= h PROVE FALSE
    OBVIOUS
  <2>2. c * q >= c * h
    BY <2>1
  <2> QED
    BY <1>1, <2>2
<1> QED
  BY <1>1, <1>2

LEMMA HalvesOfLimb ==
  ASSUME NEW c \in Nat, c >= 1, NEW h \in Nat, c <= h, NEW r \in Nat, r < c, NEW a \in Nat, a < h
  PROVE  r * h \in Nat /\ r * h < h * h /\ r * h + a < c * h /\ r * h + a < h * h
<1>1. PICK z \in Nat : z = r * h
  OBVIOUS
<1>2. PICK w \in Nat : w = c * h
  OBVIOUS
<1>3. PICK x1 \in Nat : x1 = h * h
  OBVIOUS
<1>4. w <= x1
  BY <1>2, <1>3
<1>5. (r + 1) * h <= c * h
  OBVIOUS
<1>6. (r + 1) * h = z + h
  BY <1>1
<1> QED
  BY <1>1, <1>2, <1>3, <1>4, <1>5, <1>6

LEMMA Div128Exact ==
  ASSUME NEW hi \in Rems, NEW lo \in Limbs
  PROVE  Div128Is(hi, lo, Div128By64(hi, lo, Chunk))
<1>1. PICK c \in Nat, h \in Nat, B \in Nat : /\ c = Chunk /\ h = Half /\ B = Base /\ B = h * h
                                              /\ c >= 2 /\ c <= h /\ h >= 2
  BY ChunkFacts
<1>2. hi \in Nat /\ hi < c /\ lo \in Nat /\ lo < h * h /\ Limbs = 0..(B - 1) /\ Rems = 0..(c - 1)
  BY <1>1, ChunkFacts DEF Rems
<1>3. PICK a \in Nat, b \in Nat : a = lo \div h /\ b = lo % h /\ lo = h * a + b /\ b < h /\ a < h
  <2>1. h >= 1 /\ lo < h * h
    BY <1>1, <1>2
  <2> QED
    BY <1>2, <2>1, RestAndQuotient
<1>4. PICK p \in Nat : p = hi * h
  BY <1>2
<1>5. p < B /\ p + a < c * h
  <2>1. hi * h < h * h /\ hi * h + a < c * h
    <3>1. c >= 1 /\ c <= h /\ hi \in Nat /\ hi < c /\ a < h
      BY <1>1, <1>2, <1>3
    <3> QED
      BY <3>1, HalvesOfLimb
  <2> QED
    BY <1>1, <1>4, <2>1
<1>6. p % B = p
  BY <1>5
<1>7. PICK q1 \in Nat, r1 \in Nat : /\ q1 = (p + a) \div c /\ r1 = (p + a) % c
                                    /\ p + a = c * q1 + r1 /\ r1 < c /\ q1 < h
  BY <1>1, <1>5, RestAndQuotient
<1>8. PICK s \in Nat : s = r1 * h
  OBVIOUS
<1>9. s < B /\ s + b < c * h
  <2>1. c >= 1
    BY <1>1
  <2>2. r1 * h < h * h /\ r1 * h + b < c * h
    BY <1>1, <1>3, <1>7, <2>1, HalvesOfLimb
  <2> QED
    BY <1>1, <1>8, <2>2
<1>10. s % B = s
  BY <1>9
<1>11. PICK q0 \in Nat, r0 \in Nat : /\ q0 = (s + b) \div c /\ r0 = (s + b) % c
                                     /\ s + b = c * q0 + r0 /\ r0 < c /\ q0 < h
  BY <1>1, <1>9, RestAndQuotient
<1>12. PICK t \in Nat : t = q1 * h
  OBVIOUS
<1>13. t < B /\ t + q0 < B
  BY <1>1, <1>7, <1>11, <1>12, HalvesOfLimb
<1>14. t % B = t
  BY <1>13
<1>15. Div128By64(hi, lo, Chunk) = <<t + q0, r0>>
  BY <1>1, <1>3, <1>4, <1>6, <1>7, <1>8, <1>10, <1>11, <1>12, <1>14 DEF Div128By64
<1>16. hi * B + lo = c * (t + q0) + r0
  <2>0. hi * (h * h) = h * (hi * h)
    BY <1>2
  <2>1. hi * B = h * p
    BY <1>1, <1>4, <2>0
  <2>2. c * t = h * (c * q1)
    BY <1>12
  <2>3. h * (p + a) = h * (c * q1) + h * r1
    BY <1>7
  <2>4. h * (p + a) = h * p + h * a
    OBVIOUS
  <2>5. s = h * r1
    BY <1>8
  <2>6. c * (t + q0) = c * t + c * q0
    OBVIOUS
  <2>7. PICK z1 \in Nat, z2 \in Nat, z3 \in Nat, z4 \in Nat : 
           z1 = h * p /\ z2 = h * (c * q1) /\ z3 = h * a /\ z4 = c * q0
    OBVIOUS
  <2> QED
    <3>1. lo = z3 + b /\ s + b = z4 + r0 /\ z2 + s = z1 + z3 /\ c * t = z2
      BY <1>3, <1>11, <2>2, <2>3, <2>4, <2>5, <2>7
    <3>2. c * (t + q0) = z2 + z4 /\ hi * B = z1
      BY <2>1, <2>6, <2>7, <3>1
    <3>3. z1 + lo = z2 + z4 + r0
      BY <3>1
    <3> QED
      BY <3>2, <3>3
<1> QED
  <2>1. t + q0 \in Limbs /\ r0 \in Rems
    BY <1>2, <1>11, <1>13
  <2>2. <<t + q0, r0>>[1] = t + q0 /\ <<t + q0, r0>>[2] = r0
    OBVIOUS
  <2> QED
    BY <1>1, <1>15, <1>16, <2>1, <2>2 DEF Div128Is

(* divmod by a chunk, from the highest limb down.                          *)
ChunkStates(n) == {s \in Seq(Limbs) : Len(s) = n} \X Rems
ChunkStep(s, d, k) ==
  <<[s[1] EXCEPT ![k] = Div128By64(s[2], d[k], Chunk)[1]], Div128By64(s[2], d[k], Chunk)[2]>>
Chunks(f, d) ==
  f = [i \in 0..Len(d) |-> IF i = 0 THEN <<d, 0>> ELSE ChunkStep(f[i - 1], d, Len(d) - i + 1)]

LEMMA ChunkStepStays ==
  ASSUME NEW n \in Nat, NEW d \in Seq(Limbs), Len(d) = n, NEW k \in 1..n, NEW s \in ChunkStates(n)
  PROVE  /\ ChunkStep(s, d, k) \in ChunkStates(n)
         /\ Div128Is(s[2], d[k], <<ChunkStep(s, d, k)[1][k], ChunkStep(s, d, k)[2]>>)
         /\ \A i \in 1..n : i # k => ChunkStep(s, d, k)[1][i] = s[1][i]
<1>1. PICK a, r : s = <<a, r>> /\ a = s[1] /\ r = s[2] /\ a \in Seq(Limbs) /\ Len(a) = n /\ r \in Rems
  BY DEF ChunkStates
<1>2. d[k] \in Limbs
  OBVIOUS
<1>3. PICK z : z = Div128By64(r, d[k], Chunk) /\ Div128Is(r, d[k], z)
  BY <1>1, <1>2, Div128Exact
<1>4. PICK q \in Limbs, m \in Rems : q = z[1] /\ m = z[2] /\ r * Base + d[k] = Chunk * q + m
  BY <1>3 DEF Div128Is
<1>5. PICK b : b = [a EXCEPT ![k] = q]
  OBVIOUS
<1>6. b \in Seq(Limbs) /\ Len(b) = n /\ b[k] = q /\ \A i \in 1..n : i # k => b[i] = a[i]
  BY <1>1, <1>5
<1>7. ChunkStep(s, d, k) = <<b, m>>
  BY <1>1, <1>3, <1>4, <1>5 DEF ChunkStep
<1>8. <<b, m>>[1] = b /\ <<b, m>>[2] = m /\ <<q, m>>[1] = q /\ <<q, m>>[2] = m
  OBVIOUS
<1>9. <<b, m>> \in ChunkStates(n)
  BY <1>6 DEF ChunkStates
<1>10. Div128Is(r, d[k], <<q, m>>)
  BY <1>4, <1>8 DEF Div128Is
<1> QED
  BY <1>1, <1>6, <1>7, <1>8, <1>9, <1>10

LEMMA ChunkElsewhere ==
  ASSUME NEW d \in Seq(Limbs), NEW k \in 1..Len(d), NEW s \in ChunkStates(Len(d)),
         NEW i \in 1..Len(d), i # k
  PROVE  ChunkStep(s, d, k)[1][i] = s[1][i]
<1>1. PICK n \in Nat : n = Len(d)
  OBVIOUS
<1>2. k \in 1..n /\ i \in 1..n /\ s \in ChunkStates(n)
  BY <1>1
<1> QED
  BY <1>1, <1>2, ChunkStepStays

LEMMA ChunksExist ==
  ASSUME NEW d \in Seq(Limbs)
  PROVE  \E f : Chunks(f, d)
<1>1. PICK n \in Nat : n = Len(d)
  OBVIOUS
<1> DEFINE S == ChunkStates(n)
           F == [p \in S \X (1..n) |-> ChunkStep(p[1], d, n - p[2] + 1)]
<1>2. <<d, 0>> \in S
  BY <1>1, ChunkFacts DEF ChunkStates
<1>3. StepOn(F, S, n)
  <2> HIDE DEF S
  <2>1. ASSUME NEW p \in S \X (1..n)
        PROVE  ChunkStep(p[1], d, n - p[2] + 1) \in S
    <3>1. p[1] \in S /\ p[2] \in 1..n /\ n - p[2] + 1 \in 1..n
      OBVIOUS
    <3> QED
      BY <1>1, <3>1, ChunkStepStays DEF S
  <2> QED
    BY <2>1 DEF StepOn
<1> HIDE DEF S
<1>4. \A p \in S, i \in 1..n : F[<<p, i>>] = ChunkStep(p, d, n - i + 1)
  OBVIOUS
<1> HIDE DEF F
<1>5. PICK g : Solution(g, <<d, 0>>, F, S, n)
  BY <1>2, <1>3, Recursion
<1>6. g \in [0..n -> S] /\ g[0] = <<d, 0>> /\ \A i \in 1..n : g[i] = F[<<g[i - 1], i>>]
  BY <1>5 DEF Solution
<1>7. ASSUME NEW i \in 0..n
      PROVE  g[i] = IF i = 0 THEN <<d, 0>> ELSE ChunkStep(g[i - 1], d, n - i + 1)
  <2>1. CASE i = 0
    BY <1>6, <2>1
  <2>2. CASE i # 0
    <3>1. i \in 1..n /\ i - 1 \in 0..n
      BY <2>2
    <3>2. g[i - 1] \in S
      BY <1>6, <3>1
    <3> QED
      BY <1>4, <1>6, <2>2, <3>1, <3>2
  <2> QED
    BY <2>1, <2>2
<1>8. g = [i \in 0..n |-> IF i = 0 THEN <<d, 0>> ELSE ChunkStep(g[i - 1], d, n - i + 1)]
  BY <1>6, <1>7
<1> QED
  BY <1>1, <1>8 DEF Chunks

LEMMA ChunkDivided ==
  ASSUME NEW a, NEW f, f = CHOOSE g : Chunks(g, a.data)
  PROVE  DivChunk(a) = [quot |-> Normalize(Big(a.sign, f[Len(a.data)][1])), rem |-> f[Len(a.data)][2]]
BY DEF Chunks, ChunkStep, DivChunk

(* The steps divide the magnitude.                                         *)
LEMMA ChunkQuotient ==
  ASSUME NEW d \in Seq(Limbs), NEW f, Chunks(f, d)
  PROVE  /\ f[Len(d)] \in ChunkStates(Len(d))
         /\ Magnitude(d) = Chunk * Magnitude(f[Len(d)][1]) + f[Len(d)][2]
<1>1. PICK n \in Nat : n = Len(d)
  OBVIOUS
<1>2. n \in 0..n /\ 0 \in 0..n
  OBVIOUS
<1>3. f[0] = <<d, 0>>
  BY <1>1, <1>2 DEF Chunks
<1>4. ASSUME NEW i \in 1..n
      PROVE  i - 1 \in 0..n /\ n - i + 1 \in 1..n /\ f[i] = ChunkStep(f[i - 1], d, n - i + 1)
  <2>1. i \in 0..n /\ i # 0 /\ i - 1 \in 0..n /\ n - i + 1 \in 1..n
    OBVIOUS
  <2>2. f[i] = ChunkStep(f[i - 1], d, n - i + 1)
    BY <1>1, <2>1 DEF Chunks
  <2> QED
    BY <2>1, <2>2
<1>5. \A i \in 0..n : f[i] \in ChunkStates(n)
  <2> DEFINE T == {i \in 0..n : f[i] \in ChunkStates(n)}
  <2>1. 0 \in T
    <3>1. <<d, 0>> \in ChunkStates(n)
      BY <1>1, ChunkFacts DEF ChunkStates
    <3> QED
      BY <1>2, <1>3, <3>1
  <2>2. ASSUME NEW i \in 1..n, i - 1 \in T
        PROVE  i \in T
    <3>1. i - 1 \in 0..n /\ n - i + 1 \in 1..n /\ f[i] = ChunkStep(f[i - 1], d, n - i + 1)
      BY <1>4
    <3>2. f[i - 1] \in ChunkStates(n)
      BY <2>2
    <3>3. ChunkStep(f[i - 1], d, n - i + 1) \in ChunkStates(n)
      BY <1>1, <3>1, <3>2, ChunkStepStays
    <3>4. i \in 0..n
      OBVIOUS
    <3> QED
      BY <3>1, <3>3, <3>4
  <2>3. 0..n \subseteq T
    <3> HIDE DEF T
    <3> QED
      BY <2>1, <2>2, Upwards
  <2> QED
    BY <2>3
<1>6. PICK q \in Seq(Limbs), r \in Rems : f[n] = <<q, r>> /\ q = f[n][1] /\ r = f[n][2] /\ Len(q) = n
  BY <1>2, <1>5 DEF ChunkStates
<1>7. ASSUME NEW i \in 1..n
      PROVE  Div128Is(f[n - i][2], d[i], <<q[i], f[n - i + 1][2]>>)
  <2>1. n - i + 1 \in 1..n /\ n - (n - i + 1) + 1 = i /\ (n - i + 1) - 1 = n - i /\ n - i \in 0..n
    OBVIOUS
  <2>2. f[n - i + 1] = ChunkStep(f[n - i], d, i) /\ f[n - i] \in ChunkStates(n)
    BY <1>4, <1>5, <2>1
  <2>3. Div128Is(f[n - i][2], d[i], <<f[n - i + 1][1][i], f[n - i + 1][2]>>)
    BY <1>1, <2>2, ChunkStepStays
  <2> DEFINE T == {j \in 0..n : j >= n - i + 1 => f[j][1][i] = f[n - i + 1][1][i]}
  <2>4. 0 \in T
    OBVIOUS
  <2>5. ASSUME NEW j \in 1..n, j - 1 \in T
        PROVE  j \in T
    <3>1. CASE j <= n - i + 1
      BY <3>1
    <3>2. CASE j > n - i + 1
      <4>1. j - 1 >= n - i + 1 /\ n - j + 1 \in 1..n /\ i # n - j + 1
        BY <3>2
      <4>2. f[j - 1][1][i] = f[n - i + 1][1][i]
        BY <2>5, <4>1
      <4>3. f[j] = ChunkStep(f[j - 1], d, n - j + 1) /\ f[j - 1] \in ChunkStates(n)
        BY <1>4, <1>5
      <4>4. f[j][1][i] = f[j - 1][1][i]
        <5>1. PICK s : s = f[j - 1] /\ s \in ChunkStates(Len(d))
          BY <1>1, <4>3
        <5>2. PICK at \in 1..Len(d) : at = n - j + 1 /\ i # at /\ i \in 1..Len(d)
          BY <1>1, <4>1
        <5>3. ChunkStep(s, d, at)[1][i] = s[1][i]
          BY <5>1, <5>2, ChunkElsewhere
        <5> QED
          BY <4>3, <5>1, <5>2, <5>3
      <4> QED
        BY <4>2, <4>4
    <3> QED
      BY <3>1, <3>2
  <2>6. 0..n \subseteq T
    <3> HIDE DEF T
    <3> QED
      BY <2>4, <2>5, Upwards
  <2>7. q[i] = f[n - i + 1][1][i]
    <3>1. n \in T /\ n >= n - i + 1
      BY <1>2, <2>6
    <3> QED
      BY <1>6, <3>1
  <2> QED
    BY <2>3, <2>7
<1>8. PICK v : Values(d, n, v) /\ v[0] = Magnitude(d)
  BY <1>1, MagnitudeOwn
<1>9. PICK w : Values(q, n, w) /\ w[0] = Magnitude(q)
  BY <1>6, MagnitudeOwn
<1>10. /\ v \in [0..n -> Nat] /\ v[n] = 0 /\ w \in [0..n -> Nat] /\ w[n] = 0
       /\ \A i \in 1..n : v[i - 1] = d[i] + Base * v[i] /\ w[i - 1] = q[i] + Base * w[i]
  BY <1>1, <1>6, <1>8, <1>9, LimbIsLimb DEF Values
<1> DEFINE T == {i \in 0..n : v[i] = Chunk * w[i] + f[n - i][2]}
<1>11. n \in T
  <2>1. f[n - n][2] = 0 /\ Chunk * 0 + 0 = 0
    BY <1>3, ChunkFacts
  <2> QED
    BY <1>2, <1>10, <2>1
<1>12. ASSUME NEW i \in 1..n, i \in T
       PROVE  i - 1 \in T
  <2>1. i - 1 \in 0..n /\ i \in 0..n /\ n - (i - 1) = n - i + 1 /\ n - i + 1 \in 0..n /\ n - i \in 0..n
    OBVIOUS
  <2>2. PICK c \in Nat, B \in Nat : c = Chunk /\ B = Base
    BY ChunkFacts
  <2>3. PICK l \in Nat, g \in Nat, r0 \in Nat, r1 \in Nat :
          /\ l = d[i] /\ g = q[i] /\ r0 = f[n - i][2] /\ r1 = f[n - i + 1][2]
          /\ r0 * B + l = c * g + r1
    <3>1. f[n - i] \in ChunkStates(n) /\ f[n - i + 1] \in ChunkStates(n) /\ d[i] \in Limbs /\ q[i] \in Limbs
      BY <1>1, <1>5, <1>6, <2>1
    <3>0. \A s \in ChunkStates(n) : s[2] \in Nat
      BY ChunkFacts DEF ChunkStates
    <3>2. f[n - i][2] \in Nat /\ f[n - i + 1][2] \in Nat /\ d[i] \in Nat /\ q[i] \in Nat
      <4>1. f[n - i][2] \in Nat /\ f[n - i + 1][2] \in Nat
        BY <3>0, <3>1, Zenon
      <4>2. Limbs \subseteq Nat
        BY ChunkFacts
      <4>3. d[i] \in Nat /\ q[i] \in Nat
        BY <3>1, <4>2
      <4> QED
        BY <4>1, <4>3
    <3>3. f[n - i][2] * Base + d[i] = Chunk * q[i] + f[n - i + 1][2]
      BY <1>7 DEF Div128Is
    <3> QED
      BY <2>2, <3>2, <3>3, ZenonT(60)
  <2>4. PICK V \in Nat, W \in Nat : V = v[i] /\ W = w[i] /\ V = c * W + r0
    BY <1>10, <1>12, <2>1, <2>2, <2>3
  <2>5. v[i - 1] = l + B * V /\ w[i - 1] = g + B * W
    BY <1>10, <2>2, <2>3, <2>4
  <2>6. l + B * V = c * (g + B * W) + r1
    <3>1. B * (c * W + r0) = c * (B * W) + r0 * B
      OBVIOUS
    <3>2. c * (g + B * W) = c * g + c * (B * W)
      OBVIOUS
    <3>3. PICK z1 \in Nat, z2 \in Nat, z3 \in Nat : z1 = c * (B * W) /\ z2 = r0 * B /\ z3 = c * g
      OBVIOUS
    <3>4. B * V = z1 + z2 /\ z2 + l = z3 + r1 /\ c * (g + B * W) = z3 + z1
      BY <2>3, <2>4, <3>1, <3>2, <3>3
    <3> QED
      BY <3>3, <3>4
  <2> QED
    BY <2>1, <2>2, <2>3, <2>5, <2>6
<1>13. 0 \in T
  <2>1. 0..n \subseteq T
    <3> HIDE DEF T
    <3> QED
      BY <1>11, <1>12, Downwards
  <2> QED
    BY <1>2, <2>1
<1>14. v[0] = Chunk * w[0] + f[n][2]
  <2>1. n - 0 = n
    OBVIOUS
  <2> QED
    BY <1>13, <2>1
<1> QED
  BY <1>1, <1>2, <1>5, <1>6, <1>8, <1>9, <1>14

LEMMA DivChunkIs ==
  ASSUME NEW a \in Bigs, NEW e, e = DivChunk(a)
  PROVE  /\ Proper(e.quot) /\ e.rem \in Rems
         /\ Magnitude(a.data) = Chunk * Magnitude(e.quot.data) + e.rem
<1>1. a.data \in Seq(Limbs) /\ a.sign \in {1, -1}
  BY BigFacts
<1>2. PICK f : f = CHOOSE g : Chunks(g, a.data)
  OBVIOUS
<1>3. Chunks(f, a.data)
  BY <1>1, <1>2, ChunksExist
<1>4. PICK s : s = f[Len(a.data)]
  OBVIOUS
<1>5. s \in ChunkStates(Len(a.data)) /\ Magnitude(a.data) = Chunk * Magnitude(s[1]) + s[2]
  BY <1>1, <1>3, <1>4, ChunkQuotient
<1>6. s[1] \in Seq(Limbs) /\ s[2] \in Rems
  BY <1>5 DEF ChunkStates
<1>7. PICK b : b = Big(a.sign, s[1]) /\ b \in Bigs /\ b.data = s[1]
  BY <1>1, <1>6, BigFacts
<1>8. Proper(Normalize(b)) /\ Magnitude(Normalize(b).data) = Magnitude(s[1])
  BY <1>7, NormalizeKeeps
<1>9. e.quot = Normalize(b) /\ e.rem = s[2]
  <2>1. DivChunk(a) = [quot |-> Normalize(Big(a.sign, f[Len(a.data)][1])), rem |-> f[Len(a.data)][2]]
    BY <1>2, ChunkDivided
  <2> QED
    BY <1>4, <1>7, <2>1
<1> QED
  BY <1>5, <1>6, <1>8, <1>9

-----------------------------------------------------------------------------
(* The digits of a chunk, lowest first: they climb from n to top.          *)
Climbs(d, n, top) ==
  /\ d \in Seq(Digits)
  /\ \E g \in [0..Len(d) -> Nat] :
       /\ g[0] = n /\ g[Len(d)] = top
       /\ \A i \in 1..Len(d) : g[i - 1] = Radix * g[i] + d[i]

LEMMA DivTwice ==
  ASSUME NEW m \in Nat, NEW p \in Nat, p >= 1, NEW r \in Nat, r >= 1
  PROVE  m \div (r * p) = (m \div p) \div r
<1>1. PICK q \in Nat, a \in Nat : q = m \div p /\ m = p * q + a /\ a < p
  OBVIOUS
<1>2. PICK s \in Nat, b \in Nat : s = q \div r /\ q = r * s + b /\ b < r
  OBVIOUS
<1>3. PICK z \in Nat : z = r * p /\ z >= 1
  <2>1. r * p >= 1
    OBVIOUS
  <2> QED
    BY <2>1
<1>4. PICK t \in Nat, c \in Nat : t = m \div z /\ m = z * t + c /\ c < z
  BY <1>3
<1>5. PICK e \in Nat : e = p * b /\ e + a < z
  <2>1. p * (b + 1) <= p * r
    BY <1>2
  <2>2. p * (b + 1) = p * b + p /\ p * r = r * p
    OBVIOUS
  <2>3. PICK e \in Nat : e = p * b
    BY <1>2
  <2> QED
    BY <1>1, <1>3, <2>1, <2>2, <2>3
<1>6. m = z * s + e + a
  <2>1. p * (r * s + b) = (r * p) * s + p * b
    OBVIOUS
  <2> QED
    BY <1>1, <1>2, <1>3, <1>5, <2>1
<1>7. t = s
  <2>1. CASE t < s
    <3>1. z * s >= z * (t + 1)
      BY <2>1
    <3>2. z * (t + 1) = z * t + z
      OBVIOUS
    <3>3. PICK y1 \in Nat, y2 \in Nat : y1 = z * s /\ y2 = z * t
      OBVIOUS
    <3> QED
      BY <1>4, <1>6, <3>1, <3>2, <3>3
  <2>2. CASE t > s
    <3>1. z * t >= z * (s + 1)
      BY <2>2
    <3>2. z * (s + 1) = z * s + z
      OBVIOUS
    <3>3. PICK y1 \in Nat, y2 \in Nat : y1 = z * s /\ y2 = z * t
      OBVIOUS
    <3> QED
      BY <1>4, <1>5, <1>6, <3>1, <3>2, <3>3
  <2> QED
    BY <2>1, <2>2
<1> QED
  BY <1>1, <1>2, <1>3, <1>4, <1>7

LEMMA RadixPowers ==
  /\ ChunkLen \in Nat /\ ChunkLen >= 1 /\ Radix ^ 0 = 1 /\ Radix ^ ChunkLen = Chunk
  /\ \A k \in 0..ChunkLen : Radix ^ k \in Nat /\ Radix ^ k >= 1
  /\ \A k \in 1..ChunkLen : Radix ^ k = Radix * Radix ^ (k - 1)
<1>1. PICK L \in Nat : L = ChunkLen /\ L >= 1
  BY BignumAssumption
<1>2. PICK r \in Nat : r = Radix /\ r >= 2
  BY RadixFacts
<1>3. r ^ 0 = 1 /\ r ^ L = Chunk
  BY <1>1, <1>2, BignumAssumption DEF Chunk
<1>4. \A k \in 0..(L - 1) : r ^ (k + 1) = r * r ^ k
  BY <1>1, <1>2, BignumAssumption
<1>5. ASSUME NEW k \in 1..L
      PROVE  r ^ k = r * r ^ (k - 1)
  <2>1. k - 1 \in 0..(L - 1) /\ (k - 1) + 1 = k
    BY <1>1
  <2> QED
    BY <1>4, <2>1
<1> DEFINE T == {k \in 0..L : r ^ k \in Nat /\ r ^ k >= 1}
<1>6. 0 \in T
  BY <1>1, <1>3
<1>7. ASSUME NEW k \in 1..L, k - 1 \in T
      PROVE  k \in T
  <2>1. PICK z \in Nat : z = r ^ (k - 1) /\ z >= 1
    BY <1>7
  <2>2. r * z \in Nat /\ r * z >= 1
    BY <1>2, <2>1
  <2> QED
    BY <1>5, <2>1, <2>2
<1>8. 0..L \subseteq T
  <2> HIDE DEF T
  <2> QED
    BY <1>6, <1>7, Upwards
<1> QED
  BY <1>1, <1>2, <1>3, <1>5, <1>8

DigitAt(n, k) == (n \div Radix ^ (k - 1)) % Radix
Needed(n) ==
  CHOOSE k \in 1..ChunkLen : n < Radix ^ k /\ \A j \in 1..(k - 1) : n >= Radix ^ j

LEMMA ChunkDigitsAre ==
  ASSUME NEW n, NEW last
  PROVE  ChunkDigits(n, last) = [k \in 1..(IF last THEN Needed(n) ELSE ChunkLen) |-> DigitAt(n, k)]
BY DEF ChunkDigits, DigitAt, Needed

LEMMA NeededIs ==
  ASSUME NEW n \in Rems
  PROVE  Needed(n) \in 1..ChunkLen /\ n < Radix ^ Needed(n)
<1>1. PICK L \in Nat : L = ChunkLen /\ L >= 1
  BY RadixPowers
<1> DEFINE P(k) == n < Radix ^ k /\ \A j \in 1..(k - 1) : n >= Radix ^ j
           T == {i \in 0..L : (\A k \in 1..L : ~P(k)) => \A j \in 1..i : n >= Radix ^ j}
<1>2. \E k \in 1..L : P(k)
  <2>1. 0 \in T
    OBVIOUS
  <2>2. ASSUME NEW i \in 1..L, i - 1 \in T
        PROVE  i \in T
    <3>1. SUFFICES ASSUME \A k \in 1..L : ~P(k), NEW j \in 1..i PROVE n >= Radix ^ j
      OBVIOUS
    <3>2. \A k \in 1..(i - 1) : n >= Radix ^ k
      BY <2>2, <3>1
    <3>3. CASE j < i
      BY <3>2, <3>3
    <3>4. CASE j = i
      <4>1. ~(n < Radix ^ i)
        BY <3>1, <3>2
      <4>2. Radix ^ i \in Nat /\ n \in Nat
        BY <1>1, RadixPowers, ChunkFacts
      <4> QED
        BY <3>4, <4>1, <4>2
    <3> QED
      BY <3>3, <3>4
  <2>3. L \in T
    <3>1. 0..L \subseteq T
      <4> HIDE DEF T
      <4> QED
        BY <2>1, <2>2, Upwards
    <3> QED
      BY <1>1, <3>1
  <2>4. n < Radix ^ L /\ n \in Nat /\ Radix ^ L \in Nat
    BY <1>1, RadixPowers, ChunkFacts DEF Rems
  <2> QED
    BY <1>1, <2>3, <2>4
<1> HIDE DEF P
<1>3. PICK k : k = CHOOSE i \in 1..L : P(i)
  OBVIOUS
<1>4. k \in 1..L /\ P(k)
  BY <1>2, <1>3
<1>5. k = Needed(n)
  BY <1>1, <1>3 DEF Needed, P
<1> QED
  BY <1>1, <1>4, <1>5 DEF P

LEMMA DigitsClimb ==
  ASSUME NEW n \in Nat, NEW k \in 1..ChunkLen, n < Radix ^ k
  PROVE  Climbs([i \in 1..k |-> DigitAt(n, i)], n, 0)
<1>1. PICK r \in Nat : r = Radix /\ r >= 2 /\ Digits = 0..(r - 1)
  BY RadixFacts DEF Digits
<1>2. PICK L \in Nat : L = ChunkLen /\ L >= 1 /\ k \in 0..L
  BY RadixPowers
<1>3. \A i \in 0..L : r ^ i \in Nat /\ r ^ i >= 1
  BY <1>1, <1>2, RadixPowers
<1>4. PICK d : d = [i \in 1..k |-> DigitAt(n, i)]
  OBVIOUS
<1>5. PICK g : g = [i \in 0..k |-> n \div r ^ i]
  OBVIOUS
<1>6. ASSUME NEW i \in 0..k
      PROVE  g[i] = n \div r ^ i /\ g[i] \in Nat
  <2>1. PICK z \in Nat : z = r ^ i /\ z >= 1
    BY <1>2, <1>3
  <2>2. n \div z \in Nat
    BY <2>1
  <2> QED
    BY <1>5, <2>1, <2>2
<1>7. ASSUME NEW i \in 1..k
      PROVE  d[i] \in Digits /\ g[i - 1] = r * g[i] + d[i]
  <2>1. i - 1 \in 0..k /\ i \in 0..k /\ i \in 1..L /\ i - 1 \in 0..L
    BY <1>2
  <2>2. PICK p \in Nat : p = r ^ (i - 1) /\ p >= 1
    BY <1>3, <2>1
  <2>3. r ^ i = r * p
    BY <1>1, <1>2, <2>1, <2>2, RadixPowers
  <2>4. PICK q \in Nat : q = n \div p
    BY <2>2
  <2>5. n \div (r * p) = q \div r
    BY <1>1, <2>2, <2>4, DivTwice
  <2>6. d[i] = q % r
    BY <1>1, <1>4, <2>2, <2>4 DEF DigitAt
  <2>7. g[i - 1] = q /\ g[i] = q \div r
    BY <1>6, <2>1, <2>2, <2>3, <2>4, <2>5
  <2>8. q % r \in 0..(r - 1) /\ q = r * (q \div r) + (q % r)
    BY <1>1
  <2> QED
    BY <1>1, <2>6, <2>7, <2>8
<1>8. g[0] = n
  <2>1. 0 \in 0..k /\ n \div 1 = n
    OBVIOUS
  <2> QED
    BY <1>1, <1>6, <2>1, RadixPowers
<1>9. g[k] = 0
  <2>1. k \in 0..k
    OBVIOUS
  <2>2. PICK p \in Nat : p = r ^ k /\ n < p
    BY <1>1, <1>2, <1>3
  <2>3. n \div p = 0
    BY <2>2
  <2> QED
    BY <1>6, <2>1, <2>2, <2>3
<1>10. d \in Seq(Digits) /\ Len(d) = k
  BY <1>4, <1>7
<1>11. g \in [0..k -> Nat]
  BY <1>5, <1>6
<1> QED
  BY <1>1, <1>4, <1>7, <1>8, <1>9, <1>10, <1>11 DEF Climbs

LEMMA ChunkClimbs ==
  ASSUME NEW n \in Rems
  PROVE  /\ ChunkDigits(n, TRUE) # <<>> /\ Climbs(ChunkDigits(n, TRUE), n, 0)
         /\ Len(ChunkDigits(n, FALSE)) = ChunkLen /\ Climbs(ChunkDigits(n, FALSE), n, 0)
<1>1. n \in Nat
  BY ChunkFacts
<1>2. PICK k : k = Needed(n) /\ k \in 1..ChunkLen /\ n < Radix ^ k
  BY NeededIs
<1>3. PICK d : d = [i \in 1..k |-> DigitAt(n, i)]
  OBVIOUS
<1>4. Climbs(d, n, 0)
  BY <1>1, <1>2, <1>3, DigitsClimb
<1>5. ChunkDigits(n, TRUE) = d
  BY <1>2, <1>3, ChunkDigitsAre
<1>6. d # <<>>
  <2>1. 1 \in DOMAIN d
    BY <1>2, <1>3
  <2> QED
    BY <2>1
<1>7. PICK L \in Nat : L = ChunkLen /\ L \in 1..ChunkLen /\ n < Radix ^ L
  <2>1. n < Chunk
    BY ChunkFacts DEF Rems
  <2> QED
    BY <2>1, RadixPowers
<1>8. PICK e : e = [i \in 1..L |-> DigitAt(n, i)]
  OBVIOUS
<1>9. Climbs(e, n, 0)
  BY <1>1, <1>7, <1>8, DigitsClimb
<1>10. ChunkDigits(n, FALSE) = e
  BY <1>7, <1>8, ChunkDigitsAre
<1>11. Len(e) = L
  <2>1. e \in Seq(Digits)
    BY <1>9 DEF Climbs
  <2>2. DOMAIN e = 1..L /\ Len(e) \in Nat /\ DOMAIN e = 1..Len(e)
    BY <1>8, <2>1
  <2> QED
    BY <2>2
<1> QED
  BY <1>4, <1>5, <1>6, <1>7, <1>9, <1>10, <1>11

(* The digits of a chunk below those of the quotient.                      *)
LEMMA JoinClimbs ==
  ASSUME NEW d, NEW n \in Nat, Climbs(d, n, 0), Len(d) = ChunkLen, NEW e, NEW q \in Nat, Climbs(e, q, 0)
  PROVE  Climbs(d \o e, Chunk * q + n, 0)
<1>1. PICK L \in Nat : L = ChunkLen /\ L = Len(d) /\ L >= 1
  BY RadixPowers
<1>2. d \in Seq(Digits) /\ e \in Seq(Digits)
  BY DEF Climbs
<1>3. PICK M \in Nat : M = Len(e)
  BY <1>2
<1>4. PICK r \in Nat : r = Radix /\ Digits \subseteq Nat
  BY RadixFacts
<1>5. PICK g \in [0..L -> Nat] : g[0] = n /\ g[L] = 0 /\ \A i \in 1..L : g[i - 1] = r * g[i] + d[i]
  BY <1>1, <1>4 DEF Climbs
<1>6. PICK h \in [0..M -> Nat] : h[0] = q /\ h[M] = 0 /\ \A i \in 1..M : h[i - 1] = r * h[i] + e[i]
  BY <1>3, <1>4 DEF Climbs
<1>7. PICK s : s = d \o e
  OBVIOUS
<1>8. /\ s \in Seq(Digits) /\ Len(s) = L + M
      /\ \A i \in 1..L : s[i] = d[i]
      /\ \A i \in 1..M : s[L + i] = e[i]
  <2>1. s \in Seq(Digits) /\ Len(s) = Len(d) + Len(e)
    BY <1>2, <1>7, ConcatProperties
  <2>2. \A i \in 1..(Len(d) + Len(e)) : s[i] = IF i <= Len(d) THEN d[i] ELSE e[i - Len(d)]
    BY <1>2, <1>7, ConcatProperties
  <2>3. \A i \in 1..L : i \in 1..(L + M) /\ i <= L
    OBVIOUS
  <2>4. \A i \in 1..M : L + i \in 1..(L + M) /\ ~(L + i <= L) /\ (L + i) - L = i
    OBVIOUS
  <2> QED
    BY <1>1, <1>3, <2>1, <2>2, <2>3, <2>4
<1>9. /\ \A i \in 0..L : r ^ (L - i) \in Nat
      /\ \A i \in 1..L : r ^ (L - (i - 1)) = r * r ^ (L - i)
      /\ r ^ (L - 0) = Chunk /\ r ^ (L - L) = 1
  <2>1. ASSUME NEW i \in 0..L
        PROVE  r ^ (L - i) \in Nat
    <3>1. L - i \in 0..L
      OBVIOUS
    <3> QED
      BY <1>1, <1>4, <3>1, RadixPowers
  <2>2. ASSUME NEW i \in 1..L
        PROVE  r ^ (L - (i - 1)) = r * r ^ (L - i)
    <3>1. L - (i - 1) \in 1..L /\ (L - (i - 1)) - 1 = L - i
      OBVIOUS
    <3> QED
      BY <1>1, <1>4, <3>1, RadixPowers
  <2>3. L - 0 = L /\ L - L = 0
    OBVIOUS
  <2>4. r ^ (L - 0) = Chunk /\ r ^ (L - L) = 1
    BY <1>1, <1>4, <2>3, RadixPowers
  <2> QED
    BY <2>1, <2>2, <2>4
<1>10. PICK f : f = [i \in 0..(L + M) |-> IF i <= L THEN r ^ (L - i) * q + g[i] ELSE h[i - L]]
  OBVIOUS
<1>11. ASSUME NEW i \in 0..L
       PROVE  f[i] = r ^ (L - i) * q + g[i] /\ f[i] \in Nat
  <2>1. i \in 0..(L + M) /\ i <= L
    OBVIOUS
  <2>2. PICK p \in Nat, c \in Nat : p = r ^ (L - i) /\ c = g[i]
    BY <1>5, <1>9
  <2>3. p * q + c \in Nat
    OBVIOUS
  <2> QED
    BY <1>10, <2>1, <2>2, <2>3
<1>12. ASSUME NEW i \in 0..M
       PROVE  f[L + i] = h[i] /\ f[L + i] \in Nat
  <2>1. CASE i = 0
    <3>1. L \in 0..L /\ L + i = L /\ 1 * q + 0 = q
      BY <2>1
    <3>2. f[L] = r ^ (L - L) * q + g[L]
      BY <1>11, <3>1
    <3> QED
      BY <1>5, <1>6, <1>9, <2>1, <3>1, <3>2
  <2>2. CASE i # 0
    <3>1. L + i \in 0..(L + M) /\ ~(L + i <= L) /\ (L + i) - L = i
      BY <2>2
    <3> QED
      BY <1>6, <1>10, <3>1
  <2> QED
    BY <2>1, <2>2
<1>13. f \in [0..(L + M) -> Nat]
  <2>1. ASSUME NEW i \in 0..(L + M)
        PROVE  f[i] \in Nat
    <3>1. CASE i <= L
      BY <1>11, <3>1
    <3>2. CASE i > L
      <4>1. i - L \in 0..M /\ L + (i - L) = i
        BY <3>2
      <4> QED
        BY <1>12, <4>1
    <3> QED
      BY <3>1, <3>2
  <2> QED
    BY <1>10, <2>1
<1>14. f[0] = Chunk * q + n
  <2>1. 0 \in 0..L
    OBVIOUS
  <2> QED
    BY <1>5, <1>9, <1>11, <2>1
<1>15. f[L + M] = 0
  <2>1. M \in 0..M
    OBVIOUS
  <2> QED
    BY <1>6, <1>12, <2>1
<1>16. ASSUME NEW i \in 1..(L + M)
       PROVE  f[i - 1] = r * f[i] + s[i]
  <2>1. CASE i <= L
    <3>1. i \in 1..L /\ i \in 0..L /\ i - 1 \in 0..L
      BY <2>1
    <3>2. PICK p \in Nat, a \in Nat, c \in Nat : p = r ^ (L - i) /\ a = g[i] /\ c = d[i]
      <4>1. d[i] \in Nat
        <5>1. i \in 1..Len(d)
          BY <1>1, <3>1
        <5>2. d[i] \in Digits
          BY <1>2, <5>1
        <5> QED
          BY <1>4, <5>2
      <4>2. r ^ (L - i) \in Nat /\ g[i] \in Nat
        BY <1>5, <1>9, <3>1
      <4> QED
        BY <4>1, <4>2
    <3>3. f[i] = p * q + a /\ f[i - 1] = (r * p) * q + (r * a + c) /\ s[i] = c
      BY <1>5, <1>8, <1>9, <1>11, <3>1, <3>2
    <3>4. (r * p) * q + (r * a + c) = r * (p * q + a) + c
      OBVIOUS
    <3> QED
      BY <3>3, <3>4
  <2>2. CASE i > L
    <3>1. PICK j \in 1..M : j = i - L /\ j \in 0..M /\ j - 1 \in 0..M /\ L + j = i /\ L + (j - 1) = i - 1
      BY <2>2
    <3>2. h[j - 1] = r * h[j] + e[j] /\ s[i] = e[j] /\ f[i] = h[j] /\ f[i - 1] = h[j - 1]
      BY <1>6, <1>8, <1>12, <3>1
    <3> QED
      BY <3>2
  <2> QED
    BY <2>1, <2>2
<1>17. Len(s) = L + M /\ s \in Seq(Digits)
  BY <1>8
<1>18. f \in [0..Len(s) -> Nat] /\ f[0] = Chunk * q + n /\ f[Len(s)] = 0
  BY <1>13, <1>14, <1>15, <1>17
<1>20. \A i \in 1..Len(s) : f[i - 1] = Radix * f[i] + s[i]
  BY <1>4, <1>16, <1>17
<1>19. Climbs(s, Chunk * q + n, 0)
  BY <1>17, <1>18, <1>20 DEF Climbs
<1> QED
  BY <1>7, <1>19

-----------------------------------------------------------------------------
(* All digits of a big integer (tostr).                                    *)
LEMMA ClimbSpells ==
  ASSUME NEW d, NEW n \in Nat, Climbs(d, n, 0), d # <<>>
  PROVE  Spells(Reverse(d), n)
<1>1. d \in Seq(Digits)
  BY DEF Climbs
<1>2. PICK L \in Nat : L = Len(d) /\ L >= 1
  BY <1>1
<1>3. PICK g \in [0..L -> Nat] : g[0] = n /\ g[L] = 0 /\ \A i \in 1..L : g[i - 1] = Radix * g[i] + d[i]
  BY <1>2 DEF Climbs
<1>4. PICK s : s = [i \in 1..L |-> d[L - i + 1]]
  OBVIOUS
<1>5. s = Reverse(d)
  <2>1. \A i \in 1..L : d[L - i + 1] = d[(L - i) + 1]
    OBVIOUS
  <2> QED
    BY <1>2, <1>4 DEF Reverse
<1>6. s \in Seq(Digits) /\ Len(s) = L /\ \A i \in 1..L : s[i] = d[L - i + 1]
  <2>1. \A i \in 1..L : d[L - i + 1] \in Digits
    <3>1. \A i \in 1..L : L - i + 1 \in 1..L
      OBVIOUS
    <3> QED
      BY <1>1, <1>2, <3>1
  <2> QED
    BY <1>4, <2>1
<1>7. PICK h : h = [i \in 0..L |-> g[L - i]]
  OBVIOUS
<1>8. h \in [0..L -> Nat] /\ h[0] = 0 /\ h[L] = n
  <2>1. \A i \in 0..L : L - i \in 0..L
    OBVIOUS
  <2>2. 0 \in 0..L /\ L \in 0..L /\ L - 0 = L /\ L - L = 0
    OBVIOUS
  <2> QED
    BY <1>3, <1>7, <2>1, <2>2
<1>9. ASSUME NEW i \in 1..L
      PROVE  h[i] = Radix * h[i - 1] + s[i]
  <2>1. /\ i \in 0..L /\ i - 1 \in 0..L /\ L - (i - 1) = L - i + 1
        /\ L - i + 1 \in 1..L /\ (L - i + 1) - 1 = L - i
    OBVIOUS
  <2>2. h[i] = g[L - i] /\ h[i - 1] = g[L - i + 1]
    BY <1>7, <2>1
  <2>3. g[L - i] = Radix * g[L - i + 1] + d[L - i + 1]
    BY <1>3, <2>1
  <2> QED
    BY <1>6, <2>2, <2>3
<1>10. Len(s) = L /\ s # <<>>
  BY <1>2, <1>6
<1>11. h \in [0..Len(s) -> Nat] /\ h[0] = 0 /\ h[Len(s)] = n
  BY <1>8, <1>10
<1>12. \A i \in 1..Len(s) : h[i] = Radix * h[i - 1] + s[i]
  BY <1>9, <1>10
<1>13. Spells(s, n)
  BY <1>6, <1>10, <1>11, <1>12 DEF Spells
<1> QED
  BY <1>5, <1>13

(* A number of one limb.                                                   *)
LEMMA OneLimb ==
  ASSUME NEW q \in Limbs
  PROVE  /\ <<q>> \in Seq(Limbs) /\ Len(<<q>>) = 1 /\ <<q>> # <<>> /\ <<q>>[1] = q
         /\ Magnitude(<<q>>) = q
         /\ Big(1, <<q>>) \in Bigs /\ Big(1, <<q>>).data = <<q>> /\ Trimmed(Big(1, <<q>>))
<1>1. PICK d : d = <<q>>
  OBVIOUS
<1>2. d \in Seq(Limbs) /\ Len(d) = 1 /\ d # <<>> /\ d[1] = q /\ Limb(d, 1) = q
  BY <1>1 DEF Limb
<1>3. q \in Nat /\ Base \in Nat
  BY LimbFacts
<1>4. Magnitude(d) = q
  <2>1. PICK w : w = [i \in 0..1 |-> IF i = 0 THEN q ELSE 0]
    OBVIOUS
  <2>2. w \in [0..1 -> Int] /\ w[1] = 0 /\ w[0] = q
    BY <1>3, <2>1
  <2>3. PICK j \in Nat : j = 1
    OBVIOUS
  <2>4. \A i \in 1..j : w[i - 1] = Limb(d, i) + Base * w[i]
    <3>1. Base * 0 = 0 /\ q + 0 = q
      BY <1>3
    <3>2. ASSUME NEW i \in 1..j
          PROVE  i = 1 /\ i - 1 = 0
      BY <2>3
    <3> QED
      BY <1>2, <2>2, <3>1, <3>2
  <2>5. Len(d) <= j /\ w \in [0..j -> Int] /\ w[j] = 0
    BY <1>2, <2>2, <2>3
  <2>6. w[0] = Magnitude(d)
    BY <1>2, <2>4, <2>5, MagnitudeIs
  <2> QED
    BY <2>2, <2>6
<1>5. PICK a : a = Big(1, d)
  OBVIOUS
<1>6. a \in Bigs /\ a.data = d
  BY <1>2, <1>5 DEF Big, Bigs
<1>7. Trimmed(a)
  <2>1. Len(a.data) = 1
    BY <1>2, <1>6
  <2>2. ~(1 > 1)
    OBVIOUS
  <2>3. ~(Len(a.data) > 1)
    BY <2>1, <2>2, Zenon
  <2> QED
    BY <1>2, <1>6, <2>3 DEF Trimmed
<1> QED
  BY <1>1, <1>2, <1>4, <1>5, <1>6, <1>7

-----------------------------------------------------------------------------
(* Recursions with a measure, bits, and long division.                     *)

(* A recursion whose argument has a smaller measure each time: B are the   *)
(* arguments where it ends, pre gives the argument of the next call.       *)
Descends(X, m, B, pre) ==
  /\ m \in [X -> Nat] /\ pre \in [X -> X]
  /\ \A p \in X : p \notin B => m[pre[p]] < m[p]

Recurs(f, X, D, B, pre, first, next) ==
  /\ f \in [X -> D]
  /\ \A p \in X : f[p] = IF p \in B THEN first[p] ELSE next[<<p, f[pre[p]]>>]

(* What holds where it holds of all arguments of smaller measure.          *)
LEMMA MeasureInduction ==
  ASSUME NEW X, NEW m \in [X -> Nat], NEW T,
         \A p \in X : (\A q \in X : m[q] < m[p] => q \in T) => p \in T
  PROVE  X \subseteq T
<1> DEFINE U(n) == {k \in 0..n : \A p \in X : m[p] <= k => p \in T}
<1>1. ASSUME NEW n \in Nat
      PROVE  0..n \subseteq U(n)
  <2>1. 0 \in U(n)
    <3>1. ASSUME NEW p \in X, m[p] <= 0
          PROVE  p \in T
      <4>1. \A q \in X : m[q] \in Nat
        OBVIOUS
      <4>2. \A q \in X : ~(m[q] < m[p])
        BY <3>1, <4>1
      <4> QED
        BY <4>2
    <3> QED
      BY <3>1
  <2>2. ASSUME NEW k \in 1..n, k - 1 \in U(n)
        PROVE  k \in U(n)
    <3>1. ASSUME NEW p \in X, m[p] <= k
          PROVE  p \in T
      <4>1. \A q \in X : m[q] \in Nat
        OBVIOUS
      <4>2. \A q \in X : m[q] < m[p] => m[q] <= k - 1
        BY <3>1, <4>1
      <4> QED
        BY <2>2, <4>2
    <3> QED
      BY <3>1
  <2> HIDE DEF U
  <2> QED
    BY <2>1, <2>2, Upwards
<1>2. ASSUME NEW p \in X
      PROVE  p \in T
  <2>1. m[p] \in Nat /\ m[p] \in 0..m[p]
    OBVIOUS
  <2>2. m[p] \in U(m[p])
    BY <1>1, <2>1
  <2> QED
    BY <2>1, <2>2
<1> QED
  BY <1>2

LEMMA MeasureRecursion ==
  ASSUME NEW X, NEW D, NEW m, NEW B, NEW pre, NEW first, NEW next,
         Descends(X, m, B, pre), first \in [X -> D], next \in [X \X D -> D]
  PROVE  \E f : Recurs(f, X, D, B, pre, first, next)
<1> USE DEF Descends
<1> DEFINE At(g, p) == IF p \in B THEN first[p] ELSE next[<<p, g[pre[p]]>>]
           Solves(g, n) == g \in [X -> D] /\ \A p \in X : m[p] <= n => g[p] = At(g, p)
<1>0. \A p \in X : m[p] \in Nat /\ pre[p] \in X
  OBVIOUS
<1>1. ASSUME NEW n \in Nat
      PROVE  \E g : Solves(g, n)
  <2> DEFINE T == {k \in 0..n : \E g : Solves(g, k)}
  <2>1. 0 \in T
    <3>1. \A p \in X : m[p] <= 0 => p \in B
      BY <1>0
    <3>2. Solves(first, 0)
      BY <3>1
    <3> HIDE DEF Solves
    <3> QED
      BY <3>2
  <2>2. ASSUME NEW k \in 1..n, k - 1 \in T
        PROVE  k \in T
    <3>1. PICK g : Solves(g, k - 1)
      BY <2>2
    <3> DEFINE h == [p \in X |-> IF m[p] <= k - 1 THEN g[p] ELSE At(g, p)]
    <3>2. g \in [X -> D] /\ \A p \in X : g[pre[p]] \in D
      BY <1>0, <3>1
    <3>3. h \in [X -> D]
      BY <1>0, <3>2
    <3>4. ASSUME NEW p \in X, m[p] <= k
          PROVE  h[p] = At(h, p)
      <4>1. CASE p \in B
        <5>1. At(g, p) = At(h, p)
          BY <4>1
        <5> QED
          BY <3>1, <5>1
      <4>2. CASE p \notin B
        <5>1. m[pre[p]] < m[p] /\ m[pre[p]] <= k - 1
          BY <1>0, <3>4, <4>2
        <5>2. h[pre[p]] = g[pre[p]]
          BY <1>0, <5>1
        <5>3. At(g, p) = At(h, p)
          BY <5>2
        <5>4. h[p] = g[p] \/ h[p] = At(g, p)
          OBVIOUS
        <5>5. m[p] <= k - 1 => g[p] = At(g, p)
          BY <3>1
        <5>6. h[p] = IF m[p] <= k - 1 THEN g[p] ELSE At(g, p)
          OBVIOUS
        <5> HIDE DEF h, At
        <5> QED
          BY <5>3, <5>5, <5>6
      <4> QED
        BY <4>1, <4>2
    <3>5. Solves(h, k)
      <4> HIDE DEF h, At
      <4> QED
        BY <3>3, <3>4
    <3> HIDE DEF Solves, h
    <3> QED
      BY <3>5
  <2>3. 0..n \subseteq T
    <3> HIDE DEF T
    <3> QED
      BY <2>1, <2>2, Upwards
  <2> HIDE DEF Solves
  <2>4. n \in 0..n
    OBVIOUS
  <2> QED
    BY <2>3, <2>4
<1>2. ASSUME NEW g, NEW h, NEW j \in Nat, NEW k \in Nat, Solves(g, j), Solves(h, k)
      PROVE  \A p \in X : m[p] <= j /\ m[p] <= k => g[p] = h[p]
  <2> DEFINE T == {p \in X : m[p] <= j /\ m[p] <= k => g[p] = h[p]}
  <2>1. ASSUME NEW p \in X, \A q \in X : m[q] < m[p] => q \in T
        PROVE  p \in T
    <3> SUFFICES ASSUME m[p] <= j, m[p] <= k
                 PROVE  g[p] = h[p]
      OBVIOUS
    <3>1. g[p] = At(g, p) /\ h[p] = At(h, p)
      BY <1>2
    <3>2. p \notin B => g[pre[p]] = h[pre[p]]
      BY <1>0, <2>1
    <3>3. At(g, p) = At(h, p)
      BY <3>2
    <3> HIDE DEF At
    <3> QED
      BY <3>1, <3>3
  <2>2. X \subseteq T
    <3> HIDE DEF T
    <3>1. m \in [X -> Nat]
      OBVIOUS
    <3> QED
      BY <2>1, <3>1, MeasureInduction
  <2> QED
    BY <2>2
<1> DEFINE G(n) == CHOOSE g : Solves(g, n)
           f == [p \in X |-> G(m[p])[p]]
<1>3. \A n \in Nat : Solves(G(n), n)
  <2> HIDE DEF Solves
  <2> QED
    BY <1>1
<1>4. \A p \in X : G(m[p]) \in [X -> D]
  <2>1. \A n \in Nat : G(n) \in [X -> D]
    <3> HIDE DEF G
    <3> QED
      BY <1>3
  <2> HIDE DEF G
  <2> QED
    BY <1>0, <2>1
<1>5. f \in [X -> D]
  <2> HIDE DEF G
  <2> QED
    BY <1>4
<1>6. ASSUME NEW p \in X
      PROVE  f[p] = At(f, p)
  <2>1. f[p] = G(m[p])[p] /\ f[pre[p]] = G(m[pre[p]])[pre[p]]
    <3> HIDE DEF G
    <3> QED
      BY <1>0
  <2>2. Solves(G(m[p]), m[p]) /\ Solves(G(m[pre[p]]), m[pre[p]])
    BY <1>0, <1>3
  <2>3. G(m[p])[p] = At(G(m[p]), p)
    <3> HIDE DEF G, At
    <3> QED
      BY <1>0, <2>2
  <2>4. p \notin B => G(m[p])[pre[p]] = G(m[pre[p]])[pre[p]]
    <3>1. p \notin B => m[pre[p]] <= m[p] /\ m[pre[p]] <= m[pre[p]]
      BY <1>0
    <3> HIDE DEF G, Solves
    <3> QED
      BY <1>0, <1>2, <2>2, <3>1
  <2>5. At(G(m[p]), p) = At(f, p)
    <3> HIDE DEF G, f
    <3> QED
      BY <2>1, <2>4
  <2> HIDE DEF G, At, f
  <2> QED
    BY <2>1, <2>3, <2>5
<1>7. Recurs(f, X, D, B, pre, first, next)
  <2> HIDE DEF f
  <2> QED
    BY <1>5, <1>6 DEF Recurs
<1> QED
  BY <1>7

(* The powers of two, as a function on all of Nat.                         *)
Doubling(p) == p \in [Nat -> Nat] /\ p[0] = 1 /\ \A n \in Nat : p[n + 1] = 2 * p[n]
Pow == CHOOSE p : Doubling(p)

LEMMA PowDoubles == Doubling(Pow)
<1> DEFINE m == [n \in Nat |-> n]
           pre == [n \in Nat |-> IF n = 0 THEN 0 ELSE n - 1]
           first == [n \in Nat |-> 1]
           next == [q \in Nat \X Nat |-> 2 * q[2]]
<1>1. Descends(Nat, m, {0}, pre)
  <2>1. \A n \in Nat : n \notin {0} => m[pre[n]] < m[n]
    OBVIOUS
  <2> QED
    BY <2>1 DEF Descends
<1>2. first \in [Nat -> Nat] /\ next \in [Nat \X Nat -> Nat]
  OBVIOUS
<1>3. /\ \A n \in Nat : first[n] = 1 /\ pre[n + 1] = n
      /\ \A a, b \in Nat : next[<<a, b>>] = 2 * b
  OBVIOUS
<1> HIDE DEF m, pre, first, next
<1>4. PICK p : Recurs(p, Nat, Nat, {0}, pre, first, next)
  BY <1>1, <1>2, MeasureRecursion
<1>5. p \in [Nat -> Nat] /\ p[0] = 1
  BY <1>3, <1>4 DEF Recurs
<1>6. ASSUME NEW n \in Nat
      PROVE  p[n + 1] = 2 * p[n]
  <2>1. n + 1 \in Nat /\ n + 1 \notin {0}
    OBVIOUS
  <2>2. p[n + 1] = next[<<n + 1, p[n]>>]
    BY <1>3, <1>4, <2>1 DEF Recurs
  <2>3. p[n] \in Nat
    BY <1>5
  <2> QED
    BY <1>3, <2>1, <2>2, <2>3
<1>7. Doubling(p)
  BY <1>5, <1>6 DEF Doubling
<1> QED
  BY <1>7 DEF Pow

LEMMA PowFacts ==
  /\ Pow[0] = 1
  /\ \A n \in Nat : Pow[n] \in Nat /\ Pow[n] >= 1 /\ Pow[n + 1] = 2 * Pow[n]
<1>1. Pow \in [Nat -> Nat] /\ Pow[0] = 1 /\ \A n \in Nat : Pow[n + 1] = 2 * Pow[n]
  BY PowDoubles DEF Doubling
<1>2. ASSUME NEW n \in Nat
      PROVE  Pow[n] >= 1
  <2> DEFINE T == {k \in 0..n : Pow[k] >= 1}
  <2>1. 0 \in T
    BY <1>1
  <2>2. ASSUME NEW k \in 1..n, k - 1 \in T
        PROVE  k \in T
    <3>1. k - 1 \in Nat /\ (k - 1) + 1 = k
      OBVIOUS
    <3>2. Pow[k] = 2 * Pow[k - 1] /\ Pow[k - 1] \in Nat
      BY <1>1, <3>1
    <3> QED
      BY <2>2, <3>2
  <2>3. 0..n \subseteq T
    <3> HIDE DEF T
    <3> QED
      BY <2>1, <2>2, Upwards
  <2>4. n \in 0..n
    OBVIOUS
  <2> QED
    BY <2>3, <2>4
<1> QED
  BY <1>1, <1>2

LEMMA PowAdds ==
  ASSUME NEW m \in Nat, NEW n \in Nat
  PROVE  Pow[m + n] = Pow[m] * Pow[n]
<1> DEFINE T == {k \in 0..n : Pow[m + k] = Pow[m] * Pow[k]}
<1>1. 0 \in T
  BY PowFacts
<1>2. ASSUME NEW k \in 1..n, k - 1 \in T
      PROVE  k \in T
  <2>1. k - 1 \in Nat /\ (k - 1) + 1 = k /\ (m + (k - 1)) + 1 = m + k /\ m + (k - 1) \in Nat
    OBVIOUS
  <2>2. Pow[k] = 2 * Pow[k - 1] /\ Pow[m + k] = 2 * Pow[m + (k - 1)]
    BY PowFacts, <2>1
  <2>3. PICK a, b : a = Pow[m] /\ b = Pow[k - 1] /\ a \in Nat /\ b \in Nat
    BY PowFacts, <2>1
  <2>4. 2 * (a * b) = a * (2 * b)
    BY <2>3
  <2>5. Pow[m + (k - 1)] = a * b
    BY <1>2, <2>3
  <2> QED
    BY <2>2, <2>3, <2>4, <2>5
<1>3. 0..n \subseteq T
  <2> HIDE DEF T
  <2> QED
    BY <1>1, <1>2, Upwards
<1>4. n \in 0..n
  OBVIOUS
<1> QED
  BY <1>3, <1>4

LEMMA PowMonotone ==
  ASSUME NEW m \in Nat, NEW n \in Nat
  PROVE  /\ m <= n => Pow[m] <= Pow[n]
         /\ m < n => 2 * Pow[m] <= Pow[n]
<1>1. ASSUME NEW k \in Nat, m <= k
      PROVE  Pow[m] <= Pow[k]
  <2>1. k - m \in Nat /\ m + (k - m) = k
    BY <1>1
  <2>2. PICK d \in Nat : d = k - m
    BY <2>1
  <2>3. Pow[k] = Pow[m] * Pow[d]
    BY <2>1, <2>2, PowAdds
  <2>4. PICK a, b : a = Pow[m] /\ b = Pow[d] /\ a \in Nat /\ b \in Nat /\ b >= 1
    BY PowFacts
  <2>5. a <= a * b
    BY <2>4
  <2> QED
    BY <2>3, <2>4, <2>5
<1>2. ASSUME m < n
      PROVE  2 * Pow[m] <= Pow[n]
  <2>1. n - 1 \in Nat /\ m <= n - 1 /\ (n - 1) + 1 = n
    BY <1>2
  <2>2. Pow[m] <= Pow[n - 1] /\ Pow[n] = 2 * Pow[n - 1] /\ Pow[m] \in Nat /\ Pow[n - 1] \in Nat
    BY <1>1, <2>1, PowFacts
  <2> QED
    BY <2>2
<1> QED
  BY <1>1, <1>2

(* A power of two is less than another only when its exponent is.          *)
LEMMA PowOrder ==
  ASSUME NEW m \in Nat, NEW n \in Nat, Pow[m] < Pow[n]
  PROVE  m < n
<1>1. Pow[m] \in Nat /\ Pow[n] \in Nat
  BY PowFacts
<1>2. n <= m => Pow[n] <= Pow[m]
  BY PowMonotone
<1> QED
  BY <1>1, <1>2

LEMMA LimbWidth ==
  /\ HalfBits \in Nat /\ HalfBits >= 1
  /\ 2 * HalfBits \in Nat /\ 2 * HalfBits >= 2
BY BignumAssumption

LEMMA PowIs ==
  /\ \A k \in 0..(2 * HalfBits) : 2 ^ k = Pow[k]
  /\ Half = Pow[HalfBits] /\ Base = Pow[2 * HalfBits]
<1> DEFINE W == 2 * HalfBits
           T == {k \in 0..W : 2 ^ k = Pow[k]}
<1>1. W \in Nat /\ HalfBits \in 0..W /\ HalfBits \in Nat /\ W \in 0..W /\ HalfBits + HalfBits = W
  BY LimbWidth
<1>2. 0 \in T
  BY <1>1, BignumAssumption, PowFacts
<1>3. ASSUME NEW k \in 1..W, k - 1 \in T
      PROVE  k \in T
  <2>1. k - 1 \in 0..(W - 1) /\ (k - 1) + 1 = k /\ k - 1 \in Nat /\ k \in 0..W
    BY <1>1
  <2>2. PICK j \in 0..(W - 1) : j = k - 1
    BY <2>1
  <2>3. 2 ^ (j + 1) = 2 * 2 ^ j
    BY BignumAssumption
  <2>4. Pow[j + 1] = 2 * Pow[j]
    BY <2>1, <2>2, PowFacts
  <2>5. 2 ^ j = Pow[j]
    BY <1>3, <2>2
  <2>6. j + 1 = k
    BY <2>1, <2>2
  <2>7. 2 ^ k = Pow[k]
    BY <2>3, <2>4, <2>5, <2>6
  <2> QED
    BY <2>1, <2>7
<1>4. 0..W \subseteq T
  <2> HIDE DEF T, W
  <2> QED
    BY <1>1, <1>2, <1>3, Upwards
<1>5. \A k \in 0..W : 2 ^ k = Pow[k]
  BY <1>4
<1>6. Half = Pow[HalfBits]
  BY <1>1, <1>5 DEF Half
<1>7. Pow[W] = Pow[HalfBits] * Pow[HalfBits]
  <2> HIDE DEF W
  <2> QED
    BY <1>1, PowAdds
<1> HIDE DEF W
<1>8. Base = Pow[W]
  BY <1>6, <1>7 DEF Base
<1> QED
  BY <1>5, <1>6, <1>8 DEF W

(* The number of bits of a number below a power of two.                    *)
LEMMA BitsOfNumber ==
  ASSUME NEW n \in Nat, NEW u \in Nat, u < Pow[n]
  PROVE  \E k \in 0..n : u < Pow[k] /\ (k = 0 \/ u >= Pow[k - 1])
<1> DEFINE T == {j \in 0..n : u < Pow[j] => \E k \in 0..n : u < Pow[k] /\ (k = 0 \/ u >= Pow[k - 1])}
<1>1. 0 \in T
  OBVIOUS
<1>2. ASSUME NEW j \in 1..n, j - 1 \in T
      PROVE  j \in T
  <2>1. Pow[j] \in Nat /\ Pow[j - 1] \in Nat /\ j \in 0..n
    BY PowFacts
  <2>2. CASE u < Pow[j - 1]
    BY <1>2, <2>1, <2>2
  <2>3. CASE u >= Pow[j - 1]
    BY <2>1, <2>3
  <2> QED
    BY <2>1, <2>2, <2>3
<1>3. 0..n \subseteq T
  <2> HIDE DEF T
  <2> QED
    BY <1>1, <1>2, Upwards
<1>4. n \in 0..n
  OBVIOUS
<1> QED
  BY <1>3, <1>4

LEMMA TopLimbBits ==
  ASSUME NEW u \in Limbs
  PROVE  LET k == CHOOSE k \in 0..(2 * HalfBits) : u < 2 ^ k /\ (k = 0 \/ u >= 2 ^ (k - 1))
         IN  /\ k \in 0..(2 * HalfBits) /\ u < Pow[k]
             /\ u # 0 => k >= 1 /\ u >= Pow[k - 1]
<1> DEFINE W == 2 * HalfBits
           Good(k) == u < 2 ^ k /\ (k = 0 \/ u >= 2 ^ (k - 1))
           c == CHOOSE k \in 0..W : Good(k)
<1>1. W \in Nat /\ u \in Nat /\ u < Pow[W] /\ \A k \in 0..W : 2 ^ k = Pow[k]
  BY LimbFacts, PowIs, LimbWidth
<1>2. \A k \in 0..W : k = 0 \/ k - 1 \in 0..W
  BY <1>1
<1> HIDE DEF W
<1>3. PICK k \in 0..W : u < Pow[k] /\ (k = 0 \/ u >= Pow[k - 1])
  BY <1>1, BitsOfNumber
<1>4. Good(k)
  BY <1>1, <1>2, <1>3
<1>5. c \in 0..W /\ Good(c)
  <2> HIDE DEF Good
  <2> QED
    BY <1>4
<1>6. u < Pow[c] /\ (c = 0 \/ u >= Pow[c - 1])
  <2> HIDE DEF c
  <2> QED
    BY <1>1, <1>2, <1>5
<1>7. u # 0 => c # 0
  <2>1. Pow[0] = 1
    BY PowFacts
  <2> HIDE DEF c
  <2> QED
    BY <1>1, <1>6, <2>1
<1>8. c \in 0..W /\ u < Pow[c] /\ (u # 0 => c >= 1 /\ u >= Pow[c - 1])
  <2> HIDE DEF c, Good
  <2> QED
    BY <1>1, <1>5, <1>6, <1>7
<1> QED
  BY <1>8 DEF W

(* The value of a number lies between two multiples of the power of two    *)
(* below its highest limb.                                                 *)
Between(t, u, p) == t * p <= u /\ u < (t + 1) * p

LEMMA BetweenBelow ==
  ASSUME NEW base \in Nat, NEW t \in Nat, NEW u \in Nat, NEW p \in Nat, NEW d \in 0..(base - 1),
         Between(t, u, p)
  PROVE  Between(t, d + base * u, base * p)
<1>1. t * p \in Nat /\ (t + 1) * p \in Nat /\ u + 1 <= (t + 1) * p /\ t * p <= u
  BY DEF Between
<1>2. base * (t * p) <= base * u
  BY <1>1
<1>3. base * (u + 1) <= base * ((t + 1) * p)
  <2>1. PICK q \in Nat : q = (t + 1) * p
    BY <1>1
  <2>2. u + 1 <= q
    BY <1>1, <2>1
  <2>3. base * (u + 1) <= base * q
    BY <2>2
  <2> QED
    BY <2>1, <2>3
<1>4. base * (t * p) = t * (base * p) /\ base * ((t + 1) * p) = (t + 1) * (base * p)
  OBVIOUS
<1>5. base * (u + 1) = base * u + base /\ base * u \in Nat
  OBVIOUS
<1>6. d + base * u < base * (u + 1) /\ base * u <= d + base * u
  BY <1>5
<1>7. PICK lo, hi, s : /\ lo = t * (base * p) /\ hi = (t + 1) * (base * p) /\ s = base * u
                       /\ lo \in Nat /\ hi \in Nat /\ s \in Nat
  BY <1>5
<1>8. lo <= s /\ s + base <= hi
  BY <1>2, <1>3, <1>4, <1>5, <1>7
<1>9. lo <= d + s /\ d + s < hi
  BY <1>7, <1>8
<1> QED
  BY <1>7, <1>9 DEF Between

LEMMA TopLimbBounds ==
  ASSUME NEW data \in Seq(Limbs), data # <<>>
  PROVE  Between(data[Len(data)], Magnitude(data), Pow[(Len(data) - 1) * (2 * HalfBits)])
<1> DEFINE W == 2 * HalfBits
           n == Len(data)
           t == data[n]
<1>1. n \in Nat /\ n >= 1 /\ W \in Nat /\ t \in Limbs
  BY LimbWidth
<1>2. PICK v : Values(data, n, v) /\ v[0] = Magnitude(data)
  BY MagnitudeOwn
<1>3. \A i \in 1..n : Limb(data, i) \in Limbs /\ Limb(data, n) = t
  BY <1>1, LimbIsLimb
<1> HIDE DEF t, n, W
<1>4. /\ v \in [0..n -> Nat] /\ v[n] = 0
      /\ \A i \in 1..n : v[i - 1] = Limb(data, i) + Base * v[i]
  BY <1>2 DEF Values
<1>5. t \in Nat /\ Base \in Nat /\ Base = Pow[W]
  BY <1>1, LimbFacts, PowIs DEF W
<1> DEFINE T == {k \in 0..(n - 1) : Between(t, v[k], Pow[(n - 1 - k) * W])}
<1>6. n - 1 \in T
  <2>1. n \in 1..n /\ n - 1 \in 0..(n - 1) /\ (n - 1 - (n - 1)) * W = 0
    BY <1>1
  <2>2. v[n - 1] = t + Base * 0
    BY <1>3, <1>4, <2>1
  <2>3. v[n - 1] = t
    BY <1>5, <2>2
  <2>4. Between(t, t, 1)
    BY <1>5 DEF Between
  <2>5. Pow[(n - 1 - (n - 1)) * W] = 1
    BY <2>1, PowFacts
  <2> QED
    BY <2>1, <2>3, <2>4, <2>5
<1>7. ASSUME NEW i \in 1..(n - 1), i \in T
      PROVE  i - 1 \in T
  <2>1. i \in 1..n /\ i - 1 \in 0..(n - 1) /\ i \in 0..n
    BY <1>1
  <2>2. PICK e \in Nat : e = (n - 1 - i) * W
    <3>1. n - 1 - i \in Nat
      BY <1>1
    <3> QED
      BY <1>1, <3>1
  <2>3. (n - 1 - (i - 1)) * W = W + e
    <3>1. n - 1 - (i - 1) = 1 + (n - 1 - i)
      BY <1>1
    <3>2. PICK j \in Nat : j = n - 1 - i
      BY <1>1
    <3>3. (1 + j) * W = W + j * W
      BY <1>1
    <3> QED
      BY <2>2, <3>1, <3>2, <3>3
  <2>4. Pow[W + e] = Base * Pow[e]
    BY <1>1, <1>5, <2>2, PowAdds
  <2>5. v[i - 1] = Limb(data, i) + Base * v[i] /\ v[i] \in Nat /\ Limb(data, i) \in 0..(Base - 1)
    BY <1>3, <1>4, <2>1, LimbFacts
  <2>6. Between(t, v[i], Pow[e]) /\ Pow[e] \in Nat
    BY <1>7, <2>2, PowFacts
  <2>7. Between(t, v[i - 1], Base * Pow[e])
    BY <1>5, <2>5, <2>6, BetweenBelow
  <2>8. Between(t, v[i - 1], Pow[(n - 1 - (i - 1)) * W])
    BY <2>3, <2>4, <2>7
  <2> QED
    BY <2>1, <2>8
<1>8. 0..(n - 1) \subseteq T
  <2>1. n - 1 \in Nat
    BY <1>1
  <2> HIDE DEF T
  <2> QED
    BY <1>6, <1>7, <2>1, Downwards
<1>9. 0 \in T
  BY <1>1, <1>8
<1>10. Between(t, v[0], Pow[(n - 1 - 0) * W])
  BY <1>9
<1>11. n - 1 - 0 = n - 1
  BY <1>1
<1>12. Between(t, Magnitude(data), Pow[(n - 1) * W])
  BY <1>2, <1>10, <1>11
<1> QED
  BY <1>12 DEF t, n, W

(* The length in bits is what it says.                                     *)
LEMMA BitLengthIs ==
  ASSUME NEW a, Trimmed(a), Magnitude(a.data) > 0
  PROVE  /\ BitLength(a) \in Nat /\ BitLength(a) >= 1
         /\ Pow[BitLength(a) - 1] <= Magnitude(a.data) /\ Magnitude(a.data) < Pow[BitLength(a)]
<1> DEFINE W == 2 * HalfBits
           n == Len(a.data)
           t == a.data[n]
           b == CHOOSE k \in 0..(2 * HalfBits) : t < 2 ^ k /\ (k = 0 \/ t >= 2 ^ (k - 1))
           M == Magnitude(a.data)
<1>1. a \in Bigs /\ a.data # <<>> /\ a.data \in Seq(Limbs)
  BY BigFacts DEF Trimmed
<1>2. n \in Nat /\ n >= 1 /\ W \in Nat /\ t \in Limbs /\ t \in Nat /\ M \in Nat
  <2>1. n \in Nat /\ n >= 1 /\ t \in Limbs
    BY <1>1
  <2> QED
    BY <1>1, <2>1, LimbFacts, LimbWidth, MagnitudeNat
<1>3. t # 0
  <2>1. CASE n > 1
    BY <2>1 DEF Trimmed
  <2>2. CASE n = 1
    <3>1. t = 0 => \A i \in 1..n : a.data[i] = 0
      BY <2>2
    <3>2. t = 0 => M = 0
      BY <1>1, <3>1, MagnitudeZero
    <3> QED
      BY <3>2
  <2>3. n > 1 \/ n = 1
    <3> HIDE DEF n, t, W, M
    <3> QED
      BY <1>2
  <2> QED
    BY <2>1, <2>2, <2>3
<1>4. b \in 0..W /\ t < Pow[b] /\ b >= 1 /\ t >= Pow[b - 1]
  BY <1>2, <1>3, TopLimbBits
<1>5. BitLength(a) = (n - 1) * 2 * HalfBits + b
  BY DEF BitLength
<1>6. Between(t, M, Pow[(n - 1) * W])
  BY <1>1, TopLimbBounds
<1>7. PICK e \in Nat : e = (n - 1) * W
  <2>1. n - 1 \in Nat
    BY <1>2
  <2> QED
    BY <1>2, <2>1
<1>8. (n - 1) * 2 * HalfBits = e
  <2>1. PICK j \in Nat : j = n - 1
    BY <1>2, SMTT(60)
  <2>2. j * 2 * HalfBits = j * (2 * HalfBits)
    BY LimbWidth
  <2> QED
    BY <1>7, <2>1, <2>2
<1> HIDE DEF b, t, n, W, M
<1>9. b \in Nat /\ b - 1 \in Nat /\ BitLength(a) = b + e /\ BitLength(a) - 1 = (b - 1) + e
  BY <1>2, <1>4, <1>5, <1>7, <1>8
<1>10. Pow[b + e] = Pow[b] * Pow[e] /\ Pow[(b - 1) + e] = Pow[b - 1] * Pow[e]
  BY <1>7, <1>9, PowAdds
<1>11. PICK p, q, r : /\ p = Pow[b] /\ q = Pow[b - 1] /\ r = Pow[e]
                      /\ p \in Nat /\ q \in Nat /\ r \in Nat
  BY <1>7, <1>9, PowFacts
<1>12. q * r <= t * r /\ (t + 1) * r <= p * r
  BY <1>2, <1>4, <1>11
<1>13. t * r <= M /\ M < (t + 1) * r
  BY <1>6, <1>7, <1>11 DEF Between
<1>14. q * r <= M /\ M < p * r
  <2>1. PICK z1, z2, z3, z4 : /\ z1 = q * r /\ z2 = t * r /\ z3 = (t + 1) * r /\ z4 = p * r
                              /\ z1 \in Nat /\ z2 \in Nat /\ z3 \in Nat /\ z4 \in Nat
    BY <1>2, <1>11
  <2> QED
    BY <1>2, <1>12, <1>13, <2>1
<1>15. BitLength(a) \in Nat /\ BitLength(a) >= 1
  BY <1>4, <1>7, <1>9
<1>16. Pow[BitLength(a) - 1] <= M /\ M < Pow[BitLength(a)]
  BY <1>9, <1>10, <1>11, <1>14
<1> QED
  BY <1>15, <1>16 DEF M

(* A limb shifted to the left: what stays in it and what leaves it.        *)
ShiftsInto(u, bits, lo, hi) ==
  /\ lo = (u * Pow[bits]) % Base /\ hi = u \div Pow[2 * HalfBits - bits]

LEMMA ShiftedLimb ==
  ASSUME NEW u \in Limbs, NEW bits \in Nat, bits < 2 * HalfBits, NEW lo, NEW hi,
         ShiftsInto(u, bits, lo, hi)
  PROVE  /\ lo \in Nat /\ hi \in Nat /\ lo + Base * hi = u * Pow[bits]
         /\ \A h \in 0..(Pow[bits] - 1) : lo + h \in Limbs
         /\ hi \in 0..(Pow[bits] - 1)
<1>1. 2 * HalfBits - bits \in Nat /\ bits + (2 * HalfBits - bits) = 2 * HalfBits
  BY LimbWidth
<1>2. PICK c \in Nat : c = 2 * HalfBits - bits
  BY <1>1
<1>3. PICK P, Q, B : /\ P = Pow[bits] /\ Q = Pow[c] /\ B = Base
                     /\ P \in Nat /\ P >= 1 /\ Q \in Nat /\ Q >= 1 /\ B \in Nat
  BY LimbFacts, PowFacts
<1>4. B = P * Q
  <2>1. Pow[bits + c] = Pow[bits] * Pow[c]
    BY <1>2, PowAdds
  <2>2. bits + c = 2 * HalfBits
    BY <1>1, <1>2
  <2>3. Base = Pow[2 * HalfBits]
    BY PowIs
  <2> QED
    BY <1>3, <2>1, <2>2, <2>3
<1>5. u \in Nat /\ u < P * Q /\ u \in 0..(B - 1)
  <2>1. u \in 0..(B - 1)
    BY <1>3, LimbFacts
  <2>2. u < B
    BY <1>3, <2>1
  <2> QED
    BY <1>4, <2>1, <2>2
<1>6. PICK q \in Nat, r \in 0..(Q - 1) : u = Q * q + r /\ q = u \div Q
  <2>1. Q \in Nat \ {0} /\ u \in Nat
    BY <1>3, <1>5
  <2>2. u % Q \in 0..(Q - 1) /\ u \div Q \in Nat /\ u = Q * (u \div Q) + (u % Q)
    BY <2>1, DivModExists
  <2> QED
    BY <2>2
<1>7. q < P
  <2>1. q >= P => Q * q >= Q * P
    BY <1>3
  <2>2. Q * P = P * Q /\ Q * P \in Nat /\ Q * q \in Nat
    BY <1>3
  <2>3. Q * q <= u
    BY <1>6, <2>2
  <2> QED
    BY <1>3, <1>5, <2>1, <2>2, <2>3
<1>8. u * P = B * q + r * P
  <2>1. (Q * q + r) * P = (P * Q) * q + r * P
    BY <1>3
  <2> QED
    BY <1>4, <1>6, <2>1
<1>9. r * P \in Nat /\ r * P <= B - P
  <2>1. r * P <= (Q - 1) * P
    BY <1>3
  <2>2. (Q - 1) * P = P * Q - P
    BY <1>3
  <2> QED
    BY <1>3, <1>4, <2>1, <2>2
<1>10. PICK z \in Nat : z = r * P
  BY <1>9
<1>11. z \in 0..(B - 1) /\ B \in Nat \ {0}
  BY <1>3, <1>9, <1>10
<1>12. (B * q + z) % B = z
  BY <1>11, DivMod
<1>13. lo = z /\ hi = q
  <2>1. lo = (u * P) % B /\ hi = u \div Q
    BY <1>2, <1>3 DEF ShiftsInto
  <2> QED
    BY <1>6, <1>8, <1>10, <1>12, <2>1
<1>14. \A h \in 0..(P - 1) : z + h \in 0..(B - 1)
  BY <1>3, <1>9, <1>10
<1>15. u * P = z + B * q
  BY <1>3, <1>8, <1>10
<1>16. hi \in 0..(P - 1)
  BY <1>3, <1>7, <1>13
<1> QED
  BY <1>3, <1>10, <1>13, <1>14, <1>15, <1>16, LimbFacts

(* The number shifted by limbs and bits, limb by limb: hi and lo are the   *)
(* parts of each limb of the original.                                     *)
Shifted(d, n, limbs, bits, len, lo, hi, D) ==
  /\ n \in Nat /\ limbs \in Nat /\ bits \in Nat /\ bits < 2 * HalfBits
  /\ len = n + limbs + (IF bits > 0 THEN 1 ELSE 0)
  /\ lo \in [Int -> Nat] /\ hi \in [Int -> Nat]
  /\ \A i \in Int : i \notin 1..n => lo[i] = 0 /\ hi[i] = 0
  /\ \A i \in 1..n : ShiftsInto(d[i], bits, lo[i], hi[i])
  /\ D = [k \in 1..len |-> lo[k - limbs] + hi[k - limbs - 1]]

LEMMA ShiftedValue ==
  ASSUME NEW d \in Seq(Limbs), NEW n, n = Len(d), NEW limbs, NEW bits, NEW len, NEW lo, NEW hi, NEW D,
         Shifted(d, n, limbs, bits, len, lo, hi, D)
  PROVE  /\ D \in Seq(Limbs) /\ Len(D) = len
         /\ Magnitude(D) = Magnitude(d) * (Pow[limbs * (2 * HalfBits)] * Pow[bits])
<1> DEFINE W == 2 * HalfBits
<1>0. /\ W \in Nat /\ W >= 2 /\ Base = Pow[W] /\ Base \in Nat /\ Base >= 4
  BY LimbWidth, PowIs, LimbFacts
<1> HIDE DEF W
<1>n. /\ n \in Nat /\ limbs \in Nat /\ bits \in Nat /\ bits < W
      /\ len = n + limbs + (IF bits > 0 THEN 1 ELSE 0)
  BY DEF Shifted, W
<1>1. /\ lo \in [Int -> Nat] /\ hi \in [Int -> Nat]
      /\ \A i \in Int : i \notin 1..n => lo[i] = 0 /\ hi[i] = 0
      /\ \A i \in 1..n : ShiftsInto(d[i], bits, lo[i], hi[i])
      /\ D = [k \in 1..len |-> lo[k - limbs] + hi[k - limbs - 1]]
  BY DEF Shifted, W
<1>2. PICK P : P = Pow[bits] /\ P \in Nat /\ P >= 1
  BY <1>n, <1>1, PowFacts
<1>3. \A i \in 1..n : d[i] \in Limbs
  BY <1>n, <1>1
<1>4. ASSUME NEW i \in Int
      PROVE  /\ \A h \in 0..(P - 1) : lo[i] + h \in Limbs
             /\ hi[i] \in 0..(P - 1)
             /\ i >= 1 => lo[i] + Base * hi[i] = Limb(d, i) * P
  <2>1. CASE i \in 1..n
    <3>1. Limb(d, i) = d[i]
      BY <2>1, LimbIsLimb
    <3>2. ShiftsInto(d[i], bits, lo[i], hi[i]) /\ d[i] \in Limbs /\ bits < 2 * HalfBits
      BY <1>n, <1>1, <1>3, <2>1 DEF W
    <3>3. /\ lo[i] + Base * hi[i] = d[i] * Pow[bits]
          /\ \A h \in 0..(Pow[bits] - 1) : lo[i] + h \in Limbs
          /\ hi[i] \in 0..(Pow[bits] - 1)
      BY <1>n, <3>2, ShiftedLimb
    <3> QED
      BY <1>2, <3>1, <3>3
  <2>2. CASE i \notin 1..n
    <3>1. lo[i] = 0 /\ hi[i] = 0
      BY <1>n, <1>1, <2>2
    <3>2. i >= 1 => Limb(d, i) = 0
      <4>1. i >= 1 => i \in Nat \ {0} /\ i > Len(d)
        BY <1>n, <2>2
      <4> QED
        BY <4>1, LimbIsLimb
    <3>3. P - 1 < Base
      <4>1. Pow[bits] <= Pow[W]
        BY <1>0, <1>n, <1>1, PowMonotone
      <4> QED
        BY <1>0, <1>2, <4>1
    <3>4. \A h \in 0..(P - 1) : 0 + h \in Limbs
      BY <1>0, <1>2, <3>3, LimbFacts
    <3> QED
      BY <1>0, <1>2, <3>1, <3>2, <3>4
  <2> QED
    BY <2>1, <2>2
<1>5. len \in Nat /\ limbs <= len
  BY <1>n
<1>6. ASSUME NEW k \in 1..len
      PROVE  D[k] \in Limbs /\ D[k] = lo[k - limbs] + hi[k - limbs - 1]
  <2>1. k - limbs \in Int /\ k - limbs - 1 \in Int
    BY <1>n, <1>1
  <2>2. PICK i, j \in Int : i = k - limbs /\ j = k - limbs - 1
    BY <2>1
  <2>3. lo[i] + hi[j] \in Limbs
    BY <1>4
  <2> QED
    BY <1>n, <1>1, <2>2, <2>3
<1>7. D \in Seq(Limbs) /\ Len(D) = len
  <2>1. D \in [1..len -> Limbs]
    BY <1>n, <1>1, <1>6
  <2> QED
    BY <1>5, <2>1
<1>8. PICK v : Values(d, n, v) /\ v[0] = Magnitude(d)
  BY MagnitudeOwn
<1>9. v \in [0..n -> Nat] /\ v[n] = 0 /\ \A i \in 1..n : v[i - 1] = Limb(d, i) + Base * v[i]
  BY <1>8 DEF Values
<1>10. PICK M \in Nat : M = Magnitude(d)
  BY MagnitudeNat
<1> DEFINE up(j) == IF j > n THEN 0 ELSE v[j]
           w == [j \in 0..len |-> IF j <= limbs THEN Pow[(limbs - j) * W] * (P * M)
                                  ELSE hi[j - limbs] + P * up(j - limbs)]
<1>11. \A j \in Nat : up(j) \in Nat
  <2>1. \A j \in Nat : ~(j > n) => j \in 0..n
    BY <1>n
  <2> QED
    BY <1>9, <2>1
<1>12. \A i \in Nat : i >= 1 => up(i - 1) = Limb(d, i) + Base * up(i)
  <2>1. ASSUME NEW i \in Nat, i >= 1
        PROVE  up(i - 1) = Limb(d, i) + Base * up(i)
    <3>1. CASE i <= n
      <4>0. i \in 1..n /\ ~(i - 1 > n) /\ ~(i > n)
        BY <1>n, <2>1, <3>1
      <4>1. i \in 1..n /\ up(i - 1) = v[i - 1] /\ up(i) = v[i]
        BY <4>0
      <4> QED
        BY <1>9, <4>1
    <3>2. CASE i > n
      <4>1. up(i - 1) = 0 /\ up(i) = 0
        <5>1. i - 1 > n \/ i - 1 = n
          BY <1>n, <2>1, <3>2
        <5> QED
          BY <1>n, <1>1, <1>9, <3>2, <5>1
      <4>2. Limb(d, i) = 0
        BY <1>n, <1>1, <2>1, <3>2, LimbIsLimb
      <4> QED
        BY <1>0, <4>1, <4>2
    <3> QED
      BY <1>n, <1>1, <2>1, <3>1, <3>2
  <2> QED
    BY <2>1
<1>13. up(0) = M
  BY <1>n, <1>1, <1>8, <1>10
<1> HIDE DEF up
<1>14. ASSUME NEW j \in 0..len
       PROVE  w[j] \in Nat
  <2>1. CASE j <= limbs
    <3>1. limbs - j \in Nat /\ (limbs - j) * W \in Nat
      <4>1. PICK c \in Nat : c = limbs - j
        BY <1>n, <1>1, <2>1
      <4>2. c * W \in Nat
        BY <1>0
      <4> QED
        BY <4>1, <4>2
    <3>2. PICK p \in Nat : p = Pow[(limbs - j) * W]
      BY <3>1, PowFacts
    <3>3. p * (P * M) \in Nat
      BY <1>2
    <3> QED
      BY <2>1, <3>2, <3>3
  <2>2. CASE ~(j <= limbs)
    <3>1. j - limbs \in Nat /\ j - limbs \in Int
      BY <1>n, <1>1, <2>2
    <3>2. PICK e, f \in Nat : e = hi[j - limbs] /\ f = up(j - limbs)
      BY <1>n, <1>1, <1>11, <3>1
    <3>3. e + P * f \in Nat
      BY <1>2
    <3> QED
      BY <2>2, <3>2, <3>3
  <2> QED
    BY <2>1, <2>2
<1>15. ASSUME NEW j \in 1..len
       PROVE  w[j - 1] = Limb(D, j) + Base * w[j]
  <2>0. Limb(D, j) = D[j] /\ j - 1 \in 0..len /\ j \in 0..len
    BY <1>5, <1>7, LimbIsLimb
  <2>1. CASE j <= limbs
    <3>1. PICK c \in Nat : c = limbs - j
      BY <1>n, <1>1, <2>1
    <3>2. limbs - (j - 1) = c + 1
      BY <1>n, <1>1, <3>1
    <3>3. w[j] = Pow[c * W] * (P * M) /\ w[j - 1] = Pow[(c + 1) * W] * (P * M)
      BY <1>n, <1>1, <2>0, <2>1, <3>1, <3>2
    <3>4. Pow[(c + 1) * W] = Base * Pow[c * W] /\ Pow[c * W] \in Nat
      <4>1. c * W \in Nat /\ (c + 1) * W = W + c * W
        BY <1>0
      <4>2. PICK e \in Nat : e = c * W
        BY <4>1
      <4>3. Pow[W + e] = Pow[W] * Pow[e] /\ Pow[e] \in Nat
        BY <1>0, PowAdds, PowFacts
      <4> QED
        BY <1>0, <4>1, <4>2, <4>3
    <3>5. PICK p, m \in Nat : p = Pow[c * W] /\ m = P * M
      BY <1>2, <3>4
    <3>6. (Base * p) * m = Base * (p * m)
      BY <1>0
    <3>7. D[j] = 0
      <4>1. j - limbs \in Int /\ j - limbs - 1 \in Int /\ j - limbs \notin 1..n /\ j - limbs - 1 \notin 1..n
        BY <1>n, <2>1
      <4>2. lo[j - limbs] = 0 /\ hi[j - limbs - 1] = 0
        BY <1>1, <4>1
      <4> QED
        BY <1>6, <4>2
    <3>8. w[j] = p * m /\ w[j - 1] = Base * (p * m) /\ p * m \in Nat
      BY <3>3, <3>4, <3>5, <3>6
    <3> QED
      BY <1>0, <2>0, <3>7, <3>8
  <2>2. CASE ~(j <= limbs)
    <3>1. PICK i \in Nat : i = j - limbs /\ i >= 1
      BY <1>n, <1>1, <2>2
    <3>2. w[j] = hi[i] + P * up(i)
      BY <1>n, <1>1, <2>0, <2>2, <3>1
    <3>3. w[j - 1] = hi[i - 1] + P * up(i - 1)
      <4>1. CASE j - 1 <= limbs
        <5>1. j - 1 = limbs /\ i = 1 /\ limbs - (j - 1) = 0
          BY <1>n, <1>1, <2>2, <3>1, <4>1
        <5>2. hi[i - 1] = 0
          BY <1>n, <1>1, <5>1
        <5>3. w[j - 1] = Pow[0 * W] * (P * M)
          BY <2>0, <4>1, <5>1
        <5>4. 0 * W = 0 /\ Pow[0] = 1
          BY <1>0, PowFacts
        <5>5. 1 * (P * M) = P * M /\ P * M \in Nat
          BY <1>2
        <5>6. w[j - 1] = P * M
          BY <5>3, <5>4, <5>5
        <5>7. up(i - 1) = M
          BY <1>13, <5>1
        <5> QED
          BY <5>2, <5>5, <5>6, <5>7
      <4>2. CASE ~(j - 1 <= limbs)
        <5>1. (j - 1) - limbs = i - 1
          BY <1>n, <1>1, <3>1
        <5> QED
          BY <2>0, <4>2, <5>1
      <4> QED
        BY <4>1, <4>2
    <3>4. D[j] = lo[i] + hi[i - 1]
      BY <1>6, <3>1
    <3>5. i \in Int /\ lo[i] + Base * hi[i] = Limb(d, i) * P
      BY <1>4, <3>1
    <3>6. up(i - 1) = Limb(d, i) + Base * up(i)
      BY <1>12, <3>1
    <3>7. PICK l, h, g, f, u \in Nat : l = lo[i] /\ h = hi[i] /\ g = hi[i - 1] /\ f = up(i) /\ u = Limb(d, i)
      <4>1. i - 1 \in Int /\ i \in Int /\ i \in Nat \ {0}
        BY <3>1
      <4>2. lo[i] \in Nat /\ hi[i] \in Nat /\ hi[i - 1] \in Nat /\ up(i) \in Nat /\ Limb(d, i) \in Nat
        BY <1>n, <1>1, <1>11, <4>1, LimbIsLimb, LimbFacts
      <4> QED
        BY <4>2
    <3>8. l + Base * h = u * P
      BY <3>5, <3>7
    <3>9. P * (u + Base * f) = u * P + Base * (P * f)
      BY <1>0, <1>2, SMTT(60)
    <3>10. Base * (h + P * f) = Base * h + Base * (P * f)
      BY <1>0, <1>2
    <3>11. PICK a1, a2 \in Nat : a1 = Base * h /\ a2 = Base * (P * f)
      BY <1>0, <1>2
    <3>12. g + P * (u + Base * f) = (l + g) + Base * (h + P * f)
      BY <3>8, <3>9, <3>10, <3>11
    <3> QED
      BY <2>0, <3>2, <3>3, <3>4, <3>6, <3>7, <3>12
  <2> QED
    BY <2>1, <2>2
<1>16. w[len] = 0
  <2>1. len \in 0..len
    BY <1>5
  <2>2. CASE bits > 0
    <3>1. len - limbs = n + 1 /\ ~(len <= limbs)
      BY <1>n, <1>1, <2>2
    <3>2. hi[n + 1] = 0 /\ up(n + 1) = 0
      <4>1. n + 1 \in Int /\ n + 1 \notin 1..n /\ n + 1 > n
        BY <1>n
      <4> QED
        BY <1>n, <1>1, <4>1 DEF up
    <3>3. w[len] = hi[n + 1] + P * up(n + 1)
      BY <2>1, <3>1
    <3> QED
      BY <1>2, <3>2, <3>3
  <2>3. CASE ~(bits > 0)
    <3>1. len - limbs = n /\ bits = 0 /\ P = 1 /\ len = n + limbs
      BY <1>n, <1>1, <1>2, <2>3, PowFacts
    <3>2. up(n) = 0
      BY <1>n, <1>1, <1>9 DEF up
    <3>3. CASE n = 0
      <4>1. len <= limbs /\ limbs - len = 0 /\ M = 0
        BY <1>n, <1>1, <1>13, <3>1, <3>2, <3>3
      <4>2. w[len] = Pow[0 * W] * (P * M)
        BY <2>1, <4>1
      <4>3. 0 * W = 0 /\ Pow[0] = 1 /\ P * M = 0 /\ 1 * 0 = 0
        <5>1. Pow[0] = 1
          BY PowFacts
        <5>2. P * M = 0
          BY <1>2, <4>1
        <5> QED
          BY <1>0, <5>1, <5>2
      <4> QED
        BY <4>2, <4>3
    <3>4. CASE n # 0
      <4>1. ~(len <= limbs)
        BY <1>n, <1>1, <3>1, <3>4
      <4>2. hi[n] \in 0..(P - 1) /\ n \in Int
        BY <1>n, <1>1, <1>4
      <4>3. hi[n] = 0
        BY <3>1, <4>2
      <4>4. w[len] = hi[n] + P * up(n)
        BY <2>1, <3>1, <4>1
      <4> QED
        BY <1>2, <3>2, <4>3, <4>4
    <3> QED
      BY <3>3, <3>4
  <2> QED
    BY <2>2, <2>3
<1>17. w \in [0..len -> Int]
  <2>1. w = [j \in 0..len |-> w[j]]
    OBVIOUS
  <2>2. \A j \in 0..len : w[j] \in Int
    BY <1>14
  <2> HIDE DEF w
  <2> QED
    BY <2>1, <2>2
<1>18. w[0] = Magnitude(D)
  <2> HIDE DEF w
  <2>1. Len(D) <= len
    BY <1>5, <1>7
  <2> QED
    BY <1>5, <1>7, <1>15, <1>16, <1>17, <2>1, MagnitudeIs
<1>19. w[0] = Pow[limbs * W] * (P * M)
  <2>1. 0 \in 0..len /\ 0 <= limbs /\ limbs - 0 = limbs
    BY <1>n, <1>1, <1>5
  <2> QED
    BY <2>1
<1>20. PICK p \in Nat : p = Pow[limbs * W]
  <2>1. limbs * W \in Nat
    BY <1>0, <1>n, <1>1
  <2> QED
    BY <2>1, PowFacts
<1>21. p * (P * M) = M * (p * P)
  BY <1>2
<1> QED
  BY <1>2, <1>7, <1>10, <1>18, <1>19, <1>20, <1>21 DEF W

(* Shifted to the left, a number is multiplied by a power of two.          *)
LEMMA ShlAbsExact ==
  ASSUME NEW a, Trimmed(a), NEW shift \in Nat
  PROVE  /\ Trimmed(ShlAbs(a, shift))
         /\ Magnitude(ShlAbs(a, shift).data) = Magnitude(a.data) * Pow[shift]
<1> DEFINE W == 2 * HalfBits
           d == a.data
           n == Len(a.data)
           limbs == shift \div (2 * HalfBits)
           bits == shift % (2 * HalfBits)
           high(i) == IF i \in 1..n THEN a.data[i] \div 2 ^ (2 * HalfBits - bits) ELSE 0
           low(i) == IF i \in 1..n THEN (a.data[i] * 2 ^ bits) % Base ELSE 0
           len == n + limbs + (IF bits > 0 THEN 1 ELSE 0)
           D == [k \in 1..len |-> low(k - limbs) + high(k - limbs - 1)]
           lo == [i \in Int |-> low(i)]
           hi == [i \in Int |-> high(i)]
<1>1. a \in Bigs /\ d \in Seq(Limbs) /\ n \in Nat /\ a.sign \in {1, -1}
  BY BigFacts DEF Trimmed
<1>2. W \in Nat \ {0} /\ W = 2 * HalfBits
  BY LimbWidth
<1>3. bits \in 0..(W - 1) /\ limbs \in Nat /\ shift = W * limbs + bits
  BY <1>2, DivModExists
<1>4. ShlAbs(a, shift) = IF shift = 0 THEN a ELSE Normalize(Big(a.sign, D))
  BY DEF ShlAbs
<1>5. bits \in Nat /\ bits < W /\ bits \in 0..W /\ W - bits \in 0..W
  BY <1>2, <1>3
<1>6. 2 ^ bits = Pow[bits] /\ 2 ^ (W - bits) = Pow[W - bits]
  <2> HIDE DEF bits
  <2> QED
    BY <1>5, PowIs
<1>7. \A i \in 1..n : d[i] \in Limbs /\ d[i] \in Nat
  BY <1>1, LimbFacts
<1>8. \A i \in Int : i \notin 1..n => lo[i] = 0 /\ hi[i] = 0
  OBVIOUS
<1>9. \A i \in 1..n : ShiftsInto(d[i], bits, lo[i], hi[i])
  <2>1. ASSUME NEW i \in 1..n
        PROVE  ShiftsInto(d[i], bits, lo[i], hi[i])
    <3>1. lo[i] = (d[i] * 2 ^ bits) % Base /\ hi[i] = d[i] \div 2 ^ (2 * HalfBits - bits)
      <4>1. i \in Int
        BY <1>1
      <4>2. lo[i] = low(i) /\ hi[i] = high(i)
        BY <4>1
      <4> HIDE DEF lo, hi, bits
      <4> QED
        BY <4>2
    <3> HIDE DEF lo, hi, d, bits
    <3> QED
      BY <1>6, <3>1 DEF ShiftsInto
  <2> QED
    BY <2>1
<1>10. lo \in [Int -> Nat] /\ hi \in [Int -> Nat]
  <2>1. ASSUME NEW i \in 1..n
        PROVE  lo[i] \in Nat /\ hi[i] \in Nat
    <3> HIDE DEF lo, hi, d, bits, n
    <3> QED
      BY <1>2, <1>5, <1>7, <1>9, ShiftedLimb
  <2>2. \A i \in Int : lo[i] \in Nat /\ hi[i] \in Nat
    <3> HIDE DEF lo, hi
    <3> QED
      BY <1>8, <2>1
  <2>3. lo = [i \in Int |-> lo[i]] /\ hi = [i \in Int |-> hi[i]]
    OBVIOUS
  <2> HIDE DEF lo, hi
  <2> QED
    BY <2>2, <2>3
<1>11. D = [k \in 1..len |-> lo[k - limbs] + hi[k - limbs - 1]]
  <2>1. ASSUME NEW k \in 1..len
        PROVE  low(k - limbs) = lo[k - limbs] /\ high(k - limbs - 1) = hi[k - limbs - 1]
    <3>1. k \in Int /\ limbs \in Int
      BY <1>1, <1>3
    <3>2. k - limbs \in Int /\ k - limbs - 1 \in Int
      <4> HIDE DEF limbs, len
      <4> QED
        BY <3>1
    <3> HIDE DEF low, high, limbs, len
    <3> QED
      BY <3>2
  <2> HIDE DEF low, high, lo, hi, limbs, len
  <2> QED
    BY <2>1
<1>12. Shifted(d, n, limbs, bits, len, lo, hi, D)
  <2>1. len = n + limbs + (IF bits > 0 THEN 1 ELSE 0)
    OBVIOUS
  <2> HIDE DEF d, n, limbs, bits, len, lo, hi, D
  <2> QED
    BY <1>1, <1>2, <1>3, <1>5, <1>8, <1>9, <1>10, <1>11, <2>1 DEF Shifted
<1>13. /\ D \in Seq(Limbs)
       /\ Magnitude(D) = Magnitude(d) * (Pow[limbs * (2 * HalfBits)] * Pow[bits])
  <2>1. n = Len(d)
    OBVIOUS
  <2> HIDE DEF d, n, limbs, bits, len, lo, hi, D
  <2> QED
    BY <1>1, <1>12, <2>1, ShiftedValue
<1>14. Pow[shift] = Pow[limbs * (2 * HalfBits)] * Pow[bits]
  <2>1. PICK e \in Nat : e = limbs * W
    <3> HIDE DEF limbs, W
    <3> QED
      BY <1>2, <1>3
  <2>2. W * limbs = limbs * W
    <3> HIDE DEF limbs, W
    <3> QED
      BY <1>2, <1>3
  <2> HIDE DEF limbs, bits
  <2>3. Pow[e + bits] = Pow[e] * Pow[bits]
    BY <1>5, PowAdds
  <2> QED
    BY <1>3, <2>1, <2>2, <2>3
<1>15. CASE shift = 0
  <2>1. ShlAbs(a, shift) = a
    BY <1>4, <1>15
  <2>2. Magnitude(d) * 1 = Magnitude(d)
    BY <1>1, MagnitudeNat
  <2>3. Pow[shift] = 1
    BY <1>15, PowFacts
  <2> QED
    BY <2>1, <2>2, <2>3
<1>16. CASE shift # 0
  <2> HIDE DEF d, n, limbs, bits, len, lo, hi, D
  <2>1. Big(a.sign, D) \in Bigs /\ Big(a.sign, D).data = D
    BY <1>1, <1>13, BigFacts
  <2>2. Proper(Normalize(Big(a.sign, D))) /\ Magnitude(Normalize(Big(a.sign, D)).data) = Magnitude(D)
    BY <2>1, NormalizeKeeps
  <2>3. ShlAbs(a, shift) = Normalize(Big(a.sign, D))
    BY <1>4, <1>16
  <2>4. Trimmed(ShlAbs(a, shift))
    BY <2>2, <2>3, ProperIsTrimmed
  <2>5. Magnitude(ShlAbs(a, shift).data) = Magnitude(d) * Pow[shift]
    BY <1>13, <1>14, <2>2, <2>3
  <2> QED
    BY <2>4, <2>5 DEF d
<1> QED
  BY <1>15, <1>16

(* Shifted to the right by one bit, a number is halved.                    *)
LEMMA HalfOfLimbs ==
  ASSUME NEW h \in Nat \ {0}, NEW d \in 0..(2 * h - 1), NEW u \in Nat
  PROVE  /\ (d + (2 * h) * u) \div 2 = (d \div 2 + (u % 2) * h) + (2 * h) * (u \div 2)
         /\ d \div 2 + (u % 2) * h \in 0..(2 * h - 1)
<1>1. PICK q \in Nat, r \in {0, 1} : u = 2 * q + r /\ u % 2 = r /\ u \div 2 = q
  OBVIOUS
<1>2. PICK e \in Nat, s \in {0, 1} : d = 2 * e + s /\ d \div 2 = e
  OBVIOUS
<1>3. e <= h - 1
  BY <1>2
<1>4. (2 * h) * u = 2 * ((2 * h) * q + r * h)
  <2>1. (2 * h) * (2 * q + r) = 2 * ((2 * h) * q + r * h)
    OBVIOUS
  <2> QED
    BY <1>1, <2>1
<1>5. PICK z \in Nat : z = (2 * h) * q + r * h
  <2>1. (2 * h) * q \in Nat
    OBVIOUS
  <2>2. r * h \in Nat
    OBVIOUS
  <2> QED
    BY <2>1, <2>2
<1>6. (d + 2 * z) \div 2 = e + z
  BY <1>2
<1>7. PICK y1, y2 \in Nat : y1 = (2 * h) * q /\ y2 = r * h /\ (y2 = 0 \/ y2 = h)
  <2>1. r * h = 0 \/ r * h = h
    OBVIOUS
  <2> QED
    BY <2>1
<1>8. e + z = (e + y2) + y1
  BY <1>5, <1>7
<1>9. e + y2 \in 0..(2 * h - 1)
  BY <1>3, <1>7
<1> QED
  BY <1>1, <1>2, <1>4, <1>5, <1>6, <1>7, <1>8, <1>9

LEMMA BaseIsEven == \E h \in Nat \ {0} : Base = 2 * h /\ Base \div 2 = h
<1>1. 2 * HalfBits - 1 \in Nat /\ (2 * HalfBits - 1) + 1 = 2 * HalfBits
  BY LimbWidth
<1>2. Pow[2 * HalfBits] = 2 * Pow[2 * HalfBits - 1] /\ Pow[2 * HalfBits - 1] \in Nat
      /\ Pow[2 * HalfBits - 1] >= 1
  BY <1>1, PowFacts
<1>3. Base = Pow[2 * HalfBits]
  BY PowIs
<1>4. PICK h : h = Pow[2 * HalfBits - 1]
  OBVIOUS
<1>5. h \in Nat \ {0} /\ Base = 2 * h
  BY <1>2, <1>3, <1>4
<1>6. (2 * h) \div 2 = h
  BY <1>5
<1> QED
  BY <1>5, <1>6

LEMMA Shr1AbsExact ==
  ASSUME NEW a, Trimmed(a)
  PROVE  /\ Trimmed(Shr1Abs(a))
         /\ Magnitude(Shr1Abs(a).data) = Magnitude(a.data) \div 2
<1> DEFINE d == a.data
           n == Len(a.data)
           half(i) == a.data[i] \div 2 + (Limb(a.data, i + 1) % 2) * (Base \div 2)
           D == [i \in DOMAIN a.data |-> half(i)]
<1>1. a \in Bigs /\ d \in Seq(Limbs) /\ n \in Nat /\ a.sign \in {1, -1} /\ DOMAIN a.data = 1..n
      /\ n = Len(d)
  BY BigFacts DEF Trimmed
<1>2. Shr1Abs(a) = Normalize(Big(a.sign, D))
  BY DEF Shr1Abs
<1>3. PICK h \in Nat \ {0} : Base = 2 * h /\ Base \div 2 = h
  BY BaseIsEven
<1>4. PICK v : Values(d, n, v) /\ v[0] = Magnitude(d)
  BY <1>1, MagnitudeOwn
<1>5. D = [i \in 1..n |-> half(i)]
  BY <1>1
<1> HIDE DEF d, n
<1>6. v \in [0..n -> Nat] /\ v[n] = 0 /\ \A i \in 1..n : v[i - 1] = Limb(d, i) + Base * v[i]
  BY <1>4 DEF Values
<1>7. \A i \in 1..n : v[i] \in Nat /\ d[i] \in 0..(2 * h - 1) /\ Limb(d, i) = d[i]
  <2>1. ASSUME NEW i \in 1..n
        PROVE  v[i] \in Nat /\ d[i] \in 0..(2 * h - 1) /\ Limb(d, i) = d[i]
    <3>1. i \in 0..n /\ i \in Nat \ {0} /\ i <= Len(d)
      BY <1>1
    <3>2. v[i] \in Nat /\ Limb(d, i) \in Limbs /\ Limb(d, i) = d[i]
      BY <1>1, <1>6, <3>1, LimbIsLimb
    <3> QED
      BY <1>3, <3>2, LimbFacts
  <2> QED
    BY <2>1
<1>8. ASSUME NEW i \in 1..n
      PROVE  Limb(d, i + 1) % 2 = v[i] % 2
  <2>1. CASE i = n
    <3>1. Limb(d, i + 1) = 0
      BY <1>1, <2>1, LimbIsLimb
    <3> QED
      BY <1>6, <2>1, <3>1
  <2>2. CASE i # n
    <3>1. i + 1 \in 1..n /\ (i + 1) - 1 = i
      BY <1>1, <2>2
    <3>2. v[i] = Limb(d, i + 1) + Base * v[i + 1] /\ v[i + 1] \in Nat /\ Limb(d, i + 1) \in Nat
      BY <1>3, <1>6, <1>7, <3>1
    <3>3. PICK u, l \in Nat : u = v[i + 1] /\ l = Limb(d, i + 1)
      BY <3>2
    <3>4. (2 * h) * u = 2 * (h * u) /\ h * u \in Nat
      BY <1>3
    <3>5. PICK z \in Nat : z = h * u
      BY <3>4
    <3>6. v[i] = l + 2 * z
      BY <1>3, <3>2, <3>3, <3>4, <3>5
    <3>7. (l + 2 * z) % 2 = l % 2
      OBVIOUS
    <3> QED
      BY <3>3, <3>6, <3>7
  <2> QED
    BY <2>1, <2>2
<1>9. ASSUME NEW i \in 1..n
      PROVE  /\ D[i] \in Limbs
             /\ v[i - 1] \div 2 = D[i] + Base * (v[i] \div 2)
  <2>1. PICK u \in Nat, e \in 0..(2 * h - 1) : u = v[i] /\ e = d[i]
    BY <1>7
  <2>2. D[i] = e \div 2 + (u % 2) * h
    <3>1. D[i] = half(i)
      BY <1>5
    <3>2. half(i) = d[i] \div 2 + (Limb(d, i + 1) % 2) * h
      BY <1>3 DEF d
    <3> HIDE DEF D, half
    <3> QED
      BY <1>8, <2>1, <3>1, <3>2
  <2>3. v[i - 1] = e + (2 * h) * u
    BY <1>3, <1>6, <1>7, <2>1
  <2>4. /\ (e + (2 * h) * u) \div 2 = (e \div 2 + (u % 2) * h) + (2 * h) * (u \div 2)
        /\ e \div 2 + (u % 2) * h \in 0..(2 * h - 1)
    BY HalfOfLimbs
  <2> HIDE DEF D
  <2> QED
    BY <1>3, <2>1, <2>2, <2>3, <2>4, LimbFacts
<1>10. D \in Seq(Limbs) /\ Len(D) = n
  <2>1. D \in [1..n -> Limbs]
    <3> HIDE DEF half
    <3> QED
      BY <1>5, <1>9
  <2> HIDE DEF D
  <2> QED
    BY <1>1, <2>1
<1> DEFINE w == [j \in 0..n |-> v[j] \div 2]
<1>11. Magnitude(D) = Magnitude(d) \div 2
  <2>1. w \in [0..n -> Int]
    <3>1. \A j \in 0..n : v[j] \in Nat
      BY <1>6
    <3>2. \A j \in 0..n : v[j] \div 2 \in Int
      BY <3>1
    <3> QED
      BY <3>2
  <2>2. w[n] = 0 /\ w[0] = v[0] \div 2
    <3>1. n \in 0..n /\ 0 \in 0..n /\ 0 \div 2 = 0
      BY <1>1
    <3> QED
      BY <1>6, <3>1
  <2>3. \A i \in 1..n : w[i - 1] = Limb(D, i) + Base * w[i]
    <3>1. ASSUME NEW i \in 1..n
          PROVE  w[i - 1] = Limb(D, i) + Base * w[i]
      <4>1. i - 1 \in 0..n /\ i \in 0..n /\ i \in Nat \ {0} /\ i <= Len(D)
        BY <1>1, <1>10
      <4>2. w[i - 1] = v[i - 1] \div 2 /\ w[i] = v[i] \div 2
        BY <4>1
      <4>3. Limb(D, i) = D[i]
        <5> HIDE DEF D
        <5> QED
          BY <1>10, <4>1, LimbIsLimb
      <4> HIDE DEF w, D
      <4> QED
        BY <1>9, <4>2, <4>3
    <3> QED
      BY <3>1
  <2> HIDE DEF w, D
  <2>4. w[0] = Magnitude(D)
    <3>1. Len(D) <= n
      BY <1>1, <1>10
    <3> QED
      BY <1>1, <1>10, <2>1, <2>2, <2>3, <3>1, MagnitudeIs
  <2> QED
    BY <1>4, <2>2, <2>4
<1> HIDE DEF D
<1>12. Big(a.sign, D) \in Bigs /\ Big(a.sign, D).data = D
  BY <1>1, <1>10, BigFacts
<1>13. Proper(Normalize(Big(a.sign, D))) /\ Magnitude(Normalize(Big(a.sign, D)).data) = Magnitude(D)
  BY <1>12, NormalizeKeeps
<1>14. Trimmed(Shr1Abs(a))
  BY <1>2, <1>13, ProperIsTrimmed
<1> QED
  BY <1>2, <1>11, <1>13, <1>14 DEF d

(* A recursion that keeps its values in the sets I[i].                     *)
Stays(F, c, I, S, n) ==
  /\ I \in [0..n -> SUBSET S] /\ c \in I[0]
  /\ \A i \in 1..n, s \in S : s \in I[i - 1] => F[<<s, i>>] \in I[i]

LEMMA GuardedRecursion ==
  ASSUME NEW n \in Nat, NEW S, NEW c, NEW F, NEW I, Stays(F, c, I, S, n)
  PROVE  \E g : /\ g \in [0..n -> S] /\ g[0] = c
                /\ \A i \in 1..n : g[i] = F[<<g[i - 1], i>>]
                /\ \A i \in 0..n : g[i] \in I[i]
<1>1. /\ I \in [0..n -> SUBSET S] /\ c \in I[0]
      /\ \A i \in 1..n, s \in S : s \in I[i - 1] => F[<<s, i>>] \in I[i]
  BY DEF Stays
<1>2. c \in S /\ \A i \in 0..n : \A s : s \in I[i] => s \in S
  <2>1. 0 \in 0..n
    OBVIOUS
  <2> QED
    BY <1>1, <2>1
<1> DEFINE G == [p \in S \X (1..n) |-> IF F[p] \in S THEN F[p] ELSE c]
<1>3. StepOn(G, S, n)
  BY <1>2 DEF StepOn
<1>4. \A i \in 1..n, s \in S : F[<<s, i>>] \in S => G[<<s, i>>] = F[<<s, i>>]
  OBVIOUS
<1> HIDE DEF G
<1>5. PICK g : Solution(g, c, G, S, n)
  BY <1>2, <1>3, Recursion
<1>6. g \in [0..n -> S] /\ g[0] = c /\ \A i \in 1..n : g[i] = G[<<g[i - 1], i>>]
  BY <1>5 DEF Solution
<1> DEFINE T == {i \in 0..n : g[i] \in I[i] /\ (i = 0 \/ g[i] = F[<<g[i - 1], i>>])}
<1>7. 0 \in T
  BY <1>1, <1>6
<1>8. ASSUME NEW i \in 1..n, i - 1 \in T
      PROVE  i \in T
  <2>1. i - 1 \in 0..n /\ i \in 0..n /\ g[i - 1] \in S /\ g[i - 1] \in I[i - 1]
    BY <1>6, <1>8
  <2>2. PICK s \in S : s = g[i - 1]
    BY <2>1
  <2>3. F[<<s, i>>] \in I[i] /\ F[<<s, i>>] \in S
    BY <1>1, <1>2, <2>1, <2>2
  <2>4. g[i] = F[<<s, i>>]
    BY <1>4, <1>6, <2>2, <2>3
  <2> QED
    BY <2>1, <2>2, <2>3, <2>4
<1>9. 0..n \subseteq T
  <2> HIDE DEF T
  <2> QED
    BY <1>7, <1>8, Upwards
<1>10. \A i \in 1..n : g[i] = F[<<g[i - 1], i>>]
  <2>1. \A i \in 1..n : i \in 0..n /\ i # 0
    OBVIOUS
  <2> QED
    BY <1>9, <2>1
<1> QED
  BY <1>6, <1>9, <1>10

-----------------------------------------------------------------------------
(* f[c] is what the bits of S from c on say.                               *)
Bit(c, S) == IF c \in S THEN 1 ELSE 0
BitsFrom(f, S) == f \in [Nat -> Nat] /\ \A c \in Nat : f[c] = 2 * f[c + 1] + Bit(c, S)

LEMMA BitSumIs ==
  ASSUME NEW S
  PROVE  \E s : /\ s \in [0..(2 * HalfBits) -> Nat] /\ s[0] = 0
                /\ \A i \in 1..(2 * HalfBits) : s[i] = s[i - 1] + Bit(i - 1, S) * Pow[i - 1]
                /\ BitSum(S) = s[2 * HalfBits]
<1> DEFINE W == 2 * HalfBits
           F(f) == [i \in 0..(2 * HalfBits) |->
                     IF i = 0 THEN 0 ELSE f[i - 1] + (IF i - 1 \in S THEN 2 ^ (i - 1) ELSE 0)]
           t == CHOOSE f : f = F(f)
           G == [p \in Nat \X (1..W) |-> p[1] + Bit(p[2] - 1, S) * Pow[p[2] - 1]]
           I == [i \in 0..W |-> Nat]
<1>1. W \in Nat /\ \A i \in 1..W : i - 1 \in Nat /\ i - 1 \in 0..W /\ i \in 0..W /\ Pow[i - 1] \in Nat
  BY LimbWidth, PowFacts
<1>2. \A i \in 1..W : 2 ^ (i - 1) = Pow[i - 1]
  BY <1>1, PowIs
<1>3. \A i \in 1..W : (IF i - 1 \in S THEN 2 ^ (i - 1) ELSE 0) = Bit(i - 1, S) * Pow[i - 1]
  BY <1>1, <1>2 DEF Bit
<1>4. \A i \in 1..W, m \in Nat : G[<<m, i>>] = m + Bit(i - 1, S) * Pow[i - 1]
  OBVIOUS
<1>5. \A i \in 1..W, m \in Nat : m + Bit(i - 1, S) * Pow[i - 1] \in Nat
  <2>1. \A i \in 1..W : Bit(i - 1, S) * Pow[i - 1] \in Nat
    BY <1>1 DEF Bit
  <2> QED
    BY <2>1
<1>6. Stays(G, 0, I, Nat, W)
  <2> HIDE DEF G
  <2>1. I \in [0..W -> SUBSET Nat] /\ \A i \in 0..W : I[i] = Nat
    OBVIOUS
  <2> HIDE DEF I
  <2>2. 0 \in 0..W
    BY <1>1
  <2>3. 0 \in I[0]
    BY <2>1, <2>2
  <2> QED
    BY <1>1, <1>4, <1>5, <2>1, <2>3 DEF Stays
<1> HIDE DEF G, I, W, F, t
<1>7. PICK g : g \in [0..W -> Nat] /\ g[0] = 0 /\ \A i \in 1..W : g[i] = G[<<g[i - 1], i>>]
  BY <1>1, <1>6, GuardedRecursion
<1>8. \A i \in 1..W : g[i] = g[i - 1] + (IF i - 1 \in S THEN 2 ^ (i - 1) ELSE 0)
  <2>1. \A i \in 1..W : g[i - 1] \in Nat
    BY <1>1, <1>7
  <2> QED
    BY <1>3, <1>4, <1>7, <2>1
<1>9. g = F(g)
  <2>1. \A i \in 0..W : i = 0 \/ i \in 1..W
    BY <1>1
  <2>2. \A i \in 0..W : g[i] = IF i = 0 THEN 0 ELSE g[i - 1] + (IF i - 1 \in S THEN 2 ^ (i - 1) ELSE 0)
    BY <1>7, <1>8, <2>1
  <2>3. g = [i \in 0..W |-> g[i]]
    BY <1>7
  <2>4. F(g) = [i \in 0..W |-> IF i = 0 THEN 0 ELSE g[i - 1] + (IF i - 1 \in S THEN 2 ^ (i - 1) ELSE 0)]
    BY DEF F, W
  <2> QED
    BY <2>2, <2>3, <2>4
<1>10. t = F(t)
  BY <1>9 DEF t
<1>11. /\ t[0] = 0 /\ t = [i \in 0..W |-> t[i]]
       /\ \A i \in 1..W : t[i] = t[i - 1] + (IF i - 1 \in S THEN 2 ^ (i - 1) ELSE 0)
  <2>1. t = [i \in 0..W |-> IF i = 0 THEN 0 ELSE t[i - 1] + (IF i - 1 \in S THEN 2 ^ (i - 1) ELSE 0)]
    BY <1>10 DEF F, W
  <2>2. 0 \in 0..W /\ \A i \in 1..W : i \in 0..W /\ i # 0
    BY <1>1
  <2> QED
    BY <2>1, <2>2
<1> DEFINE T == {i \in 0..W : t[i] \in Nat}
<1>12. 0..W \subseteq T
  <2>1. 0 \in T
    BY <1>1, <1>11
  <2>2. ASSUME NEW i \in 1..W, i - 1 \in T
        PROVE  i \in T
    <3>1. t[i] = t[i - 1] + Bit(i - 1, S) * Pow[i - 1]
      BY <1>3, <1>11
    <3> QED
      BY <1>1, <1>5, <2>2, <3>1
  <2> HIDE DEF T
  <2> QED
    BY <1>1, <2>1, <2>2, Upwards
<1>13. t \in [0..W -> Nat]
  BY <1>11, <1>12
<1>14. \A i \in 1..W : t[i] = t[i - 1] + Bit(i - 1, S) * Pow[i - 1]
  BY <1>3, <1>11
<1>15. BitSum(S) = t[W]
  BY DEF BitSum, t, F, W
<1> QED
  BY <1>11, <1>13, <1>14, <1>15 DEF W

LEMMA BitSumOf ==
  ASSUME NEW S, NEW f, BitsFrom(f, S), NEW p \in Nat, NEW bits,
         bits = {i \in 0..(2 * HalfBits - 1) : p + i \in S}
  PROVE  /\ BitSum(bits) \in Limbs
         /\ f[p] = BitSum(bits) + Base * f[p + 2 * HalfBits]
<1> DEFINE W == 2 * HalfBits
<1>1. W \in Nat /\ Base = Pow[W] /\ W \in 0..W
  BY LimbWidth, PowIs
<1>2. PICK s : /\ s \in [0..W -> Nat] /\ s[0] = 0
               /\ \A i \in 1..W : s[i] = s[i - 1] + Bit(i - 1, bits) * Pow[i - 1]
               /\ BitSum(bits) = s[W]
  BY BitSumIs
<1>3. f \in [Nat -> Nat] /\ \A c \in Nat : f[c] = 2 * f[c + 1] + Bit(c, S)
  BY DEF BitsFrom
<1>4. \A i \in 1..W : Bit(i - 1, bits) = Bit(p + (i - 1), S) /\ Bit(i - 1, bits) \in {0, 1}
  <2>1. ASSUME NEW i \in 1..W
        PROVE  i - 1 \in bits <=> p + (i - 1) \in S
    <3>1. i - 1 \in 0..(2 * HalfBits - 1)
      BY <1>1
    <3> QED
      BY <3>1
  <2> QED
    BY <2>1 DEF Bit
<1> HIDE DEF W
<1> DEFINE T == {i \in 0..W : s[i] + Pow[i] * f[p + i] = f[p] /\ s[i] <= Pow[i] - 1}
<1>5. 0 \in T
  <2>1. Pow[0] = 1 /\ p + 0 = p /\ f[p] \in Nat
    BY <1>3, PowFacts
  <2>2. s[0] + Pow[0] * f[p + 0] = f[p]
    BY <1>2, <2>1
  <2> QED
    BY <1>1, <1>2, <2>1, <2>2
<1>6. ASSUME NEW i \in 1..W, i - 1 \in T
      PROVE  i \in T
  <2>1. i - 1 \in Nat /\ p + (i - 1) \in Nat /\ (p + (i - 1)) + 1 = p + i /\ (i - 1) + 1 = i /\ i \in 0..W
        /\ i - 1 \in 0..W /\ p + i \in Nat
    BY <1>1
  <2>2. PICK e \in {0, 1} : e = Bit(i - 1, bits) /\ e = Bit(p + (i - 1), S)
    BY <1>4
  <2>3. f[p + (i - 1)] = 2 * f[p + i] + e
    BY <1>3, <2>1, <2>2
  <2>4. Pow[i] = 2 * Pow[i - 1] /\ Pow[i - 1] \in Nat
    BY <2>1, PowFacts
  <2>5. s[i] = s[i - 1] + e * Pow[i - 1] /\ s[i - 1] \in Nat
    BY <1>2, <2>1, <2>2
  <2>6. PICK P, u, z \in Nat : P = Pow[i - 1] /\ u = f[p + i] /\ z = s[i - 1]
    BY <1>3, <2>1, <2>4, <2>5
  <2>7. z + P * (2 * u + e) = f[p] /\ z <= P - 1
    BY <1>6, <2>3, <2>6
  <2>8. P * (2 * u + e) = (2 * P) * u + e * P
    BY <2>6
  <2>9. (2 * P) * u \in Nat /\ (e * P = 0 \/ e * P = P)
    BY <2>6
  <2>10. PICK y1, y2 \in Nat : y1 = (2 * P) * u /\ y2 = e * P /\ (y2 = 0 \/ y2 = P)
    BY <2>9
  <2>11. s[i] = z + y2 /\ Pow[i] * f[p + i] = y1 /\ z + (y1 + y2) = f[p] /\ Pow[i] = 2 * P
    BY <2>4, <2>5, <2>6, <2>7, <2>8, <2>10
  <2>12. s[i] + Pow[i] * f[p + i] = f[p] /\ s[i] <= Pow[i] - 1
    BY <2>7, <2>10, <2>11
  <2> QED
    BY <2>1, <2>12
<1>7. 0..W \subseteq T
  <2> HIDE DEF T
  <2> QED
    BY <1>1, <1>5, <1>6, Upwards
<1>8. s[W] + Pow[W] * f[p + W] = f[p] /\ s[W] <= Pow[W] - 1 /\ s[W] \in Nat
  BY <1>1, <1>2, <1>7
<1>9. BitSum(bits) \in Limbs
  BY <1>1, <1>2, <1>8, LimbFacts
<1> QED
  BY <1>1, <1>2, <1>8, <1>9 DEF W

LEMMA FromBitSetIs ==
  ASSUME NEW S, NEW f, BitsFrom(f, S), NEW n \in Nat, f[n * (2 * HalfBits)] = 0
  PROVE  /\ Proper(FromBitSet(S, n)) /\ FromBitSet(S, n).sign = 1
         /\ Magnitude(FromBitSet(S, n).data) = f[0]
<1> DEFINE W == 2 * HalfBits
           bits(k) == {i \in 0..(2 * HalfBits - 1) : (k - 1) * 2 * HalfBits + i \in S}
           D == [k \in 1..n |-> BitSum(bits(k))]
<1>1. W \in Nat /\ Base \in Nat
  BY LimbWidth, LimbFacts
<1>2. FromBitSet(S, n) = Normalize(Big(1, D))
  BY DEF FromBitSet
<1>3. ASSUME NEW k \in 1..n
      PROVE  /\ BitSum(bits(k)) \in Limbs
             /\ f[(k - 1) * W] = BitSum(bits(k)) + Base * f[k * W]
  <2>1. PICK j \in Nat : j = k - 1
    OBVIOUS
  <2>2. j * 2 * HalfBits = j * W /\ j * W \in Nat /\ j * W + W = k * W
    <3>1. j * 2 * HalfBits = j * (2 * HalfBits)
      BY LimbWidth
    <3>2. k = j + 1
      BY <2>1
    <3> HIDE DEF W
    <3>3. j * W \in Nat /\ j * W + W = (j + 1) * W
      BY <1>1
    <3> QED
      BY <3>1, <3>2, <3>3 DEF W
  <2>3. PICK p \in Nat : p = j * W
    BY <2>2
  <2>4. bits(k) = {i \in 0..(2 * HalfBits - 1) : p + i \in S}
    BY <2>1, <2>2, <2>3
  <2>5. BitSum(bits(k)) \in Limbs /\ f[p] = BitSum(bits(k)) + Base * f[p + 2 * HalfBits]
    <3> HIDE DEF bits
    <3> QED
      BY <2>4, BitSumOf
  <2> QED
    BY <2>1, <2>2, <2>3, <2>5
<1> HIDE DEF bits
<1>4. D \in Seq(Limbs) /\ Len(D) = n
  <2>1. D \in [1..n -> Limbs]
    BY <1>3
  <2> HIDE DEF D
  <2> QED
    BY <2>1
<1> DEFINE w == [j \in 0..n |-> f[j * W]]
<1>5. Magnitude(D) = f[0]
  <2>1. w \in [0..n -> Int]
    <3>1. \A j \in 0..n : j * W \in Nat
      <4> HIDE DEF W
      <4> QED
        BY <1>1
    <3>2. \A j \in 0..n : f[j * W] \in Int
      BY <3>1 DEF BitsFrom
    <3> QED
      BY <3>2
  <2>2. w[n] = 0 /\ w[0] = f[0]
    <3>1. n \in 0..n /\ 0 \in 0..n /\ 0 * W = 0
      BY <1>1
    <3> QED
      BY <3>1
  <2>3. \A i \in 1..n : w[i - 1] = Limb(D, i) + Base * w[i]
    <3>1. ASSUME NEW i \in 1..n
          PROVE  w[i - 1] = Limb(D, i) + Base * w[i]
      <4>1. i - 1 \in 0..n /\ i \in 0..n /\ i \in Nat \ {0} /\ i <= Len(D)
        BY <1>4
      <4>2. w[i - 1] = f[(i - 1) * W] /\ w[i] = f[i * W] /\ D[i] = BitSum(bits(i))
        BY <4>1
      <4>3. Limb(D, i) = D[i]
        <5> HIDE DEF D
        <5> QED
          BY <1>4, <4>1, LimbIsLimb
      <4> HIDE DEF w, D, W
      <4> QED
        BY <1>3, <4>2, <4>3
    <3> QED
      BY <3>1
  <2> HIDE DEF w, D
  <2>4. Len(D) <= n
    BY <1>4
  <2>5. w[0] = Magnitude(D)
    BY <1>4, <2>1, <2>2, <2>3, <2>4, MagnitudeIs
  <2> QED
    BY <2>2, <2>5
<1> HIDE DEF D
<1>6. Big(1, D) \in Bigs /\ Big(1, D).data = D /\ Big(1, D).sign = 1
  <2>1. BigZero \in Bigs
    BY BigZeroFacts DEF Proper
  <2>2. 1 \in {1, -1}
    OBVIOUS
  <2> QED
    BY <1>4, <2>1, <2>2, BigFacts
<1>7. /\ Proper(Normalize(Big(1, D))) /\ Magnitude(Normalize(Big(1, D)).data) = Magnitude(D)
      /\ Normalize(Big(1, D)) = BigZero \/ Normalize(Big(1, D)).sign = 1
  BY <1>6, NormalizeKeeps
<1>8. BigZero.sign = 1
  BY DEF BigZero, Big
<1> QED
  BY <1>2, <1>5, <1>7, <1>8

(* One bit more of a quotient.                                             *)
LEMMA OneMoreBit ==
  ASSUME NEW A \in Nat, NEW m \in Nat \ {0}
  PROVE  /\ A \div m \in Nat /\ A \div (2 * m) \in Nat
         /\ A \div m = 2 * (A \div (2 * m)) + ((A \div m) % 2)
         /\ A % (2 * m) >= m => A % m = (A % (2 * m)) - m /\ (A \div m) % 2 = 1
         /\ A % (2 * m) < m => A % m = A % (2 * m) /\ (A \div m) % 2 = 0
<1>1. PICK q \in Nat, r \in 0..(2 * m - 1) : A = (2 * m) * q + r /\ A \div (2 * m) = q /\ A % (2 * m) = r
  <2>1. 2 * m \in Nat \ {0}
    OBVIOUS
  <2> QED
    BY <2>1, DivModExists
<1>2. CASE r >= m
  <2>1. (2 * m) * q + r = m * (2 * q + 1) + (r - m)
    <3>1. m * (2 * q + 1) = (2 * m) * q + m
      OBVIOUS
    <3>2. PICK z \in Nat : z = (2 * m) * q
      OBVIOUS
    <3> QED
      BY <3>1, <3>2
  <2>2. r - m \in 0..(m - 1) /\ 2 * q + 1 \in Int
    BY <1>2
  <2>3. A % m = r - m /\ A \div m = 2 * q + 1
    <3>1. PICK Q \in Int, R \in 0..(m - 1) : Q = 2 * q + 1 /\ R = r - m
      BY <2>2
    <3>2. A = m * Q + R
      BY <1>1, <2>1, <3>1
    <3> QED
      BY <3>1, <3>2, DivMod
  <2> QED
    BY <1>1, <1>2, <2>3
<1>3. CASE r < m
  <2>1. (2 * m) * q + r = m * (2 * q) + r
    OBVIOUS
  <2>2. r \in 0..(m - 1) /\ 2 * q \in Int
    BY <1>3
  <2>3. A % m = r /\ A \div m = 2 * q
    BY <1>1, <2>1, <2>2, DivMod
  <2> QED
    BY <1>1, <1>3, <2>3
<1> QED
  BY <1>2, <1>3

LEMMA SmallDividend ==
  ASSUME NEW A \in Nat, NEW m \in Nat, A < m
  PROVE  A \div m = 0 /\ A % m = A
<1>1. m \in Nat \ {0} /\ A \in 0..(m - 1) /\ m * 0 + A = A
  OBVIOUS
<1> QED
  BY <1>1, DivMod

-----------------------------------------------------------------------------
TrimmedOnes == {z \in Bigs : Trimmed(z)}
DivStates == [rem : TrimmedOnes, sub : TrimmedOnes, quot : SUBSET Nat]

DivFirst(a, b, shift) == [rem |-> a, sub |-> ShlAbs(b, shift), quot |-> {}]
DivNext(shift, s, i) ==
  [rem |-> IF CmpAbs(s.rem, s.sub) >= 0 THEN SubAbs(s.rem, s.sub) ELSE s.rem,
   sub |-> Shr1Abs(s.sub),
   quot |-> IF CmpAbs(s.rem, s.sub) >= 0 THEN s.quot \union {shift - i + 1} ELSE s.quot]

(* The bits of the quotient A \div B from c on, and what is left of A.     *)
OddAt(A, B) == {c \in Nat : (A \div (B * Pow[c])) % 2 = 1}
DivState(A, B, shift, c, s) ==
  /\ s \in DivStates
  /\ Magnitude(s.rem.data) = A % (B * Pow[c])
  /\ c > 0 => Magnitude(s.sub.data) = B * Pow[c - 1]
  /\ s.quot = {j \in OddAt(A, B) : c <= j /\ j <= shift}

LEMMA ScaledFacts ==
  ASSUME NEW B \in Nat \ {0}, NEW c \in Nat
  PROVE  /\ B * Pow[c] \in Nat \ {0}
         /\ B * Pow[c + 1] = 2 * (B * Pow[c])
         /\ (2 * (B * Pow[c])) \div 2 = B * Pow[c]
<1>1. PICK p \in Nat : p = Pow[c] /\ p >= 1 /\ Pow[c + 1] = 2 * p
  BY PowFacts
<1>2. B * p \in Nat /\ B * p >= 1
  BY <1>1
<1>3. B * (2 * p) = 2 * (B * p)
  BY <1>1
<1>4. PICK z \in Nat : z = B * p
  BY <1>2
<1>5. (2 * z) \div 2 = z
  OBVIOUS
<1> QED
  BY <1>1, <1>2, <1>3, <1>4, <1>5

LEMMA DivStateNext ==
  ASSUME NEW A \in Nat, NEW B \in Nat \ {0}, NEW shift \in Nat, NEW i \in 1..(shift + 1), NEW s,
         DivState(A, B, shift, shift + 1 - (i - 1), s)
  PROVE  DivState(A, B, shift, shift + 1 - i, DivNext(shift, s, i))
<1>1. PICK k \in Nat : /\ k = shift + 1 - i /\ k <= shift /\ shift - i + 1 = k
                       /\ shift + 1 - (i - 1) = k + 1 /\ (k + 1) - 1 = k /\ k + 1 > 0
  OBVIOUS
<1>2. DivState(A, B, shift, k + 1, s)
  BY <1>1
<1>3. /\ s \in DivStates
      /\ Magnitude(s.rem.data) = A % (B * Pow[k + 1])
      /\ Magnitude(s.sub.data) = B * Pow[k]
      /\ s.quot = {j \in OddAt(A, B) : k + 1 <= j /\ j <= shift}
  BY <1>1, <1>2 DEF DivState
<1>4. /\ Trimmed(s.rem) /\ Trimmed(s.sub) /\ s.rem \in Bigs /\ s.sub \in Bigs
      /\ s.quot \subseteq Nat
  BY <1>3 DEF DivStates, TrimmedOnes
<1>5. PICK m \in Nat \ {0} : m = B * Pow[k] /\ B * Pow[k + 1] = 2 * m /\ (2 * m) \div 2 = m
  BY ScaledFacts
<1>6. PICK r \in Nat : r = A % (2 * m) /\ r = Magnitude(s.rem.data)
  BY <1>3, <1>4, <1>5, MagnitudeNat, BigFacts
<1>7. /\ r >= m => A % m = r - m /\ (A \div m) % 2 = 1
      /\ r < m => A % m = r /\ (A \div m) % 2 = 0
  <2>1. /\ A % (2 * m) >= m => A % m = (A % (2 * m)) - m /\ (A \div m) % 2 = 1
        /\ A % (2 * m) < m => A % m = A % (2 * m) /\ (A \div m) % 2 = 0
    BY OneMoreBit
  <2> QED
    BY <1>6, <2>1
<1>8. k \in OddAt(A, B) <=> r >= m
  <2>1. k \in OddAt(A, B) <=> (A \div m) % 2 = 1
    BY <1>5 DEF OddAt
  <2> QED
    BY <1>7, <2>1
<1> DEFINE z == DivNext(shift, s, i)
           goes == CmpAbs(s.rem, s.sub) >= 0
<1>9. z = [rem |-> IF goes THEN SubAbs(s.rem, s.sub) ELSE s.rem,
           sub |-> Shr1Abs(s.sub),
           quot |-> IF goes THEN s.quot \union {k} ELSE s.quot]
  BY <1>1 DEF DivNext
<1>10. /\ z.rem = IF goes THEN SubAbs(s.rem, s.sub) ELSE s.rem
       /\ z.sub = Shr1Abs(s.sub)
       /\ z.quot = IF goes THEN s.quot \union {k} ELSE s.quot
  <2> HIDE DEF z, goes
  <2> QED
    BY <1>9
<1>11. /\ goes <=> r >= m
       /\ goes => Len(s.sub.data) <= Len(s.rem.data)
  <2>1. /\ \/ CmpAbs(s.rem, s.sub) = 1 /\ Magnitude(s.rem.data) > Magnitude(s.sub.data)
           \/ CmpAbs(s.rem, s.sub) = 0 /\ s.rem.data = s.sub.data
           \/ CmpAbs(s.rem, s.sub) = -1 /\ Magnitude(s.rem.data) < Magnitude(s.sub.data)
        /\ CmpAbs(s.rem, s.sub) >= 0 => Len(s.sub.data) <= Len(s.rem.data)
    BY <1>4, CmpAbsMeans
  <2>2. Magnitude(s.sub.data) = m
    BY <1>3, <1>5
  <2> QED
    BY <1>6, <2>1, <2>2
<1>12. Trimmed(z.rem) /\ Magnitude(z.rem.data) = A % m
  <2>1. CASE goes
    <3>1. Magnitude(s.sub.data) = m /\ Magnitude(s.rem.data) = r /\ m <= r
      BY <1>3, <1>5, <1>6, <1>11, <2>1
    <3>2. Proper(SubAbs(s.rem, s.sub)) /\ Magnitude(SubAbs(s.rem, s.sub).data) = r - m
      BY <1>4, <1>11, <2>1, <3>1, SubAbsExact
    <3>3. z.rem = SubAbs(s.rem, s.sub)
      BY <1>10, <2>1
    <3>4. A % m = r - m
      BY <1>7, <1>11, <2>1
    <3> HIDE DEF z
    <3> QED
      BY <3>2, <3>3, <3>4, ProperIsTrimmed
  <2>2. CASE ~goes
    <3>1. z.rem = s.rem
      BY <1>10, <2>2
    <3>2. r < m
      BY <1>6, <1>11, <2>2
    <3> HIDE DEF z
    <3> QED
      BY <1>4, <1>6, <1>7, <3>1, <3>2
  <2> QED
    BY <2>1, <2>2
<1>13. Trimmed(z.sub) /\ Magnitude(z.sub.data) = m \div 2
  <2>1. Trimmed(Shr1Abs(s.sub)) /\ Magnitude(Shr1Abs(s.sub).data) = Magnitude(s.sub.data) \div 2
    BY <1>4, Shr1AbsExact
  <2> HIDE DEF z
  <2> QED
    BY <1>3, <1>5, <1>10, <2>1
<1>14. k > 0 => Magnitude(z.sub.data) = B * Pow[k - 1]
  <2>1. ASSUME k > 0
        PROVE  Magnitude(z.sub.data) = B * Pow[k - 1]
    <3>1. PICK j \in Nat : j = k - 1 /\ j + 1 = k
      BY <2>1
    <3>2. B * Pow[j + 1] = 2 * (B * Pow[j]) /\ (2 * (B * Pow[j])) \div 2 = B * Pow[j]
      BY ScaledFacts
    <3>3. m = 2 * (B * Pow[j])
      BY <1>5, <3>1, <3>2
    <3> HIDE DEF z
    <3> QED
      BY <1>13, <3>1, <3>2, <3>3
  <2> QED
    BY <2>1
<1>15. z.quot = {j \in OddAt(A, B) : k <= j /\ j <= shift}
  <2>1. \A j \in OddAt(A, B) : j \in Nat
    BY DEF OddAt
  <2>2. \A j \in Nat : k <= j <=> (k + 1 <= j \/ j = k)
    OBVIOUS
  <2>3. CASE goes
    <3>1. z.quot = s.quot \union {k} /\ k \in OddAt(A, B)
      BY <1>8, <1>10, <1>11, <2>3
    <3> HIDE DEF z, goes
    <3> QED
      BY <1>1, <1>3, <2>1, <2>2, <3>1
  <2>4. CASE ~goes
    <3>1. z.quot = s.quot /\ k \notin OddAt(A, B)
      BY <1>8, <1>10, <1>11, <2>4
    <3> HIDE DEF z, goes
    <3> QED
      BY <1>3, <2>1, <2>2, <3>1
  <2> QED
    BY <2>3, <2>4
<1>16. z \in DivStates
  <2>1. z.quot \subseteq Nat
    <3> HIDE DEF z
    <3> QED
      BY <1>15 DEF OddAt
  <2>2. z.rem \in TrimmedOnes /\ z.sub \in TrimmedOnes
    <3> HIDE DEF z
    <3> QED
      BY <1>12, <1>13 DEF TrimmedOnes, Trimmed
  <2>3. z = [rem |-> z.rem, sub |-> z.sub, quot |-> z.quot]
    <3> HIDE DEF z, goes
    <3> QED
      BY <1>9
  <2> HIDE DEF z
  <2> QED
    BY <2>1, <2>2, <2>3 DEF DivStates
<1>17. DivState(A, B, shift, k, z)
  <2> HIDE DEF z
  <2> QED
    BY <1>5, <1>12, <1>14, <1>15, <1>16 DEF DivState
<1> QED
  BY <1>1, <1>17

(* The states of the loop of a division.                                   *)
DivLoop(a, b, shift) ==
  LET loop[i \in 0..(shift + 1)] ==
        IF i = 0 THEN DivFirst(a, b, shift) ELSE DivNext(shift, loop[i - 1], i)
  IN  loop[shift + 1]

LEMMA DivLoopEnds ==
  ASSUME NEW a, Trimmed(a), NEW b, Trimmed(b), NEW shift \in Nat, NEW A, NEW B,
         A = Magnitude(a.data), B = Magnitude(b.data), B > 0, A < B * Pow[shift + 1]
  PROVE  DivState(A, B, shift, 0, DivLoop(a, b, shift))
<1> DEFINE n == shift + 1
           F == [p \in DivStates \X (1..n) |-> DivNext(shift, p[1], p[2])]
           I == [i \in 0..n |-> {s \in DivStates : DivState(A, B, shift, n - i, s)}]
           c == DivFirst(a, b, shift)
           R(f) == [i \in 0..(shift + 1) |->
                     IF i = 0 THEN DivFirst(a, b, shift) ELSE DivNext(shift, f[i - 1], i)]
           t == CHOOSE f : f = R(f)
<1>1. A \in Nat /\ B \in Nat \ {0} /\ n \in Nat /\ 0 \in 0..n /\ n \in 0..n
  <2>1. A \in Nat /\ B \in Nat
    BY MagnitudeNat, BigFacts DEF Trimmed
  <2> QED
    BY <2>1
<1>2. DivState(A, B, shift, n, c)
  <2>1. Trimmed(ShlAbs(b, shift)) /\ Magnitude(ShlAbs(b, shift).data) = B * Pow[shift]
    BY ShlAbsExact
  <2>2. a \in TrimmedOnes /\ ShlAbs(b, shift) \in TrimmedOnes
    BY <2>1 DEF TrimmedOnes, Trimmed
  <2>3. c.rem = a /\ c.sub = ShlAbs(b, shift) /\ c.quot = {} /\ c \in DivStates
    BY <2>2 DEF DivFirst, DivStates
  <2>4. A % (B * Pow[n]) = A
    <3>1. B * Pow[shift + 1] \in Nat \ {0}
      BY <1>1, ScaledFacts
    <3> QED
      BY <1>1, <3>1, SmallDividend
  <2>5. {j \in OddAt(A, B) : n <= j /\ j <= shift} = {}
    <3>1. \A j \in Nat : ~(n <= j /\ j <= shift)
      OBVIOUS
    <3> QED
      BY <3>1 DEF OddAt
  <2>6. n - 1 = shift
    OBVIOUS
  <2> HIDE DEF c, n
  <2> QED
    BY <2>1, <2>3, <2>4, <2>5, <2>6 DEF DivState
<1>3. \A i \in 0..n : I[i] = {s \in DivStates : DivState(A, B, shift, n - i, s)}
  OBVIOUS
<1>4. I \in [0..n -> SUBSET DivStates]
  OBVIOUS
<1>5. \A i \in 1..n, s \in DivStates : F[<<s, i>>] = DivNext(shift, s, i)
  OBVIOUS
<1>6. ASSUME NEW i \in 1..n, NEW s \in DivStates, s \in I[i - 1]
      PROVE  DivNext(shift, s, i) \in I[i]
  <2>1. i - 1 \in 0..n /\ i \in 0..n
    BY <1>1
  <2>2. DivState(A, B, shift, n - (i - 1), s)
    <3> HIDE DEF I, n
    <3> QED
      BY <1>3, <1>6, <2>1
  <2>3. DivState(A, B, shift, n - i, DivNext(shift, s, i))
    BY <1>1, <2>2, DivStateNext
  <2>4. DivNext(shift, s, i) \in DivStates
    BY <2>3 DEF DivState
  <2> HIDE DEF I, n
  <2> QED
    BY <1>3, <2>1, <2>3, <2>4
<1>7. c \in I[0]
  <2>1. n - 0 = n
    OBVIOUS
  <2>2. c \in DivStates
    BY <1>2 DEF DivState
  <2> HIDE DEF I, n, c
  <2> QED
    BY <1>1, <1>2, <1>3, <2>1, <2>2
<1> HIDE DEF F, I, c
<1>8. Stays(F, c, I, DivStates, n)
  <2> HIDE DEF n
  <2> QED
    BY <1>4, <1>5, <1>6, <1>7 DEF Stays
<1> HIDE DEF n, R, t
<1>9. PICK g : /\ g \in [0..n -> DivStates] /\ g[0] = c
               /\ \A i \in 1..n : g[i] = F[<<g[i - 1], i>>]
  BY <1>1, <1>8, GuardedRecursion
<1>10. g = R(g)
  <2>1. ASSUME NEW i \in 1..n
        PROVE  g[i] = DivNext(shift, g[i - 1], i)
    <3>1. i - 1 \in 0..n
      BY <1>1
    <3>2. PICK s \in DivStates : s = g[i - 1]
      BY <1>9, <3>1
    <3> QED
      BY <1>5, <1>9, <3>2
  <2>2. \A i \in 0..n : i = 0 \/ i \in 1..n
    BY <1>1
  <2>3. \A i \in 0..n : g[i] = IF i = 0 THEN c ELSE DivNext(shift, g[i - 1], i)
    BY <1>9, <2>1, <2>2
  <2>4. R(g) = [i \in 0..n |-> IF i = 0 THEN c ELSE DivNext(shift, g[i - 1], i)]
    BY DEF R, c, n
  <2>5. g = [i \in 0..n |-> g[i]]
    BY <1>9
  <2> QED
    BY <2>3, <2>4, <2>5
<1>11. t = R(t)
  BY <1>10 DEF t
<1>12. t[0] = c /\ \A i \in 1..n : t[i] = DivNext(shift, t[i - 1], i)
  <2>1. t = [i \in 0..n |-> IF i = 0 THEN c ELSE DivNext(shift, t[i - 1], i)]
    BY <1>11 DEF R, c, n
  <2>2. \A i \in 1..n : i \in 0..n /\ i # 0
    BY <1>1
  <2> QED
    BY <1>1, <2>1, <2>2
<1> DEFINE T == {i \in 0..n : t[i] \in DivStates /\ t[i] \in I[i]}
<1>13. 0 \in T
  <2>1. c \in DivStates
    BY <1>2 DEF DivState
  <2> QED
    BY <1>1, <1>7, <1>12, <2>1
<1>14. ASSUME NEW i \in 1..n, i - 1 \in T
       PROVE  i \in T
  <2>1. i \in 0..n /\ t[i] = DivNext(shift, t[i - 1], i)
    BY <1>1, <1>12
  <2>2. PICK s \in DivStates : s = t[i - 1] /\ s \in I[i - 1]
    BY <1>14
  <2>3. t[i] \in I[i]
    BY <1>6, <2>1, <2>2
  <2>4. t[i] \in DivStates
    BY <1>3, <2>1, <2>3
  <2> QED
    BY <2>1, <2>3, <2>4
<1>15. 0..n \subseteq T
  <2> HIDE DEF T
  <2> QED
    BY <1>1, <1>13, <1>14, Upwards
<1>16. DivState(A, B, shift, n - n, t[n])
  BY <1>1, <1>3, <1>15
<1>17. n - n = 0
  BY <1>1
<1>18. DivLoop(a, b, shift) = t[n]
  BY DEF DivLoop, t, R, n
<1> QED
  BY <1>16, <1>17, <1>18

(* The bits that are odd make up the quotient.                             *)
LEMMA QuotientBits ==
  ASSUME NEW A \in Nat, NEW B \in Nat \ {0}
  PROVE  BitsFrom([c \in Nat |-> A \div (B * Pow[c])], OddAt(A, B))
<1> DEFINE f == [c \in Nat |-> A \div (B * Pow[c])]
<1>1. ASSUME NEW c \in Nat
      PROVE  /\ f[c] \in Nat
             /\ f[c] = 2 * f[c + 1] + Bit(c, OddAt(A, B))
  <2>1. PICK m \in Nat \ {0} : m = B * Pow[c] /\ B * Pow[c + 1] = 2 * m
    BY ScaledFacts
  <2>2. f[c] = A \div m /\ f[c + 1] = A \div (2 * m)
    BY <2>1
  <2>3. A \div m \in Nat /\ A \div m = 2 * (A \div (2 * m)) + ((A \div m) % 2)
    BY OneMoreBit
  <2>4. (A \div m) % 2 \in {0, 1}
    BY <2>3
  <2>5. c \in OddAt(A, B) <=> (A \div m) % 2 = 1
    BY <2>1 DEF OddAt
  <2>6. Bit(c, OddAt(A, B)) = (A \div m) % 2
    BY <2>4, <2>5 DEF Bit
  <2> HIDE DEF f
  <2> QED
    BY <2>2, <2>3, <2>6
<1>2. f \in [Nat -> Nat]
  <2>1. f = [c \in Nat |-> f[c]]
    OBVIOUS
  <2> HIDE DEF f
  <2> QED
    BY <1>1, <2>1
<1> HIDE DEF f
<1>3. BitsFrom(f, OddAt(A, B))
  BY <1>1, <1>2 DEF BitsFrom
<1> QED
  BY <1>3 DEF f

(* A number too small for a multiple of B has no bits of a quotient there. *)
LEMMA NoBitsAbove ==
  ASSUME NEW A \in Nat, NEW B \in Nat \ {0}, NEW n \in Nat, A < B * Pow[n], NEW c \in Nat, n <= c
  PROVE  A \div (B * Pow[c]) = 0
<1>1. Pow[n] <= Pow[c] /\ Pow[n] \in Nat /\ Pow[c] \in Nat
  BY PowMonotone, PowFacts
<1>2. PICK p, q \in Nat : p = Pow[n] /\ q = Pow[c] /\ p <= q
  BY <1>1
<1>3. B * p <= B * q
  BY <1>2
<1>4. B * p \in Nat /\ B * q \in Nat
  BY <1>2
<1>5. A < B * q
  BY <1>2, <1>3, <1>4
<1> QED
  BY <1>2, <1>4, <1>5, SmallDividend

(* Long division gives the quotient and the remainder of the magnitudes.   *)
LEMMA DivAbsExact ==
  ASSUME NEW a, Trimmed(a), NEW b, Trimmed(b), Magnitude(b.data) > 0
  PROVE  /\ Trimmed(DivAbs(a, b).quot) /\ Trimmed(DivAbs(a, b).rem)
         /\ Magnitude(DivAbs(a, b).quot.data) = Magnitude(a.data) \div Magnitude(b.data)
         /\ Magnitude(DivAbs(a, b).rem.data) = Magnitude(a.data) % Magnitude(b.data)
<1> DEFINE A == Magnitude(a.data)
           B == Magnitude(b.data)
           shift == BitLength(a) - BitLength(b)
           end == DivLoop(a, b, shift)
           quot == FromBitSet(end.quot, shift \div (2 * HalfBits) + 1)
           rem == Normalize(end.rem)
<1>1. A \in Nat /\ B \in Nat \ {0} /\ a \in Bigs /\ b \in Bigs
  <2>1. A \in Nat /\ B \in Nat /\ a \in Bigs /\ b \in Bigs
    BY MagnitudeNat, BigFacts DEF Trimmed
  <2> QED
    BY <2>1
<1>2. DivAbs(a, b) =
        CASE CmpAbs(a, b) < 0 -> [quot |-> BigZero, rem |-> a]
          [] CmpAbs(a, b) = 0 -> [quot |-> Big(1, <<1>>), rem |-> BigZero]
          [] OTHER -> [quot |-> quot, rem |-> rem]
  BY DEF DivAbs, DivLoop, DivFirst, DivNext
<1> HIDE DEF A, B, shift, end, quot, rem
<1>3. \/ CmpAbs(a, b) = 1 /\ A > B
      \/ CmpAbs(a, b) = 0 /\ a.data = b.data
      \/ CmpAbs(a, b) = -1 /\ A < B
  BY CmpAbsMeans DEF A, B
<1>4. CASE CmpAbs(a, b) = -1
  <2>1. DivAbs(a, b) = [quot |-> BigZero, rem |-> a]
    BY <1>2, <1>4
  <2>2. DivAbs(a, b).quot = BigZero /\ DivAbs(a, b).rem = a
    BY <2>1
  <2>3. A < B
    BY <1>3, <1>4
  <2>4. A \div B = 0 /\ A % B = A
    BY <1>1, <2>3, SmallDividend
  <2> QED
    BY <2>2, <2>4, BigZeroFacts, ProperIsTrimmed DEF A, B
<1>5. CASE CmpAbs(a, b) = 0
  <2>1. DivAbs(a, b) = [quot |-> Big(1, <<1>>), rem |-> BigZero]
    BY <1>2, <1>5
  <2>2. DivAbs(a, b).quot = Big(1, <<1>>) /\ DivAbs(a, b).rem = BigZero
    BY <2>1
  <2>3. A = B
    BY <1>3, <1>5 DEF A, B
  <2>4. B \div B = 1 /\ B % B = 0
    <3>1. B * 1 + 0 = B /\ 0 \in 0..(B - 1) /\ 1 \in Int
      BY <1>1
    <3> QED
      BY <1>1, <3>1, DivMod
  <2>5. Trimmed(Big(1, <<1>>)) /\ Magnitude(Big(1, <<1>>).data) = 1
    BY OneLimb, LimbFacts
  <2>6. Trimmed(BigZero) /\ Magnitude(BigZero.data) = 0
    BY BigZeroFacts, ProperIsTrimmed
  <2> QED
    BY <2>2, <2>3, <2>4, <2>5, <2>6 DEF A, B
<1>6. CASE CmpAbs(a, b) = 1
  <2>1. DivAbs(a, b) = [quot |-> quot, rem |-> rem]
    BY <1>2, <1>6
  <2>2. DivAbs(a, b).quot = quot /\ DivAbs(a, b).rem = rem
    BY <2>1
  <2>3. A > B /\ A > 0
    BY <1>1, <1>3, <1>6
  <2>4. /\ BitLength(a) \in Nat /\ BitLength(a) >= 1
        /\ Pow[BitLength(a) - 1] <= A /\ A < Pow[BitLength(a)]
    BY <2>3, BitLengthIs DEF A
  <2>5. /\ BitLength(b) \in Nat /\ BitLength(b) >= 1
        /\ Pow[BitLength(b) - 1] <= B /\ B < Pow[BitLength(b)]
    BY BitLengthIs DEF B
  <2>6. shift \in Nat
    <3>1. PICK j, k \in Nat : j = BitLength(b) - 1 /\ k = BitLength(a)
      BY <2>4, <2>5
    <3>2. Pow[j] < Pow[k]
      <4>1. Pow[j] \in Nat /\ Pow[k] \in Nat
        BY PowFacts
      <4> QED
        BY <1>1, <2>3, <2>4, <2>5, <3>1, <4>1
    <3>3. j < k
      BY <3>2, PowOrder
    <3> QED
      BY <2>4, <2>5, <3>1, <3>3 DEF shift
  <2>7. A < B * Pow[shift + 1]
    <3>1. PICK j \in Nat : j = BitLength(b) - 1
      BY <2>5
    <3>2. j + (shift + 1) = BitLength(a) /\ shift + 1 \in Nat
      BY <2>4, <2>5, <2>6, <3>1 DEF shift
    <3>3. Pow[j + (shift + 1)] = Pow[j] * Pow[shift + 1]
      BY <3>2, PowAdds
    <3>4. PICK p, q \in Nat : p = Pow[j] /\ q = Pow[shift + 1] /\ p <= B
      BY <2>5, <3>1, <3>2, PowFacts
    <3>5. p * q <= B * q /\ p * q \in Nat /\ B * q \in Nat
      BY <1>1, <3>4
    <3>6. A < p * q
      BY <2>4, <3>2, <3>3, <3>4
    <3> QED
      BY <1>1, <3>4, <3>5, <3>6
  <2>8. DivState(A, B, shift, 0, end)
    <3>1. B > 0
      BY <1>1
    <3> QED
      BY <2>6, <2>7, <3>1, DivLoopEnds DEF A, B, end
  <2>9. B * Pow[0] = B
    BY <1>1, PowFacts
  <2>10. /\ end.rem \in Bigs
         /\ Magnitude(end.rem.data) = A % B
         /\ end.quot = {j \in OddAt(A, B) : 0 <= j /\ j <= shift}
    BY <2>8, <2>9 DEF DivState, DivStates, TrimmedOnes
  <2>11. Trimmed(rem) /\ Magnitude(rem.data) = A % B
    BY <2>10, NormalizeKeeps, ProperIsTrimmed DEF rem
  <2> DEFINE f == [c \in Nat |-> A \div (B * Pow[c])]
             n == shift \div (2 * HalfBits) + 1
  <2>12. BitsFrom(f, OddAt(A, B))
    BY <1>1, QuotientBits
  <2>13. \A c \in Nat : shift + 1 <= c => f[c] = 0
    BY <1>1, <2>6, <2>7, NoBitsAbove
  <2>14. end.quot = OddAt(A, B)
    <3>1. ASSUME NEW j \in OddAt(A, B)
          PROVE  0 <= j /\ j <= shift
      <4>1. j \in Nat /\ f[j] % 2 = 1
        BY DEF OddAt
      <4>2. f[j] # 0
        <5> HIDE DEF f
        <5> QED
          BY <4>1
      <4>3. ~(shift + 1 <= j)
        <5> HIDE DEF f
        <5> QED
          BY <2>13, <4>1, <4>2
      <4> QED
        BY <2>6, <4>1, <4>3
    <3> QED
      BY <2>10, <3>1
  <2>15. n \in Nat /\ n * (2 * HalfBits) \in Nat /\ shift + 1 <= n * (2 * HalfBits)
    <3>1. PICK W \in Nat \ {0} : W = 2 * HalfBits
      BY LimbWidth
    <3>2. PICK q \in Nat, r \in 0..(W - 1) : shift = W * q + r /\ shift \div W = q
      BY <2>6, DivModExists
    <3>3. n = q + 1
      BY <3>1, <3>2
    <3>4. (q + 1) * W = W * q + W /\ W * q \in Nat
      OBVIOUS
    <3>5. shift + 1 <= W * q + W
      BY <3>2, <3>4
    <3> HIDE DEF n
    <3>6. n \in Nat
      BY <3>3
    <3>7. n * W = W * q + W
      BY <3>3, <3>4
    <3>8. W * q + W \in Nat
      BY <3>4
    <3> QED
      BY <3>1, <3>5, <3>6, <3>7, <3>8
  <2>16. f[n * (2 * HalfBits)] = 0
    <3> HIDE DEF f, n
    <3> QED
      BY <2>13, <2>15
  <2>17. f[0] = A \div B
    BY <2>9
  <2>18. quot = FromBitSet(OddAt(A, B), n)
    BY <2>14 DEF quot
  <2> HIDE DEF f, n
  <2>19. Proper(quot) /\ Magnitude(quot.data) = f[0]
    BY <2>12, <2>15, <2>16, <2>18, FromBitSetIs
  <2>20. Trimmed(quot) /\ Magnitude(quot.data) = A \div B
    BY <2>17, <2>19, ProperIsTrimmed
  <2> QED
    BY <2>2, <2>11, <2>20 DEF A, B
<1> QED
  BY <1>3, <1>4, <1>5, <1>6

=============================================================================
