----------------------------- MODULE NumbersProofs -----------------------------
(***************************************************************************)
(* Theorems about the numbers of the runtime: words, big integers of any   *)
(* length and ratios, and what the arithmetic procedures make of them.     *)
(***************************************************************************)
EXTENDS Numbers, BignumProofs

-----------------------------------------------------------------------------
(* Words and big integers as the values of the arithmetic procedures.      *)

LEMMA WordFacts ==
  /\ MaxInt \in Nat /\ MaxInt >= 1 /\ MinInt \in Int /\ MinInt = -MaxInt - 1
  /\ MaxInt + 1 = Base \div 2 /\ 2 * (MaxInt + 1) <= Base /\ MaxInt + 1 < Base
<1>1. PICK b \in Nat : b = Base /\ b >= 4
  BY LimbFacts
<1>2. b \div 2 \in Nat /\ b \div 2 >= 2 /\ 2 * (b \div 2) <= b /\ b \div 2 < b
  BY <1>1
<1>3. MaxInt = b \div 2 - 1 /\ MinInt = -MaxInt - 1
  BY <1>1 DEF MaxInt, MinInt
<1> QED
  BY <1>1, <1>2, <1>3

(* A number that fits a word is kept by it.                                *)
LEMMA WrapKeeps ==
  ASSUME NEW k \in Int, Fits(k)
  PROVE  Wrap(k) = k
<1>1. PICK b \in Nat \ {0}, h \in Nat : b = Base /\ h = Base \div 2 /\ h = MaxInt + 1 /\ 2 * h <= b
  BY WordFacts, LimbFacts
<1>2. k + h \in 0..(b - 1)
  BY <1>1, WordFacts DEF Fits
<1>3. (k + h) % b = k + h
  BY <1>2, SmallModulo
<1> QED
  BY <1>1, <1>3 DEF Wrap

(* The quotient of a limit tells whether a product passes it.              *)
LEMMA QuotientBounds ==
  ASSUME NEW p \in Nat, NEW q \in Nat \ {0}, NEW limit \in Nat
  PROVE  p > limit \div q <=> p * q > limit
<1>1. PICK d \in Nat, r \in 0..(q - 1) : d = limit \div q /\ limit = q * d + r
  BY DivModExists
<1>2. CASE p > d
  <2>1. PICK e \in Nat : p = d + 1 + e
    <3>1. p - d - 1 \in Nat /\ p = d + 1 + (p - d - 1)
      BY <1>2
    <3> QED
      BY <3>1
  <2>2. p * q = q * d + q + e * q /\ e * q \in Nat
    BY <2>1
  <2> QED
    BY <1>1, <1>2, <2>2
<1>3. CASE p <= d
  <2>1. PICK e \in Nat : d = p + e
    <3>1. d - p \in Nat /\ d = p + (d - p)
      BY <1>3
    <3> QED
      BY <3>1
  <2>2. q * d = p * q + e * q /\ e * q \in Nat
    BY <2>1
  <2> QED
    BY <1>1, <1>3, <2>2
<1> QED
  BY <1>1, <1>2, <1>3

(* The test before a multiplication of words finds exactly the products    *)
(* that leave a word.                                                      *)
LEMMA OverflowsAreFound ==
  ASSUME NEW a \in MinInt..MaxInt, NEW b \in MinInt..MaxInt
  PROVE  /\ AddOverflow(a, b) <=> ~Fits(a + b)
         /\ SubOverflow(a, b) <=> ~Fits(a - b)
         /\ MulOverflow(a, b) <=> ~Fits(a * b)
<1>1. PICK M \in Nat : M = MaxInt /\ MinInt = -M - 1
  BY WordFacts
<1>2. a \in Int /\ b \in Int /\ a \in (-M - 1)..M /\ b \in (-M - 1)..M
  BY <1>1
<1>11. /\ a > 0 /\ b > 0 => (MulOverflow(a, b) <=> a > CDiv(MaxInt, b))
       /\ a > 0 /\ ~(b > 0) => (MulOverflow(a, b) <=> b < CDiv(MinInt, a))
       /\ ~(a > 0) /\ b > 0 => (MulOverflow(a, b) <=> a < CDiv(MinInt, b))
       /\ ~(a > 0) /\ ~(b > 0) => (MulOverflow(a, b) <=> a # 0 /\ b < CDiv(MaxInt, a))
  BY Zenon DEF MulOverflow
<1>3. AddOverflow(a, b) <=> ~Fits(a + b)
  BY <1>1, <1>2 DEF AddOverflow, Fits
<1>4. SubOverflow(a, b) <=> ~Fits(a - b)
  BY <1>1, <1>2 DEF SubOverflow, Fits
<1>5. CASE a > 0 /\ b > 0
  <2>1. CDiv(MaxInt, b) = M \div b
    BY <1>1, <1>2, <1>5 DEF CDiv, Abs
  <2>2. a \in Nat /\ b \in Nat \ {0}
    BY <1>2, <1>5
  <2>3. a > M \div b <=> a * b > M
    BY <2>2, QuotientBounds
  <2>4. a * b \in Nat
    BY <2>2
  <2>5. MulOverflow(a, b) <=> a > CDiv(MaxInt, b)
    BY <1>5, <1>11, Zenon
  <2>6. MulOverflow(a, b) <=> a > M \div b
    BY <2>1, <2>5, Zenon
  <2>7. a * b > M <=> ~Fits(a * b)
    BY <1>1, <2>4 DEF Fits
  <2> QED
    BY <1>3, <1>4, <2>3, <2>6, <2>7, Zenon
<1>6. ASSUME NEW p \in Int, NEW q \in Int, p > 0, q <= 0
      PROVE  q < CDiv(MinInt, p) <=> ~Fits(p * q)
  <2>1. PICK u \in Nat, w \in Nat \ {0} : u = -q /\ w = p
    BY <1>6
  <2>2. CDiv(MinInt, p) = -((M + 1) \div w)
    BY <1>1, <2>1 DEF CDiv, Abs
  <2>3. u > (M + 1) \div w <=> u * w > M + 1
    BY <1>1, <2>1, QuotientBounds, SMTT(60)
  <2>4. PICK z \in Nat : z = u * w
    BY <2>1
  <2>5. p * q = -z
    BY <2>1, <2>4
  <2>6. (M + 1) \div w \in Int
    BY <1>1, <2>1
  <2>7. q < CDiv(MinInt, p) <=> z > M + 1
    BY <1>6, <2>1, <2>2, <2>3, <2>4, <2>6
  <2>8. Fits(p * q) <=> z <= M + 1
    BY <1>1, <2>5 DEF Fits
  <2> QED
    BY <1>1, <2>7, <2>8
<1>7. CASE a > 0 /\ b <= 0
  <2>1. ~(b > 0)
    BY <1>2, <1>7
  <2>2. b < CDiv(MinInt, a) <=> ~Fits(a * b)
    BY <1>2, <1>6, <1>7
  <2> QED
    BY <1>3, <1>4, <1>7, <1>11, <2>1, <2>2, Zenon
<1>8. CASE a <= 0 /\ b > 0
  <2>1. a < CDiv(MinInt, b) <=> ~Fits(b * a)
    BY <1>2, <1>6, <1>8
  <2>2. b * a = a * b
    BY <1>2
  <2>3. ~(a > 0)
    BY <1>2, <1>8
  <2> QED
    BY <1>3, <1>4, <1>8, <1>11, <2>1, <2>2, <2>3, Zenon
<1>9. CASE a < 0 /\ b <= 0
  <2>1. PICK u \in Nat, w \in Nat \ {0} : u = -b /\ w = -a
    BY <1>2, <1>9
  <2>2. CDiv(MaxInt, a) = -(M \div w)
    BY <1>1, <2>1 DEF CDiv, Abs
  <2>3. u > M \div w <=> u * w > M
    BY <1>1, <2>1, QuotientBounds
  <2>4. PICK z \in Nat : z = u * w
    BY <2>1
  <2>5. a * b = z
    <3>1. (-w) * (-u) = u * w /\ a = -w /\ b = -u
      BY <1>2, <2>1
    <3> QED
      BY <2>4, <3>1
  <2>6. M \div w \in Int
    BY <1>1, <2>1
  <2>7. b < CDiv(MaxInt, a) <=> z > M
    BY <1>2, <2>1, <2>2, <2>3, <2>4, <2>6
  <2>8. Fits(a * b) <=> z <= M
    BY <1>1, <2>5 DEF Fits
  <2>9. ~(a > 0) /\ ~(b > 0) /\ a # 0
    BY <1>2, <1>9
  <2>10. MulOverflow(a, b) <=> b < CDiv(MaxInt, a)
    BY <1>11, <2>9, Zenon
  <2>11. z > M <=> ~(z <= M)
    BY <1>1
  <2> QED
    BY <1>3, <1>4, <2>7, <2>8, <2>10, <2>11, Zenon
<1>10. CASE a = 0 /\ b <= 0
  <2>1. a * b = 0 /\ Fits(0)
    BY <1>1, <1>2, <1>10 DEF Fits
  <2>2. ~(a > 0) /\ ~(b > 0)
    BY <1>2, <1>10
  <2>3. ~MulOverflow(a, b)
    BY <1>10, <1>11, <2>2, Zenon
  <2> QED
    BY <1>3, <1>4, <2>1, <2>3
<1> QED
  BY <1>2, <1>3, <1>4, <1>5, <1>7, <1>8, <1>9, <1>10

(* The forms of an integer: a word, or a big integer as bigsetvt leaves it *)
(* or does not touch it.                                                   *)
Integer(v) == (\E k \in MinInt..MaxInt : v = Fix(k)) \/ Proper(v)

LEMMA FixIsFix ==
  ASSUME NEW k
  PROVE  /\ IsFix(Fix(k)) /\ ~IsBig(Fix(k)) /\ ~IsRatio(Fix(k)) /\ Fix(k).n = k
         /\ Num(Fix(k)) = k /\ Den(Fix(k)) = 1 /\ Exact(Fix(k)) /\ LimbCount(Fix(k)) = 1
<1>1. DOMAIN Fix(k) = {"n"} /\ Fix(k).n = k
  BY DEF Fix
<1>2. "n" # "sign" /\ "n" # "nu"
  OBVIOUS
<1>3. {"n"} # {"sign", "data"} /\ {"n"} # {"nu", "de"}
  BY <1>2
<1> QED
  BY <1>1, <1>3 DEF IsFix, IsBig, IsRatio, Num, Den, Exact, IsInteger, LimbCount

LEMMA BigIsBig ==
  ASSUME NEW a \in Bigs
  PROVE  /\ IsBig(a) /\ ~IsFix(a) /\ ~IsRatio(a)
         /\ Num(a) = BigVal(a) /\ Den(a) = 1 /\ Exact(a) /\ LimbCount(a) = Len(a.data)
<1>1. DOMAIN a = {"sign", "data"}
  BY DEF Bigs
<1>2. "n" # "sign" /\ "sign" # "nu" /\ "sign" # "de"
  OBVIOUS
<1>3. {"sign", "data"} # {"n"} /\ {"sign", "data"} # {"nu", "de"}
  BY <1>2
<1> QED
  BY <1>1, <1>3 DEF IsFix, IsBig, IsRatio, Num, Den, Exact, IsInteger, LimbCount

(* bigsetvt keeps the value and gives the form that is right.              *)
LEMMA BigSetVTKeeps ==
  ASSUME NEW a \in Bigs
  PROVE  /\ Integer(BigSetVT(a)) /\ Num(BigSetVT(a)) = BigVal(a)
         /\ Canonical(BigSetVT(a))
<1>1. PICK b : b = Normalize(a) /\ Proper(b) /\ BigVal(b) = BigVal(a)
  BY NormalizeKeeps
<1>2. b \in Bigs /\ b.data \in Seq(Limbs) /\ b.data # <<>> /\ b.sign \in {1, -1}
  BY <1>1, BigFacts DEF Proper
<1>3. PICK M \in Nat : M = MaxInt /\ M + 1 < Base /\ MinInt = -M - 1
  BY WordFacts
<1>4. ASSUME Len(b.data) = 1
      PROVE  Magnitude(b.data) = b.data[1] /\ b.data[1] \in Nat
  <2>1. b.data[1] \in Limbs /\ b.data[1] \in Nat /\ Base \in Nat
    BY <1>2, <1>4, LimbFacts
  <2>2. PICK v : Values(b.data, 1, v) /\ v[0] = Magnitude(b.data)
    BY <1>2, <1>4, MagnitudeOwn
  <2>3. v[1] = 0 /\ v[0] = Limb(b.data, 1) + Base * v[1]
    <3>1. v[1] = 0 /\ \A i \in 1..1 : v[i - 1] = Limb(b.data, i) + Base * v[i]
      BY <2>2 DEF Values
    <3>2. PICK i \in 1..1 : i = 1 /\ i - 1 = 0
      OBVIOUS
    <3> QED
      BY <3>1, <3>2
  <2>4. Limb(b.data, 1) = b.data[1]
    BY <1>2, <1>4, LimbIsLimb
  <2>5. Base * 0 = 0
    BY <2>1
  <2> QED
    BY <2>1, <2>2, <2>3, <2>4, <2>5
<1>5. BigVal(b) = b.sign * Magnitude(b.data) /\ Magnitude(b.data) \in Nat
  BY <1>2, MagnitudeNat DEF BigVal
<1>6. CASE Len(b.data) = 1 /\ b.data[1] <= MaxInt
  <2>1. BigSetVT(a) = Fix(b.sign * b.data[1])
    BY <1>1, <1>6 DEF BigSetVT
  <2>2. b.sign * b.data[1] = BigVal(b)
    BY <1>4, <1>5, <1>6
  <2>3. b.sign * b.data[1] \in MinInt..MaxInt
    <3>1. PICK q \in Nat : q = b.data[1] /\ q <= M
      BY <1>3, <1>4, <1>6
    <3>2. 1 * q = q /\ (-1) * q = -q
      OBVIOUS
    <3> QED
      BY <1>2, <1>3, <3>1, <3>2
  <2> QED
    BY <1>1, <2>1, <2>2, <2>3, FixIsFix DEF Integer, Canonical
<1>7. CASE ~(Len(b.data) = 1 /\ b.data[1] <= MaxInt)
  <2>1. BigSetVT(a) = b
    BY <1>1, <1>7 DEF BigSetVT
  <2>2. Magnitude(b.data) > M
    <3>1. CASE Len(b.data) = 1
      BY <1>3, <1>4, <1>7, <3>1
    <3>2. CASE Len(b.data) # 1
      <4>1. Len(b.data) \in Nat /\ Len(b.data) # 0
        BY <1>2
      <4>2. M \in Limbs
        BY <1>3, LimbFacts
      <4>3. PICK e : e \in Bigs /\ Len(e.data) = 1 /\ Trimmed(e) /\ Magnitude(e.data) = M
        <5>1. PICK e : e = Big(1, <<M>>)
          OBVIOUS
        <5>2. e \in Bigs /\ Len(e.data) = 1 /\ Trimmed(e) /\ Magnitude(e.data) = M
          BY <4>2, <5>1, OneLimb
        <5> QED
          BY <5>2
      <4>4. Trimmed(b)
        BY <1>1, ProperIsTrimmed
      <4>5. Len(b.data) > Len(e.data)
        <5>1. PICK l \in Nat : l = Len(b.data) /\ l # 0 /\ l # 1
          BY <3>2, <4>1
        <5>2. l # 0 /\ l # 1
          BY <5>1
        <5>3. l > 1
          BY <5>2
        <5>4. Len(e.data) = 1 /\ Len(b.data) = l
          BY <4>3, <5>1
        <5> QED
          BY <5>3, <5>4, Zenon
      <4>7. Magnitude(b.data) > Magnitude(e.data)
        BY <4>3, <4>4, <4>5, LongerIsGreater
      <4> QED
        BY <4>3, <4>7
    <3> QED
      BY <3>1, <3>2
  <2>3. ~(BigVal(b) \in (-MaxInt)..MaxInt)
    <3>1. PICK q \in Nat : q = Magnitude(b.data) /\ q > M
      BY <1>5, <2>2
    <3>2. BigVal(b) = q \/ BigVal(b) = -q
      <4>1. 1 * q = q /\ (-1) * q = -q
        OBVIOUS
      <4> QED
        BY <1>2, <1>5, <3>1, <4>1
    <3> QED
      BY <1>3, <3>1, <3>2
  <2>4. Num(b) = BigVal(b)
    BY <1>2, BigIsBig
  <2> QED
    BY <1>1, <2>1, <2>3, <2>4 DEF Integer, Canonical
<1> QED
  BY <1>6, <1>7

(* A word as a big integer.                                                *)
LEMMA NumBigFromIKeeps ==
  ASSUME NEW k \in MinInt..MaxInt
  PROVE  /\ Proper(NumBigFromI(k)) /\ BigVal(NumBigFromI(k)) = k
         /\ Len(NumBigFromI(k).data) = 1
<1>1. PICK M \in Nat : M = MaxInt /\ MinInt = -M - 1 /\ M + 1 < Base
  BY WordFacts
<1>2. PICK q \in Nat : q = Abs(k) /\ (k < 0 => q = -k) /\ (k >= 0 => q = k) /\ q < Base
  <2>1. k \in Int /\ k \in (-M - 1)..M /\ Base \in Nat
    BY <1>1, LimbFacts
  <2>2. CASE k < 0
    <3>1. -k \in Nat /\ -k < Base /\ Abs(k) = -k
      BY <1>1, <2>1, <2>2 DEF Abs
    <3> QED
      BY <2>1, <2>2, <3>1
  <2>3. CASE k >= 0
    <3>1. k \in Nat /\ k < Base /\ Abs(k) = k
      BY <1>1, <2>1, <2>3 DEF Abs
    <3> QED
      BY <2>1, <2>3, <3>1
  <2> QED
    BY <2>1, <2>2, <2>3
<1>3. PICK s \in {1, -1} : s = IF k < 0 THEN -1 ELSE 1
  OBVIOUS
<1>4. NumBigFromI(k) = Big(s, <<q>>)
  BY <1>2, <1>3 DEF NumBigFromI
<1>5. q \in Limbs
  BY <1>2, LimbFacts
<1>6. /\ Big(s, <<q>>) \in Bigs /\ Big(s, <<q>>).data = <<q>> /\ Big(s, <<q>>).sign = s
      /\ Len(<<q>>) = 1 /\ <<q>> # <<>> /\ <<q>>[1] = q /\ Magnitude(<<q>>) = q
  <2>1. <<q>> \in Seq(Limbs) /\ Len(<<q>>) = 1 /\ <<q>> # <<>> /\ <<q>>[1] = q /\ Magnitude(<<q>>) = q
    BY <1>5, OneLimb
  <2> QED
    BY <2>1 DEF Big, Bigs
<1>7. q # 0 \/ Big(s, <<q>>) = BigZero
  BY <1>2, <1>3 DEF BigZero
<1>8. Proper(Big(s, <<q>>))
  BY <1>6, <1>7 DEF Proper
<1>10. BigVal(Big(s, <<q>>)) = k
  <2>1. BigVal(Big(s, <<q>>)) = s * q
    BY <1>6 DEF BigVal
  <2>2. 1 * q = q /\ (-1) * q = -q
    OBVIOUS
  <2> QED
    BY <1>2, <1>3, <2>1, <2>2
<1> QED
  BY <1>4, <1>6, <1>8, <1>10

(* What is known of an integer in one of its two forms.                    *)
WordOf(v) == IsFix(v) /\ ~IsBig(v) /\ v.n \in MinInt..MaxInt /\ v = Fix(v.n) /\ Num(v) = v.n
BigOf(v) == IsBig(v) /\ ~IsFix(v) /\ Proper(v) /\ Num(v) = BigVal(v) /\ LimbCount(v) = Len(v.data)

LEMMA IntegerForms ==
  ASSUME NEW v, Integer(v)
  PROVE  /\ (WordOf(v) /\ LimbCount(v) = 1) \/ BigOf(v)
         /\ ~IsRatio(v) /\ Den(v) = 1 /\ Num(v) \in Int /\ Exact(v) /\ IsInteger(v)
<1>1. ASSUME NEW k \in MinInt..MaxInt, v = Fix(k)
      PROVE  /\ WordOf(v) /\ LimbCount(v) = 1
             /\ ~IsRatio(v) /\ Den(v) = 1 /\ Num(v) \in Int /\ Exact(v) /\ IsInteger(v)
  <2>1. k \in Int
    BY WordFacts
  <2>2. IsFix(v) /\ ~IsBig(v) /\ ~IsRatio(v) /\ v.n = k /\ Num(v) = k /\ Den(v) = 1 /\ Exact(v) /\ LimbCount(v) = 1
    BY <1>1, FixIsFix
  <2> QED
    BY <1>1, <2>1, <2>2 DEF WordOf, IsInteger
<1>2. ASSUME Proper(v)
      PROVE  /\ BigOf(v)
             /\ ~IsRatio(v) /\ Den(v) = 1 /\ Num(v) \in Int /\ Exact(v) /\ IsInteger(v)
  <2>1. v \in Bigs
    BY <1>2 DEF Proper
  <2>2. BigVal(v) \in Int
    BY <2>1, ValueBySign
  <2> QED
    BY <1>2, <2>1, <2>2, BigIsBig DEF BigOf, IsInteger
<1> QED
  BY <1>1, <1>2 DEF Integer

(* Both arguments are brought to big integers, unless both are words.      *)
LEMMA UpKeeps ==
  ASSUME NEW v, NEW w, Integer(v), Integer(w)
  PROVE  /\ ~Mismatched(v, w)
         /\ WordOf(v) /\ WordOf(w) => Up(v, w) = v
         /\ ~(WordOf(v) /\ WordOf(w)) =>
              /\ Proper(Up(v, w)) /\ IsBig(Up(v, w)) /\ ~IsFix(Up(v, w)) /\ ~IsRatio(Up(v, w))
              /\ BigVal(Up(v, w)) = Num(v) /\ Len(Up(v, w).data) = LimbCount(v)
<1>1. ~IsRatio(v) /\ ~IsRatio(w)
  BY IntegerForms
<1>2. ~Mismatched(v, w)
  BY <1>1 DEF Mismatched
<1>3. CASE WordOf(v) /\ WordOf(w)
  BY <1>1, <1>2, <1>3 DEF Up, WordOf
<1>4. CASE WordOf(v) /\ LimbCount(v) = 1 /\ BigOf(w)
  <2>1. Up(v, w) = NumBigFromI(v.n)
    BY <1>1, <1>4 DEF Up, WordOf, BigOf
  <2>2. v.n \in MinInt..MaxInt /\ Num(v) = v.n
    BY <1>4 DEF WordOf
  <2>3. /\ Proper(NumBigFromI(v.n)) /\ BigVal(NumBigFromI(v.n)) = v.n
        /\ Len(NumBigFromI(v.n).data) = 1
    BY <2>2, NumBigFromIKeeps
  <2>4. IsBig(Up(v, w)) /\ ~IsFix(Up(v, w)) /\ ~IsRatio(Up(v, w))
    BY <2>1, <2>3, BigIsBig DEF Proper
  <2>5. ~WordOf(w)
    BY <1>4 DEF WordOf, BigOf
  <2> QED
    BY <1>2, <1>4, <2>1, <2>2, <2>3, <2>4, <2>5
<1>5. CASE BigOf(v)
  <2>1. Up(v, w) = v /\ ~WordOf(v)
    BY <1>1, <1>5 DEF Up, BigOf, WordOf
  <2> QED
    BY <1>1, <1>2, <1>5, <2>1 DEF BigOf
<1> QED
  BY <1>3, <1>4, <1>5, IntegerForms

(* The condition on the lengths under which magnitudes are added rightly.  *)
Longer(v, w) == LimbCount(v) >= LimbCount(w) \/ ((Num(v) < 0) # (Num(w) < 0))

LEMMA SignOfProper ==
  ASSUME NEW a, Proper(a)
  PROVE  /\ a \in Bigs /\ a.sign \in {1, -1} /\ (a.sign = -1 <=> BigVal(a) < 0)
<1>1. a \in Bigs /\ (a.data[Len(a.data)] # 0 \/ a = BigZero)
  BY DEF Proper
<1>2. PICK q \in Nat : q = Magnitude(a.data)
  BY <1>1, ValueBySign
<1>3. (a.sign = 1 /\ BigVal(a) = q) \/ (a.sign = -1 /\ BigVal(a) = -q)
  BY <1>1, <1>2, ValueBySign
<1>4. q = 0 => a.sign = 1
  <2>1. q = 0 => IsZero(a)
    BY <1>1, <1>2, IsZeroMeans
  <2>2. IsZero(a) => a = BigZero
    BY ProperIsTrimmed
  <2>3. BigZero.sign = 1
    BY DEF BigZero, Big
  <2> QED
    BY <2>1, <2>2, <2>3
<1>5. a.sign = -1 <=> BigVal(a) < 0
  BY <1>3, <1>4
<1> QED
  BY <1>1, <1>3, <1>5

LEMMA NumAddIs ==
  ASSUME NEW v, NEW w, Integer(v), Integer(w)
  PROVE  /\ Integer(NumAdd(v, w)) /\ Canonical(NumAdd(v, w))
         /\ Longer(v, w) => Num(NumAdd(v, w)) = Num(v) + Num(w)
<1>1. ~Mismatched(v, w)
  BY UpKeeps
<1>2. CASE WordOf(v) /\ WordOf(w)
  <2>1. PICK a \in MinInt..MaxInt, b \in MinInt..MaxInt : a = v.n /\ b = w.n /\ Num(v) = a /\ Num(w) = b
    BY <1>2 DEF WordOf
  <2>2. a \in Int /\ b \in Int
    BY WordFacts
  <2>3. Up(v, w) = v /\ Up(w, v) = w /\ IsFix(v) /\ ~IsBig(v) /\ ~IsRatio(v)
    BY <1>2, UpKeeps, IntegerForms DEF WordOf
  <2>4. NumAdd(v, w) = IF ~AddOverflow(a, b) THEN Fix(Wrap(a + b))
                       ELSE BigSetVT(BigAdd(NumBigFromI(a), NumBigFromI(b)))
    BY <1>1, <2>1, <2>3 DEF NumAdd, NumSyncType
  <2>5. CASE ~AddOverflow(a, b)
    <3>1. Fits(a + b) /\ a + b \in Int
      BY <2>2, <2>5, OverflowsAreFound
    <3>2. NumAdd(v, w) = Fix(a + b)
      BY <2>4, <2>5, <3>1, WrapKeeps
    <3> QED
      BY <2>1, <3>1, <3>2, FixIsFix DEF Integer, Canonical, Fits
  <2>6. CASE AddOverflow(a, b)
    <3>1. PICK c, d : c = NumBigFromI(a) /\ d = NumBigFromI(b)
      OBVIOUS
    <3>2. Proper(c) /\ Proper(d) /\ BigVal(c) = a /\ BigVal(d) = b /\ Len(c.data) = 1 /\ Len(d.data) = 1
      BY <3>1, NumBigFromIKeeps
    <3>3. Trimmed(c) /\ Trimmed(d) /\ LongEnough(c, d)
      <4>1. 1 <= 1
        OBVIOUS
      <4>2. Len(d.data) <= Len(c.data)
        BY <3>2, <4>1, Zenon
      <4> QED
        BY <3>2, <4>2, ProperIsTrimmed DEF LongEnough
    <3>4. BigAdd(c, d) \in Bigs /\ BigVal(BigAdd(c, d)) = a + b
      BY <3>2, <3>3, BigAddExact
    <3> QED
      BY <2>1, <2>4, <2>6, <3>1, <3>4, BigSetVTKeeps
  <2> QED
    BY <2>5, <2>6
<1>3. CASE ~(WordOf(v) /\ WordOf(w))
  <2>1. PICK c, d : c = Up(v, w) /\ d = Up(w, v)
    OBVIOUS
  <2>2. /\ Proper(c) /\ IsBig(c) /\ ~IsFix(c) /\ ~IsRatio(c) /\ BigVal(c) = Num(v) /\ Len(c.data) = LimbCount(v)
        /\ Proper(d) /\ BigVal(d) = Num(w) /\ Len(d.data) = LimbCount(w)
    BY <1>3, <2>1, UpKeeps
  <2>3. NumAdd(v, w) = BigSetVT(BigAdd(c, d))
    BY <1>1, <2>1, <2>2 DEF NumAdd, NumSyncType
  <2>4. Trimmed(c) /\ Trimmed(d)
    BY <2>2, ProperIsTrimmed
  <2>5. Longer(v, w) => LongEnough(c, d)
    <3>1. (c.sign = -1 <=> Num(v) < 0) /\ (d.sign = -1 <=> Num(w) < 0)
      BY <2>2, SignOfProper
    <3>2. LimbCount(v) >= LimbCount(w) => Len(d.data) <= Len(c.data)
      BY <2>2
    <3> QED
      BY <3>1, <3>2 DEF Longer, LongEnough
  <2>6. BigAdd(c, d) \in Bigs /\ (Longer(v, w) => BigVal(BigAdd(c, d)) = Num(v) + Num(w))
    BY <2>2, <2>4, <2>5, BigAddExact
  <2> QED
    BY <2>3, <2>6, BigSetVTKeeps
<1> QED
  BY <1>2, <1>3


(* The same for the difference.                                            *)
LongerBelow(v, w) ==
  LimbCount(v) >= LimbCount(w) \/ ((Num(v) < 0) = (Num(w) < 0)) \/ Num(v) = 0

LEMMA SignTurned ==
  ASSUME NEW d, Proper(d)
  PROVE  Signed(-d.sign, d).data = d.data /\ Signed(-d.sign, d).sign = -d.sign
<1>1. d \in Bigs /\ d.sign \in {1, -1}
  BY SignOfProper
<1>2. -d.sign \in {1, -1}
  BY <1>1
<1> QED
  BY <1>1, <1>2, SignedFacts

LEMMA NumSubtractIs ==
  ASSUME NEW v, NEW w, NEW same \in BOOLEAN, Integer(v), Integer(w)
  PROVE  /\ Integer(NumSubtract(v, w, same)) /\ Canonical(NumSubtract(v, w, same))
         /\ same = FALSE /\ LongerBelow(v, w) => Num(NumSubtract(v, w, same)) = Num(v) - Num(w)
<1>1. ~Mismatched(v, w)
  BY UpKeeps
<1>2. CASE WordOf(v) /\ WordOf(w)
  <2>1. PICK a \in MinInt..MaxInt, b \in MinInt..MaxInt : a = v.n /\ b = w.n /\ Num(v) = a /\ Num(w) = b
    BY <1>2 DEF WordOf
  <2>2. a \in Int /\ b \in Int
    BY WordFacts
  <2>3. Up(v, w) = v /\ Up(w, v) = w /\ IsFix(v) /\ ~IsBig(v) /\ ~IsRatio(v)
    BY <1>2, UpKeeps, IntegerForms DEF WordOf
  <2>4. NumSubtract(v, w, same) = IF ~SubOverflow(a, b) THEN Fix(a - b)
                       ELSE BigSetVT(BigSub(NumBigFromI(a), NumBigFromI(b), FALSE))
    BY <1>1, <2>1, <2>3 DEF NumSubtract, NumSyncType
  <2>5. CASE ~SubOverflow(a, b)
    <3>1. Fits(a - b) /\ a - b \in Int
      BY <2>2, <2>5, OverflowsAreFound
    <3>2. NumSubtract(v, w, same) = Fix(a - b)
      BY <2>4, <2>5
    <3> QED
      BY <2>1, <3>1, <3>2, FixIsFix DEF Integer, Canonical, Fits
  <2>6. CASE SubOverflow(a, b)
    <3>1. PICK c, d : c = NumBigFromI(a) /\ d = NumBigFromI(b)
      OBVIOUS
    <3>2. Proper(c) /\ Proper(d) /\ BigVal(c) = a /\ BigVal(d) = b /\ Len(c.data) = 1 /\ Len(d.data) = 1
      BY <3>1, NumBigFromIKeeps
    <3>3. Trimmed(c) /\ Trimmed(d) /\ LongEnough(c, Signed(-d.sign, d))
      <4>1. 1 <= 1
        OBVIOUS
      <4>2. Len(d.data) <= Len(c.data)
        BY <3>2, <4>1, Zenon
      <4>3. Signed(-d.sign, d).data = d.data
        BY <3>2, SignTurned
      <4> QED
        BY <3>2, <4>2, <4>3, ProperIsTrimmed DEF LongEnough
    <3>4. BigSub(c, d, FALSE) \in Bigs /\ BigVal(BigSub(c, d, FALSE)) = a - b
      BY <3>2, <3>3, BigSubExact
    <3> QED
      BY <2>1, <2>4, <2>6, <3>1, <3>4, BigSetVTKeeps
  <2> QED
    BY <2>5, <2>6
<1>3. CASE ~(WordOf(v) /\ WordOf(w))
  <2>1. PICK c, d : c = Up(v, w) /\ d = Up(w, v)
    OBVIOUS
  <2>2. /\ Proper(c) /\ IsBig(c) /\ ~IsFix(c) /\ ~IsRatio(c) /\ BigVal(c) = Num(v) /\ Len(c.data) = LimbCount(v)
        /\ Proper(d) /\ BigVal(d) = Num(w) /\ Len(d.data) = LimbCount(w)
    BY <1>3, <2>1, UpKeeps
  <2>3. NumSubtract(v, w, same) = BigSetVT(BigSub(c, d, same))
    BY <1>1, <2>1, <2>2 DEF NumSubtract, NumSyncType
  <2>4. Trimmed(c) /\ Trimmed(d)
    BY <2>2, ProperIsTrimmed
  <2>5. LongerBelow(v, w) => LongEnough(c, Signed(-d.sign, d))
    <3>1. (c.sign = -1 <=> Num(v) < 0) /\ (d.sign = -1 <=> Num(w) < 0)
          /\ c.sign \in {1, -1} /\ d.sign \in {1, -1}
      BY <2>2, SignOfProper
    <3>2. LimbCount(v) >= LimbCount(w) => Len(d.data) <= Len(c.data)
      BY <2>2
    <3>3. Signed(-d.sign, d).data = d.data /\ Signed(-d.sign, d).sign = -d.sign
      BY <2>2, SignTurned
    <3>4. (Num(v) < 0) = (Num(w) < 0) => c.sign # -d.sign
      BY <3>1
    <3>5. Num(v) = 0 => IsZero(c)
      BY <2>2, IsZeroMeans DEF Proper
    <3> QED
      BY <3>2, <3>3, <3>4, <3>5 DEF LongerBelow, LongEnough
  <2>6. BigSub(c, d, same) \in Bigs
    BY <2>4, BigSubExact
  <2>7. LongerBelow(v, w) => BigVal(BigSub(c, d, FALSE)) = Num(v) - Num(w)
    BY <2>2, <2>4, <2>5, BigSubExact
  <2> QED
    BY <2>3, <2>6, <2>7, BigSetVTKeeps
<1> QED
  BY <1>2, <1>3

LEMMA NumMultiplyIs ==
  ASSUME NEW v, NEW w, Integer(v), Integer(w)
  PROVE  /\ Integer(NumMultiply(v, w)) /\ Canonical(NumMultiply(v, w))
         /\ Num(NumMultiply(v, w)) = Num(v) * Num(w)
<1>1. ~Mismatched(v, w)
  BY UpKeeps
<1>2. CASE WordOf(v) /\ WordOf(w)
  <2>1. PICK a \in MinInt..MaxInt, b \in MinInt..MaxInt : a = v.n /\ b = w.n /\ Num(v) = a /\ Num(w) = b
    BY <1>2 DEF WordOf
  <2>2. a \in Int /\ b \in Int
    BY WordFacts
  <2>3. Up(v, w) = v /\ Up(w, v) = w /\ IsFix(v) /\ ~IsBig(v) /\ ~IsRatio(v)
    BY <1>2, UpKeeps, IntegerForms DEF WordOf
  <2>4. NumMultiply(v, w) = IF ~MulOverflow(a, b) THEN Fix(a * b)
                       ELSE BigSetVT(BigMul(NumBigFromI(a), NumBigFromI(b)))
    BY <1>1, <2>1, <2>3 DEF NumMultiply, NumSyncType
  <2>5. CASE ~MulOverflow(a, b)
    <3>1. Fits(a * b) /\ a * b \in Int
      BY <2>2, <2>5, OverflowsAreFound
    <3>2. NumMultiply(v, w) = Fix(a * b)
      BY <2>4, <2>5
    <3> QED
      BY <2>1, <3>1, <3>2, FixIsFix DEF Integer, Canonical, Fits
  <2>6. CASE MulOverflow(a, b)
    <3>1. PICK c, d : c = NumBigFromI(a) /\ d = NumBigFromI(b)
      OBVIOUS
    <3>2. Proper(c) /\ Proper(d) /\ BigVal(c) = a /\ BigVal(d) = b /\ Len(c.data) = 1 /\ Len(d.data) = 1
      BY <3>1, NumBigFromIKeeps
    <3>3. c \in Bigs /\ d \in Bigs
      BY <3>2 DEF Proper
    <3>4. BigMul(c, d) \in Bigs /\ BigVal(BigMul(c, d)) = a * b
      BY <3>2, <3>3, BigMulExact
    <3> QED
      BY <2>1, <2>4, <2>6, <3>1, <3>4, BigSetVTKeeps
  <2> QED
    BY <2>5, <2>6
<1>3. CASE ~(WordOf(v) /\ WordOf(w))
  <2>1. PICK c, d : c = Up(v, w) /\ d = Up(w, v)
    OBVIOUS
  <2>2. /\ Proper(c) /\ IsBig(c) /\ ~IsFix(c) /\ ~IsRatio(c) /\ BigVal(c) = Num(v) /\ Len(c.data) = LimbCount(v)
        /\ Proper(d) /\ BigVal(d) = Num(w) /\ Len(d.data) = LimbCount(w)
    BY <1>3, <2>1, UpKeeps
  <2>3. NumMultiply(v, w) = BigSetVT(BigMul(c, d))
    BY <1>1, <2>1, <2>2 DEF NumMultiply, NumSyncType
  <2>4. c \in Bigs /\ d \in Bigs
    BY <2>2 DEF Proper
  <2>5. BigMul(c, d) \in Bigs /\ BigVal(BigMul(c, d)) = Num(v) * Num(w)
    BY <2>2, <2>4, BigMulExact
  <2> QED
    BY <2>3, <2>5, BigSetVTKeeps
<1> QED
  BY <1>2, <1>3

-----------------------------------------------------------------------------
(* Order, and the procedures that compare.                                 *)

LEMMA OrderOf ==
  ASSUME NEW v, NEW w, Integer(v), Integer(w)
  PROVE  /\ NumLessP(v, w) <=> Num(v) < Num(w)
         /\ NumBiggerP(v, w) <=> Num(v) > Num(w)
         /\ NumEqualP(v, w) <=> Num(v) = Num(w)
<1>1. CASE WordOf(v) /\ WordOf(w)
  <2>1. Up(v, w) = v /\ Up(w, v) = w /\ IsFix(v) /\ ~IsBig(v) /\ ~IsRatio(v)
    BY <1>1, UpKeeps, IntegerForms DEF WordOf
  <2>2. Num(v) = v.n /\ Num(w) = w.n
    BY <1>1 DEF WordOf
  <2>3. NumLessP(v, w) <=> v.n < w.n
    BY <2>1 DEF NumLessP, NumSyncType
  <2>4. NumBiggerP(v, w) <=> v.n > w.n
    BY <2>1 DEF NumBiggerP, NumSyncType
  <2>5. NumEqualP(v, w) <=> v.n = w.n
    BY <2>1 DEF NumEqualP, NumSyncType
  <2> QED
    BY <2>2, <2>3, <2>4, <2>5
<1>2. CASE ~(WordOf(v) /\ WordOf(w))
  <2>1. PICK c, d : c = Up(v, w) /\ d = Up(w, v)
    OBVIOUS
  <2>2. /\ Proper(c) /\ IsBig(c) /\ ~IsFix(c) /\ ~IsRatio(c) /\ BigVal(c) = Num(v)
        /\ Proper(d) /\ BigVal(d) = Num(w)
    BY <1>2, <2>1, UpKeeps
  <2>3. \/ Cmp(c, d) = 1 /\ BigVal(c) > BigVal(d)
        \/ Cmp(c, d) = 0 /\ BigVal(c) = BigVal(d)
        \/ Cmp(c, d) = -1 /\ BigVal(c) < BigVal(d)
    BY <2>2, ProperIsTrimmed, CmpMeans
  <2>4. PICK k \in Int, p \in Int, q \in Int : k = Cmp(c, d) /\ p = Num(v) /\ q = Num(w)
    BY <2>3, IntegerForms
  <2>5. (k = 1 /\ p > q) \/ (k = 0 /\ p = q) \/ (k = -1 /\ p < q)
    BY <2>2, <2>3, <2>4
  <2>6. NumLessP(v, w) <=> k < 0
    BY <2>1, <2>2, <2>4 DEF NumLessP, NumSyncType
  <2>7. NumBiggerP(v, w) <=> k > 0
    BY <2>1, <2>2, <2>4 DEF NumBiggerP, NumSyncType
  <2>8. NumEqualP(v, w) <=> k = 0
    BY <2>1, <2>2, <2>4 DEF NumEqualP, NumSyncType
  <2>9. (k < 0 <=> p < q) /\ (k > 0 <=> p > q) /\ (k = 0 <=> p = q)
    BY <2>5
  <2> QED
    BY <2>4, <2>6, <2>7, <2>8, <2>9
<1> QED
  BY <1>1, <1>2

LEMMA UpIsInteger ==
  ASSUME NEW v, NEW w, Integer(v), Integer(w)
  PROVE  Integer(Up(v, w)) /\ Num(Up(v, w)) = Num(v)
<1>1. CASE WordOf(v) /\ WordOf(w)
  BY <1>1, UpKeeps
<1>2. CASE ~(WordOf(v) /\ WordOf(w))
  <2>1. Proper(Up(v, w)) /\ BigVal(Up(v, w)) = Num(v)
    BY <1>2, UpKeeps
  <2> QED
    BY <2>1, BigIsBig DEF Integer, Proper
<1> QED
  BY <1>1, <1>2

LEMMA MaxMinOf ==
  ASSUME NEW v, NEW w, Integer(v), Integer(w)
  PROVE  /\ Integer(NumMax(v, w)) /\ Integer(NumMin(v, w))
         /\ Num(NumMax(v, w)) = IF Num(v) < Num(w) THEN Num(w) ELSE Num(v)
         /\ Num(NumMin(v, w)) = IF Num(w) < Num(v) THEN Num(w) ELSE Num(v)
<1>1. PICK c, d : /\ c = Up(v, w) /\ d = Up(w, v) /\ Integer(c) /\ Integer(d)
                  /\ Num(c) = Num(v) /\ Num(d) = Num(w)
  BY UpIsInteger
<1>2. NumMax(v, w) = IF NumBiggerP(w, v) THEN d ELSE c
  BY <1>1 DEF NumMax, NumSyncType
<1>3. NumMin(v, w) = IF NumLessP(w, v) THEN d ELSE c
  BY <1>1 DEF NumMin, NumSyncType
<1>4. PICK p \in Int, q \in Int : p = Num(v) /\ q = Num(w)
  BY IntegerForms
<1>5. (NumBiggerP(w, v) <=> p < q) /\ (NumLessP(w, v) <=> q < p)
  <2>1. (NumBiggerP(w, v) <=> q > p) /\ (NumLessP(w, v) <=> q < p)
    BY <1>4, OrderOf
  <2> QED
    BY <2>1
<1> QED
  BY <1>1, <1>2, <1>3, <1>4, <1>5

LEMMA AbsIs ==
  ASSUME NEW v, Integer(v)
  PROVE  Integer(NumAbs(v)) /\ Num(NumAbs(v)) = Abs(Num(v))
<1>1. PICK z : z = Fix(0) /\ Integer(z) /\ Num(z) = 0
  <2>1. 0 \in MinInt..MaxInt
    BY WordFacts
  <2> QED
    BY <2>1, FixIsFix DEF Integer
<1>2. PICK p \in Int : p = Num(v)
  BY IntegerForms
<1>3. NumAbs(v) = IF NumLessP(v, z) THEN NumSubtract(z, v, FALSE) ELSE Up(v, z)
  BY <1>1 DEF NumAbs, NumSyncType
<1>4. NumLessP(v, z) <=> p < 0
  BY <1>1, <1>2, OrderOf
<1>5. CASE p < 0
  <2>1. NumAbs(v) = NumSubtract(z, v, FALSE)
    BY <1>3, <1>4, <1>5
  <2>2. LongerBelow(z, v)
    BY <1>1 DEF LongerBelow
  <2>3. PICK same \in BOOLEAN : same = FALSE
    OBVIOUS
  <2>4. Integer(NumSubtract(z, v, same)) /\ Num(NumSubtract(z, v, same)) = Num(z) - Num(v)
    BY <1>1, <2>2, <2>3, NumSubtractIs
  <2>5. 0 - p = Abs(p)
    BY <1>5 DEF Abs
  <2> QED
    BY <1>1, <1>2, <2>1, <2>3, <2>4, <2>5
<1>6. CASE ~(p < 0)
  <2>1. NumAbs(v) = Up(v, z)
    BY <1>3, <1>4, <1>6
  <2>2. Integer(Up(v, z)) /\ Num(Up(v, z)) = Num(v)
    BY <1>1, UpIsInteger
  <2>3. Abs(p) = p
    BY <1>6 DEF Abs
  <2> QED
    BY <1>2, <2>1, <2>2, <2>3
<1> QED
  BY <1>5, <1>6

-----------------------------------------------------------------------------
(* The arithmetic of the two registers, when both hold integers.           *)
Registers == Integer(x) /\ Integer(y)

(* numadd: the sum of two integers is their sum, in words and across their *)
(* overflow, in big integers of any length through every carry of addabs   *)
(* and borrow of subabs; as long as magnitudes that are added begin with   *)
(* the longer one.                                                         *)
THEOREM SumOfIntegers == Registers => SumIsExact
<1> SUFFICES ASSUME Registers, FirstIsLonger \/ ~SameSign \/ IsRatio(x)
             PROVE  LET s == NumAdd(x, y)
                    IN  Exact(s) /\ Num(s) * Den(x) * Den(y) = (Num(x) * Den(y) + Num(y) * Den(x)) * Den(s)
  BY DEF SumIsExact
<1>1. Integer(x) /\ Integer(y)
  BY DEF Registers
<1>2. PICK s : s = NumAdd(x, y)
  OBVIOUS
<1>3. ~IsRatio(x) /\ Den(x) = 1 /\ Den(y) = 1 /\ Num(x) \in Int /\ Num(y) \in Int
  BY <1>1, IntegerForms
<1>4. Longer(x, y)
  BY <1>3 DEF Longer, FirstIsLonger, SameSign
<1>5. Integer(s) /\ Num(s) = Num(x) + Num(y)
  BY <1>1, <1>2, <1>4, NumAddIs
<1>6. Exact(s) /\ Den(s) = 1
  BY <1>5, IntegerForms
<1> QED
  BY <1>2, <1>3, <1>5, <1>6

(* numsubtract: the same for the difference of two integers that are not   *)
(* one object.                                                             *)
THEOREM DifferenceOfIntegers == Registers => DifferenceIsExact
<1> SUFFICES ASSUME Registers, FirstIsLonger \/ SameSign \/ IsRatio(x)
             PROVE  LET s == NumSubtract(x, y, FALSE)
                    IN  Exact(s) /\ Num(s) * Den(x) * Den(y) = (Num(x) * Den(y) - Num(y) * Den(x)) * Den(s)
  BY DEF DifferenceIsExact
<1>1. Integer(x) /\ Integer(y)
  BY DEF Registers
<1>0. PICK same \in BOOLEAN : same = FALSE
  OBVIOUS
<1>2. PICK s : same = FALSE /\ s = NumSubtract(x, y, same)
  BY <1>0
<1>3. ~IsRatio(x) /\ Den(x) = 1 /\ Den(y) = 1 /\ Num(x) \in Int /\ Num(y) \in Int
  BY <1>1, IntegerForms
<1>4. LongerBelow(x, y)
  BY <1>3 DEF LongerBelow, FirstIsLonger, SameSign
<1>5. Integer(s) /\ Num(s) = Num(x) - Num(y)
  BY <1>1, <1>2, <1>4, NumSubtractIs
<1>6. Exact(s) /\ Den(s) = 1
  BY <1>5, IntegerForms
<1>7. Num(s) * Den(x) * Den(y) = (Num(x) * Den(y) - Num(y) * Den(x)) * Den(s)
  <2>1. PICK p \in Int, q \in Int : p = Num(x) /\ q = Num(y)
    BY <1>3
  <2>2. (p - q) * 1 * 1 = (p * 1 - q * 1) * 1
    OBVIOUS
  <2> QED
    BY <1>3, <1>5, <1>6, <2>1, <2>2
<1>8. s = NumSubtract(x, y, FALSE)
  BY <1>2
<1> QED
  BY <1>6, <1>7, <1>8

(* nummultiply: the product of two integers is their product, of whatever  *)
(* lengths: the schoolbook rows of mulabs, the products of half limbs and  *)
(* the test for the overflow of a word included.                           *)
THEOREM ProductOfIntegers == Registers => ProductIsExact
<1> SUFFICES ASSUME Registers
             PROVE  LET s == NumMultiply(x, y)
                    IN  Exact(s) /\ Num(s) * Den(x) * Den(y) = Num(x) * Num(y) * Den(s)
  BY DEF ProductIsExact
<1>1. Integer(x) /\ Integer(y)
  BY DEF Registers
<1>2. PICK s : s = NumMultiply(x, y)
  OBVIOUS
<1>3. Den(x) = 1 /\ Den(y) = 1 /\ Num(x) \in Int /\ Num(y) \in Int
  BY <1>1, IntegerForms
<1>4. Integer(s) /\ Num(s) = Num(x) * Num(y)
  BY <1>1, <1>2, NumMultiplyIs
<1>5. Exact(s) /\ Den(s) = 1
  BY <1>4, IntegerForms
<1>6. PICK p \in Int : p = Num(x) * Num(y)
  BY <1>3
<1>7. p * 1 = p /\ p * 1 * 1 = p
  OBVIOUS
<1>8. Num(s) * Den(x) * Den(y) = Num(x) * Num(y) * Den(s)
  BY <1>3, <1>4, <1>5, <1>6, <1>7
<1> QED
  BY <1>2, <1>5, <1>8

(* numlessp, numbiggerp, numequalp, max and min: two integers compare as   *)
(* the numbers they stand for, whatever form each of them has.             *)
THEOREM OrderOfIntegers == Registers => OrderIsRight
<1> SUFFICES ASSUME Registers
             PROVE  /\ NumLessP(x, y) <=> Num(x) * Den(y) < Num(y) * Den(x)
                    /\ NumBiggerP(x, y) <=> Num(x) * Den(y) > Num(y) * Den(x)
                    /\ NumEqualP(x, y) <=> SameNumber(x, y)
                    /\ Num(NumMax(x, y)) * Den(NumMin(x, y)) >= Num(NumMin(x, y)) * Den(NumMax(x, y))
  BY DEF OrderIsRight
<1>1. Integer(x) /\ Integer(y)
  BY DEF Registers
<1>2. PICK p \in Int, q \in Int : p = Num(x) /\ q = Num(y) /\ Den(x) = 1 /\ Den(y) = 1
  BY <1>1, IntegerForms
<1>3. (NumLessP(x, y) <=> p < q) /\ (NumBiggerP(x, y) <=> p > q) /\ (NumEqualP(x, y) <=> p = q)
  BY <1>1, <1>2, OrderOf
<1>4. p * 1 = p /\ q * 1 = q
  OBVIOUS
<1>5. SameNumber(x, y) <=> p = q
  BY <1>2, <1>4 DEF SameNumber
<1>6. PICK mx, mn : mx = NumMax(x, y) /\ mn = NumMin(x, y)
  OBVIOUS
<1>7. /\ Num(mx) = IF p < q THEN q ELSE p
      /\ Num(mn) = IF q < p THEN q ELSE p
      /\ Den(mx) = 1 /\ Den(mn) = 1
  BY <1>1, <1>2, <1>6, MaxMinOf, IntegerForms
<1>8. Num(mx) \in Int /\ Num(mn) \in Int /\ Num(mx) >= Num(mn)
  BY <1>7
<1>9. Num(mx) * Den(mn) >= Num(mn) * Den(mx)
  BY <1>7, <1>8
<1> QED
  BY <1>2, <1>3, <1>4, <1>5, <1>6, <1>9

(* bigsetvt after an operation: a sum, difference or product of integers   *)
(* is a word when it fits one, the smallest word excepted.                 *)
THEOREM FormsOfIntegers == Registers => ResultsAreCanonical
<1> SUFFICES ASSUME Registers
             PROVE  ResultsAreCanonical
  OBVIOUS
<1>1. PICK same \in BOOLEAN : same = FALSE
  OBVIOUS
<1>2. Canonical(NumSubtract(x, y, same))
  BY NumSubtractIs DEF Registers
<1>3. Canonical(NumAdd(x, y)) /\ Canonical(NumMultiply(x, y))
  BY NumAddIs, NumMultiplyIs DEF Registers
<1> QED
  BY <1>1, <1>2, <1>3 DEF ResultsAreCanonical

(* A program that adds, subtracts, multiplies, takes the greater or the    *)
(* smaller or the absolute value, and moves what it has between registers. *)
IntegerStep == Add \/ Subtract \/ Multiply \/ MaxMin \/ AbsOf \/ Swap \/ Copy

LEMMA StepsKeepIntegers == Registers /\ [IntegerStep]_vars => Registers'
<1> SUFFICES ASSUME Registers, [IntegerStep]_vars
             PROVE  Registers'
  OBVIOUS
<1>1. Integer(x) /\ Integer(y)
  BY DEF Registers
<1>2. ASSUME NEW v, Keep(v), Integer(v), y' = y
      PROVE  Registers'
  <2>1. x' = v /\ y' = y
    BY <1>2 DEF Keep
  <2>2. Integer(x') /\ Integer(y')
    BY <1>1, <1>2, <2>1, Zenon
  <2> QED
    BY <2>2 DEF Registers, Integer
<1>3. CASE Add
  <2>1. Keep(NumAdd(x, y)) /\ y' = y
    BY <1>3 DEF Add
  <2>2. Integer(NumAdd(x, y))
    BY <1>1, NumAddIs
  <2> QED
    BY <1>2, <2>1, <2>2
<1>4. CASE Subtract
  <2>1. PICK same \in BOOLEAN : Keep(NumSubtract(x, y, same)) /\ y' = y
    BY <1>4 DEF Subtract
  <2>2. Integer(NumSubtract(x, y, same))
    BY <1>1, NumSubtractIs
  <2> QED
    BY <1>2, <2>1, <2>2
<1>5. CASE Multiply
  <2>1. Keep(NumMultiply(x, y)) /\ y' = y
    BY <1>5 DEF Multiply
  <2>2. Integer(NumMultiply(x, y))
    BY <1>1, NumMultiplyIs
  <2> QED
    BY <1>2, <2>1, <2>2
<1>6. CASE MaxMin
  <2>1. (Keep(NumMax(x, y)) \/ Keep(NumMin(x, y))) /\ y' = y
    BY <1>6 DEF MaxMin
  <2>2. Integer(NumMax(x, y)) /\ Integer(NumMin(x, y))
    BY <1>1, MaxMinOf
  <2> QED
    BY <1>2, <2>1, <2>2
<1>7. CASE AbsOf
  <2>1. Keep(NumAbs(x)) /\ y' = y
    BY <1>7 DEF AbsOf
  <2>2. Integer(NumAbs(x))
    BY <1>1, AbsIs
  <2> QED
    BY <1>2, <2>1, <2>2
<1>8. CASE Swap \/ Copy \/ vars' = vars
  <2>1. (x' = y /\ y' = x) \/ (x' = x /\ y' = x) \/ (x' = x /\ y' = y)
    BY <1>8 DEF Swap, Copy, vars
  <2>2. Integer(x') /\ Integer(y')
    BY <1>1, <2>1, Zenon
  <2> QED
    BY <2>2 DEF Registers, Integer
<1> QED
  BY <1>3, <1>4, <1>5, <1>6, <1>7, <1>8 DEF IntegerStep

(* Whatever such a program computes from integers, all its sums,           *)
(* differences, products and comparisons are exact, for limbs of any width *)
(* and numbers of any length.                                              *)
THEOREM IntegerProgramsAreExact ==
  Registers /\ [][IntegerStep]_vars =>
    [](SumIsExact /\ DifferenceIsExact /\ ProductIsExact /\ OrderIsRight /\ ResultsAreCanonical)
<1>1. Registers => SumIsExact /\ DifferenceIsExact /\ ProductIsExact /\ OrderIsRight /\ ResultsAreCanonical
  BY SumOfIntegers, DifferenceOfIntegers, ProductOfIntegers, OrderOfIntegers, FormsOfIntegers
<1> QED
  BY <1>1, StepsKeepIntegers, PTL

-----------------------------------------------------------------------------
(* Division of integers.                                                   *)

(* The width of a word, in bits.                                           *)
LEMMA WidthFacts ==
  /\ HalfBits \in Nat /\ HalfBits >= 1
  /\ 2 * HalfBits \in Nat /\ 2 * HalfBits >= 2 /\ Width = 2 * HalfBits
BY BignumAssumption DEF Width

(* Division towards zero: the remainder is smaller than the divisor and    *)
(* has the sign of the dividend.                                           *)
LEMMA CDivMeans ==
  ASSUME NEW a \in Int, NEW b \in Int, b # 0
  PROVE  /\ CDiv(a, b) \in Int /\ CMod(a, b) \in Int
         /\ a = b * CDiv(a, b) + CMod(a, b)
         /\ Abs(CMod(a, b)) < Abs(b)
         /\ CMod(a, b) # 0 => (CMod(a, b) < 0 <=> a < 0)
         /\ Abs(CDiv(a, b)) <= Abs(a)
         /\ Abs(CDiv(a, b)) = Abs(a) \div Abs(b)
         /\ Abs(CMod(a, b)) = Abs(a) % Abs(b)
<1>1. PICK p \in Nat, d \in Nat \ {0} : /\ p = Abs(a) /\ d = Abs(b)
                                        /\ (a = p /\ ~(a < 0)) \/ (a = -p /\ a < 0)
                                        /\ (b = d /\ ~(b < 0)) \/ (b = -d /\ b < 0)
  BY DEF Abs
<1>2. PICK q \in Nat, r \in 0..(d - 1) : p = d * q + r /\ p \div d = q /\ p % d = r
  BY DivModExists
<1>3. CDiv(a, b) = IF (a < 0) = (b < 0) THEN q ELSE -q
  BY <1>1, <1>2 DEF CDiv
<1>4. q <= d * q /\ d * q \in Nat
  OBVIOUS
<1>5. PICK z \in Nat : z = d * q /\ q <= z /\ p = z + r
  BY <1>2, <1>4
<1>6. CMod(a, b) = a - b * CDiv(a, b)
  BY DEF CMod
<1>7. d * (-q) = -z /\ (-d) * q = -z /\ (-d) * (-q) = z /\ d * q = z
  BY <1>5
<1>8. b * CDiv(a, b) = IF a < 0 THEN -z ELSE z
  <2>1. CASE a < 0 /\ b < 0
    BY <1>1, <1>3, <1>7, <2>1
  <2>2. CASE a < 0 /\ ~(b < 0)
    BY <1>1, <1>3, <1>7, <2>2
  <2>3. CASE ~(a < 0) /\ b < 0
    BY <1>1, <1>3, <1>7, <2>3
  <2>4. CASE ~(a < 0) /\ ~(b < 0)
    BY <1>1, <1>3, <1>7, <2>4
  <2> QED
    BY <2>1, <2>2, <2>3, <2>4
<1>9. CMod(a, b) = IF a < 0 THEN -r ELSE r
  BY <1>1, <1>5, <1>6, <1>8
<1>10. CDiv(a, b) \in Int /\ Abs(CDiv(a, b)) = q
  BY <1>3 DEF Abs
<1>11. PICK e, m \in Int : e = CDiv(a, b) /\ m = CMod(a, b)
  BY <1>9, <1>10
<1>12. Abs(m) = r /\ (m # 0 => (m < 0 <=> a < 0))
  BY <1>9, <1>11 DEF Abs
<1>13. a = b * e + m
  <2>1. PICK y1 \in Int : y1 = b * e
    OBVIOUS
  <2>2. m = a - y1
    BY <1>6, <1>11, <2>1
  <2> QED
    BY <2>1, <2>2
<1>14. Abs(m) < Abs(b) /\ Abs(m) = Abs(a) % Abs(b)
  BY <1>1, <1>2, <1>12
<1>15. Abs(e) <= Abs(a) /\ Abs(e) = Abs(a) \div Abs(b)
  <2>1. q <= p
    BY <1>5
  <2> QED
    BY <1>1, <1>2, <1>10, <1>11, <2>1
<1> QED
  BY <1>11, <1>12, <1>13, <1>14, <1>15

(* The signs of a quotient and a remainder of magnitudes.                  *)
LEMMA SignsOfDivision ==
  ASSUME NEW A \in Nat, NEW B \in Nat \ {0}, NEW s \in {1, -1}, NEW t \in {1, -1}
  PROVE  /\ (IF s = t THEN 1 ELSE -1) * (A \div B) = CDiv(s * A, t * B)
         /\ s * (A % B) = CMod(s * A, t * B)
<1>1. PICK q \in Nat, r \in 0..(B - 1) : A = B * q + r /\ A \div B = q /\ A % B = r
  BY DivModExists
<1>2. PICK a, b \in Int : a = s * A /\ b = t * B /\ b # 0 /\ Abs(a) = A /\ Abs(b) = B
                          /\ (s = 1 => a = A) /\ (s = -1 => a = -A)
                          /\ (t = 1 => b = B) /\ (t = -1 => b = -B)
  BY DEF Abs
<1>3. Abs(a) \div Abs(b) = q
  BY <1>1, <1>2
<1>4. CDiv(a, b) = IF (a < 0) = (b < 0) THEN q ELSE -q
  BY <1>3 DEF CDiv
<1>5. A = 0 => q = 0
  BY <1>1
<1>6. (IF s = t THEN 1 ELSE -1) * q = CDiv(a, b)
  <2>1. 1 * q = q /\ (-1) * q = -q
    OBVIOUS
  <2>2. CASE A = 0
    BY <1>4, <1>5, <2>1, <2>2
  <2>3. CASE A # 0
    <3>1. a < 0 <=> s = -1
      BY <1>2, <2>3
    <3>2. b < 0 <=> t = -1
      BY <1>2
    <3> QED
      BY <1>4, <2>1, <3>1, <3>2
  <2> QED
    BY <2>2, <2>3
<1>7. /\ CMod(a, b) \in Int /\ Abs(CMod(a, b)) = r
      /\ CMod(a, b) # 0 => (CMod(a, b) < 0 <=> a < 0)
  <2>1. /\ CMod(a, b) \in Int /\ Abs(CMod(a, b)) = Abs(a) % Abs(b)
        /\ CMod(a, b) # 0 => (CMod(a, b) < 0 <=> a < 0)
    BY <1>2, CDivMeans
  <2> QED
    BY <1>1, <1>2, <2>1
<1>8. s * r = CMod(a, b)
  <2>1. PICK m \in Int : m = CMod(a, b)
    BY <1>7
  <2>2. (m = r /\ ~(m < 0)) \/ (m = -r /\ m < 0)
    BY <1>7, <2>1 DEF Abs
  <2>3. r # 0 => A # 0
    BY <1>1
  <2>4. 1 * r = r /\ (-1) * r = -r
    OBVIOUS
  <2>5. CASE r = 0
    BY <2>1, <2>2, <2>4, <2>5
  <2>6. CASE r # 0
    <3>1. m # 0 /\ (m < 0 <=> a < 0) /\ (a < 0 <=> s = -1)
      BY <1>2, <1>7, <2>1, <2>2, <2>3, <2>6
    <3> QED
      BY <2>1, <2>2, <2>4, <3>1
  <2> QED
    BY <2>5, <2>6
<1> QED
  BY <1>1, <1>2, <1>6, <1>8

LEMMA BigDivExact ==
  ASSUME NEW a, Trimmed(a), NEW b, Trimmed(b), BigVal(b) # 0
  PROVE  /\ Trimmed(BigDiv(a, b)) /\ Trimmed(BigMod(a, b))
         /\ BigVal(BigDiv(a, b)) = CDiv(BigVal(a), BigVal(b))
         /\ BigVal(BigMod(a, b)) = CMod(BigVal(a), BigVal(b))
         /\ BigMod(a, b).sign = a.sign
<1>1. a \in Bigs /\ b \in Bigs /\ a.sign \in {1, -1} /\ b.sign \in {1, -1}
  BY BigFacts DEF Trimmed
<1>2. PICK A, B \in Nat : A = Magnitude(a.data) /\ B = Magnitude(b.data)
  BY <1>1, ValueBySign
<1>3. BigVal(a) = a.sign * A /\ BigVal(b) = b.sign * B
  BY <1>2 DEF BigVal
<1>4. B # 0
  <2>1. B = 0 => b.sign * B = 0
    BY <1>1
  <2> QED
    BY <1>3, <2>1
<1>5. PICK q, r : q = DivAbs(a, b).quot /\ r = DivAbs(a, b).rem
  OBVIOUS
<1>6. Trimmed(q) /\ Trimmed(r) /\ Magnitude(q.data) = A \div B /\ Magnitude(r.data) = A % B
  BY <1>2, <1>4, <1>5, DivAbsExact
<1>7. q \in Bigs /\ r \in Bigs
  BY <1>6 DEF Trimmed
<1>8. PICK s : s = (IF a.sign = b.sign THEN 1 ELSE -1) /\ s \in {1, -1}
  OBVIOUS
<1>9. BigDiv(a, b) = Signed(s, q) /\ BigMod(a, b) = Signed(a.sign, r)
  BY <1>5, <1>8 DEF BigDiv, BigMod
<1>10. /\ Trimmed(Signed(s, q)) /\ BigVal(Signed(s, q)) = s * (A \div B)
       /\ Trimmed(Signed(a.sign, r)) /\ BigVal(Signed(a.sign, r)) = a.sign * (A % B)
       /\ Signed(a.sign, r).sign = a.sign
  BY <1>1, <1>6, <1>7, <1>8, SignedFacts
<1>11. /\ s * (A \div B) = CDiv(a.sign * A, b.sign * B)
       /\ a.sign * (A % B) = CMod(a.sign * A, b.sign * B)
  <2>1. PICK t \in {1, -1}, u \in {1, -1} : t = a.sign /\ u = b.sign
    BY <1>1
  <2>2. s = (IF t = u THEN 1 ELSE -1)
    BY <1>8, <2>1
  <2>3. B \in Nat \ {0}
    BY <1>4
  <2>4. /\ (IF t = u THEN 1 ELSE -1) * (A \div B) = CDiv(t * A, u * B)
        /\ t * (A % B) = CMod(t * A, u * B)
    BY <2>3, SignsOfDivision, ZenonT(60)
  <2> QED
    BY <2>1, <2>2, <2>4
<1> QED
  BY <1>3, <1>9, <1>10, <1>11

-----------------------------------------------------------------------------
(* The integer divisions of Scheme.                                        *)
LeavesWord(v, w) == v = Fix(MinInt) /\ w = Fix(-1)

LEMMA CDivFits ==
  ASSUME NEW a \in MinInt..MaxInt, NEW b \in MinInt..MaxInt, b # 0, ~(a = MinInt /\ b = -1)
  PROVE  CDiv(a, b) \in MinInt..MaxInt /\ CMod(a, b) \in MinInt..MaxInt
<1>1. a \in Int /\ b \in Int /\ MaxInt \in Nat /\ MinInt = -MaxInt - 1 /\ MinInt \in Int
  BY WordFacts
<1>2. PICK q, r \in Int : /\ q = CDiv(a, b) /\ r = CMod(a, b) /\ a = b * q + r
                          /\ Abs(r) < Abs(b) /\ Abs(q) <= Abs(a)
                          /\ Abs(q) = Abs(a) \div Abs(b)
  BY <1>1, CDivMeans, ZenonT(60)
<1>3. r \in MinInt..MaxInt
  <2>1. Abs(b) <= MaxInt + 1
    BY <1>1 DEF Abs
  <2>2. Abs(r) <= MaxInt
    BY <1>1, <1>2, <2>1 DEF Abs
  <2> QED
    BY <1>1, <2>2 DEF Abs
<1>4. q \in MinInt..MaxInt
  <2>1. CASE Abs(a) <= MaxInt
    <3>1. Abs(q) <= MaxInt
      BY <1>1, <1>2, <2>1 DEF Abs
    <3> QED
      BY <1>1, <3>1 DEF Abs
  <2>2. CASE ~(Abs(a) <= MaxInt)
    <3>1. a = MinInt /\ b # -1 /\ Abs(a) = MaxInt + 1
      BY <1>1, <2>2 DEF Abs
    <3>2. CASE b = 1
      <4>1. r = 0
        BY <1>2, <3>2 DEF Abs
      <4> QED
        BY <1>1, <1>2, <3>2, <4>1
    <3>3. CASE b # 1
      <4>1. PICK d \in Nat \ {0, 1} : d = Abs(b)
        BY <1>1, <3>1, <3>3 DEF Abs
      <4>2. PICK c \in Nat, e \in 0..(d - 1) : MaxInt + 1 = d * c + e /\ (MaxInt + 1) \div d = c
        <5>1. MaxInt + 1 \in Nat /\ d \in Nat \ {0}
          BY <1>1
        <5> QED
          BY <5>1, DivModExists
      <4>3. Abs(q) = c
        BY <1>2, <3>1, <4>1, <4>2
      <4>4. 2 * c <= d * c /\ d * c \in Nat
        OBVIOUS
      <4>5. c <= MaxInt
        BY <1>1, <4>2, <4>4
      <4> QED
        BY <1>1, <4>3, <4>5 DEF Abs
    <3> QED
      BY <3>2, <3>3
  <2> QED
    BY <2>1, <2>2
<1> QED
  BY <1>2, <1>3, <1>4

LEMMA NumQuotientIs ==
  ASSUME NEW v, NEW w, Integer(v), Integer(w), Num(w) # 0
  PROVE  /\ LeavesWord(v, w) => NumQuotient(v, w) = Undefined
         /\ ~LeavesWord(v, w) =>
              Integer(NumQuotient(v, w)) /\ Num(NumQuotient(v, w)) = CDiv(Num(v), Num(w))
<1>2. CASE WordOf(v) /\ WordOf(w)
  <2>1. PICK a \in MinInt..MaxInt, b \in MinInt..MaxInt :
          a = v.n /\ b = w.n /\ Num(v) = a /\ Num(w) = b /\ v = Fix(a) /\ w = Fix(b)
    BY <1>2 DEF WordOf
  <2>2. NumQuotient(v, w) = IF a = MinInt /\ b = -1 THEN Undefined ELSE Fix(CDiv(a, b))
    BY <1>2, <2>1 DEF NumQuotient, WordOf
  <2>3. LeavesWord(v, w) <=> a = MinInt /\ b = -1
    BY <2>1, FixIsFix DEF LeavesWord
  <2>4. CASE ~(a = MinInt /\ b = -1)
    <3>1. CDiv(a, b) \in MinInt..MaxInt
      BY <2>1, <2>4, CDivFits
    <3>2. NumQuotient(v, w) = Fix(CDiv(a, b))
      BY <2>2, <2>4
    <3> QED
      BY <2>1, <2>3, <2>4, <3>1, <3>2, FixIsFix DEF Integer
  <2> QED
    BY <2>2, <2>3, <2>4
<1>3. CASE ~(WordOf(v) /\ WordOf(w))
  <2>1. PICK c, d : c = Up(v, w) /\ d = Up(w, v)
    OBVIOUS
  <2>2. /\ Proper(c) /\ BigVal(c) = Num(v) /\ Len(c.data) = LimbCount(v)
        /\ Proper(d) /\ BigVal(d) = Num(w) /\ Len(d.data) = LimbCount(w)
    BY <1>3, <2>1, UpKeeps
  <2>3. ~(IsFix(v) /\ IsFix(w)) /\ ~LeavesWord(v, w)
    <3>1. WordOf(v) \/ BigOf(v)
      BY IntegerForms
    <3>2. WordOf(w) \/ BigOf(w)
      BY IntegerForms
    <3>3. ~(IsFix(v) /\ IsFix(w))
      BY <1>3, <3>1, <3>2 DEF WordOf, BigOf
    <3> QED
      BY <3>3, FixIsFix DEF LeavesWord
  <2>4. NumQuotient(v, w) = BigSetVT(BigDiv(c, d))
    BY <2>1, <2>3 DEF NumQuotient, NumSyncType
  <2>5. Trimmed(BigDiv(c, d)) /\ BigVal(BigDiv(c, d)) = CDiv(Num(v), Num(w))
    BY <2>2, ProperIsTrimmed, BigDivExact
  <2>6. BigDiv(c, d) \in Bigs
    BY <2>5 DEF Trimmed
  <2> QED
    BY <2>3, <2>4, <2>5, <2>6, BigSetVTKeeps
<1> QED
  BY <1>2, <1>3

(* The remainder with the sign of the divisor.                             *)
Turned(a, b) ==
  IF CMod(a, b) # 0 /\ (CMod(a, b) < 0) # (b < 0) THEN CMod(a, b) + b ELSE CMod(a, b)

LEMMA BigModTurned ==
  ASSUME NEW c, Proper(c), NEW d, Proper(d), BigVal(d) # 0, NEW r, r = BigMod(c, d), NEW t,
         t = Signed(d.sign, IF ~IsZero(r) /\ c.sign # d.sign THEN SubAbs(Signed(1, d), r) ELSE r)
  PROVE  t \in Bigs /\ BigVal(t) = Turned(BigVal(c), BigVal(d))
<1>1. Trimmed(c) /\ Trimmed(d) /\ c \in Bigs /\ d \in Bigs
  BY ProperIsTrimmed DEF Proper
<1>2. Trimmed(r) /\ BigVal(r) = CMod(BigVal(c), BigVal(d)) /\ r.sign = c.sign /\ r \in Bigs
  BY <1>1, BigDivExact DEF Trimmed
<1>3. PICK R, D \in Nat : R = Magnitude(r.data) /\ D = Magnitude(d.data)
  BY <1>1, <1>2, ValueBySign
<1>4. PICK m, e, n \in Int : m = BigVal(r) /\ e = BigVal(d) /\ n = BigVal(c)
  BY <1>1, <1>2, ValueBySign
<1>5. /\ (c.sign = 1 /\ m = R) \/ (c.sign = -1 /\ m = -R)
      /\ (d.sign = 1 /\ e = D) \/ (d.sign = -1 /\ e = -D)
  BY <1>1, <1>2, <1>3, <1>4, ValueBySign
<1>6. m = CMod(n, e) /\ Abs(m) < Abs(e) /\ e # 0
  <2>1. Abs(CMod(n, e)) < Abs(e)
    BY <1>4, CDivMeans
  <2> QED
    BY <1>2, <1>4, <2>1
<1>7. R < D
  BY <1>5, <1>6 DEF Abs
<1>8. IsZero(r) <=> R = 0
  BY <1>2, <1>3, IsZeroMeans
<1>9. CASE ~IsZero(r) /\ c.sign # d.sign
  <2>1. PICK b : b = Signed(1, d) /\ b \in Bigs /\ b.data = d.data /\ Trimmed(b)
    BY <1>1, SignedFacts
  <2>2. Len(r.data) <= Len(b.data)
    <3>1. Len(r.data) > Len(b.data) => R > D
      BY <1>2, <1>3, <2>1, LongerIsGreater
    <3>2. Len(r.data) \in Nat /\ Len(b.data) \in Nat
      BY <1>2, <2>1, BigFacts
    <3> QED
      BY <1>7, <3>1, <3>2
  <2>3. Proper(SubAbs(b, r)) /\ Magnitude(SubAbs(b, r).data) = D - R
    BY <1>2, <1>3, <1>7, <2>1, <2>2, SubAbsExact
  <2>4. SubAbs(b, r) \in Bigs
    BY <2>3 DEF Proper
  <2>5. t = Signed(d.sign, SubAbs(b, r))
    BY <1>9, <2>1
  <2>6. t \in Bigs /\ BigVal(t) = d.sign * (D - R)
    BY <1>1, <2>3, <2>4, <2>5, BigFacts, SignedFacts
  <2>7. d.sign * (D - R) = m + e
    BY <1>5, <1>9
  <2>8. m # 0 /\ (m < 0) # (e < 0)
    BY <1>5, <1>7, <1>8, <1>9
  <2>9. Turned(n, e) = m + e
    BY <1>6, <2>8 DEF Turned
  <2> QED
    BY <1>4, <2>6, <2>7, <2>9
<1>10. CASE ~(~IsZero(r) /\ c.sign # d.sign)
  <2>1. t = Signed(d.sign, r)
    BY <1>10
  <2>2. t \in Bigs /\ BigVal(t) = d.sign * R
    BY <1>1, <1>2, <1>3, <2>1, BigFacts, SignedFacts
  <2>3. d.sign * R = m
    BY <1>5, <1>8, <1>10
  <2>4. ~(m # 0 /\ (m < 0) # (e < 0))
    BY <1>5, <1>7, <1>8, <1>10
  <2>5. Turned(n, e) = m
    BY <1>6, <2>4 DEF Turned
  <2> QED
    BY <1>4, <2>2, <2>3, <2>5
<1> QED
  BY <1>9, <1>10

LEMMA NumModuloIs ==
  ASSUME NEW v, NEW w, Integer(v), Integer(w), Num(w) # 0
  PROVE  /\ LeavesWord(v, w) => NumModulo(v, w) = Undefined
         /\ ~LeavesWord(v, w) =>
              Integer(NumModulo(v, w)) /\ Num(NumModulo(v, w)) = Turned(Num(v), Num(w))
<1>2. CASE WordOf(v) /\ WordOf(w)
  <2>1. PICK a \in MinInt..MaxInt, b \in MinInt..MaxInt :
          a = v.n /\ b = w.n /\ Num(v) = a /\ Num(w) = b /\ v = Fix(a) /\ w = Fix(b)
    BY <1>2 DEF WordOf
  <2>2. NumModulo(v, w) = IF a = MinInt /\ b = -1 THEN Undefined ELSE Fix(Turned(a, b))
    BY <1>2, <2>1 DEF NumModulo, WordOf, Turned
  <2>3. LeavesWord(v, w) <=> a = MinInt /\ b = -1
    BY <2>1, FixIsFix DEF LeavesWord
  <2>4. CASE ~(a = MinInt /\ b = -1)
    <3>1. a \in Int /\ b \in Int /\ b # 0 /\ MaxInt \in Nat /\ MinInt = -MaxInt - 1
      BY <2>1, WordFacts
    <3>2. PICK m \in Int : m = CMod(a, b) /\ m \in MinInt..MaxInt /\ Abs(m) < Abs(b)
      BY <2>1, <2>4, <3>1, CDivFits, CDivMeans
    <3>3. (m # 0 /\ (m < 0) # (b < 0)) => m + b \in MinInt..MaxInt
      BY <3>1, <3>2 DEF Abs
    <3>4. Turned(a, b) \in MinInt..MaxInt
      BY <3>2, <3>3 DEF Turned
    <3>5. NumModulo(v, w) = Fix(Turned(a, b))
      BY <2>2, <2>4
    <3> QED
      BY <2>1, <2>3, <2>4, <3>4, <3>5, FixIsFix DEF Integer
  <2> QED
    BY <2>2, <2>3, <2>4
<1>3. CASE ~(WordOf(v) /\ WordOf(w))
  <2>1. PICK c, d : c = Up(v, w) /\ d = Up(w, v)
    OBVIOUS
  <2>2. Proper(c) /\ BigVal(c) = Num(v) /\ Proper(d) /\ BigVal(d) = Num(w)
    BY <1>3, <2>1, UpKeeps
  <2>3. ~(IsFix(v) /\ IsFix(w)) /\ ~LeavesWord(v, w)
    <3>1. WordOf(v) \/ BigOf(v)
      BY IntegerForms
    <3>2. WordOf(w) \/ BigOf(w)
      BY IntegerForms
    <3>3. ~(IsFix(v) /\ IsFix(w))
      BY <1>3, <3>1, <3>2 DEF WordOf, BigOf
    <3> QED
      BY <3>3, FixIsFix DEF LeavesWord
  <2>4. PICK r, t : /\ r = BigMod(c, d)
                    /\ t = Signed(d.sign, IF ~IsZero(r) /\ c.sign # d.sign
                                          THEN SubAbs(Signed(1, d), r) ELSE r)
    OBVIOUS
  <2>5. NumModulo(v, w) = BigSetVT(t)
    BY <2>1, <2>3, <2>4 DEF NumModulo, NumSyncType
  <2>6. t \in Bigs /\ BigVal(t) = Turned(Num(v), Num(w))
    BY <2>2, <2>4, BigModTurned
  <2> QED
    BY <2>3, <2>5, <2>6, BigSetVTKeeps
<1> QED
  BY <1>2, <1>3

(* Divisors, and the common divisor that all common divisors divide.       *)
Divides(d, n) == \E k \in Int : n = d * k
GreatestCommon(g, a, b) ==
  /\ g \in Int /\ Divides(g, a) /\ Divides(g, b)
  /\ \A d \in Int : Divides(d, a) /\ Divides(d, b) => Divides(d, g)

LEMMA DividesSums ==
  ASSUME NEW d \in Int, NEW a \in Int, NEW b \in Int, NEW k \in Int, Divides(d, a), Divides(d, b)
  PROVE  Divides(d, a * k + b) /\ Divides(d, b - a * k)
<1>1. PICK u \in Int, w \in Int : a = d * u /\ b = d * w
  BY DEF Divides
<1>2. a * k = d * (u * k) /\ u * k \in Int
  <2>1. (d * u) * k = d * (u * k)
    OBVIOUS
  <2> QED
    BY <1>1, <2>1
<1>3. PICK z \in Int : a * k = d * z
  BY <1>2
<1>4. d * z + d * w = d * (z + w) /\ d * w - d * z = d * (w - z)
  OBVIOUS
<1>5. a * k + b = d * (z + w) /\ b - a * k = d * (w - z)
  BY <1>1, <1>3, <1>4
<1>6. z + w \in Int /\ w - z \in Int
  OBVIOUS
<1> HIDE DEF Divides
<1> QED
  BY <1>5, <1>6 DEF Divides

LEMMA EuclidEnd ==
  ASSUME NEW a \in Int
  PROVE  GreatestCommon(a, a, 0)
<1>1. a = a * 1 /\ 0 = a * 0
  OBVIOUS
<1>2. Divides(a, a) /\ Divides(a, 0)
  BY <1>1 DEF Divides
<1> QED
  BY <1>2 DEF GreatestCommon

LEMMA EuclidStep ==
  ASSUME NEW a \in Int, NEW b \in Int, b # 0, NEW g, GreatestCommon(g, b, CMod(a, b))
  PROVE  GreatestCommon(g, a, b)
<1>0. CDiv(a, b) \in Int /\ CMod(a, b) \in Int /\ a = b * CDiv(a, b) + CMod(a, b)
  BY CDivMeans
<1>1. PICK q \in Int, r \in Int : q = CDiv(a, b) /\ r = CMod(a, b) /\ a = b * q + r
  BY <1>0
<1>2. g \in Int /\ Divides(g, b) /\ Divides(g, r)
  BY <1>1 DEF GreatestCommon
<1>3. Divides(g, a)
  BY <1>1, <1>2, DividesSums
<1>4. ASSUME NEW d \in Int, Divides(d, a), Divides(d, b)
      PROVE  Divides(d, g)
  <2>1. Divides(d, a - b * q)
    BY <1>4, DividesSums
  <2>2. a - b * q = r
    <3>1. PICK z \in Int : z = b * q
      OBVIOUS
    <3> QED
      BY <1>1, <3>1
  <2> QED
    BY <1>1, <1>4, <2>1, <2>2 DEF GreatestCommon
<1> QED
  BY <1>2, <1>3, <1>4 DEF GreatestCommon

LEMMA CommonDivisor ==
  ASSUME NEW g, NEW a \in Int, NEW b \in Int, GreatestCommon(g, a, b), a # 0 \/ b # 0
  PROVE  g # 0
<1>1. \A k \in Int : 0 * k = 0
  OBVIOUS
<1> QED
  BY <1>1 DEF GreatestCommon, Divides

LEMMA DivisorIsSmaller ==
  ASSUME NEW d \in Int, NEW n \in Int, Divides(d, n), n # 0
  PROVE  d # 0 /\ Abs(d) <= Abs(n)
<1>1. PICK k \in Int : n = d * k
  BY DEF Divides
<1>2. k # 0 /\ d # 0
  <2>1. d * 0 = 0 /\ 0 * k = 0
    OBVIOUS
  <2> QED
    BY <1>1, <2>1
<1>3. Abs(d) * Abs(k) = Abs(n)
  <2>1. d * (-k) = -(d * k) /\ (-d) * k = -(d * k) /\ (-d) * (-k) = d * k
    OBVIOUS
  <2>2. CASE d < 0 /\ k < 0
    <3>1. d * k > 0
      BY <2>2
    <3> QED
      BY <1>1, <2>1, <2>2, <3>1 DEF Abs
  <2>3. CASE d < 0 /\ ~(k < 0)
    <3>1. d * k < 0
      BY <1>2, <2>3
    <3> QED
      BY <1>1, <2>1, <2>3, <3>1 DEF Abs
  <2>4. CASE ~(d < 0) /\ k < 0
    <3>1. d * k < 0
      BY <1>2, <2>4
    <3> QED
      BY <1>1, <2>1, <2>4, <3>1 DEF Abs
  <2>5. CASE ~(d < 0) /\ ~(k < 0)
    <3>1. d * k > 0
      BY <1>2, <2>5
    <3> QED
      BY <1>1, <2>5, <3>1 DEF Abs
  <2> QED
    BY <2>2, <2>3, <2>4, <2>5
<1>4. PICK p \in Nat \ {0}, q \in Nat \ {0} : p = Abs(d) /\ q = Abs(k)
  BY <1>2 DEF Abs
<1>5. p <= p * q
  OBVIOUS
<1> QED
  BY <1>2, <1>3, <1>4, <1>5

-----------------------------------------------------------------------------
(* Euclid's algorithm on words.                                            *)
Pairs == Int \X Int
EuclidPre == [p \in Pairs |-> IF p[2] = 0 THEN p ELSE <<p[2], CMod(p[1], p[2])>>]
EuclidSize == [p \in Pairs |-> Abs(p[2])]
EuclidEnds == {p \in Pairs : p[2] = 0}
Euclid(f) == f = [p \in Pairs |-> IF p[2] = 0 THEN p[1] ELSE f[<<p[2], CMod(p[1], p[2])>>]]

LEMMA EuclidDescends == Descends(Pairs, EuclidSize, EuclidEnds, EuclidPre)
<1>1. \A p \in Pairs : p[1] \in Int /\ p[2] \in Int
  BY DEF Pairs
<1>2. EuclidSize \in [Pairs -> Nat]
  BY <1>1 DEF EuclidSize, Abs
<1>3. ASSUME NEW p \in Pairs, p[2] # 0
      PROVE  /\ <<p[2], CMod(p[1], p[2])>> \in Pairs
             /\ Abs(CMod(p[1], p[2])) < Abs(p[2])
  BY <1>1, <1>3, CDivMeans DEF Pairs
<1>4. EuclidPre \in [Pairs -> Pairs]
  BY <1>3 DEF EuclidPre
<1>5. ASSUME NEW p \in Pairs, p \notin EuclidEnds
      PROVE  EuclidSize[EuclidPre[p]] < EuclidSize[p]
  <2>1. p[2] # 0
    BY <1>5 DEF EuclidEnds
  <2>2. EuclidPre[p] = <<p[2], CMod(p[1], p[2])>> /\ EuclidPre[p] \in Pairs
    BY <1>3, <2>1 DEF EuclidPre
  <2>3. EuclidSize[p] = Abs(p[2])
    BY DEF EuclidSize
  <2>4. EuclidSize[EuclidPre[p]] = Abs(EuclidPre[p][2])
    BY <2>2 DEF EuclidSize
  <2>5. EuclidPre[p][2] = CMod(p[1], p[2])
    BY <2>2
  <2> QED
    BY <1>3, <2>1, <2>3, <2>4, <2>5
<1> QED
  BY <1>2, <1>4, <1>5 DEF Descends

LEMMA EuclidExists == \E f : Euclid(f) /\ f \in [Pairs -> Int]
<1> DEFINE first == [p \in Pairs |-> p[1]]
           next == [q \in Pairs \X Int |-> q[2]]
<1>1. first \in [Pairs -> Int] /\ next \in [Pairs \X Int -> Int]
  BY DEF Pairs
<1>2. \A p \in Pairs, i \in Int : next[<<p, i>>] = i
  OBVIOUS
<1>3. \A p \in Pairs : first[p] = p[1]
  OBVIOUS
<1> HIDE DEF first, next
<1>4. PICK f : Recurs(f, Pairs, Int, EuclidEnds, EuclidPre, first, next)
  BY <1>1, EuclidDescends, MeasureRecursion
<1>5. f \in [Pairs -> Int] /\ EuclidPre \in [Pairs -> Pairs]
  BY <1>4, EuclidDescends DEF Recurs, Descends
<1>6. ASSUME NEW p \in Pairs
      PROVE  f[p] = IF p[2] = 0 THEN p[1] ELSE f[<<p[2], CMod(p[1], p[2])>>]
  <2>1. f[p] = IF p \in EuclidEnds THEN first[p] ELSE next[<<p, f[EuclidPre[p]]>>]
    BY <1>4 DEF Recurs
  <2>2. p \in EuclidEnds <=> p[2] = 0
    BY DEF EuclidEnds
  <2>3. EuclidPre[p] \in Pairs /\ f[EuclidPre[p]] \in Int
    BY <1>5
  <2>4. next[<<p, f[EuclidPre[p]]>>] = f[EuclidPre[p]]
    BY <1>2, <2>3
  <2>5. p[2] # 0 => EuclidPre[p] = <<p[2], CMod(p[1], p[2])>>
    BY DEF EuclidPre
  <2> QED
    BY <1>3, <2>1, <2>2, <2>4, <2>5
<1>7. Euclid(f)
  BY <1>5, <1>6 DEF Euclid
<1> QED
  BY <1>5, <1>7

LEMMA EuclidFinds ==
  ASSUME NEW f, Euclid(f), NEW a \in Int, NEW b \in Int
  PROVE  GreatestCommon(f[<<a, b>>], a, b)
<1> DEFINE T == {p \in Pairs : GreatestCommon(f[p], p[1], p[2])}
<1>1. ASSUME NEW p \in Pairs, \A q \in Pairs : EuclidSize[q] < EuclidSize[p] => q \in T
      PROVE  p \in T
  <2>1. f[p] = IF p[2] = 0 THEN p[1] ELSE f[<<p[2], CMod(p[1], p[2])>>]
    BY DEF Euclid
  <2>2. p[1] \in Int /\ p[2] \in Int
    BY DEF Pairs
  <2>3. CASE p[2] = 0
    BY <2>1, <2>2, <2>3, EuclidEnd
  <2>4. CASE p[2] # 0
    <3>1. PICK q : q = EuclidPre[p] /\ q \in Pairs /\ EuclidSize[q] < EuclidSize[p]
      BY <2>4, EuclidDescends DEF Descends, EuclidEnds
    <3>2. q = <<p[2], CMod(p[1], p[2])>> /\ q[1] = p[2] /\ q[2] = CMod(p[1], p[2])
      BY <2>4, <3>1 DEF EuclidPre
    <3>3. GreatestCommon(f[q], q[1], q[2])
      BY <1>1, <3>1
    <3>4. GreatestCommon(f[p], p[2], CMod(p[1], p[2]))
      BY <2>1, <2>4, <3>2, <3>3
    <3>5. GreatestCommon(f[p], p[1], p[2])
      BY <2>2, <2>4, <3>4, EuclidStep
    <3> QED
      BY <3>5
  <2> QED
    BY <2>3, <2>4
<1>2. EuclidSize \in [Pairs -> Nat]
  BY EuclidDescends DEF Descends
<1>3. Pairs \subseteq T
  <2> HIDE DEF T
  <2> QED
    BY <1>1, <1>2, MeasureInduction
<1>4. <<a, b>> \in Pairs
  BY DEF Pairs
<1>5. <<a, b>> \in T /\ <<a, b>>[1] = a /\ <<a, b>>[2] = b
  BY <1>3, <1>4
<1> QED
  BY <1>5

LEMMA WrapInWord ==
  ASSUME NEW n \in Int
  PROVE  Wrap(n) \in MinInt..MaxInt
<1>1. PICK h \in Nat : h = Base \div 2 /\ MaxInt = h - 1 /\ MinInt = -h /\ Base \in Nat
                       /\ (Base = 2 * h \/ Base = 2 * h + 1) /\ Base >= 4
  BY BaseFacts DEF MaxInt, MinInt
<1>2. Base = 2 * h
  BY <1>1, BaseIsEven
<1>3. PICK z \in Int : z = (n + h) % Base /\ z \in 0..(Base - 1)
  BY <1>1
<1> QED
  BY <1>1, <1>2, <1>3 DEF Wrap

LEMMA CAbsIs ==
  ASSUME NEW n \in Int
  PROVE  /\ CAbs(n) \in MinInt..MaxInt
         /\ Abs(n) <= MaxInt => CAbs(n) = Abs(n)
         /\ n = MinInt => CAbs(n) = n
<1>1. Abs(n) \in Nat
  BY DEF Abs
<1>2. Abs(n) <= MaxInt => CAbs(n) = Abs(n)
  BY <1>1, WrapKeeps, WordFacts DEF CAbs, Fits
<1>3. ASSUME n = MinInt
      PROVE  CAbs(n) = n
  <2>1. PICK h \in Nat : h = Base \div 2 /\ MinInt = -h /\ Base = 2 * h /\ h >= 1
    BY BaseFacts, BaseIsEven DEF MaxInt, MinInt
  <2>2. Abs(n) = h
    BY <1>3, <2>1 DEF Abs
  <2>3. (h + h) % Base = 0
    BY <2>1
  <2> QED
    BY <1>3, <2>1, <2>2, <2>3 DEF CAbs, Wrap
<1> QED
  BY <1>1, <1>2, <1>3, WrapInWord DEF CAbs

LEMMA WordGcdIs ==
  ASSUME NEW a \in Int, NEW b \in Int
  PROVE  GreatestCommon(WordGcd(a, b), CAbs(a), CAbs(b))
<1>1. PICK t : t = CHOOSE f : Euclid(f)
  OBVIOUS
<1>2. Euclid(t)
  BY <1>1, EuclidExists
<1>3. WordGcd(a, b) = t[<<CAbs(a), CAbs(b)>>]
  BY <1>1 DEF WordGcd, Euclid, Pairs
<1>4. CAbs(a) \in Int /\ CAbs(b) \in Int
  BY CAbsIs, WordFacts
<1> QED
  BY <1>2, <1>3, <1>4, EuclidFinds

(* Euclid's algorithm on big integers.                                     *)
BigPairs == TrimmedBigs \X TrimmedBigs
BigEuclidPre == [p \in BigPairs |-> IF IsZero(p[2]) THEN p ELSE <<p[2], BigMod(p[1], p[2])>>]
BigEuclidSize == [p \in BigPairs |-> Magnitude(p[2].data)]
BigEuclidEnds == {p \in BigPairs : IsZero(p[2])}
BigEuclid(f) ==
  f = [p \in BigPairs |-> IF IsZero(p[2]) THEN p[1] ELSE f[<<p[2], BigMod(p[1], p[2])>>]]

LEMMA TrimmedBigsAre == \A a : a \in TrimmedBigs <=> Trimmed(a)
<1>1. ASSUME NEW a \in Bigs
      PROVE  /\ Len(a.data) \in Nat
             /\ a.data # <<>> <=> Len(a.data) > 0
  BY BigFacts
<1>2. ASSUME NEW a
      PROVE  a \in TrimmedBigs <=> Trimmed(a)
  <2>1. CASE a \in Bigs
    <3>1. PICK n \in Nat : n = Len(a.data) /\ (a.data # <<>> <=> n > 0)
      BY <1>1, <2>1
    <3>2. a \in TrimmedBigs <=> n > 0 /\ (n = 1 \/ a.data[n] # 0)
      BY <2>1, <3>1 DEF TrimmedBigs
    <3>3. Trimmed(a) <=> n > 0 /\ (n > 1 => a.data[n] # 0)
      BY <2>1, <3>1 DEF Trimmed
    <3> QED
      BY <3>2, <3>3
  <2>2. CASE a \notin Bigs
    BY <2>2 DEF TrimmedBigs, Trimmed
  <2> QED
    BY <2>1, <2>2
<1> QED
  BY <1>2

LEMMA BigModShrinks ==
  ASSUME NEW a, Trimmed(a), NEW b, Trimmed(b), ~IsZero(b)
  PROVE  /\ Trimmed(BigMod(a, b)) /\ BigVal(b) # 0
         /\ BigVal(BigMod(a, b)) = CMod(BigVal(a), BigVal(b))
         /\ Magnitude(BigMod(a, b).data) < Magnitude(b.data)
<1>1. a \in Bigs /\ b \in Bigs
  BY DEF Trimmed
<1>2. BigVal(b) # 0 /\ BigVal(a) \in Int /\ BigVal(b) \in Int
  BY <1>1, IsZeroMeans, ValueBySign
<1>3. PICK r : r = BigMod(a, b) /\ Trimmed(r) /\ BigVal(r) = CMod(BigVal(a), BigVal(b)) /\ r \in Bigs
  BY <1>2, BigDivExact DEF Trimmed
<1>4. Abs(BigVal(r)) < Abs(BigVal(b))
  BY <1>2, <1>3, CDivMeans
<1>5. Abs(BigVal(r)) = Magnitude(r.data) /\ Abs(BigVal(b)) = Magnitude(b.data)
  BY <1>1, <1>3, ValueBySign DEF Abs
<1> QED
  BY <1>2, <1>3, <1>4, <1>5

LEMMA BigEuclidDescends == Descends(BigPairs, BigEuclidSize, BigEuclidEnds, BigEuclidPre)
<1>1. \A p \in BigPairs : /\ p[1] \in TrimmedBigs /\ p[2] \in TrimmedBigs
                          /\ Trimmed(p[1]) /\ Trimmed(p[2]) /\ p[2] \in Bigs
  BY TrimmedBigsAre DEF BigPairs, Trimmed
<1>2. BigEuclidSize \in [BigPairs -> Nat]
  BY <1>1, ValueBySign DEF BigEuclidSize
<1>3. ASSUME NEW p \in BigPairs, ~IsZero(p[2])
      PROVE  /\ <<p[2], BigMod(p[1], p[2])>> \in BigPairs
             /\ Magnitude(BigMod(p[1], p[2]).data) < Magnitude(p[2].data)
  <2>1. Trimmed(BigMod(p[1], p[2])) /\ Magnitude(BigMod(p[1], p[2]).data) < Magnitude(p[2].data)
    BY <1>1, <1>3, BigModShrinks
  <2> QED
    BY <1>1, <2>1, TrimmedBigsAre DEF BigPairs
<1>4. BigEuclidPre \in [BigPairs -> BigPairs]
  BY <1>3 DEF BigEuclidPre
<1>5. ASSUME NEW p \in BigPairs, p \notin BigEuclidEnds
      PROVE  BigEuclidSize[BigEuclidPre[p]] < BigEuclidSize[p]
  <2>1. ~IsZero(p[2])
    BY <1>5 DEF BigEuclidEnds
  <2>2. BigEuclidPre[p] = <<p[2], BigMod(p[1], p[2])>> /\ BigEuclidPre[p] \in BigPairs
    BY <1>3, <2>1 DEF BigEuclidPre
  <2>3. BigEuclidSize[p] = Magnitude(p[2].data)
    BY DEF BigEuclidSize
  <2>4. BigEuclidSize[BigEuclidPre[p]] = Magnitude(BigEuclidPre[p][2].data)
    BY <2>2 DEF BigEuclidSize
  <2>5. BigEuclidPre[p][2] = BigMod(p[1], p[2])
    BY <2>2
  <2> QED
    BY <1>3, <2>1, <2>3, <2>4, <2>5
<1> QED
  BY <1>2, <1>4, <1>5 DEF Descends

LEMMA BigEuclidExists == \E f : BigEuclid(f) /\ f \in [BigPairs -> TrimmedBigs]
<1> DEFINE first == [p \in BigPairs |-> p[1]]
           next == [q \in BigPairs \X TrimmedBigs |-> q[2]]
<1>1. first \in [BigPairs -> TrimmedBigs] /\ next \in [BigPairs \X TrimmedBigs -> TrimmedBigs]
  BY DEF BigPairs
<1>2. \A p \in BigPairs, i \in TrimmedBigs : next[<<p, i>>] = i
  OBVIOUS
<1>3. \A p \in BigPairs : first[p] = p[1]
  OBVIOUS
<1> HIDE DEF first, next
<1>4. PICK f : Recurs(f, BigPairs, TrimmedBigs, BigEuclidEnds, BigEuclidPre, first, next)
  BY <1>1, BigEuclidDescends, MeasureRecursion
<1>5. f \in [BigPairs -> TrimmedBigs] /\ BigEuclidPre \in [BigPairs -> BigPairs]
  BY <1>4, BigEuclidDescends DEF Recurs, Descends
<1>6. ASSUME NEW p \in BigPairs
      PROVE  f[p] = IF IsZero(p[2]) THEN p[1] ELSE f[<<p[2], BigMod(p[1], p[2])>>]
  <2>1. f[p] = IF p \in BigEuclidEnds THEN first[p] ELSE next[<<p, f[BigEuclidPre[p]]>>]
    BY <1>4 DEF Recurs
  <2>2. p \in BigEuclidEnds <=> IsZero(p[2])
    BY DEF BigEuclidEnds
  <2>3. BigEuclidPre[p] \in BigPairs /\ f[BigEuclidPre[p]] \in TrimmedBigs
    BY <1>5
  <2>4. next[<<p, f[BigEuclidPre[p]]>>] = f[BigEuclidPre[p]]
    BY <1>2, <2>3
  <2>5. ~IsZero(p[2]) => BigEuclidPre[p] = <<p[2], BigMod(p[1], p[2])>>
    BY DEF BigEuclidPre
  <2> QED
    BY <1>3, <2>1, <2>2, <2>4, <2>5
<1>7. BigEuclid(f)
  BY <1>5, <1>6 DEF BigEuclid
<1> QED
  BY <1>5, <1>7

LEMMA BigEuclidFinds ==
  ASSUME NEW f, BigEuclid(f), NEW a, Trimmed(a), NEW b, Trimmed(b)
  PROVE  /\ Trimmed(f[<<a, b>>])
         /\ GreatestCommon(BigVal(f[<<a, b>>]), BigVal(a), BigVal(b))
<1> DEFINE T == {p \in BigPairs : /\ Trimmed(f[p])
                                  /\ GreatestCommon(BigVal(f[p]), BigVal(p[1]), BigVal(p[2]))}
<1>1. ASSUME NEW p \in BigPairs, \A q \in BigPairs : BigEuclidSize[q] < BigEuclidSize[p] => q \in T
      PROVE  p \in T
  <2>1. f[p] = IF IsZero(p[2]) THEN p[1] ELSE f[<<p[2], BigMod(p[1], p[2])>>]
    BY DEF BigEuclid
  <2>2. Trimmed(p[1]) /\ Trimmed(p[2]) /\ p[1] \in Bigs /\ p[2] \in Bigs
    BY TrimmedBigsAre DEF BigPairs, Trimmed
  <2>3. PICK u, w \in Int : u = BigVal(p[1]) /\ w = BigVal(p[2])
    BY <2>2, ValueBySign
  <2>4. CASE IsZero(p[2])
    <3>1. w = 0
      BY <2>2, <2>3, <2>4, IsZeroMeans
    <3>2. GreatestCommon(u, u, w)
      BY <2>3, <3>1, EuclidEnd
    <3> QED
      BY <2>1, <2>2, <2>3, <2>4, <3>2
  <2>5. CASE ~IsZero(p[2])
    <3>1. PICK q : q = BigEuclidPre[p] /\ q \in BigPairs /\ BigEuclidSize[q] < BigEuclidSize[p]
      BY <2>5, BigEuclidDescends DEF Descends, BigEuclidEnds
    <3>2. q = <<p[2], BigMod(p[1], p[2])>> /\ q[1] = p[2] /\ q[2] = BigMod(p[1], p[2])
      BY <2>5, <3>1 DEF BigEuclidPre
    <3>3. Trimmed(f[q]) /\ GreatestCommon(BigVal(f[q]), BigVal(q[1]), BigVal(q[2]))
      BY <1>1, <3>1
    <3>4. w # 0 /\ BigVal(q[2]) = CMod(u, w)
      BY <2>2, <2>3, <2>5, <3>2, BigModShrinks
    <3>5. f[p] = f[q]
      BY <2>1, <2>5, <3>2
    <3>6. GreatestCommon(BigVal(f[p]), w, CMod(u, w))
      BY <2>3, <3>2, <3>3, <3>4, <3>5
    <3>7. GreatestCommon(BigVal(f[p]), u, w)
      BY <2>3, <3>4, <3>6, EuclidStep
    <3> QED
      BY <2>3, <3>3, <3>5, <3>7
  <2> QED
    BY <2>4, <2>5
<1>2. BigEuclidSize \in [BigPairs -> Nat]
  BY BigEuclidDescends DEF Descends
<1>3. BigPairs \subseteq T
  <2> HIDE DEF T
  <2> QED
    BY <1>1, <1>2, MeasureInduction
<1>4. <<a, b>> \in BigPairs
  BY TrimmedBigsAre DEF BigPairs
<1>5. <<a, b>> \in T /\ <<a, b>>[1] = a /\ <<a, b>>[2] = b
  BY <1>3, <1>4
<1> QED
  BY <1>5

LEMMA BigGcdIs ==
  ASSUME NEW a, Trimmed(a), NEW b, Trimmed(b)
  PROVE  /\ Trimmed(BigGcd(a, b))
         /\ GreatestCommon(BigVal(BigGcd(a, b)), BigVal(a), BigVal(b))
<1>1. PICK t : t = CHOOSE f : BigEuclid(f)
  OBVIOUS
<1>2. BigEuclid(t)
  BY <1>1, BigEuclidExists
<1>3. BigGcd(a, b) = t[<<a, b>>]
  BY <1>1 DEF BigGcd, BigEuclid, BigPairs
<1> QED
  BY <1>2, <1>3, BigEuclidFinds

LEMMA DividesSigns ==
  ASSUME NEW d \in Int, NEW n \in Int, Divides(d, n)
  PROVE  Divides(d, -n) /\ Divides(-d, n)
<1>1. PICK k \in Int : n = d * k
  BY DEF Divides
<1>2. -n = d * (-k) /\ n = (-d) * (-k) /\ -k \in Int
  <2>1. d * (-k) = -(d * k) /\ (-d) * (-k) = d * k
    OBVIOUS
  <2> QED
    BY <1>1, <2>1
<1> QED
  BY <1>2 DEF Divides

LEMMA CommonSigns ==
  ASSUME NEW a \in Int, NEW b \in Int, NEW c \in {a, -a}, NEW d \in {b, -b},
         NEW g, GreatestCommon(g, c, d), NEW h \in {g, -g}
  PROVE  GreatestCommon(h, a, b)
<1>1. g \in Int /\ c \in Int /\ d \in Int /\ -g \in Int /\ h \in Int
  BY DEF GreatestCommon
<1>2. Divides(g, a) /\ Divides(g, b)
  <2>1. Divides(g, c) /\ Divides(g, d) /\ Divides(g, -c) /\ Divides(g, -d)
    BY <1>1, DividesSigns DEF GreatestCommon
  <2>2. a \in {c, -c} /\ b \in {d, -d}
    OBVIOUS
  <2> QED
    BY <2>1, <2>2
<1>3. Divides(h, a) /\ Divides(h, b)
  BY <1>1, <1>2, DividesSigns
<1>4. ASSUME NEW e \in Int, Divides(e, a), Divides(e, b)
      PROVE  Divides(e, h)
  <2>1. Divides(e, -a) /\ Divides(e, -b)
    BY <1>4, DividesSigns
  <2>2. Divides(e, c) /\ Divides(e, d)
    BY <1>4, <2>1
  <2>3. Divides(e, g)
    BY <2>2 DEF GreatestCommon
  <2>4. Divides(e, -g)
    BY <1>1, <2>3, DividesSigns
  <2> QED
    BY <2>3, <2>4
<1> QED
  BY <1>1, <1>3, <1>4 DEF GreatestCommon

LEMMA ExactDivision ==
  ASSUME NEW g \in Int, g # 0, NEW k \in Int
  PROVE  CDiv(g * k, g) = k /\ CMod(g * k, g) = 0
<1>1. PICK n \in Int : n = g * k
  OBVIOUS
<1>2. /\ CDiv(n, g) \in Int /\ CMod(n, g) \in Int
      /\ n = g * CDiv(n, g) + CMod(n, g) /\ Abs(CMod(n, g)) < Abs(g)
  BY CDivMeans
<1>3. PICK q, r \in Int : q = CDiv(n, g) /\ r = CMod(n, g) /\ n = g * q + r /\ Abs(r) < Abs(g)
  <2>1. PICK q \in Int, r \in Int : q = CDiv(n, g) /\ r = CMod(n, g)
    BY <1>2
  <2> QED
    BY <1>2, <2>1
<1>4. r = g * (k - q)
  <2>1. PICK u, w \in Int : u = g * k /\ w = g * q
    OBVIOUS
  <2>2. g * (k - q) = g * k - g * q
    OBVIOUS
  <2>3. g * (k - q) = u - w
    BY <2>1, <2>2
  <2> QED
    BY <1>1, <1>3, <2>1, <2>3
<1>5. r = 0
  <2>1. k - q \in Int /\ Divides(g, r)
    BY <1>4 DEF Divides
  <2>2. r # 0 => Abs(g) <= Abs(r)
    BY <2>1, DivisorIsSmaller
  <2>3. Abs(g) \in Int /\ Abs(r) \in Int
    BY DEF Abs
  <2> QED
    BY <1>3, <2>2, <2>3
<1>6. k - q = 0
  <2>1. PICK z \in Int : z = k - q
    OBVIOUS
  <2>2. g * z = 0 => z = 0
    OBVIOUS
  <2> QED
    BY <1>4, <1>5, <2>1, <2>2
<1>7. k = q
  BY <1>3, <1>6
<1>8. CDiv(n, g) = k /\ CMod(n, g) = 0
  BY <1>3, <1>5, <1>7
<1> QED
  BY <1>1, <1>8

-----------------------------------------------------------------------------
(* remainder, gcd and lcm of integers.                                     *)
LEMMA HalfFacts ==
  \E h \in Nat \ {0} : Half = 2 * h /\ Half \div 2 = h /\ h <= MaxInt
<1>1. HalfBits - 1 \in Nat /\ (HalfBits - 1) + 1 = HalfBits
  BY WidthFacts
<1>2. Pow[HalfBits] = 2 * Pow[HalfBits - 1] /\ Pow[HalfBits - 1] \in Nat /\ Pow[HalfBits - 1] >= 1
  BY <1>1, PowFacts
<1>3. PICK h \in Nat \ {0} : Half = 2 * h
  BY <1>2, PowIs
<1>4. Base = 4 * (h * h) /\ h <= h * h /\ h * h \in Nat
  <2>1. (2 * h) * (2 * h) = 4 * (h * h)
    OBVIOUS
  <2>2. h <= h * h
    OBVIOUS
  <2> QED
    BY <1>3, <2>1, <2>2 DEF Base
<1>5. PICK s \in Nat : s = h * h
  OBVIOUS
<1>6. Base \div 2 = 2 * s
  BY <1>4, <1>5
<1> QED
  BY <1>3, <1>4, <1>5, <1>6 DEF MaxInt

LEMMA NarrowFacts ==
  ASSUME NEW h \in Nat \ {0}, Half = 2 * h, Half \div 2 = h, NEW n \in Int
  PROVE  /\ Narrow(n) \in (-h)..(h - 1)
         /\ n \in (-h)..(h - 1) => Narrow(n) = n
         /\ n = h => Narrow(n) = -h
<1>1. Narrow(n) = ((n + h) % (2 * h)) - h
  BY DEF Narrow
<1>2. PICK b \in Nat \ {0} : b = 2 * h
  OBVIOUS
<1>3. PICK z \in 0..(b - 1) : z = (n + h) % b
  OBVIOUS
<1>4. n \in (-h)..(h - 1) => z = n + h
  BY <1>2, <1>3
<1>5. n = h => z = 0
  BY <1>2, <1>3
<1> QED
  BY <1>1, <1>2, <1>3, <1>4, <1>5

LEMMA NumRemainderIs ==
  ASSUME NEW v, NEW w, Integer(v), Integer(w), Num(w) # 0
  PROVE  /\ Integer(NumRemainder(v, w)) \/ NumRemainder(v, w) = Undefined
         /\ \/ ~(WordOf(v) /\ WordOf(w))
            \/ /\ Num(v) \in (-(Half \div 2) + 1)..(Half \div 2 - 1)
               /\ Num(w) \in (-(Half \div 2) + 1)..(Half \div 2 - 1)
            => /\ Integer(NumRemainder(v, w))
               /\ Num(NumRemainder(v, w)) = CMod(Num(v), Num(w))
<1>1. CASE WordOf(v) /\ WordOf(w)
  <2>1. PICK a \in MinInt..MaxInt, b \in MinInt..MaxInt :
          a = v.n /\ b = w.n /\ Num(v) = a /\ Num(w) = b /\ v = Fix(a) /\ w = Fix(b)
    BY <1>1 DEF WordOf
  <2>2. PICK h \in Nat \ {0} : Half = 2 * h /\ Half \div 2 = h /\ h <= MaxInt
    BY HalfFacts
  <2>3. a \in Int /\ b \in Int /\ b # 0 /\ MaxInt \in Nat /\ MinInt = -MaxInt - 1
    BY <2>1, WordFacts
  <2>4. PICK na \in (-h)..(h - 1), nb \in (-h)..(h - 1) :
          /\ na = Narrow(a) /\ nb = Narrow(b)
          /\ a \in (-h)..(h - 1) => na = a
          /\ b \in (-h)..(h - 1) => nb = b
    BY <2>2, <2>3, NarrowFacts
  <2>5. PICK aa \in 0..h, ab \in 0..h : aa = Abs(na) /\ ab = Abs(nb)
    BY <2>4 DEF Abs
  <2>6. PICK ma \in (-h)..(h - 1), mb \in (-h)..(h - 1) :
          /\ ma = Narrow(aa) /\ mb = Narrow(ab)
          /\ aa # h => ma = aa
          /\ ab # h => mb = ab
          /\ ab = h => mb = -h
    <3>1. aa \in Int /\ ab \in Int
      OBVIOUS
    <3>2. /\ Narrow(aa) \in (-h)..(h - 1) /\ (aa \in (-h)..(h - 1) => Narrow(aa) = aa)
          /\ Narrow(ab) \in (-h)..(h - 1) /\ (ab \in (-h)..(h - 1) => Narrow(ab) = ab)
          /\ ab = h => Narrow(ab) = -h
      BY <2>2, <3>1, NarrowFacts
    <3> QED
      BY <3>2
  <2>7. NumRemainder(v, w) = IF nb = 0 THEN Undefined
                             ELSE Fix(IF a < 0 THEN -CMod(ma, mb) ELSE CMod(ma, mb))
    BY <1>1, <2>1, <2>4, <2>5, <2>6 DEF NumRemainder, WordOf
  <2>8. CASE nb = 0
    <3>1. ~(b \in (-h + 1)..(h - 1))
      BY <2>3, <2>4, <2>8
    <3> QED
      BY <1>1, <2>1, <2>2, <2>7, <2>8, <3>1
  <2>9. CASE nb # 0
    <3>1. mb # 0 /\ ma \in Int /\ mb \in Int
      BY <2>5, <2>6, <2>9 DEF Abs
    <3>2. /\ CMod(ma, mb) \in Int /\ Abs(CMod(ma, mb)) < Abs(mb)
          /\ CMod(ma, mb) # 0 => (CMod(ma, mb) < 0 <=> ma < 0)
          /\ Abs(CMod(ma, mb)) = Abs(ma) % Abs(mb)
      BY <3>1, CDivMeans
    <3>3. PICK r \in Int : r = CMod(ma, mb)
      BY <3>2
    <3>4. PICK k \in Int : k = (IF a < 0 THEN -r ELSE r)
      OBVIOUS
    <3>5. NumRemainder(v, w) = Fix(k)
      BY <2>7, <2>9, <3>3, <3>4
    <3>6. k \in MinInt..MaxInt
      <4>1. Abs(mb) <= h
        BY DEF Abs
      <4>2. Abs(r) < h
        BY <3>2, <3>3, <4>1 DEF Abs
      <4> QED
        BY <2>2, <2>3, <3>4, <4>2 DEF Abs
    <3>7. ASSUME a \in (-h + 1)..(h - 1), b \in (-h + 1)..(h - 1)
          PROVE  k = CMod(a, b)
      <4>1. ma = Abs(a) /\ mb = Abs(b)
        BY <2>3, <2>4, <2>5, <2>6, <3>7 DEF Abs
      <4>2. Abs(ma) = Abs(a) /\ Abs(mb) = Abs(b) /\ ~(ma < 0)
        BY <2>3, <4>1 DEF Abs
      <4>3. r = Abs(r)
        BY <3>2, <3>3, <4>2 DEF Abs
      <4>4. r = Abs(a) % Abs(b)
        BY <3>2, <3>3, <4>2, <4>3
      <4>5. /\ CMod(a, b) \in Int /\ Abs(CMod(a, b)) = Abs(a) % Abs(b)
            /\ CMod(a, b) # 0 => (CMod(a, b) < 0 <=> a < 0)
        BY <2>3, CDivMeans
      <4>6. PICK m \in Int : m = CMod(a, b) /\ Abs(m) = r /\ (m # 0 => (m < 0 <=> a < 0))
        BY <4>4, <4>5
      <4> QED
        BY <2>3, <3>4, <4>6 DEF Abs
    <3>8. Integer(Fix(k)) /\ Num(Fix(k)) = k
      BY <3>6, FixIsFix DEF Integer
    <3> QED
      BY <1>1, <2>1, <2>2, <3>5, <3>7, <3>8
  <2> QED
    BY <2>8, <2>9
<1>2. CASE ~(WordOf(v) /\ WordOf(w))
  <2>1. PICK c, d : c = Up(v, w) /\ d = Up(w, v)
    OBVIOUS
  <2>2. Proper(c) /\ BigVal(c) = Num(v) /\ Proper(d) /\ BigVal(d) = Num(w)
    BY <1>2, <2>1, UpKeeps
  <2>3. ~(IsFix(v) /\ IsFix(w))
    <3>1. (WordOf(v) \/ BigOf(v)) /\ (WordOf(w) \/ BigOf(w))
      BY IntegerForms
    <3> QED
      BY <1>2, <3>1 DEF WordOf, BigOf
  <2>4. NumRemainder(v, w) = BigSetVT(BigMod(c, d))
    BY <2>1, <2>3 DEF NumRemainder, NumSyncType
  <2>5. Trimmed(BigMod(c, d)) /\ BigVal(BigMod(c, d)) = CMod(Num(v), Num(w))
    BY <2>2, ProperIsTrimmed, BigDivExact
  <2>6. BigMod(c, d) \in Bigs
    BY <2>5 DEF Trimmed
  <2> QED
    BY <2>4, <2>5, <2>6, BigSetVTKeeps
<1> QED
  BY <1>1, <1>2

(* What gcd finds; the smallest word is its own absolute value.            *)
LEMMA NumGcdIs ==
  ASSUME NEW v, NEW w, Integer(v), Integer(w)
  PROVE  /\ Integer(NumGcd(v, w).gcd) /\ Integer(NumGcd(v, w).second)
         /\ WordOf(v) /\ WordOf(w) => GreatestCommon(WordGcd(v.n, w.n), Num(v), Num(w))
         /\ Num(v) # 0 /\ Num(w) # 0 /\ Num(v) # MinInt /\ Num(w) # MinInt =>
              /\ GreatestCommon(Num(NumGcd(v, w).gcd), Num(v), Num(w))
              /\ Num(NumGcd(v, w).gcd) > 0
<1>1. CASE WordOf(v) /\ WordOf(w)
  <2>1. PICK a \in MinInt..MaxInt, b \in MinInt..MaxInt :
          a = v.n /\ b = w.n /\ Num(v) = a /\ Num(w) = b /\ v = Fix(a) /\ w = Fix(b)
    BY <1>1 DEF WordOf
  <2>2. a \in Int /\ b \in Int /\ MaxInt \in Nat /\ MinInt = -MaxInt - 1
    BY <2>1, WordFacts
  <2>3. CAbs(a) \in {a, -a} /\ CAbs(b) \in {b, -b}
    <3>1. Abs(a) <= MaxInt \/ a = MinInt
      BY <2>2 DEF Abs
    <3>2. Abs(b) <= MaxInt \/ b = MinInt
      BY <2>2 DEF Abs
    <3>3. Abs(a) \in {a, -a} /\ Abs(b) \in {b, -b}
      BY DEF Abs
    <3> QED
      BY <2>2, <3>1, <3>2, <3>3, CAbsIs
  <2>4. PICK g \in Int : g = WordGcd(a, b) /\ GreatestCommon(g, CAbs(a), CAbs(b))
    BY <2>2, WordGcdIs DEF GreatestCommon
  <2>5. GreatestCommon(g, a, b) /\ GreatestCommon(-g, a, b)
    BY <2>2, <2>3, <2>4, CommonSigns
  <2>6. NumGcd(v, w).gcd = Fix(CAbs(g)) /\ NumGcd(v, w).second = w
    BY <1>1, <2>1, <2>4 DEF NumGcd, WordOf
  <2>7. Integer(Fix(CAbs(g))) /\ Num(Fix(CAbs(g))) = CAbs(g)
    BY CAbsIs, FixIsFix DEF Integer
  <2>8. ASSUME a # 0, b # 0, a # MinInt, b # MinInt
        PROVE  GreatestCommon(CAbs(g), a, b) /\ CAbs(g) > 0
    <3>1. g # 0 /\ Abs(g) <= Abs(a)
      BY <2>2, <2>5, <2>8, DivisorIsSmaller DEF GreatestCommon
    <3>2. Abs(a) <= MaxInt
      BY <2>2, <2>8 DEF Abs
    <3>3. Abs(g) <= MaxInt /\ Abs(g) > 0 /\ Abs(g) \in {g, -g}
      BY <2>2, <3>1, <3>2 DEF Abs
    <3> QED
      BY <2>5, <3>3, CAbsIs
  <2> QED
    BY <2>1, <2>4, <2>5, <2>6, <2>7, <2>8
<1>2. CASE ~(WordOf(v) /\ WordOf(w))
  <2>1. PICK c, d : c = Up(v, w) /\ d = Up(w, v)
    OBVIOUS
  <2>2. Proper(c) /\ BigVal(c) = Num(v) /\ Proper(d) /\ BigVal(d) = Num(w)
    BY <1>2, <2>1, UpKeeps
  <2>3. ~(IsFix(v) /\ IsFix(w)) /\ Num(v) \in Int /\ Num(w) \in Int
    <3>1. (WordOf(v) \/ BigOf(v)) /\ (WordOf(w) \/ BigOf(w)) /\ Num(v) \in Int /\ Num(w) \in Int
      BY IntegerForms
    <3> QED
      BY <1>2, <3>1 DEF WordOf, BigOf
  <2>4. PICK e : /\ e = BigGcd(c, d) /\ Trimmed(e) /\ e \in Bigs
                 /\ GreatestCommon(BigVal(e), Num(v), Num(w))
    <3>1. Trimmed(BigGcd(c, d)) /\ GreatestCommon(BigVal(BigGcd(c, d)), Num(v), Num(w))
      BY <2>2, ProperIsTrimmed, BigGcdIs
    <3> QED
      BY <3>1 DEF Trimmed
  <2>5. PICK g : /\ g = Signed(1, Normalize(e)) /\ g \in Bigs
                 /\ BigVal(g) = Magnitude(e.data)
    <3>1. Normalize(e) \in Bigs /\ Magnitude(Normalize(e).data) = Magnitude(e.data)
      BY <2>4, NormalizeKeeps DEF Proper
    <3>2. /\ Signed(1, Normalize(e)) \in Bigs
          /\ BigVal(Signed(1, Normalize(e))) = 1 * Magnitude(e.data)
      BY <3>1, SignedFacts
    <3>3. Magnitude(e.data) \in Nat
      BY <2>4, ValueBySign
    <3> QED
      BY <3>2, <3>3
  <2>6. NumGcd(v, w).gcd = BigSetVT(g)
    BY <2>1, <2>3, <2>4, <2>5 DEF NumGcd, NumSyncType
  <2>7. NumGcd(v, w).second \in {w} \union (IF IsBig(w) THEN {Signed(1, w)} ELSE {})
    BY <2>3 DEF NumGcd
  <2>8. Integer(NumGcd(v, w).second)
    <3>1. ASSUME IsBig(w)
          PROVE  Integer(Signed(1, w))
      <4>1. Proper(w)
        BY <3>1, IntegerForms DEF WordOf, BigOf
      <4>2. Proper(Signed(1, w))
        <5>1. /\ w \in Bigs /\ Signed(1, w) \in Bigs
              /\ Signed(1, w).data = w.data
          BY <4>1, SignedFacts DEF Proper
        <5>2. w = BigZero => Signed(1, w) = BigZero
          BY DEF BigZero, Signed, Big
        <5> QED
          BY <4>1, <5>1, <5>2 DEF Proper
      <4> QED
        BY <4>2 DEF Integer
    <3> QED
      BY <2>7, <3>1
  <2>9. Integer(BigSetVT(g)) /\ Num(BigSetVT(g)) = Magnitude(e.data)
    BY <2>5, BigSetVTKeeps
  <2>10. Magnitude(e.data) \in {BigVal(e), -BigVal(e)} /\ Magnitude(e.data) \in Nat
    BY <2>4, ValueBySign
  <2>11. GreatestCommon(Magnitude(e.data), Num(v), Num(w))
    BY <2>3, <2>4, <2>10, CommonSigns
  <2>12. Num(v) # 0 => Magnitude(e.data) # 0
    BY <2>3, <2>11, CommonDivisor
  <2> QED
    BY <1>2, <2>6, <2>8, <2>9, <2>10, <2>11, <2>12
<1> QED
  BY <1>1, <1>2

LEMMA AbsProduct ==
  ASSUME NEW a \in Int, NEW b \in Int
  PROVE  Abs(a * b) = Abs(a) * Abs(b) /\ Abs(a) \in Nat /\ Abs(b) \in Nat
<1>1. a * (-b) = -(a * b) /\ (-a) * b = -(a * b) /\ (-a) * (-b) = a * b
  OBVIOUS
<1>2. PICK z \in Int : z = a * b
  OBVIOUS
<1>3. CASE a < 0 /\ b < 0
  <2>1. a * b > 0
    BY <1>3
  <2> QED
    BY <1>1, <1>2, <1>3, <2>1 DEF Abs
<1>4. CASE a < 0 /\ ~(b < 0)
  <2>1. a * b <= 0
    BY <1>4
  <2> QED
    BY <1>1, <1>2, <1>4, <2>1 DEF Abs
<1>5. CASE ~(a < 0) /\ b < 0
  <2>1. a * b <= 0
    BY <1>5
  <2> QED
    BY <1>1, <1>2, <1>5, <2>1 DEF Abs
<1>6. CASE ~(a < 0) /\ ~(b < 0)
  <2>1. a * b >= 0
    BY <1>6
  <2> QED
    BY <1>2, <1>6, <2>1 DEF Abs
<1> QED
  BY <1>3, <1>4, <1>5, <1>6

(* A product divided by a divisor of one factor.                           *)
LEMMA LcmTimesGcd ==
  ASSUME NEW P \in Int, NEW e \in Int, e # 0, NEW v \in Int, NEW w \in Int,
         Abs(P) = Abs(v) * Abs(w), Divides(e, v)
  PROVE  Abs(CDiv(P, e)) * Abs(e) = Abs(v) * Abs(w)
<1>1. PICK k \in Int : v = e * k
  BY DEF Divides
<1>2. PICK b \in Nat \ {0}, t \in Nat, d \in Nat : b = Abs(e) /\ t = Abs(k) /\ d = Abs(w)
  BY DEF Abs
<1>3. Abs(v) = b * t
  BY <1>1, <1>2, AbsProduct
<1>4. (b * t) * d = b * (t * d) /\ t * d \in Nat /\ (t * d) * b = b * (t * d)
  OBVIOUS
<1>5. PICK q \in Nat : q = t * d
  BY <1>4
<1>6. Abs(P) = b * q
  BY <1>2, <1>3, <1>4, <1>5
<1>7. (b * q + 0) \div b = q
  BY DivMod
<1>8. Abs(P) \div b = q
  <2>1. b * q + 0 = b * q
    OBVIOUS
  <2> QED
    BY <1>6, <1>7, <2>1
<1>9. Abs(CDiv(P, e)) = q
  BY <1>2, <1>8, CDivMeans
<1> QED
  BY <1>2, <1>3, <1>4, <1>5, <1>9

(* The divisors of a power of two are even.                                *)
LEMMA PowDivisor ==
  ASSUME NEW n \in Nat, NEW d \in Nat, NEW e \in Nat, d * e = Pow[n], d > 1
  PROVE  \E c \in Nat : d = 2 * c
<1> DEFINE T == {k \in 0..n : \A u \in Nat, w \in Nat :
                   u * w = Pow[k] /\ u > 1 => \E c \in Nat : u = 2 * c}
<1>1. 0 \in T
  <2>1. ASSUME NEW u \in Nat, NEW w \in Nat, u * w = Pow[0], u > 1
        PROVE  FALSE
    <3>1. u * w = 1
      BY <2>1, PowFacts
    <3>2. w = 0 => u * w = 0
      OBVIOUS
    <3>3. w >= 1 => u * w >= u
      OBVIOUS
    <3> QED
      BY <2>1, <3>1, <3>2, <3>3
  <2>2. 0 \in 0..n
    OBVIOUS
  <2>3. \A u \in Nat, w \in Nat : u * w = Pow[0] /\ u > 1 => \E c \in Nat : u = 2 * c
    BY <2>1
  <2> QED
    BY <2>2, <2>3
<1>2. ASSUME NEW k \in 1..n, k - 1 \in T
      PROVE  k \in T
  <2>1. ASSUME NEW u \in Nat, NEW w \in Nat, u * w = Pow[k], u > 1
        PROVE  \E c \in Nat : u = 2 * c
    <3>1. k - 1 \in Nat /\ (k - 1) + 1 = k
      OBVIOUS
    <3>2. PICK p \in Nat : p = Pow[k - 1] /\ u * w = 2 * p
      BY <2>1, <3>1, PowFacts
    <3>3. PICK c \in Nat, d1 \in {0, 1} : u = 2 * c + d1
      <4>1. u = 2 * (u \div 2) + (u % 2) /\ u \div 2 \in Nat /\ u % 2 \in {0, 1}
        OBVIOUS
      <4> QED
        BY <4>1
    <3>4. PICK c2 \in Nat, d2 \in {0, 1} : w = 2 * c2 + d2
      <4>1. w = 2 * (w \div 2) + (w % 2) /\ w \div 2 \in Nat /\ w % 2 \in {0, 1}
        OBVIOUS
      <4> QED
        BY <4>1
    <3>5. CASE d1 = 0
      BY <3>3, <3>5
    <3>6. CASE d1 = 1 /\ d2 = 1
      <4>1. (2 * c + 1) * (2 * c2 + 1) = 2 * (2 * (c * c2) + c + c2) + 1
        OBVIOUS
      <4>2. PICK z \in Nat : z = 2 * (c * c2) + c + c2
        OBVIOUS
      <4>3. 2 * z + 1 = 2 * p
        BY <3>2, <3>3, <3>4, <3>6, <4>1, <4>2
      <4> QED
        BY <4>3
    <3>7. CASE d1 = 1 /\ d2 = 0
      <4>1. u * (2 * c2) = 2 * (u * c2)
        OBVIOUS
      <4>2. PICK z \in Nat : z = u * c2
        OBVIOUS
      <4>3. z = p
        BY <3>2, <3>4, <3>7, <4>1, <4>2
      <4>4. u * c2 = Pow[k - 1]
        BY <3>2, <4>2, <4>3
      <4> QED
        BY <1>2, <2>1, <4>4
    <3> QED
      BY <3>5, <3>6, <3>7
  <2> HIDE DEF Pow
  <2> QED
    BY <2>1
<1>3. 0..n \subseteq T
  <2> HIDE DEF T
  <2> QED
    BY <1>1, <1>2, Upwards
<1>4. n \in T
  <2>1. n \in 0..n
    OBVIOUS
  <2> HIDE DEF T
  <2> QED
    BY <1>3, <2>1
<1> QED
  BY <1>4

(* Two words other than the smallest one whose product is the smallest     *)
(* word are both even, and so is their common divisor.                     *)
LEMMA SmallestProduct ==
  ASSUME NEW a \in MinInt..MaxInt, NEW b \in MinInt..MaxInt, a # MinInt, b # MinInt,
         a * b = MinInt, NEW g, GreatestCommon(g, a, b)
  PROVE  Abs(g) >= 2
<1>1. a \in Int /\ b \in Int /\ g \in Int /\ MaxInt \in Nat /\ MinInt = -MaxInt - 1
  BY WordFacts DEF GreatestCommon
<1>2. PICK c \in Nat, d \in Nat : c = Abs(a) /\ d = Abs(b)
  BY <1>1, AbsProduct
<1>3. c * d = MaxInt + 1 /\ c <= MaxInt /\ d <= MaxInt
  <2>1. Abs(MinInt) = MaxInt + 1
    BY <1>1 DEF Abs
  <2>2. Abs(a * b) = c * d
    BY <1>1, <1>2, AbsProduct
  <2>3. c <= MaxInt /\ d <= MaxInt
    BY <1>1, <1>2 DEF Abs
  <2> QED
    BY <2>1, <2>2, <2>3
<1>4. PICK n \in Nat : MaxInt + 1 = Pow[n]
  <2>1. 2 * HalfBits - 1 \in Nat /\ (2 * HalfBits - 1) + 1 = 2 * HalfBits
    BY WidthFacts
  <2>2. Pow[2 * HalfBits] = 2 * Pow[2 * HalfBits - 1] /\ Pow[2 * HalfBits - 1] \in Nat
    BY <2>1, PowFacts
  <2>3. Base = 2 * Pow[2 * HalfBits - 1]
    BY <2>2, PowIs
  <2>4. MaxInt + 1 = Pow[2 * HalfBits - 1]
    BY <2>2, <2>3, WordFacts
  <2> QED
    BY <2>1, <2>4
<1>5. c > 1 /\ d > 1
  <2>1. 0 * d = 0 /\ c * 0 = 0 /\ 1 * d = d /\ c * 1 = c
    OBVIOUS
  <2>2. c # 0 /\ d # 0 /\ c # 1 /\ d # 1
    BY <1>1, <1>3, <2>1
  <2> QED
    BY <2>2
<1>6. PICK c2 \in Nat, d2 \in Nat : c = 2 * c2 /\ d = 2 * d2
  <2>1. c * d = Pow[n] /\ d * c = Pow[n]
    BY <1>3, <1>4
  <2>2. \E c2 \in Nat : c = 2 * c2
    BY <1>5, <2>1, PowDivisor
  <2>3. \E d2 \in Nat : d = 2 * d2
    BY <1>5, <2>1, PowDivisor
  <2> QED
    BY <2>2, <2>3
<1>7. Divides(2, a) /\ Divides(2, b)
  <2>1. a \in {2 * c2, 2 * (-c2)} /\ b \in {2 * d2, 2 * (-d2)}
    BY <1>1, <1>2, <1>6 DEF Abs
  <2>2. c2 \in Int /\ -c2 \in Int /\ d2 \in Int /\ -d2 \in Int
    OBVIOUS
  <2> QED
    BY <2>1, <2>2 DEF Divides
<1>8. Divides(2, g)
  BY <1>7 DEF GreatestCommon
<1>9. g # 0
  BY <1>1, <1>2, <1>5, CommonDivisor DEF Abs
<1>10. Abs(2) <= Abs(g)
  BY <1>1, <1>8, <1>9, DivisorIsSmaller
<1> QED
  BY <1>10 DEF Abs

(* The absolute value of a result, as lcm takes it.                        *)
LEMMA AbsOfResult ==
  ASSUME NEW a \in Bigs, NEW r, r = BigSetVT(a)
  PROVE  LET s == IF IsFix(r) THEN Fix(Abs(r.n)) ELSE Signed(1, r)
         IN  Integer(s) /\ Num(s) = Abs(BigVal(a))
<1>1. Integer(r) /\ Num(r) = BigVal(a) /\ BigVal(a) \in Int
  BY BigSetVTKeeps, ValueBySign
<1>2. CASE IsFix(r)
  <2>1. PICK b : b = Normalize(a) /\ b \in Bigs /\ b.sign \in {1, -1} /\ Proper(b)
    BY NormalizeKeeps, BigFacts DEF Proper
  <2>2. r = Fix(b.sign * b.data[1]) /\ Len(b.data) = 1 /\ b.data[1] <= MaxInt
    <3>1. ~IsFix(b)
      BY <2>1, BigIsBig
    <3> QED
      BY <1>2, <2>1, <3>1 DEF BigSetVT
  <2>3. PICK u \in Nat : u = b.data[1]
    <3>1. b.data \in Seq(Limbs)
      BY <2>1, BigFacts
    <3>2. b.data[1] \in Limbs
      BY <2>2, <3>1
    <3> QED
      BY <3>2, LimbFacts
  <2>4. MaxInt \in Nat /\ MinInt = -MaxInt - 1
    BY WordFacts
  <2>5. r.n = BigVal(a) /\ BigVal(a) = b.sign * u
    BY <1>1, <2>2, <2>3, FixIsFix
  <2>6. b.sign * u \in {u, -u}
    BY <2>1
  <2>7. Abs(r.n) = u
    BY <2>5, <2>6 DEF Abs
  <2>8. u \in MinInt..MaxInt
    BY <2>2, <2>3, <2>4
  <2> QED
    BY <1>2, <2>5, <2>7, <2>8, FixIsFix DEF Integer
<1>3. CASE ~IsFix(r)
  <2>1. Proper(r) /\ r \in Bigs
    BY <1>1, <1>3, IntegerForms DEF WordOf, BigOf, Proper
  <2>2. /\ Signed(1, r) \in Bigs /\ Signed(1, r).data = r.data
        /\ BigVal(Signed(1, r)) = 1 * Magnitude(r.data)
    BY <2>1, SignedFacts
  <2>3. r = BigZero => Signed(1, r) = BigZero
    BY DEF BigZero, Signed, Big
  <2>4. Proper(Signed(1, r))
    BY <2>1, <2>2, <2>3 DEF Proper
  <2>5. Magnitude(r.data) = Abs(BigVal(r)) /\ Magnitude(r.data) \in Nat
    BY <2>1, ValueBySign DEF Abs
  <2>6. Num(Signed(1, r)) = Abs(BigVal(a))
    <3>1. Num(Signed(1, r)) = BigVal(Signed(1, r)) /\ Num(r) = BigVal(r)
      BY <2>1, <2>2, BigIsBig
    <3> QED
      BY <1>1, <2>2, <2>5, <3>1
  <2> QED
    BY <1>3, <2>4, <2>6 DEF Integer
<1> QED
  BY <1>2, <1>3

LEMMA NumLcmIs ==
  ASSUME NEW v, NEW w, Integer(v), Integer(w), Num(w) # 0
  PROVE  /\ Integer(NumLcm(v, w))
         /\ /\ Num(v) # 0 /\ Num(v) # MinInt /\ Num(w) # MinInt
            /\ ~(WordOf(v) /\ WordOf(w)) \/ Fits(Num(v) * Num(w))
            => Num(NumLcm(v, w)) * Num(NumGcd(v, w).gcd) = Abs(Num(v) * Num(w))
<1>1. CASE WordOf(v) /\ WordOf(w)
  <2>1. PICK a \in MinInt..MaxInt, b \in MinInt..MaxInt :
          a = v.n /\ b = w.n /\ Num(v) = a /\ Num(w) = b /\ v = Fix(a) /\ w = Fix(b)
    BY <1>1 DEF WordOf
  <2>2. a \in Int /\ b \in Int /\ b # 0 /\ MaxInt \in Nat /\ MinInt = -MaxInt - 1
    BY <2>1, WordFacts
  <2>3. PICK e \in Int : e = WordGcd(a, b) /\ GreatestCommon(e, a, b)
    BY <1>1, <2>1, NumGcdIs DEF GreatestCommon
  <2>4. e # 0
    BY <2>2, <2>3, CommonDivisor
  <2>5. PICK P \in Int : P = a * b
    BY <2>2
  <2>6. Wrap(P) \in Int /\ CDiv(Wrap(P), e) \in Int
    <3>1. Wrap(P) \in Int
      BY WrapInWord, WordFacts
    <3> QED
      BY <2>4, <3>1, CDivMeans
  <2>7. NumLcm(v, w) = Fix(CAbs(CDiv(Wrap(P), e)))
    <3>1. NumLcm(v, w) = Fix(WordLcm(a, b))
      BY <1>1, <2>1, <2>2 DEF NumLcm, WordOf
    <3> QED
      BY <2>3, <2>5, <3>1 DEF WordLcm
  <2>8. Integer(NumLcm(v, w)) /\ Num(NumLcm(v, w)) = CAbs(CDiv(Wrap(P), e))
    BY <2>6, <2>7, CAbsIs, FixIsFix DEF Integer
  <2>9. ASSUME a # 0, a # MinInt, b # MinInt, Fits(P)
        PROVE  CAbs(CDiv(Wrap(P), e)) * Num(NumGcd(v, w).gcd) = Abs(P)
    <3>1. PICK q \in Int : q = CDiv(P, e) /\ CDiv(Wrap(P), e) = q
      BY <2>6, <2>9, WrapKeeps
    <3>2. Abs(P) = Abs(a) * Abs(b) /\ Divides(e, a)
      BY <2>2, <2>3, <2>5, AbsProduct DEF GreatestCommon
    <3>3. Abs(q) * Abs(e) = Abs(P)
      BY <2>2, <2>4, <3>1, <3>2, LcmTimesGcd
    <3>4. PICK c \in Nat, d \in Nat \ {0} : c = Abs(q) /\ d = Abs(e)
      BY <2>4 DEF Abs
    <3>5. Abs(P) <= MaxInt \/ P = MinInt
      BY <2>2, <2>9 DEF Abs, Fits
    <3>6. c <= c * d /\ c * d \in Nat
      OBVIOUS
    <3>7. c <= MaxInt
      <4>1. CASE Abs(P) <= MaxInt
        BY <2>2, <3>3, <3>4, <3>6, <4>1
      <4>2. CASE P = MinInt
        <5>1. d >= 2
          BY <2>3, <2>5, <2>9, <3>4, <4>2, SmallestProduct
        <5>2. 2 * c <= c * d
          BY <5>1
        <5>3. c * d = MaxInt + 1
          BY <2>2, <3>3, <3>4, <4>2 DEF Abs
        <5> QED
          BY <2>2, <5>2, <5>3
      <4> QED
        BY <3>5, <4>1, <4>2
    <3>8. CAbs(q) = c
      BY <3>4, <3>7, CAbsIs
    <3>9. Num(NumGcd(v, w).gcd) = d
      <4>1. NumGcd(v, w).gcd = Fix(CAbs(e))
        BY <1>1, <2>1, <2>3 DEF NumGcd, WordOf
      <4>2. Abs(e) <= Abs(a)
        BY <2>2, <2>9, <3>2, DivisorIsSmaller
      <4>3. Abs(a) <= MaxInt
        BY <2>2, <2>9 DEF Abs
      <4>4. CAbs(e) = Abs(e)
        <5>1. Abs(e) \in Int /\ Abs(a) \in Int
          BY <2>2 DEF Abs
        <5>2. Abs(e) <= MaxInt
          BY <2>2, <4>2, <4>3, <5>1
        <5> QED
          BY <5>2, CAbsIs
      <4> QED
        BY <3>4, <4>1, <4>4, FixIsFix
    <3> QED
      BY <3>1, <3>3, <3>4, <3>8, <3>9
  <2>10. Num(v) * Num(w) = P
    BY <2>1, <2>5
  <2> QED
    BY <1>1, <2>1, <2>8, <2>9, <2>10
<1>2. CASE ~(WordOf(v) /\ WordOf(w))
  <2>1. PICK c, d : c = Up(v, w) /\ d = Up(w, v)
    OBVIOUS
  <2>2. Proper(c) /\ BigVal(c) = Num(v) /\ Proper(d) /\ BigVal(d) = Num(w)
        /\ c \in Bigs /\ d \in Bigs
    BY <1>2, <2>1, UpKeeps DEF Proper
  <2>3. ~(IsFix(v) /\ IsFix(w)) /\ Num(v) \in Int /\ Num(w) \in Int
    <3>1. (WordOf(v) \/ BigOf(v)) /\ (WordOf(w) \/ BigOf(w)) /\ Num(v) \in Int /\ Num(w) \in Int
      BY IntegerForms
    <3> QED
      BY <1>2, <3>1 DEF WordOf, BigOf
  <2>4. PICK e : /\ e = BigGcd(c, d) /\ Trimmed(e) /\ e \in Bigs
                 /\ GreatestCommon(BigVal(e), Num(v), Num(w))
    <3>1. Trimmed(BigGcd(c, d)) /\ GreatestCommon(BigVal(BigGcd(c, d)), Num(v), Num(w))
      BY <2>2, ProperIsTrimmed, BigGcdIs
    <3> QED
      BY <3>1 DEF Trimmed
  <2>5. PICK p : /\ p = MulAbs(c, d) /\ p \in Bigs /\ Trimmed(p)
                 /\ Magnitude(p.data) = Magnitude(c.data) * Magnitude(d.data)
    <3>1. Proper(MulAbs(c, d))
          /\ Magnitude(MulAbs(c, d).data) = Magnitude(c.data) * Magnitude(d.data)
      BY <2>2, MulAbsExact
    <3> QED
      BY <3>1, ProperIsTrimmed DEF Trimmed
  <2>6. /\ Abs(BigVal(p)) = Magnitude(p.data) /\ Abs(BigVal(c)) = Magnitude(c.data)
        /\ Abs(BigVal(d)) = Magnitude(d.data) /\ BigVal(p) \in Int /\ BigVal(e) \in Int
        /\ Abs(BigVal(e)) = Magnitude(e.data)
    BY <2>2, <2>4, <2>5, ValueBySign DEF Abs
  <2>7. BigVal(e) # 0
    BY <2>3, <2>4, CommonDivisor
  <2>8. PICK u : u = BigDiv(p, e) /\ u \in Bigs /\ BigVal(u) = CDiv(BigVal(p), BigVal(e))
    <3>1. Trimmed(BigDiv(p, e)) /\ BigVal(BigDiv(p, e)) = CDiv(BigVal(p), BigVal(e))
      BY <2>4, <2>5, <2>7, BigDivExact
    <3> QED
      BY <3>1 DEF Trimmed
  <2>9. PICK r : r = BigSetVT(u)
    OBVIOUS
  <2>10. NumLcm(v, w) = IF IsFix(r) THEN Fix(Abs(r.n)) ELSE Signed(1, r)
    BY <2>1, <2>3, <2>4, <2>5, <2>8, <2>9 DEF NumLcm, NumSyncType, BigLcm
  <2>11. Integer(NumLcm(v, w)) /\ Num(NumLcm(v, w)) = Abs(BigVal(u))
    BY <2>8, <2>9, <2>10, AbsOfResult
  <2>12. Num(NumGcd(v, w).gcd) = Abs(BigVal(e))
    <3>1. Normalize(e) \in Bigs /\ Magnitude(Normalize(e).data) = Magnitude(e.data)
      BY <2>4, NormalizeKeeps DEF Proper
    <3>2. PICK g : g = Signed(1, Normalize(e)) /\ g \in Bigs
                   /\ BigVal(g) = 1 * Magnitude(e.data)
      BY <3>1, SignedFacts
    <3>3. NumGcd(v, w).gcd = BigSetVT(g)
      BY <2>1, <2>3, <2>4, <3>2 DEF NumGcd, NumSyncType
    <3>4. Magnitude(e.data) \in Nat
      BY <2>4, ValueBySign
    <3> QED
      BY <2>6, <3>2, <3>3, <3>4, BigSetVTKeeps
  <2>13. Abs(BigVal(u)) * Abs(BigVal(e)) = Abs(Num(v)) * Abs(Num(w))
    <3>1. Abs(BigVal(p)) = Abs(Num(v)) * Abs(Num(w)) /\ Divides(BigVal(e), Num(v))
      BY <2>2, <2>4, <2>5, <2>6 DEF GreatestCommon
    <3> QED
      BY <2>3, <2>6, <2>7, <2>8, <3>1, LcmTimesGcd
  <2>14. Abs(Num(v) * Num(w)) = Abs(Num(v)) * Abs(Num(w))
    BY <2>3, AbsProduct
  <2> QED
    BY <2>11, <2>12, <2>13, <2>14
<1> QED
  BY <1>1, <1>2

-----------------------------------------------------------------------------
(* Ratios that a register may hold: their denominator is neither 0 nor -1. *)
Rational(v) ==
  \E nu \in MinInt..MaxInt, de \in MinInt..MaxInt : de \notin {0, -1} /\ v = Ratio(nu, de)
Number(v) == Integer(v) \/ Rational(v)

(* A result that may be kept is a number.                                  *)
Fine(v) == Exact(v) /\ Small(v) => Number(v)

LEMMA RatioIsRatio ==
  ASSUME NEW nu, NEW de
  PROVE  /\ IsRatio(Ratio(nu, de)) /\ ~IsFix(Ratio(nu, de)) /\ ~IsBig(Ratio(nu, de))
         /\ Ratio(nu, de).nu = nu /\ Ratio(nu, de).de = de
         /\ Num(Ratio(nu, de)) = nu /\ Den(Ratio(nu, de)) = de /\ Exact(Ratio(nu, de))
         /\ ~IsInteger(Ratio(nu, de)) /\ LimbCount(Ratio(nu, de)) = 1
<1>1. DOMAIN Ratio(nu, de) = {"nu", "de"} /\ Ratio(nu, de).nu = nu /\ Ratio(nu, de).de = de
  BY DEF Ratio
<1>2. "n" # "nu" /\ "nu" # "sign" /\ "nu" # "data"
  OBVIOUS
<1>3. {"nu", "de"} # {"n"} /\ {"nu", "de"} # {"sign", "data"}
  BY <1>2
<1> QED
  BY <1>1, <1>3 DEF IsFix, IsBig, IsRatio, Num, Den, Exact, IsInteger, LimbCount

LEMMA OthersAreNot == ~Exact(Undefined) /\ ~Exact(Inexact)
<1>1. DOMAIN Undefined = {"undefined"} /\ DOMAIN Inexact = {"real"}
  BY DEF Undefined, Inexact
<1>2. /\ "n" # "undefined" /\ "sign" # "undefined" /\ "nu" # "undefined"
      /\ "n" # "real" /\ "sign" # "real" /\ "nu" # "real"
  OBVIOUS
<1>3. /\ {"undefined"} # {"n"} /\ {"undefined"} # {"sign", "data"} /\ {"undefined"} # {"nu", "de"}
      /\ {"real"} # {"n"} /\ {"real"} # {"sign", "data"} /\ {"real"} # {"nu", "de"}
  BY <1>2
<1> QED
  BY <1>1, <1>3 DEF Exact, IsInteger, IsFix, IsBig, IsRatio

LEMMA NumberForms ==
  ASSUME NEW v, Number(v)
  PROVE  /\ \/ IsFix(v) /\ Integer(v) /\ v.n \in MinInt..MaxInt /\ v = Fix(v.n)
               /\ ~IsBig(v) /\ ~IsRatio(v)
            \/ IsBig(v) /\ Integer(v) /\ Proper(v) /\ v \in Bigs /\ ~IsFix(v) /\ ~IsRatio(v)
            \/ /\ IsRatio(v) /\ ~IsFix(v) /\ ~IsBig(v) /\ v = Ratio(v.nu, v.de) /\ Rational(v)
               /\ v.nu \in MinInt..MaxInt /\ v.de \in MinInt..MaxInt /\ v.de \notin {0, -1}
         /\ Exact(v) /\ Num(v) \in Int /\ Den(v) \in Int
<1>1. CASE Integer(v)
  BY <1>1, IntegerForms DEF WordOf, BigOf, Proper
<1>2. CASE Rational(v)
  <2>1. PICK nu \in MinInt..MaxInt, de \in MinInt..MaxInt :
          de \notin {0, -1} /\ v = Ratio(nu, de)
    BY <1>2 DEF Rational
  <2>2. nu \in Int /\ de \in Int
    BY <2>1, WordFacts
  <2> QED
    BY <1>2, <2>1, <2>2, RatioIsRatio
<1> QED
  BY <1>1, <1>2 DEF Number

LEMMA SimplifyIsFine ==
  ASSUME NEW nu \in MinInt..MaxInt, NEW de \in MinInt..MaxInt
  PROVE  Fine(SimplifyRatio(nu, de))
<1>1. nu \in Int /\ de \in Int /\ -nu \in Int
  BY WordFacts
<1>2. CASE de = 1
  BY <1>2 DEF SimplifyRatio, Fine, Number, Integer
<1>3. CASE de = -1
  <2>1. Wrap(-nu) \in MinInt..MaxInt
    BY <1>1, WrapInWord
  <2>2. SimplifyRatio(nu, de) = Fix(Wrap(-nu))
    BY <1>3 DEF SimplifyRatio
  <2> QED
    BY <2>1, <2>2 DEF Fine, Number, Integer
<1>4. CASE de \notin {1, -1}
  <2>1. SimplifyRatio(nu, de) = Ratio(nu, de)
    BY <1>1, <1>4 DEF SimplifyRatio
  <2>2. Small(Ratio(nu, de)) => de # 0
    BY RatioIsRatio DEF Small
  <2> QED
    BY <1>4, <2>1, <2>2 DEF Fine, Number, Rational
<1> QED
  BY <1>2, <1>3, <1>4

-----------------------------------------------------------------------------
(* The division of integers.                                               *)
LEMMA SimplifyQuotient ==
  ASSUME NEW a \in MinInt..MaxInt, NEW b \in MinInt..MaxInt, b # 0,
         NEW e \in Int, GreatestCommon(e, a, b),
         ~(a = MinInt /\ b = -1), ~(e = -1 /\ MinInt \in {a, b}),
         NEW s, s = SimplifyRatio(CDiv(a, e), CDiv(b, e))
  PROVE  Number(s) /\ Exact(s) /\ Num(s) * b = a * Den(s)
<1>1. a \in Int /\ b \in Int /\ MaxInt \in Nat /\ MinInt = -MaxInt - 1
  BY WordFacts
<1>2. e # 0
  BY <1>1, CommonDivisor
<1>3. PICK k \in Int, m \in Int : a = e * k /\ b = e * m
  BY DEF GreatestCommon, Divides
<1>4. CDiv(a, e) = k /\ CDiv(b, e) = m
  BY <1>2, <1>3, ExactDivision
<1>5. CDiv(a, e) \in MinInt..MaxInt /\ CDiv(b, e) \in MinInt..MaxInt
  <2>1. CASE e \in MinInt..MaxInt
    BY <1>2, <2>1, CDivFits
  <2>2. CASE e \notin MinInt..MaxInt
    <3>1. Abs(e) <= Abs(b) /\ Abs(b) <= MaxInt + 1
      <4>1. Divides(e, b)
        BY DEF GreatestCommon
      <4> QED
        BY <1>1, <4>1, DivisorIsSmaller DEF Abs
    <3>2. e = MaxInt + 1
      BY <1>1, <2>2, <3>1 DEF Abs
    <3>3. Abs(k) <= 1 /\ Abs(m) <= 1
      <4>1. PICK h \in Nat \ {0} : h = MaxInt + 1
        BY <1>1
      <4>2. \A i \in Int : h * i \in (-h)..h => i \in -1..1
        <5>1. ASSUME NEW i \in Int, h * i \in (-h)..h, i > 1
              PROVE  FALSE
          <6>1. h * i >= 2 * h
            BY <5>1
          <6> QED
            BY <5>1, <6>1
        <5>2. ASSUME NEW i \in Int, h * i \in (-h)..h, i < -1
              PROVE  FALSE
          <6>1. h * i <= -(2 * h)
            BY <5>2
          <6> QED
            BY <5>2, <6>1
        <5> QED
          BY <5>1, <5>2
      <4>3. a \in (-h)..h /\ b \in (-h)..h
        BY <1>1, <4>1
      <4>4. k \in -1..1 /\ m \in -1..1
        BY <1>3, <3>2, <4>1, <4>2, <4>3
      <4> QED
        BY <4>4 DEF Abs
    <3>4. MaxInt >= 1
      BY WordFacts
    <3> QED
      BY <1>1, <1>4, <3>3, <3>4 DEF Abs
  <2> QED
    BY <2>1, <2>2
<1>7. m # 0
  <2>1. e * 0 = 0
    OBVIOUS
  <2> QED
    BY <1>3, <2>1
<1>8. k * b = a * m
  <2>1. k * (e * m) = (e * k) * m
    OBVIOUS
  <2> QED
    BY <1>3, <2>1
<1>9. CASE m = 1
  <2>1. s = Fix(k)
    BY <1>4, <1>9 DEF SimplifyRatio
  <2>2. Number(s)
    BY <1>4, <1>5, <2>1 DEF Number, Integer
  <2> QED
    BY <1>8, <1>9, <2>1, <2>2, FixIsFix
<1>10. CASE m = -1
  <2>1. s = Fix(Wrap(-k))
    BY <1>4, <1>10 DEF SimplifyRatio
  <2>2. k # MinInt
    <3>1. ASSUME k = MinInt
          PROVE  FALSE
      <4>1. b = -e
        BY <1>3, <1>10
      <4>2. PICK h \in Nat : h = MaxInt + 1 /\ h >= 2 /\ k = -h
        <5>1. MaxInt >= 1
          BY WordFacts
        <5> QED
          BY <1>1, <3>1, <5>1
      <4>3. e * (-h) = a
        BY <1>3, <4>2
      <4>4. e > 1 => e * (-h) < -h
        BY <4>2
      <4>5. e <= -1 => e * (-h) >= h
        BY <4>2
      <4>6. e = 1
        BY <1>1, <1>2, <4>2, <4>3, <4>4, <4>5
      <4>7. a = MinInt /\ b = -1
        BY <1>1, <4>1, <4>2, <4>3, <4>6
      <4> QED
        BY <4>7
    <3> QED
      BY <3>1
  <2>3. Wrap(-k) = -k
    <3>1. Fits(-k) /\ -k \in Int
      BY <1>1, <1>4, <1>5, <2>2 DEF Fits
    <3> QED
      BY <3>1, WrapKeeps
  <2>4. (-k) * b = a
    <3>1. k * b = -a /\ (-k) * b = -(k * b)
      BY <1>1, <1>8, <1>10
    <3> QED
      BY <1>1, <3>1
  <2>5. Number(s)
    <3>1. Wrap(-k) \in MinInt..MaxInt
      BY WrapInWord
    <3> QED
      BY <2>1, <3>1 DEF Number, Integer
  <2> QED
    BY <1>1, <2>1, <2>3, <2>4, <2>5, FixIsFix
<1>11. CASE m # 1 /\ m # -1
  <2>1. s = Ratio(k, m)
    BY <1>4, <1>11 DEF SimplifyRatio
  <2>2. Number(s)
    BY <1>4, <1>5, <1>7, <1>11, <2>1 DEF Number, Rational
  <2> QED
    BY <1>8, <2>1, <2>2, RatioIsRatio
<1> QED
  BY <1>9, <1>10, <1>11

LEMMA NumDivideIs ==
  ASSUME NEW v, NEW w, Integer(v), Integer(w), Num(w) # 0
  PROVE  /\ Fine(NumDivide(v, w))
         /\ Exact(NumDivide(v, w)) =>
              /\ Number(NumDivide(v, w))
              /\ Num(NumDivide(v, w)) * Num(w) = Num(v) * Den(NumDivide(v, w))
<1>1. CASE WordOf(v) /\ WordOf(w)
  <2>1. PICK a \in MinInt..MaxInt, b \in MinInt..MaxInt :
          a = v.n /\ b = w.n /\ Num(v) = a /\ Num(w) = b /\ v = Fix(a) /\ w = Fix(b)
    BY <1>1 DEF WordOf
  <2>2. a \in Int /\ b \in Int /\ b # 0 /\ MaxInt \in Nat /\ MinInt = -MaxInt - 1
    BY <2>1, WordFacts
  <2>3. PICK e \in Int : e = WordGcd(a, b) /\ GreatestCommon(e, a, b)
    BY <1>1, <2>1, NumGcdIs DEF GreatestCommon
  <2>4. /\ ~Mismatched(v, w) /\ Up(v, w) = v /\ Up(w, v) = w
        /\ IsFix(v) /\ ~IsBig(v) /\ ~IsRatio(v)
    BY <1>1, UpKeeps, IntegerForms DEF WordOf
  <2>5. NumDivide(v, w) =
          IF (a = MinInt /\ b = -1) \/ (e = -1 /\ MinInt \in {a, b}) THEN Undefined
          ELSE IF CMod(a, b) = 0 THEN Fix(CDiv(a, b))
          ELSE SimplifyRatio(CDiv(a, e), CDiv(b, e))
    BY <2>1, <2>3, <2>4 DEF NumDivide, NumSyncType
  <2>6. CASE (a = MinInt /\ b = -1) \/ (e = -1 /\ MinInt \in {a, b})
    BY <2>5, <2>6, OthersAreNot DEF Fine
  <2>7. CASE ~((a = MinInt /\ b = -1) \/ (e = -1 /\ MinInt \in {a, b})) /\ CMod(a, b) = 0
    <3>1. CDiv(a, b) \in MinInt..MaxInt
      BY <2>2, <2>7, CDivFits
    <3>2. a = b * CDiv(a, b) + CMod(a, b) /\ CDiv(a, b) \in Int
      BY <2>2, CDivMeans
    <3>3. PICK q \in Int : q = CDiv(a, b)
      BY <3>2
    <3>4. q * b = a
      BY <2>2, <2>7, <3>2, <3>3
    <3>5. NumDivide(v, w) = Fix(q)
      BY <2>5, <2>7, <3>3
    <3> QED
      BY <2>1, <2>2, <3>1, <3>3, <3>4, <3>5, FixIsFix DEF Fine, Number, Integer
  <2>8. CASE ~((a = MinInt /\ b = -1) \/ (e = -1 /\ MinInt \in {a, b})) /\ CMod(a, b) # 0
    <3>1. PICK s : s = SimplifyRatio(CDiv(a, e), CDiv(b, e))
      OBVIOUS
    <3>2. NumDivide(v, w) = s
      BY <2>5, <2>8, <3>1
    <3>3. Number(s) /\ Exact(s) /\ Num(s) * b = a * Den(s)
      BY <2>2, <2>3, <2>8, <3>1, SimplifyQuotient
    <3> QED
      BY <2>1, <3>2, <3>3 DEF Fine
  <2> QED
    BY <2>6, <2>7, <2>8
<1>2. CASE ~(WordOf(v) /\ WordOf(w))
  <2>1. PICK c, d : c = Up(v, w) /\ d = Up(w, v)
    OBVIOUS
  <2>2. /\ Proper(c) /\ BigVal(c) = Num(v) /\ Proper(d) /\ BigVal(d) = Num(w)
        /\ c \in Bigs /\ d \in Bigs /\ IsBig(c) /\ ~IsFix(c) /\ ~IsRatio(c) /\ ~Mismatched(v, w)
    BY <1>2, <2>1, UpKeeps DEF Proper
  <2>3. Num(v) \in Int /\ Num(w) \in Int
    BY IntegerForms
  <2>4. NumDivide(v, w) = IF IsZero(DivAbs(c, d).rem) THEN BigSetVT(BigDiv(c, d)) ELSE Inexact
    BY <2>1, <2>2 DEF NumDivide, NumSyncType
  <2>5. CASE ~IsZero(DivAbs(c, d).rem)
    BY <2>4, <2>5, OthersAreNot DEF Fine
  <2>6. CASE IsZero(DivAbs(c, d).rem)
    <3>1. /\ Trimmed(BigDiv(c, d)) /\ Trimmed(BigMod(c, d))
          /\ BigVal(BigDiv(c, d)) = CDiv(Num(v), Num(w))
          /\ BigVal(BigMod(c, d)) = CMod(Num(v), Num(w))
      BY <2>2, ProperIsTrimmed, BigDivExact
    <3>2. BigDiv(c, d) \in Bigs /\ BigMod(c, d) \in Bigs
      BY <3>1 DEF Trimmed
    <3>3. BigMod(c, d).data = DivAbs(c, d).rem.data
      BY DEF BigMod, Signed
    <3>4. IsZero(BigMod(c, d))
      BY <2>6, <3>3 DEF IsZero
    <3>5. CMod(Num(v), Num(w)) = 0
      BY <3>1, <3>2, <3>4, IsZeroMeans
    <3>6. PICK q \in Int : q = CDiv(Num(v), Num(w)) /\ Num(w) * q = Num(v)
      <4>1. /\ Num(v) = Num(w) * CDiv(Num(v), Num(w)) + CMod(Num(v), Num(w))
            /\ CDiv(Num(v), Num(w)) \in Int
        BY <2>3, CDivMeans
      <4>2. PICK q \in Int : q = CDiv(Num(v), Num(w))
        BY <4>1
      <4>3. PICK z \in Int : z = Num(w) * q
        BY <2>3
      <4> QED
        BY <2>3, <3>5, <4>1, <4>2, <4>3
    <3>7. /\ Integer(NumDivide(v, w)) /\ Num(NumDivide(v, w)) = q
          /\ Den(NumDivide(v, w)) = 1
      BY <2>4, <2>6, <3>1, <3>2, <3>6, BigSetVTKeeps, IntegerForms
    <3>8. q * Num(w) = Num(v) * 1
      BY <2>3, <3>6
    <3> QED
      BY <3>7, <3>8 DEF Fine, Number
  <2> QED
    BY <2>5, <2>6
<1> QED
  BY <1>1, <1>2

-----------------------------------------------------------------------------
(* The arithmetic of ratios stays in words.                                *)
LEMMA UpRational ==
  ASSUME NEW v, NEW w, Number(v), Number(w), ~Mismatched(v, w), Rational(v) \/ Rational(w)
  PROVE  /\ Rational(Up(v, w)) /\ Num(Up(v, w)) = Num(v) /\ Den(Up(v, w)) = Den(v)
         /\ Rational(Up(w, v)) /\ Num(Up(w, v)) = Num(w) /\ Den(Up(w, v)) = Den(w)
<1>1. ASSUME NEW a, NEW b, Number(a), Number(b), ~Mismatched(a, b), Rational(a) \/ Rational(b)
      PROVE  Rational(Up(a, b)) /\ Num(Up(a, b)) = Num(a) /\ Den(Up(a, b)) = Den(a)
  <2>1. Rational(b) => IsRatio(b)
    BY RatioIsRatio DEF Rational
  <2>2. Rational(a) => IsRatio(a) /\ ~IsFix(a)
    BY RatioIsRatio DEF Rational
  <2>3. CASE Rational(a)
    BY <2>2, <2>3 DEF Up
  <2>4. CASE ~Rational(a)
    <3>1. IsRatio(b) /\ ~IsBig(a) /\ Integer(a)
      BY <1>1, <2>1, <2>4 DEF Mismatched, Number
    <3>2. IsFix(a) /\ a.n \in MinInt..MaxInt /\ Num(a) = a.n /\ Den(a) = 1
      BY <3>1, IntegerForms DEF WordOf, BigOf
    <3>3. Up(a, b) = Ratio(a.n, 1)
      BY <3>1, <3>2 DEF Up
    <3>4. 1 \in MinInt..MaxInt /\ 1 \notin {0, -1}
      BY WordFacts
    <3>5. Rational(Ratio(a.n, 1))
      BY <3>2, <3>4 DEF Rational
    <3> QED
      BY <3>2, <3>3, <3>5, RatioIsRatio
  <2> QED
    BY <2>3, <2>4
<1>2. ~Mismatched(w, v)
  BY DEF Mismatched
<1>3. Rational(Up(v, w)) /\ Num(Up(v, w)) = Num(v) /\ Den(Up(v, w)) = Den(v)
  BY <1>1
<1>4. Rational(Up(w, v)) /\ Num(Up(w, v)) = Num(w) /\ Den(Up(w, v)) = Den(w)
  BY <1>1, <1>2
<1> QED
  BY <1>3, <1>4

LEMMA RationalFields ==
  ASSUME NEW a, Rational(a)
  PROVE  /\ IsRatio(a) /\ ~IsFix(a) /\ ~IsBig(a) /\ Exact(a)
         /\ a.nu \in MinInt..MaxInt /\ a.de \in MinInt..MaxInt /\ a.de \notin {0, -1}
         /\ a.nu \in Int /\ a.de \in Int /\ Num(a) = a.nu /\ Den(a) = a.de
<1>1. PICK nu \in MinInt..MaxInt, de \in MinInt..MaxInt : de \notin {0, -1} /\ a = Ratio(nu, de)
  BY DEF Rational
<1>2. nu \in Int /\ de \in Int
  BY WordFacts
<1> QED
  BY <1>1, <1>2, RatioIsRatio

LEMMA WordsArePartners ==
  ASSUME NEW a, NEW b, Rational(a), Rational(b)
  PROVE  /\ WordGcd(a.de, b.de) \in Int /\ WordGcd(a.de, b.de) # 0
         /\ GreatestCommon(WordGcd(a.de, b.de), a.de, b.de)
<1>1. PICK c \in MinInt..MaxInt, d \in MinInt..MaxInt : c = a.de /\ d = b.de /\ c # 0 /\ d # 0
  BY RationalFields
<1>2. /\ Integer(Fix(c)) /\ WordOf(Fix(c)) /\ Num(Fix(c)) = c /\ Fix(c).n = c
      /\ Integer(Fix(d)) /\ WordOf(Fix(d)) /\ Num(Fix(d)) = d /\ Fix(d).n = d
  BY FixIsFix DEF Integer, WordOf
<1>3. GreatestCommon(WordGcd(c, d), c, d)
  BY <1>2, NumGcdIs
<1>4. WordGcd(c, d) \in Int
  BY <1>3 DEF GreatestCommon
<1>5. c \in Int /\ d \in Int
  BY WordFacts
<1> QED
  BY <1>1, <1>3, <1>4, <1>5, CommonDivisor

LEMMA OverCommonWords ==
  ASSUME NEW a, NEW b, Rational(a), Rational(b)
  PROVE  /\ OverCommon(a, b).nu1 \in MinInt..MaxInt /\ OverCommon(a, b).nu2 \in MinInt..MaxInt
         /\ OverCommon(a, b).de \in MinInt..MaxInt
<1>1. PICK e \in Int : e = WordGcd(a.de, b.de) /\ e # 0
  BY WordsArePartners
<1>2. PICK P \in Int : P = Wrap(a.de * b.de)
  <2>1. a.de * b.de \in Int
    BY RationalFields
  <2> QED
    BY <2>1, WrapInWord, WordFacts
<1>3. CDiv(P, e) \in Int
  BY <1>1, CDivMeans
<1>4. PICK L \in MinInt..MaxInt : L = WordLcm(a.de, b.de)
  BY <1>1, <1>2, <1>3, CAbsIs DEF WordLcm
<1>5. L \in Int
  BY WordFacts
<1>6. a.nu * CDiv(L, a.de) \in Int /\ b.nu * CDiv(L, b.de) \in Int
  <2>1. CDiv(L, a.de) \in Int /\ CDiv(L, b.de) \in Int
    BY <1>5, RationalFields, CDivMeans
  <2>2. a.nu \in Int /\ b.nu \in Int
    BY RationalFields
  <2> QED
    BY <2>1, <2>2
<1>7. /\ OverCommon(a, b).nu1 = Wrap(a.nu * CDiv(L, a.de))
      /\ OverCommon(a, b).nu2 = Wrap(b.nu * CDiv(L, b.de))
      /\ OverCommon(a, b).de = L
  BY <1>4 DEF OverCommon
<1> QED
  BY <1>6, <1>7, WrapInWord

LEMMA OneOrTheOther ==
  ASSUME NEW v, NEW w, Number(v), Number(w)
  PROVE  \/ Integer(v) /\ Integer(w)
         \/ Mismatched(v, w)
         \/ ~Mismatched(v, w) /\ (Rational(v) \/ Rational(w))
BY DEF Number

LEMMA RatioResults ==
  ASSUME NEW v, NEW w, Number(v), Number(w), ~Mismatched(v, w), Rational(v) \/ Rational(w),
         NEW a, NEW b, a = Up(v, w), b = Up(w, v), NEW c, c = OverCommon(a, b), NEW same
  PROVE  /\ Rational(a) /\ Num(a) = Num(v) /\ Den(a) = Den(v)
         /\ Rational(b) /\ Num(b) = Num(w) /\ Den(b) = Den(w)
         /\ NumAdd(v, w) = SimplifyRatio(Wrap(c.nu1 + c.nu2), c.de)
         /\ NumSubtract(v, w, same) = SimplifyRatio(Wrap(c.nu1 - c.nu2), c.de)
         /\ NumMultiply(v, w) = SimplifyRatio(Wrap(a.nu * b.nu), Wrap(a.de * b.de))
         /\ NumDivide(v, w) = SimplifyRatio(Wrap(a.nu * b.de), Wrap(a.de * b.nu))
<1>1. /\ Rational(a) /\ Num(a) = Num(v) /\ Den(a) = Den(v)
      /\ Rational(b) /\ Num(b) = Num(w) /\ Den(b) = Den(w)
  BY UpRational
<1>2. IsRatio(a) /\ ~IsFix(a) /\ ~IsBig(a)
  BY <1>1, RationalFields
<1>3. NumSyncType(v, w) = <<a, b>>
  BY DEF NumSyncType
<1>4. NumAdd(v, w) = SimplifyRatio(Wrap(c.nu1 + c.nu2), c.de)
  BY <1>2, <1>3 DEF NumAdd
<1>5. NumSubtract(v, w, same) = SimplifyRatio(Wrap(c.nu1 - c.nu2), c.de)
  BY <1>2, <1>3 DEF NumSubtract
<1>6. NumMultiply(v, w) = SimplifyRatio(Wrap(a.nu * b.nu), Wrap(a.de * b.de))
  BY <1>2, <1>3 DEF NumMultiply
<1>7. NumDivide(v, w) = SimplifyRatio(Wrap(a.nu * b.de), Wrap(a.de * b.nu))
  BY <1>2, <1>3 DEF NumDivide
<1> QED
  BY <1>1, <1>4, <1>5, <1>6, <1>7

LEMMA ArithmeticIsFine ==
  ASSUME NEW v, NEW w, Number(v), Number(w), NEW same \in BOOLEAN,
         ~(Integer(v) /\ Integer(w))
  PROVE  /\ Fine(NumAdd(v, w)) /\ Fine(NumSubtract(v, w, same)) /\ Fine(NumMultiply(v, w))
         /\ Fine(NumDivide(v, w))
<1>1. CASE Mismatched(v, w)
  <2>1. /\ NumAdd(v, w) = Undefined /\ NumSubtract(v, w, same) = Undefined
        /\ NumMultiply(v, w) = Undefined /\ NumDivide(v, w) = Undefined
    BY <1>1 DEF NumAdd, NumSubtract, NumMultiply, NumDivide
  <2> QED
    BY <2>1, OthersAreNot DEF Fine
<1>2. CASE ~Mismatched(v, w) /\ (Rational(v) \/ Rational(w))
  <2>1. PICK a, b : a = Up(v, w) /\ b = Up(w, v)
    OBVIOUS
  <2>2. PICK c : c = OverCommon(a, b)
    OBVIOUS
  <2>3. /\ Rational(a) /\ Rational(b)
        /\ NumAdd(v, w) = SimplifyRatio(Wrap(c.nu1 + c.nu2), c.de)
        /\ NumSubtract(v, w, same) = SimplifyRatio(Wrap(c.nu1 - c.nu2), c.de)
        /\ NumMultiply(v, w) = SimplifyRatio(Wrap(a.nu * b.nu), Wrap(a.de * b.de))
        /\ NumDivide(v, w) = SimplifyRatio(Wrap(a.nu * b.de), Wrap(a.de * b.nu))
    BY <1>2, <2>1, <2>2, RatioResults
  <2>4. c.nu1 \in MinInt..MaxInt /\ c.nu2 \in MinInt..MaxInt /\ c.de \in MinInt..MaxInt
    BY <2>2, <2>3, OverCommonWords
  <2>5. c.nu1 + c.nu2 \in Int /\ c.nu1 - c.nu2 \in Int
    BY <2>4, WordFacts
  <2>6. /\ a.nu * b.nu \in Int /\ a.de * b.de \in Int
        /\ a.nu * b.de \in Int /\ a.de * b.nu \in Int
    BY <2>3, RationalFields
  <2> QED
    BY <2>3, <2>4, <2>5, <2>6, WrapInWord, SimplifyIsFine
<1> QED
  BY <1>1, <1>2, OneOrTheOther

(* max, min and abs of any two numbers.                                    *)
LEMMA UpIsNumber ==
  ASSUME NEW v, NEW w, Number(v), Number(w), ~Mismatched(v, w)
  PROVE  Number(Up(v, w)) /\ Number(Up(w, v))
<1>1. CASE Integer(v) /\ Integer(w)
  BY <1>1, UpIsInteger DEF Number
<1>2. CASE ~(Integer(v) /\ Integer(w))
  <2>1. Rational(Up(v, w)) /\ Rational(Up(w, v))
    BY <1>2, OneOrTheOther, UpRational
  <2> QED
    BY <2>1 DEF Number
<1> QED
  BY <1>1, <1>2

LEMMA MaxMinIsNumber ==
  ASSUME NEW v, NEW w, Number(v), Number(w), ~Mismatched(v, w)
  PROVE  Number(NumMax(v, w)) /\ Number(NumMin(v, w))
<1>1. PICK c, d : c = Up(v, w) /\ d = Up(w, v) /\ Number(c) /\ Number(d)
  BY UpIsNumber
<1>2. NumMax(v, w) = IF NumBiggerP(w, v) THEN d ELSE c
  BY <1>1 DEF NumMax, NumSyncType
<1>3. NumMin(v, w) = IF NumLessP(w, v) THEN d ELSE c
  BY <1>1 DEF NumMin, NumSyncType
<1> QED
  BY <1>1, <1>2, <1>3

LEMMA AbsIsFine ==
  ASSUME NEW v, Number(v)
  PROVE  Fine(NumAbs(v))
<1>1. PICK z : z = Fix(0) /\ Integer(z) /\ Number(z) /\ ~IsRatio(z) /\ ~IsBig(z)
  <2>1. 0 \in MinInt..MaxInt
    BY WordFacts
  <2> QED
    BY <2>1, FixIsFix DEF Integer, Number
<1>2. CASE Integer(v)
  BY <1>2, AbsIs DEF Fine, Number
<1>3. CASE ~Integer(v)
  <2>1. Rational(v) /\ ~IsFix(v)
    BY <1>3, RationalFields DEF Number
  <2>2. Up(v, z) = v
    BY <2>1 DEF Up
  <2>3. NumAbs(v) = IF NumLessP(v, z) THEN NumSubtract(z, v, FALSE) ELSE v
    BY <1>1, <2>2 DEF NumAbs, NumSyncType
  <2>4. PICK same \in BOOLEAN : same = FALSE
    OBVIOUS
  <2>5. Fine(NumSubtract(z, v, same))
    BY <1>1, <1>3, ArithmeticIsFine
  <2>6. Fine(v)
    BY DEF Fine
  <2> QED
    BY <2>3, <2>4, <2>5, <2>6
<1> QED
  BY <1>2, <1>3

(* A quotient that is rounded is far from the limits of a word.            *)
LEMMA QuotientIsSmall ==
  ASSUME NEW nu \in MinInt..MaxInt, NEW de \in MinInt..MaxInt, de \notin {0, -1}
  PROVE  /\ CDiv(nu, de) \in MinInt..MaxInt /\ CMod(nu, de) \in Int
         /\ CMod(nu, de) # 0 => CDiv(nu, de) - 1 \in MinInt..MaxInt
                                /\ CDiv(nu, de) + 1 \in MinInt..MaxInt
<1>1. nu \in Int /\ de \in Int /\ MaxInt \in Nat /\ MinInt = -MaxInt - 1
  BY WordFacts
<1>2. MaxInt >= 31
  <2>1. PICK h \in Nat : Base = 2 * h /\ Base \div 2 = h
    BY BaseIsEven
  <2> QED
    BY <2>1, NumbersAssumption DEF MaxInt
<1>3. CDiv(nu, de) \in MinInt..MaxInt /\ CMod(nu, de) \in MinInt..MaxInt
  BY CDivFits
<1>4. PICK q \in MinInt..MaxInt, r \in MinInt..MaxInt : q = CDiv(nu, de) /\ r = CMod(nu, de)
  BY <1>3
<1>5. Abs(r) < Abs(de) /\ Abs(q) = Abs(nu) \div Abs(de)
  BY <1>1, <1>4, CDivMeans
<1>6. ASSUME r # 0
      PROVE  q - 1 \in MinInt..MaxInt /\ q + 1 \in MinInt..MaxInt
  <2>1. PICK p \in Nat, d \in Nat \ {0, 1} : p = Abs(nu) /\ d = Abs(de) /\ p <= MaxInt + 1
    BY <1>1, <1>4, <1>5, <1>6 DEF Abs
  <2>2. PICK c \in Nat, e \in 0..(d - 1) : p = d * c + e /\ p \div d = c
    <3>1. d \in Nat \ {0}
      OBVIOUS
    <3> QED
      BY <3>1, DivModExists
  <2>3. 2 * c <= d * c
    OBVIOUS
  <2>4. PICK z \in Nat : z = d * c
    OBVIOUS
  <2>5. 2 * c <= MaxInt + 1 /\ Abs(q) = c
    BY <1>1, <1>5, <2>1, <2>2, <2>3, <2>4
  <2>6. q \in Int
    BY <1>1
  <2> QED
    BY <1>1, <1>2, <2>5, <2>6 DEF Abs
<1> QED
  BY <1>1, <1>3, <1>4, <1>6

LEMMA RoundingIsFine ==
  ASSUME NEW v, Number(v), ~IsBig(v)
  PROVE  \A r \in {NumFloor(v), NumCeiling(v), NumTruncate(v), NumRound(v)} : Fine(r)
<1>1. \A k \in MinInt..MaxInt : Fine(Fix(k))
  BY DEF Fine, Number, Integer
<1>2. CASE IsFix(v)
  <2>1. Fine(v)
    BY DEF Fine
  <2> QED
    BY <1>2, <2>1 DEF NumFloor, NumCeiling, NumTruncate, NumRound
<1>3. CASE ~IsFix(v)
  <2>1. Rational(v)
    BY <1>3, NumberForms
  <2>2. PICK nu \in MinInt..MaxInt, de \in MinInt..MaxInt :
          nu = v.nu /\ de = v.de /\ de \notin {0, -1} /\ nu \in Int /\ de \in Int
    BY <2>1, RationalFields
  <2>3. /\ CDiv(nu, de) \in MinInt..MaxInt /\ CMod(nu, de) \in Int
        /\ CMod(nu, de) # 0 => CDiv(nu, de) - 1 \in MinInt..MaxInt
                               /\ CDiv(nu, de) + 1 \in MinInt..MaxInt
    BY <2>2, QuotientIsSmall
  <2>4. FloorOf(nu, de) \in MinInt..MaxInt
    BY <2>3 DEF FloorOf
  <2>5. ExactRound(nu, de) \in MinInt..MaxInt
    <3>1. PICK q \in Int, r \in Int : q = CDiv(nu, de) /\ r = CMod(nu, de)
      <4>1. CDiv(nu, de) \in Int
        BY <2>3, WordFacts
      <4> QED
        BY <2>3, <4>1
    <3>2. ExactRound(nu, de) \in {q} \union (IF 2 * Abs(r) >= Abs(de) THEN {q - 1, q + 1} ELSE {})
      <4>1. Abs(r) \in Int /\ Abs(de) \in Int
        BY <2>2 DEF Abs
      <4>2. PICK s \in Int, d \in Int : s = 2 * Abs(r) /\ d = Abs(de)
        BY <4>1
      <4>3. ExactRound(nu, de) =
              IF s > d \/ (s = d /\ q % 2 # 0)
              THEN IF (nu < 0) # (de < 0) THEN q - 1 ELSE q + 1 ELSE q
        BY <3>1, <4>2 DEF ExactRound
      <4> QED
        BY <4>2, <4>3
    <3>3. 2 * Abs(r) >= Abs(de) => r # 0
      BY <2>2 DEF Abs
    <3> QED
      BY <2>3, <3>1, <3>2, <3>3
  <2>6. Wrap(-FloorOf(Wrap(-nu), de)) \in MinInt..MaxInt
    <3>1. -nu \in Int /\ Wrap(-nu) \in MinInt..MaxInt
      BY <2>2, WrapInWord
    <3>2. PICK m \in MinInt..MaxInt : m = Wrap(-nu)
      BY <3>1
    <3>3. /\ CDiv(m, de) \in MinInt..MaxInt
          /\ CMod(m, de) # 0 => CDiv(m, de) - 1 \in MinInt..MaxInt
      BY <2>2, QuotientIsSmall
    <3>4. FloorOf(m, de) \in MinInt..MaxInt
      BY <3>3 DEF FloorOf
    <3>5. -FloorOf(m, de) \in Int
      BY <3>4, WordFacts
    <3> QED
      BY <3>2, <3>5, WrapInWord
  <2>7. /\ NumFloor(v) = Fix(FloorOf(nu, de)) /\ NumTruncate(v) = Fix(CDiv(nu, de))
        /\ NumCeiling(v) = Fix(Wrap(-FloorOf(Wrap(-nu), de)))
        /\ NumRound(v) = Fix(ExactRound(nu, de))
    BY <1>3, <2>2 DEF NumFloor, NumCeiling, NumTruncate, NumRound
  <2> QED
    BY <1>1, <2>3, <2>4, <2>5, <2>6, <2>7
<1> QED
  BY <1>2, <1>3

-----------------------------------------------------------------------------
(* Shifts and bits.                                                        *)
LEMMA AshInWord ==
  ASSUME NEW a \in MinInt..MaxInt, NEW n \in Int
  PROVE  Ash(a, n) \in MinInt..MaxInt
<1>1. /\ a \in Int /\ 0 \in MinInt..MaxInt /\ -1 \in MinInt..MaxInt
      /\ Base \in Nat \ {0} /\ Width \in Nat /\ Width = 2 * HalfBits
  BY WordFacts, LimbFacts, WidthFacts
<1>2. \A k \in 0..Width : 2 ^ k \in Nat /\ 2 ^ k >= 1
  BY <1>1, PowIs, PowFacts
<1>3. CASE n < 0
  <2>1. CASE -n >= Width
    BY <1>1, <1>3, <2>1 DEF Ash
  <2>2. CASE ~(-n >= Width)
    <3>1. -n \in 0..Width /\ Width + n \in 0..Width
      BY <1>1, <1>3, <2>2
    <3>2. PICK p \in Nat \ {0}, q \in Nat \ {0} : p = 2 ^ (-n) /\ q = 2 ^ (Width + n)
      <4>1. PICK i \in 0..Width, j \in 0..Width : i = -n /\ j = Width + n
        BY <3>1
      <4>2. PICK p, q : p = 2 ^ i /\ q = 2 ^ j
        OBVIOUS
      <4>3. p \in Nat /\ p >= 1 /\ q \in Nat /\ q >= 1
        BY <1>2, <4>2
      <4> QED
        BY <4>1, <4>2, <4>3
    <3>3. PICK u \in Nat : u = (a % Base) \div p
      BY <1>1
    <3>4. PICK s \in Int : s = (IF a < 0 THEN Base - q ELSE 0)
      <4>1. Base - q \in Int
        BY <1>1
      <4> QED
        BY <4>1
    <3>5. Ash(a, n) = Wrap(u + s)
      BY <1>3, <2>2, <3>2, <3>3, <3>4 DEF Ash
    <3> QED
      BY <3>5, WrapInWord
  <2> QED
    BY <2>1, <2>2
<1>4. CASE ~(n < 0)
  <2>1. CASE n >= Width
    BY <1>1, <1>4, <2>1 DEF Ash
  <2>2. CASE ~(n >= Width)
    <3>1. PICK p \in Nat : p = 2 ^ n
      BY <1>1, <1>2, <1>4, <2>2
    <3>2. Ash(a, n) = Wrap(a * p) /\ a * p \in Int
      BY <1>1, <1>4, <2>2, <3>1 DEF Ash
    <3> QED
      BY <3>2, WrapInWord
  <2> QED
    BY <2>1, <2>2
<1> QED
  BY <1>3, <1>4

LEMMA BitsInWord ==
  ASSUME NEW S
  PROVE  FromBits(S) \in MinInt..MaxInt
<1>1. BitSum(S) \in Int
  BY BitSumIs, WidthFacts
<1> QED
  BY <1>1, WrapInWord DEF FromBits

-----------------------------------------------------------------------------
(* expt: the loop keeps a result and a base that are big integers.         *)
ExptStates == [result : Bigs, base : Bigs, exp : Nat]
ExptStart(b, e) == [result |-> Big(1, <<1>>), base |-> b, exp |-> e]
ExptStep(s) ==
  IF s.exp = 0 THEN s
  ELSE [result |-> IF s.exp % 2 = 1 THEN BigMul(s.result, s.base) ELSE s.result,
        base |-> IF s.exp > 1 THEN BigMul(s.base, s.base) ELSE s.base,
        exp |-> s.exp \div 2]
ExptLoop(f, b, e) ==
  f = [i \in 0..e |-> IF i = 0 THEN ExptStart(b, e) ELSE ExptStep(f[i - 1])]

LEMMA ExptStepKeeps ==
  ASSUME NEW s \in ExptStates
  PROVE  ExptStep(s) \in ExptStates
<1>1. PICK r \in Bigs, b \in Bigs, k \in Nat : r = s.result /\ b = s.base /\ k = s.exp
  BY DEF ExptStates
<1>2. BigMul(r, b) \in Bigs /\ BigMul(b, b) \in Bigs
  BY BigMulExact
<1>3. k \div 2 \in Nat
  OBVIOUS
<1> QED
  BY <1>1, <1>2, <1>3 DEF ExptStep, ExptStates

LEMMA ExptLoopExists ==
  ASSUME NEW b \in Bigs, NEW e \in Nat
  PROVE  \E f : ExptLoop(f, b, e)
<1> DEFINE F == [p \in ExptStates \X (1..e) |-> ExptStep(p[1])]
<1>1. ExptStart(b, e) \in ExptStates
  BY LimbFacts, OneLimb DEF ExptStart, ExptStates
<1>2. StepOn(F, ExptStates, e)
  BY ExptStepKeeps DEF StepOn
<1>3. \A s \in ExptStates, i \in 1..e : F[<<s, i>>] = ExptStep(s)
  OBVIOUS
<1> HIDE DEF F
<1>4. PICK g : Solution(g, ExptStart(b, e), F, ExptStates, e)
  BY <1>1, <1>2, Recursion
<1>5. ExptLoop(g, b, e)
  <2>1. g \in [0..e -> ExptStates] /\ g[0] = ExptStart(b, e)
        /\ \A i \in 1..e : g[i] = F[<<g[i - 1], i>>]
    BY <1>4 DEF Solution
  <2>2. ASSUME NEW i \in 0..e
        PROVE  g[i] = IF i = 0 THEN ExptStart(b, e) ELSE ExptStep(g[i - 1])
    <3>1. CASE i = 0
      BY <2>1, <3>1
    <3>2. CASE i # 0
      <4>1. i \in 1..e /\ i - 1 \in 0..e
        BY <3>2
      <4> QED
        BY <1>3, <2>1, <3>2, <4>1
    <3> QED
      BY <3>1, <3>2
  <2> QED
    BY <2>1, <2>2 DEF ExptLoop
<1> QED
  BY <1>5

LEMMA ExptKeeps ==
  ASSUME NEW b \in Bigs, NEW e \in Nat, NEW t, t = CHOOSE f : ExptLoop(f, b, e)
  PROVE  t[e].result \in Bigs
<1>1. ExptStart(b, e) \in ExptStates
  BY LimbFacts, OneLimb DEF ExptStart, ExptStates
<1>6. ExptLoop(t, b, e)
  BY ExptLoopExists
<1> DEFINE T == {i \in 0..e : t[i] \in ExptStates}
<1>7. 0 \in T
  <2>1. 0 \in 0..e
    OBVIOUS
  <2> QED
    BY <1>1, <1>6, <2>1 DEF ExptLoop
<1>8. ASSUME NEW i \in 1..e, i - 1 \in T
      PROVE  i \in T
  <2>1. i \in 0..e /\ i # 0
    OBVIOUS
  <2>2. t[i] = ExptStep(t[i - 1])
    BY <1>6, <2>1 DEF ExptLoop
  <2> QED
    BY <1>8, <2>1, <2>2, ExptStepKeeps
<1>9. e \in T
  <2>1. e \in 0..e
    OBVIOUS
  <2> HIDE DEF T
  <2> QED
    BY <1>7, <1>8, <2>1, Upwards
<1> QED
  BY <1>9 DEF ExptStates

LEMMA ExptIsFine ==
  ASSUME NEW v, Integer(v), NEW e \in Int
  PROVE  Fine(NumExpt(v, e))
<1>1. \A k \in MinInt..MaxInt : Fine(Fix(k))
  BY DEF Fine, Number, Integer
<1>2. 1 \in MinInt..MaxInt /\ -1 \in MinInt..MaxInt
  BY WordFacts
<1>3. CASE IsFix(v) /\ v.n \in {1, -1}
  BY <1>1, <1>2, <1>3 DEF NumExpt
<1>4. CASE ~(IsFix(v) /\ v.n \in {1, -1}) /\ e < 0
  BY <1>4, OthersAreNot DEF NumExpt, Fine
<1>5. CASE ~(IsFix(v) /\ v.n \in {1, -1}) /\ e = 0
  BY <1>1, <1>2, <1>5 DEF NumExpt
<1>6. CASE ~(IsFix(v) /\ v.n \in {1, -1}) /\ e > 0
  <2>1. PICK b : b = IF IsFix(v) THEN NumBigFromI(v.n) ELSE v
    OBVIOUS
  <2>2. b \in Bigs
    <3>1. CASE IsFix(v)
      BY <2>1, <3>1, IntegerForms, NumBigFromIKeeps DEF WordOf, BigOf, Proper
    <3>2. CASE ~IsFix(v)
      BY <2>1, <3>2, IntegerForms DEF WordOf, BigOf, Proper
    <3> QED
      BY <3>1, <3>2
  <2>3. PICK t : t = CHOOSE f : ExptLoop(f, b, e)
    OBVIOUS
  <2>4. t[e].result \in Bigs
    BY <1>6, <2>2, <2>3, ExptKeeps
  <2>5. NumExpt(v, e) = BigSetVT(t[e].result)
    BY <1>6, <2>1, <2>3, SMTT(60) DEF NumExpt, ExptLoop, ExptStart, ExptStep
  <2>6. Integer(NumExpt(v, e))
    BY <2>4, <2>5, BigSetVTKeeps
  <2> QED
    BY <2>6 DEF Fine, Number
<1> QED
  BY <1>3, <1>4, <1>5, <1>6

-----------------------------------------------------------------------------
(* Every operation keeps the registers.                                    *)
NumbersInv == Number(x) /\ Number(y) /\ steps \in 0..MaxSteps

LEMMA IntegersAreFine == \A v : Integer(v) => Fine(v)
BY DEF Fine, Number

LEMMA ResultsAreFine ==
  ASSUME NEW v, NEW w, Number(v), Number(w), NEW same \in BOOLEAN
  PROVE  /\ Fine(NumAdd(v, w)) /\ Fine(NumSubtract(v, w, same)) /\ Fine(NumMultiply(v, w))
         /\ Num(w) # 0 => Fine(NumDivide(v, w))
<1>1. CASE Integer(v) /\ Integer(w)
  <2>1. Integer(NumAdd(v, w)) /\ Integer(NumMultiply(v, w))
    BY <1>1, NumAddIs, NumMultiplyIs
  <2>2. Integer(NumSubtract(v, w, same))
    BY <1>1, NumSubtractIs
  <2>3. Num(w) # 0 => Fine(NumDivide(v, w))
    BY <1>1, NumDivideIs
  <2> QED
    BY <2>1, <2>2, <2>3, IntegersAreFine
<1>2. CASE ~(Integer(v) /\ Integer(w))
  BY <1>2, ArithmeticIsFine
<1> QED
  BY <1>1, <1>2

LEMMA DivisionsAreFine ==
  ASSUME NEW v, NEW w, Integer(v), Integer(w), Num(w) # 0
  PROVE  Fine(NumQuotient(v, w)) /\ Fine(NumModulo(v, w)) /\ Fine(NumRemainder(v, w))
<1>1. Fine(Undefined)
  BY OthersAreNot DEF Fine
<1>2. Integer(NumQuotient(v, w)) \/ NumQuotient(v, w) = Undefined
  BY NumQuotientIs
<1>3. Integer(NumModulo(v, w)) \/ NumModulo(v, w) = Undefined
  BY NumModuloIs
<1>4. Integer(NumRemainder(v, w)) \/ NumRemainder(v, w) = Undefined
  BY NumRemainderIs
<1> QED
  BY <1>1, <1>2, <1>3, <1>4, IntegersAreFine

LEMMA IntegersAreIntegers ==
  ASSUME NEW v, Number(v)
  PROVE  /\ IsInteger(v) <=> Integer(v)
         /\ IsFix(v) => v.n \in MinInt..MaxInt
<1>1. CASE Integer(v)
  BY <1>1, IntegerForms DEF WordOf, BigOf
<1>2. CASE Rational(v)
  <2>1. ~IsInteger(v) /\ ~IsFix(v)
    BY <1>2, RatioIsRatio DEF Rational
  <2> QED
    BY <2>1, IntegerForms
<1> QED
  BY <1>1, <1>2 DEF Number

LEMMA NumbersStep == NumbersInv /\ [Next]_vars => NumbersInv'
<1> SUFFICES ASSUME NumbersInv, [Next]_vars
             PROVE  NumbersInv'
  OBVIOUS
<1>1. Number(x) /\ Number(y) /\ steps \in Nat /\ MaxSteps \in Nat /\ steps <= MaxSteps
  BY NumbersAssumption DEF NumbersInv
<1>2. PICK v, w : v = x /\ w = y /\ Number(v) /\ Number(w)
  BY <1>1
<1>3. ASSUME NEW r, Fine(r), steps < MaxSteps, Exact(r), Small(r), x' = r, steps' = steps + 1
      PROVE  Number(x') /\ steps' \in 0..MaxSteps
  BY <1>1, <1>3 DEF Fine
<1>4. Integers2 <=> Integer(v) /\ Integer(w)
  BY <1>2, IntegersAreIntegers DEF Integers2
<1>5. NonZero2 <=> Integer(v) /\ Integer(w) /\ Num(w) # 0
  BY <1>2, <1>4 DEF NonZero2, IsNumZero
<1>6. ASSUME Add \/ Subtract \/ Multiply \/ Divide
      PROVE  NumbersInv'
  <2>1. CASE Add
    BY <1>2, <1>3, <2>1, ResultsAreFine DEF Add, Keep, NumbersInv
  <2>2. CASE Subtract
    BY <1>2, <1>3, <2>2, ResultsAreFine DEF Subtract, Keep, NumbersInv
  <2>3. CASE Multiply
    BY <1>2, <1>3, <2>3, ResultsAreFine DEF Multiply, Keep, NumbersInv
  <2>4. CASE Divide
    BY <1>2, <1>3, <2>4, ResultsAreFine DEF Divide, Keep, NumbersInv, IsNumZero
  <2> QED
    BY <1>6, <2>1, <2>2, <2>3, <2>4
<1>7. ASSUME Quotient \/ Modulo \/ Remainder \/ Gcd \/ Lcm
      PROVE  NumbersInv'
  <2>1. CASE Quotient
    BY <1>2, <1>3, <1>5, <2>1, DivisionsAreFine DEF Quotient, Keep, NumbersInv
  <2>2. CASE Modulo
    BY <1>2, <1>3, <1>5, <2>2, DivisionsAreFine DEF Modulo, Keep, NumbersInv
  <2>3. CASE Remainder
    BY <1>2, <1>3, <1>5, <2>3, DivisionsAreFine DEF Remainder, Keep, NumbersInv
  <2>4. CASE Gcd
    <3>1. Integer(v) /\ Integer(w)
      BY <1>4, <2>4 DEF Gcd
    <3>2. Fine(NumGcd(v, w).gcd) /\ Number(NumGcd(v, w).second)
      BY <3>1, NumGcdIs, IntegersAreFine DEF Number
    <3>3. Keep(NumGcd(v, w).gcd) /\ y' = NumGcd(v, w).second
      BY <1>2, <2>4 DEF Gcd
    <3> QED
      BY <1>3, <3>2, <3>3 DEF Keep, NumbersInv
  <2>5. CASE Lcm
    BY <1>2, <1>3, <1>5, <2>5, NumLcmIs, IntegersAreFine DEF Lcm, Keep, NumbersInv
  <2> QED
    BY <1>7, <2>1, <2>2, <2>3, <2>4, <2>5
<1>8. ASSUME Expt \/ MaxMin \/ AbsOf
      PROVE  NumbersInv'
  <2>1. CASE Expt
    <3>1. PICK e \in Exponents : Keep(NumExpt(v, e)) /\ y' = y
      BY <1>2, <2>1 DEF Expt
    <3>2. Integer(v) /\ e \in Int
      BY <1>2, <2>1, IntegersAreIntegers, NumbersAssumption DEF Expt
    <3>3. Fine(NumExpt(v, e))
      BY <3>2, ExptIsFine
    <3> QED
      BY <1>1, <1>3, <3>1, <3>3 DEF Keep, NumbersInv
  <2>2. CASE MaxMin
    <3>1. Fine(NumMax(v, w)) /\ Fine(NumMin(v, w))
      BY <1>2, <2>2, MaxMinIsNumber DEF MaxMin, Fine
    <3>2. (Keep(NumMax(v, w)) \/ Keep(NumMin(v, w))) /\ y' = y
      BY <1>2, <2>2 DEF MaxMin
    <3> QED
      BY <1>1, <1>3, <3>1, <3>2 DEF Keep, NumbersInv
  <2>3. CASE AbsOf
    BY <1>2, <1>3, <2>3, AbsIsFine DEF AbsOf, Keep, NumbersInv
  <2> QED
    BY <1>8, <2>1, <2>2, <2>3
<1>9. ASSUME Rounding \/ Shift \/ Bitwise2
      PROVE  NumbersInv'
  <2>1. CASE Rounding
    <3>1. PICK r \in {NumFloor(v), NumCeiling(v), NumTruncate(v), NumRound(v)} : Keep(r) /\ y' = y
      BY <1>2, <2>1 DEF Rounding
    <3>2. Fine(r)
      <4>1. ~IsBig(v)
        BY <1>2, <2>1 DEF Rounding
      <4> QED
        BY <1>2, <4>1, RoundingIsFine
    <3> QED
      BY <1>1, <1>3, <3>1, <3>2 DEF Keep, NumbersInv
  <2>2. CASE Shift
    <3>1. PICK n \in Exponents : Keep(Fix(Ash(v.n, n))) /\ y' = y
      BY <1>2, <2>2 DEF Shift
    <3>2. v.n \in MinInt..MaxInt /\ n \in Int
      BY <1>2, <2>2, IntegersAreIntegers, NumbersAssumption DEF Shift
    <3>3. Fine(Fix(Ash(v.n, n)))
      BY <3>2, AshInWord DEF Fine, Number, Integer
    <3> QED
      BY <1>1, <1>3, <3>1, <3>3 DEF Keep, NumbersInv
  <2>3. CASE Bitwise2
    <3>1. PICK r \in {BitwiseAnd(v.n, w.n), BitwiseIor(v.n, w.n), BitwiseXor(v.n, w.n)} :
            Keep(Fix(r)) /\ y' = y
      BY <1>2, <2>3 DEF Bitwise2
    <3>2. r \in MinInt..MaxInt
      BY BitsInWord DEF BitwiseAnd, BitwiseIor, BitwiseXor
    <3>3. Fine(Fix(r))
      BY <3>2 DEF Fine, Number, Integer
    <3> QED
      BY <1>1, <1>3, <3>1, <3>3 DEF Keep, NumbersInv
  <2> QED
    BY <1>9, <2>1, <2>2, <2>3
<1>10. CASE Swap
  BY <1>1, <1>10 DEF Swap, NumbersInv
<1>11. CASE Copy
  BY <1>1, <1>11 DEF Copy, NumbersInv
<1>12. CASE UNCHANGED vars
  BY <1>12 DEF vars, NumbersInv
<1> QED
  BY <1>6, <1>7, <1>8, <1>9, <1>10, <1>11, <1>12 DEF Next

-----------------------------------------------------------------------------
(* The digits of a number spell it.                                        *)
DigitPre == [k \in Nat |-> k \div Radix]
DigitSize == [k \in Nat |-> k]
LowDigitsOf(f) ==
  f = [k \in Nat |-> IF k < Radix THEN <<k>> ELSE Append(f[k \div Radix], k % Radix)]

LEMMA DigitsDescend == Descends(Nat, DigitSize, Digits, DigitPre)
<1>1. PICK r \in Nat : r = Radix /\ r >= 2
  BY RadixFacts
<1>2. ASSUME NEW k \in Nat
      PROVE  k \div r \in Nat /\ (k >= r => k \div r < k)
  <2>1. PICK q \in Nat, z \in 0..(r - 1) : q = k \div r /\ k = r * q + z
    BY <1>1
  <2>2. ASSUME k >= r
        PROVE  q < k
    <3>1. CASE q = 0
      BY <1>1, <2>2, <3>1
    <3>2. CASE q > 0
      <4>1. r * q >= 2 * q
        BY <1>1, <3>2
      <4> QED
        BY <2>1, <3>2, <4>1
    <3> QED
      BY <3>1, <3>2
  <2> QED
    BY <2>1, <2>2
<1>3. ASSUME NEW k \in Nat, k \notin Digits
      PROVE  k >= r
  BY <1>1, <1>3 DEF Digits
<1> QED
  BY <1>1, <1>2, <1>3 DEF Descends, DigitPre, DigitSize

LEMMA LowDigitsExist == \E f : LowDigitsOf(f)
<1> DEFINE first == [k \in Nat |-> <<k>>]
           next == [q \in Nat \X Seq(Nat) |-> Append(q[2], q[1] % Radix)]
<1>1. PICK r \in Nat : r = Radix /\ r >= 2
  BY RadixFacts
<1>2. first \in [Nat -> Seq(Nat)]
  OBVIOUS
<1>3. next \in [Nat \X Seq(Nat) -> Seq(Nat)]
  <2>1. ASSUME NEW q \in Nat \X Seq(Nat)
        PROVE  Append(q[2], q[1] % Radix) \in Seq(Nat)
    <3>1. q[1] \in Nat /\ q[2] \in Seq(Nat)
      OBVIOUS
    <3>2. PICK z \in Nat : z = q[1] % Radix
      BY <1>1, <3>1
    <3> QED
      BY <3>1, <3>2
  <2> QED
    BY <2>1
<1>4. \A k \in Nat, s \in Seq(Nat) : next[<<k, s>>] = Append(s, k % Radix)
  OBVIOUS
<1>5. \A k \in Nat : first[k] = <<k>>
  OBVIOUS
<1> HIDE DEF first, next
<1>6. PICK f : Recurs(f, Nat, Seq(Nat), Digits, DigitPre, first, next)
  BY <1>2, <1>3, DigitsDescend, MeasureRecursion
<1>7. f \in [Nat -> Seq(Nat)] /\ DigitPre \in [Nat -> Nat]
  BY <1>6, DigitsDescend DEF Recurs, Descends
<1>8. ASSUME NEW k \in Nat
      PROVE  f[k] = IF k < Radix THEN <<k>> ELSE Append(f[k \div Radix], k % Radix)
  <2>1. f[k] = IF k \in Digits THEN first[k] ELSE next[<<k, f[DigitPre[k]]>>]
    BY <1>6 DEF Recurs
  <2>2. k \in Digits <=> k < Radix
    BY <1>1 DEF Digits
  <2>3. DigitPre[k] \in Nat /\ f[DigitPre[k]] \in Seq(Nat) /\ DigitPre[k] = k \div Radix
    BY <1>7 DEF DigitPre
  <2>4. next[<<k, f[DigitPre[k]]>>] = Append(f[k \div Radix], k % Radix)
    BY <1>4, <2>3
  <2> QED
    BY <1>5, <2>1, <2>2, <2>4
<1> QED
  BY <1>7, <1>8 DEF LowDigitsOf

LEMMA DigitsSpell ==
  ASSUME NEW n \in Nat
  PROVE  Spells(DigitsOf(n), n)
<1>1. PICK low : low = CHOOSE f : LowDigitsOf(f)
  OBVIOUS
<1>2. LowDigitsOf(low)
  BY <1>1, LowDigitsExist
<1>3. DigitsOf(n) = low[n]
  BY <1>1 DEF DigitsOf, LowDigitsOf
<1> DEFINE T == {k \in Nat : Spells(low[k], k)}
<1>4. ASSUME NEW k \in Nat, \A j \in Nat : DigitSize[j] < DigitSize[k] => j \in T
      PROVE  k \in T
  <2>1. low[k] = IF k < Radix THEN <<k>> ELSE Append(low[k \div Radix], k % Radix)
    BY <1>2 DEF LowDigitsOf
  <2>2. PICK r \in Nat : r = Radix /\ r >= 2
    BY RadixFacts
  <2>3. CASE k < Radix
    <3>1. k \in Digits
      BY <2>2, <2>3 DEF Digits
    <3> QED
      BY <2>1, <2>3, <3>1, OneDigit
  <2>4. CASE ~(k < Radix)
    <3>1. k \notin Digits
      BY <2>4, <2>2 DEF Digits
    <3>2. DigitPre[k] \in Nat /\ DigitSize[DigitPre[k]] < DigitSize[k] /\ DigitPre[k] = k \div Radix
      BY <3>1, DigitsDescend DEF Descends, DigitPre
    <3>3. Spells(low[k \div Radix], k \div Radix)
      BY <1>4, <3>2
    <3>4. k % Radix \in Digits /\ k \div Radix \in Nat
      BY <2>2 DEF Digits
    <3>5. k = Radix * (k \div Radix) + (k % Radix)
      BY <2>2
    <3>6. Spells(Append(low[k \div Radix], k % Radix), Radix * (k \div Radix) + (k % Radix))
      BY <3>3, <3>4, AppendSpells
    <3> QED
      BY <2>1, <2>4, <3>5, <3>6
  <2> QED
    BY <2>3, <2>4
<1>5. DigitSize \in [Nat -> Nat]
  BY DEF DigitSize
<1>6. Nat \subseteq T
  <2> HIDE DEF T
  <2> QED
    BY <1>4, <1>5, MeasureInduction
<1> QED
  BY <1>3, <1>6

-----------------------------------------------------------------------------
(* A big integer is made from its digits.                                  *)
MadeOf(p, d) == Signed(1, AddAbs(BigMul(p, Big(1, <<Radix>>)), Big(1, <<d>>)))
Makes(f, digits) ==
  f = [i \in 0..Len(digits) |-> IF i = 0 THEN BigZero ELSE MadeOf(f[i - 1], digits[i])]

LEMMA MadeOfIs ==
  ASSUME NEW p \in Bigs, NEW d \in Digits
  PROVE  /\ MadeOf(p, d) \in Bigs /\ MadeOf(p, d).sign = 1
         /\ p.sign = 1 => BigVal(MadeOf(p, d)) = Radix * BigVal(p) + d
<1>1. Radix \in Limbs /\ d \in Limbs /\ d \in Nat /\ Radix \in Nat
  BY RadixFacts
<1>2. PICK r, e : r = Big(1, <<Radix>>) /\ e = Big(1, <<d>>)
  OBVIOUS
<1>3. /\ r \in Bigs /\ e \in Bigs /\ Magnitude(r.data) = Radix /\ Magnitude(e.data) = d
      /\ Len(e.data) = 1 /\ r.sign = 1
  <2>1. Big(1, <<Radix>>).sign = 1
    BY DEF Big
  <2> QED
    BY <1>1, <1>2, <2>1, OneLimb
<1>4. BigVal(r) = Radix
  BY <1>3, ValueBySign
<1>5. PICK m : m = BigMul(p, r) /\ m \in Bigs /\ BigVal(m) = BigVal(p) * Radix
  BY <1>3, <1>4, BigMulExact
<1>6. Len(m.data) >= 1
  <2>1. CASE IsZero(p) \/ IsZero(r)
    <3>1. m = BigZero
      BY <1>5, <2>1 DEF BigMul
    <3>2. Len(BigZero.data) = 1
      BY DEF BigZero, Big
    <3> QED
      BY <3>1, <3>2
  <2>2. CASE ~(IsZero(p) \/ IsZero(r))
    <3>1. m.data = MulAbs(p, r).data
      BY <1>5, <2>2 DEF BigMul, Signed
    <3>2. Proper(MulAbs(p, r))
      BY <1>3, MulAbsExact
    <3>3. m.data # <<>>
      BY <3>1, <3>2 DEF Proper
    <3>4. m.data \in Seq(Limbs)
      BY <1>5, BigFacts
    <3> QED
      BY <3>3, <3>4
  <2> QED
    BY <2>1, <2>2
<1>7. PICK a : /\ a = AddAbs(m, e) /\ a \in Bigs
               /\ Magnitude(a.data) = Magnitude(m.data) + d
  BY <1>3, <1>5, <1>6, AddAbsExact DEF Proper
<1>8. MadeOf(p, d) = Signed(1, a)
  BY <1>2, <1>5, <1>7 DEF MadeOf
<1>9. Signed(1, a) \in Bigs /\ Signed(1, a).sign = 1 /\ BigVal(Signed(1, a)) = 1 * Magnitude(a.data)
  BY <1>7, SignedFacts
<1>10. ASSUME p.sign = 1
       PROVE  BigVal(MadeOf(p, d)) = Radix * BigVal(p) + d
  <2>1. PICK v \in Nat : v = BigVal(p)
    BY <1>10, ValueBySign
  <2>2. PICK z \in Nat : z = Radix * v /\ z = v * Radix
    BY <1>1
  <2>3. Magnitude(m.data) \in Nat /\ (BigVal(m) = Magnitude(m.data) \/ BigVal(m) = -Magnitude(m.data))
    BY <1>5, ValueBySign
  <2>4. Magnitude(m.data) = z
    BY <1>5, <2>1, <2>2, <2>3
  <2>5. 1 * Magnitude(a.data) = z + d
    BY <1>1, <1>7, <2>2, <2>4
  <2> QED
    BY <1>8, <1>9, <2>1, <2>2, <2>5
<1> QED
  BY <1>8, <1>9, <1>10

LEMMA MakingExists ==
  ASSUME NEW digits \in Seq(Digits)
  PROVE  \E f : Makes(f, digits)
<1>1. PICK n \in Nat : n = Len(digits)
  OBVIOUS
<1> DEFINE F == [p \in Bigs \X (1..n) |-> MadeOf(p[1], digits[p[2]])]
<1>2. BigZero \in Bigs
  BY BigZeroFacts DEF Proper
<1>3. StepOn(F, Bigs, n)
  <2>1. ASSUME NEW p \in Bigs \X (1..n)
        PROVE  MadeOf(p[1], digits[p[2]]) \in Bigs
    <3>1. p[1] \in Bigs /\ digits[p[2]] \in Digits
      BY <1>1
    <3> QED
      BY <3>1, MadeOfIs
  <2> QED
    BY <2>1 DEF StepOn
<1>4. \A p \in Bigs, i \in 1..n : F[<<p, i>>] = MadeOf(p, digits[i])
  OBVIOUS
<1> HIDE DEF F
<1>5. PICK g : Solution(g, BigZero, F, Bigs, n)
  BY <1>2, <1>3, Recursion
<1>6. g \in [0..n -> Bigs] /\ g[0] = BigZero /\ \A i \in 1..n : g[i] = F[<<g[i - 1], i>>]
  BY <1>5 DEF Solution
<1>7. ASSUME NEW i \in 0..n
      PROVE  g[i] = IF i = 0 THEN BigZero ELSE MadeOf(g[i - 1], digits[i])
  <2>1. CASE i = 0
    BY <1>6, <2>1
  <2>2. CASE i # 0
    <3>1. i \in 1..n /\ i - 1 \in 0..n
      BY <2>2
    <3> QED
      BY <1>4, <1>6, <2>2, <3>1
  <2> QED
    BY <2>1, <2>2
<1>8. g = [i \in 0..n |-> IF i = 0 THEN BigZero ELSE MadeOf(g[i - 1], digits[i])]
  BY <1>6, <1>7
<1> QED
  BY <1>1, <1>8 DEF Makes

LEMMA BigFromStrIs ==
  ASSUME NEW digits, NEW m \in Nat, Spells(digits, m), NEW sign \in {1, -1}
  PROVE  BigFromStr(digits, sign) \in Bigs /\ BigVal(BigFromStr(digits, sign)) = sign * m
<1>1. digits \in Seq(Digits)
  BY DEF Spells
<1>2. PICK n \in Nat : n = Len(digits)
  BY <1>1
<1>3. PICK h \in [0..n -> Nat] : /\ h[0] = 0 /\ h[n] = m
                                 /\ \A i \in 1..n : h[i] = Radix * h[i - 1] + digits[i]
  BY <1>2 DEF Spells
<1>4. PICK made : made = CHOOSE f : Makes(f, digits)
  OBVIOUS
<1>5. Makes(made, digits)
  BY <1>1, <1>4, MakingExists
<1>6. BigFromStr(digits, sign) = IF IsZero(made[n]) THEN BigZero ELSE Signed(sign, made[n])
  BY <1>2, <1>4 DEF BigFromStr, Makes, MadeOf
<1> DEFINE T == {i \in 0..n : made[i] \in Bigs /\ made[i].sign = 1 /\ BigVal(made[i]) = h[i]}
<1>7. 0 \in T
  <2>1. 0 \in 0..n
    OBVIOUS
  <2>2. made[0] = BigZero
    BY <1>2, <1>5, <2>1 DEF Makes
  <2>3. BigZero \in Bigs /\ BigZero.sign = 1 /\ BigVal(BigZero) = 0
    BY BigZeroFacts DEF Proper, BigZero, Big
  <2> QED
    BY <1>3, <2>1, <2>2, <2>3
<1>8. ASSUME NEW i \in 1..n, i - 1 \in T
      PROVE  i \in T
  <2>1. i \in 0..n /\ i # 0
    OBVIOUS
  <2>2. made[i] = MadeOf(made[i - 1], digits[i])
    BY <1>2, <1>5, <2>1 DEF Makes
  <2>3. digits[i] \in Digits
    BY <1>1, <1>2
  <2>4. made[i] \in Bigs /\ made[i].sign = 1 /\ BigVal(made[i]) = Radix * BigVal(made[i - 1]) + digits[i]
    BY <1>8, <2>2, <2>3, MadeOfIs
  <2> QED
    BY <1>3, <1>8, <2>1, <2>4
<1>9. n \in T
  <2>1. n \in 0..n
    OBVIOUS
  <2> HIDE DEF T
  <2> QED
    BY <1>7, <1>8, <2>1, Upwards
<1>10. made[n] \in Bigs /\ made[n].sign = 1 /\ BigVal(made[n]) = m
  BY <1>3, <1>9
<1>11. CASE IsZero(made[n])
  <2>1. m = 0 /\ sign * 0 = 0
    BY <1>10, <1>11, IsZeroMeans
  <2> QED
    BY <1>6, <1>11, <2>1, BigZeroFacts DEF Proper
<1>12. CASE ~IsZero(made[n])
  <2>1. Magnitude(made[n].data) = m
    BY <1>10, ValueBySign
  <2> QED
    BY <1>6, <1>10, <1>12, <2>1, SignedFacts
<1> QED
  BY <1>11, <1>12

-----------------------------------------------------------------------------
(* Reading: the value so far is in a word, or spelled by digits.           *)
ReadStates == [word : Nat, str : Seq(Digits)]
ReadStep(p, d) ==
  IF p.str # <<>> THEN [p EXCEPT !.str = Append(@, d)]
  ELSE IF p.word > MaxPre THEN [word |-> 0, str |-> Append(DigitsOf(p.word), d)]
  ELSE [word |-> p.word * Radix + d, str |-> <<>>]
ReadStart == [word |-> 0, str |-> <<>>]
Reads(f, digits) ==
  f = [i \in 0..Len(digits) |-> IF i = 0 THEN ReadStart ELSE ReadStep(f[i - 1], digits[i])]
ReadSoFar(p, m) ==
  /\ p \in ReadStates
  /\ IF p.str = <<>> THEN p.word = m /\ m <= MaxInt ELSE Spells(p.str, m)

LEMMA MaxPreIs == MaxPre \in Int /\ \A k \in Int, d \in Digits : k <= MaxPre => k * Radix + d <= MaxInt
<1>1. PICK r \in Nat \ {0}, M \in Nat : r = Radix /\ M = MaxInt
  BY RadixFacts, WordFacts
<1>2. PICK q \in Int, z \in 0..(r - 1) : q = (M - (r - 1)) \div r /\ M - (r - 1) = r * q + z
  BY <1>1
<1>3. ASSUME NEW k \in Int, NEW d \in 0..(r - 1), k <= q
      PROVE  k * r + d <= M
  <2>1. k * r <= r * q
    BY <1>1, <1>2, <1>3
  <2>2. PICK a \in Int, b \in Int : a = k * r /\ b = r * q
    BY <1>1, <1>2
  <2> QED
    BY <1>1, <1>2, <1>3, <2>1, <2>2
<1> QED
  BY <1>1, <1>2, <1>3 DEF MaxPre, Digits

LEMMA ReadStepStays ==
  ASSUME NEW p \in ReadStates, NEW d \in Digits
  PROVE  ReadStep(p, d) \in ReadStates
<1>1. d \in Nat /\ Radix \in Nat /\ p.word \in Nat /\ p.str \in Seq(Digits)
  BY RadixFacts DEF ReadStates
<1>2. DigitsOf(p.word) \in Seq(Digits)
  BY <1>1, DigitsSpell DEF Spells
<1>3. Append(p.str, d) \in Seq(Digits) /\ Append(DigitsOf(p.word), d) \in Seq(Digits)
  BY <1>1, <1>2
<1>4. <<>> \in Seq(Digits)
  OBVIOUS
<1>5. p.word * Radix + d \in Nat
  BY <1>1
<1>6. CASE p.str # <<>>
  <2>1. PICK s \in Seq(Digits) : s = Append(p.str, d)
    BY <1>3
  <2>2. ReadStep(p, d) = [word |-> p.word, str |-> s]
    BY <1>6, <2>1 DEF ReadStep, ReadStates
  <2> QED
    BY <1>1, <2>1, <2>2 DEF ReadStates
<1>7. CASE p.str = <<>>
  <2>1. PICK s \in Seq(Digits), e \in Seq(Digits) : s = Append(DigitsOf(p.word), d) /\ e = <<>>
    BY <1>3, <1>4
  <2>2. PICK k \in Nat : k = p.word * Radix + d
    BY <1>5
  <2>3. ReadStep(p, d) = [word |-> 0, str |-> s] \/ ReadStep(p, d) = [word |-> k, str |-> e]
    BY <1>7, <2>1, <2>2 DEF ReadStep
  <2>4. [word |-> 0, str |-> s] \in ReadStates /\ [word |-> k, str |-> e] \in ReadStates
    BY DEF ReadStates
  <2> QED
    BY <2>3, <2>4
<1> QED
  BY <1>6, <1>7

LEMMA ReadStepReads ==
  ASSUME NEW m \in Nat, NEW p, ReadSoFar(p, m), NEW d \in Digits
  PROVE  ReadSoFar(ReadStep(p, d), Radix * m + d)
<1>1. d \in Nat /\ Radix \in Nat /\ p.word \in Nat /\ p.str \in Seq(Digits) /\ p \in ReadStates
  BY RadixFacts DEF ReadStates, ReadSoFar
<1>2. PICK s : s = ReadStep(p, d) /\ s \in ReadStates
  BY <1>1, ReadStepStays
<1>3. CASE p.str # <<>>
  <2>1. s.str = Append(p.str, d)
    BY <1>1, <1>2, <1>3 DEF ReadStep, ReadStates
  <2>2. Spells(s.str, Radix * m + d)
    BY <1>3, <2>1, AppendSpells DEF ReadSoFar
  <2>3. s.str # <<>>
    BY <2>2 DEF Spells
  <2> QED
    BY <1>2, <2>2, <2>3 DEF ReadSoFar
<1>4. CASE p.str = <<>> /\ p.word > MaxPre
  <2>1. s.str = Append(DigitsOf(p.word), d)
    BY <1>2, <1>4 DEF ReadStep
  <2>2. p.word = m
    BY <1>4 DEF ReadSoFar
  <2>3. Spells(s.str, Radix * m + d)
    BY <2>1, <2>2, DigitsSpell, AppendSpells
  <2>4. s.str # <<>>
    BY <2>3 DEF Spells
  <2> QED
    BY <1>2, <2>3, <2>4 DEF ReadSoFar
<1>5. CASE p.str = <<>> /\ ~(p.word > MaxPre)
  <2>1. s = [word |-> p.word * Radix + d, str |-> <<>>]
    BY <1>2, <1>5 DEF ReadStep
  <2>2. p.word = m
    BY <1>5 DEF ReadSoFar
  <2>3. m <= MaxPre /\ m * Radix + d <= MaxInt
    BY <1>5, <2>2, MaxPreIs
  <2>4. m * Radix = Radix * m
    BY <1>1
  <2>5. s.word = Radix * m + d /\ s.str = <<>>
    BY <2>1, <2>2, <2>4
  <2> QED
    BY <1>2, <2>3, <2>4, <2>5 DEF ReadSoFar
<1> QED
  BY <1>3, <1>4, <1>5

LEMMA ReadingExists ==
  ASSUME NEW digits \in Seq(Digits)
  PROVE  \E f : Reads(f, digits)
<1>1. PICK n \in Nat : n = Len(digits)
  OBVIOUS
<1> DEFINE F == [p \in ReadStates \X (1..n) |-> ReadStep(p[1], digits[p[2]])]
<1>2. ReadStart \in ReadStates
  BY DEF ReadStart, ReadStates
<1>3. StepOn(F, ReadStates, n)
  <2>1. ASSUME NEW p \in ReadStates \X (1..n)
        PROVE  ReadStep(p[1], digits[p[2]]) \in ReadStates
    <3>1. p[1] \in ReadStates /\ digits[p[2]] \in Digits
      BY <1>1
    <3> QED
      BY <3>1, ReadStepStays
  <2> QED
    BY <2>1 DEF StepOn
<1>4. \A p \in ReadStates, i \in 1..n : F[<<p, i>>] = ReadStep(p, digits[i])
  OBVIOUS
<1> HIDE DEF F
<1>5. PICK g : Solution(g, ReadStart, F, ReadStates, n)
  BY <1>2, <1>3, Recursion
<1>6. g \in [0..n -> ReadStates] /\ g[0] = ReadStart /\ \A i \in 1..n : g[i] = F[<<g[i - 1], i>>]
  BY <1>5 DEF Solution
<1>7. ASSUME NEW i \in 0..n
      PROVE  g[i] = IF i = 0 THEN ReadStart ELSE ReadStep(g[i - 1], digits[i])
  <2>1. CASE i = 0
    BY <1>6, <2>1
  <2>2. CASE i # 0
    <3>1. i \in 1..n /\ i - 1 \in 0..n
      BY <2>2
    <3> QED
      BY <1>4, <1>6, <2>2, <3>1
  <2> QED
    BY <2>1, <2>2
<1>8. g = [i \in 0..n |-> IF i = 0 THEN ReadStart ELSE ReadStep(g[i - 1], digits[i])]
  BY <1>6, <1>7
<1> QED
  BY <1>1, <1>8 DEF Reads

LEMMA ReadingIs ==
  ASSUME NEW digits, NEW negative, NEW sign, sign = IF negative THEN -1 ELSE 1,
         NEW f, f = CHOOSE g : Reads(g, digits)
  PROVE  ReadUInteger(digits, negative) =
           IF f[Len(digits)].str = <<>> THEN Fix(sign * f[Len(digits)].word)
           ELSE BigSetVT(BigFromStr(f[Len(digits)].str, sign))
BY DEF Reads, ReadStep, ReadStart, ReadUInteger

(* The smallest word stays a big integer.                                  *)
LEMMA SmallestIsBig ==
  ASSUME NEW a \in Bigs
  PROVE  BigSetVT(a) # Fix(MinInt)
<1>1. PICK b : b = Normalize(a) /\ Proper(b)
  BY NormalizeKeeps
<1>2. b \in Bigs /\ b.data \in Seq(Limbs) /\ b.sign \in {1, -1}
  BY <1>1, BigFacts DEF Proper
<1>3. PICK M \in Nat : M = MaxInt /\ MinInt = -M - 1
  BY WordFacts
<1>4. CASE Len(b.data) = 1 /\ b.data[1] <= MaxInt
  <2>1. BigSetVT(a) = Fix(b.sign * b.data[1])
    BY <1>1, <1>4 DEF BigSetVT
  <2>2. PICK q \in Nat : q = b.data[1] /\ q <= M
    BY <1>2, <1>3, <1>4, LimbFacts
  <2>3. b.sign * q # MinInt
    BY <1>2, <1>3, <2>2
  <2> QED
    BY <2>1, <2>2, <2>3, FixIsFix
<1>5. CASE ~(Len(b.data) = 1 /\ b.data[1] <= MaxInt)
  <2>1. BigSetVT(a) = b
    BY <1>1, <1>5 DEF BigSetVT
  <2>2. IsBig(b)
    BY <1>2 DEF Bigs, IsBig
  <2> QED
    BY <2>1, <2>2, FixIsFix
<1> QED
  BY <1>4, <1>5

(* Digits are read as the number they spell, in the form that is right.    *)
LEMMA ReadUIntegerIs ==
  ASSUME NEW digits, NEW m \in Nat, Spells(digits, m), NEW negative \in BOOLEAN,
         NEW v, v = ReadUInteger(digits, negative)
  PROVE  Integer(v) /\ Num(v) = (IF negative THEN -m ELSE m) /\ Canonical(v) /\ v # Fix(MinInt)
<1>1. digits \in Seq(Digits)
  BY DEF Spells
<1>2. PICK n \in Nat : n = Len(digits)
  BY <1>1
<1>3. PICK h \in [0..n -> Nat] : /\ h[0] = 0 /\ h[n] = m
                                 /\ \A i \in 1..n : h[i] = Radix * h[i - 1] + digits[i]
  BY <1>2 DEF Spells
<1>4. PICK read : read = CHOOSE f : Reads(f, digits)
  OBVIOUS
<1>5. Reads(read, digits)
  BY <1>1, <1>4, ReadingExists
<1>0. PICK sign \in {1, -1} : sign = IF negative THEN -1 ELSE 1
  OBVIOUS
<1>6. v = IF read[n].str = <<>> THEN Fix(sign * read[n].word) ELSE BigSetVT(BigFromStr(read[n].str, sign))
  <2>1. ReadUInteger(digits, negative) =
          IF read[Len(digits)].str = <<>> THEN Fix(sign * read[Len(digits)].word)
          ELSE BigSetVT(BigFromStr(read[Len(digits)].str, sign))
    BY <1>0, <1>4, ReadingIs
  <2> QED
    BY <1>2, <2>1
<1> DEFINE T == {i \in 0..n : ReadSoFar(read[i], h[i])}
<1>7. 0 \in T
  <2>1. 0 \in 0..n
    OBVIOUS
  <2>2. read[0] = ReadStart
    BY <1>2, <1>5, <2>1 DEF Reads
  <2>3. ReadStart \in ReadStates /\ ReadStart.str = <<>> /\ ReadStart.word = 0
    BY DEF ReadStart, ReadStates
  <2> QED
    BY <1>3, <2>1, <2>2, <2>3, WordFacts DEF ReadSoFar
<1>8. ASSUME NEW i \in 1..n, i - 1 \in T
      PROVE  i \in T
  <2>1. i \in 0..n /\ i # 0 /\ i - 1 \in 0..n
    OBVIOUS
  <2>2. read[i] = ReadStep(read[i - 1], digits[i])
    BY <1>2, <1>5, <2>1 DEF Reads
  <2>3. digits[i] \in Digits /\ h[i - 1] \in Nat
    BY <1>1, <1>2, <1>3, <2>1
  <2>4. ReadSoFar(read[i], Radix * h[i - 1] + digits[i])
    BY <1>8, <2>2, <2>3, ReadStepReads
  <2> QED
    BY <1>3, <2>1, <2>4
<1>9. ReadSoFar(read[n], m)
  <2>1. n \in 0..n
    OBVIOUS
  <2>2. n \in T
    <3> HIDE DEF T
    <3> QED
      BY <1>7, <1>8, <2>1, Upwards
  <2> QED
    BY <1>3, <2>2
<1>10. sign * m = IF negative THEN -m ELSE m
  BY <1>0
<1>11. CASE read[n].str = <<>>
  <2>1. v = Fix(sign * m) /\ m <= MaxInt
    BY <1>6, <1>9, <1>11 DEF ReadSoFar
  <2>2. sign * m \in MinInt..MaxInt
    BY <1>0, <1>10, <2>1, WordFacts
  <2>3. ~IsBig(v) /\ Num(v) = sign * m
    BY <2>1, FixIsFix
  <2>4. sign * m # MinInt
    BY <1>0, <2>1, WordFacts
  <2>5. v # Fix(MinInt)
    BY <2>1, <2>4, FixIsFix
  <2> QED
    BY <1>10, <2>1, <2>2, <2>3, <2>5 DEF Integer, Canonical
<1>12. CASE read[n].str # <<>>
  <2>1. Spells(read[n].str, m)
    BY <1>9, <1>12 DEF ReadSoFar
  <2>2. BigFromStr(read[n].str, sign) \in Bigs /\ BigVal(BigFromStr(read[n].str, sign)) = sign * m
    BY <2>1, BigFromStrIs
  <2> QED
    BY <1>6, <1>10, <1>12, <2>2, BigSetVTKeeps, SmallestIsBig
<1> QED
  BY <1>11, <1>12

LEMMA ReadIntegerIs ==
  ASSUME NEW n \in Int, NEW v, v = ReadInteger(n)
  PROVE  Integer(v) /\ Num(v) = n /\ Canonical(v)
<1>1. PICK m \in Nat, negative \in BOOLEAN : m = Abs(n) /\ negative = (n < 0)
  <2>1. Abs(n) \in Nat /\ (n < 0) \in BOOLEAN
    BY DEF Abs
  <2> QED
    BY <2>1, Zenon
<1>2. v = ReadUInteger(DigitsOf(m), negative)
  BY <1>1 DEF ReadInteger
<1>3. Integer(v) /\ Num(v) = (IF negative THEN -m ELSE m) /\ Canonical(v)
  BY <1>2, DigitsSpell, ReadUIntegerIs
<1>4. (IF negative THEN -m ELSE m) = n
  <2>1. negative <=> n < 0
    BY <1>1, Zenon
  <2>2. m = Abs(n)
    BY <1>1
  <2> QED
    BY <2>1, <2>2 DEF Abs
<1> QED
  BY <1>3, <1>4

LEMMA WordIsRead ==
  ASSUME NEW n \in Int, n \in (-MaxInt)..MaxInt
  PROVE  ReadInteger(n) = Fix(n)
<1>1. PICK v : v = ReadInteger(n) /\ Integer(v) /\ Num(v) = n /\ Canonical(v)
  BY ReadIntegerIs
<1>2. ~IsBig(v)
  BY <1>1 DEF Canonical
<1>3. WordOf(v)
  BY <1>1, <1>2, IntegerForms DEF BigOf
<1> QED
  BY <1>1, <1>3 DEF WordOf

LEMMA NumbersStart == Init => NumbersInv
<1> SUFFICES ASSUME Init
             PROVE  NumbersInv
  OBVIOUS
<1>1. ASSUME NEW v \in Read
      PROVE  Number(v)
  <2>1. ASSUME NEW n \in Literals, v = ReadInteger(n)
        PROVE  Number(v)
    BY <2>1, ReadIntegerIs, NumbersAssumption DEF Number
  <2>2. ASSUME NEW r \in Ratios, v = ReadRatio(r)
        PROVE  Number(v)
    <3>1. PICK M \in Nat : M = MaxInt /\ MinInt = -M - 1
      BY WordFacts
    <3>2. PICK a \in Int, b \in Int : /\ a = r[1] /\ b = r[2]
                                      /\ a \in (-M)..M /\ b \in 1..M
      BY <3>1, NumbersAssumption
    <3>3. ReadInteger(Abs(a)) = Fix(Abs(a)) /\ ReadInteger(b) = Fix(b)
      <4>1. Abs(a) \in Int /\ Abs(a) \in (-M)..M /\ b \in (-M)..M
        BY <3>1, <3>2 DEF Abs
      <4> QED
        BY <3>1, <3>2, <4>1, WordIsRead
    <3>4. (IF a < 0 THEN -1 ELSE 1) * Abs(a) = a
      BY <3>2 DEF Abs
    <3>5. v = Ratio((IF a < 0 THEN -1 ELSE 1) * Abs(a), b)
      BY <2>2, <3>2, <3>3, FixIsFix DEF ReadRatio
    <3>6. v = Ratio(a, b)
      BY <3>4, <3>5
    <3> QED
      BY <3>1, <3>2, <3>6 DEF Number, Rational
  <2> QED
    BY <2>1, <2>2 DEF Read
<1> QED
  BY <1>1, NumbersAssumption DEF Init, NumbersInv

(* The inductive invariant: both registers stay well-formed numbers through *)
(* every operation, so no limb, word or digit ever leaves its range.       *)
THEOREM NumbersKeep == Spec => []NumbersInv
BY NumbersStart, NumbersStep, PTL DEF Spec

-----------------------------------------------------------------------------
(* What the division of integers promises.                                 *)
LEMMA MultipleLeavesNothing ==
  ASSUME NEW g \in Nat \ {0}, NEW n \in Int, Divides(g, n)
  PROVE  n % g = 0
<1>1. PICK k \in Int : n = g * k
  BY DEF Divides
<1>2. (g * k + 0) % g = 0
  BY DivMod
<1>3. g * k + 0 = g * k
  OBVIOUS
<1> QED
  BY <1>1, <1>2, <1>3

LEMMA ModuloFacts ==
  ASSUME NEW a \in Int, NEW b \in Int, b # 0, NEW q \in Int, q = CDiv(a, b)
  PROVE  /\ a - b * q = CMod(a, b)
         /\ (a - Turned(a, b)) % Abs(b) = 0 /\ Turned(a, b) \in Int
         /\ Abs(Turned(a, b)) < Abs(b)
         /\ Turned(a, b) # 0 => (Turned(a, b) < 0) = (b < 0)
<1>1. PICK c \in Int : /\ c = CMod(a, b) /\ a = b * q + c /\ Abs(c) < Abs(b)
  BY CDivMeans
<1>2. PICK z \in Int : z = b * q
  OBVIOUS
<1>3. a - z = c
  <2>1. a = z + c
    BY <1>1, <1>2
  <2> QED
    BY <2>1
<1>4. PICK t \in Int : t = Turned(a, b) /\ t = IF c # 0 /\ (c < 0) # (b < 0) THEN c + b ELSE c
  BY <1>1 DEF Turned
<1>5. Abs(t) < Abs(b) /\ (t # 0 => (t < 0) = (b < 0))
  BY <1>1, <1>4 DEF Abs
<1>6. Divides(b, a - t)
  <2>1. a - t = b * q \/ a - t = b * (q - 1)
    <3>1. b * (q - 1) = b * q - b
      OBVIOUS
    <3> QED
      BY <1>2, <1>3, <1>4, <3>1
  <2>2. q - 1 \in Int
    OBVIOUS
  <2> QED
    BY <2>1, <2>2 DEF Divides
<1>7. (a - t) % Abs(b) = 0
  <2>1. a - t \in Int /\ Abs(b) \in Nat \ {0} /\ -b \in Int
    BY DEF Abs
  <2>2. Divides(b, a - t) /\ Divides(-b, a - t)
    BY <1>6, <2>1, DividesSigns
  <2>3. Divides(Abs(b), a - t)
    BY <2>2 DEF Abs
  <2> QED
    BY <2>1, <2>3, MultipleLeavesNothing
<1> QED
  BY <1>1, <1>2, <1>3, <1>4, <1>5, <1>7

(* Two integers: quotient, modulo and remainder belong together, on words  *)
(* and on big integers of every length.                                    *)
LEMMA DivisionOfIntegers ==
  ASSUME Registers
  PROVE  IntegerDivision
<1> SUFFICES ASSUME NonZero2, IsFix(x) => x.n # MinInt
             PROVE  LET q == Num(NumQuotient(x, y))
                        m == Num(NumModulo(x, y))
                        r == Num(NumRemainder(x, y))
                        d == Num(x) - Num(y) * q
                    IN  /\ Abs(d) < Abs(Num(y)) /\ (d # 0 => (d < 0) = (Num(x) < 0))
                        /\ (Num(x) - m) % Abs(Num(y)) = 0 /\ Abs(m) < Abs(Num(y))
                        /\ m # 0 => (m < 0) = (Num(y) < 0)
                        /\ Halves \/ IsBig(x) \/ IsBig(y) => r = d
  BY DEF IntegerDivision
<1>1. Integer(x) /\ Integer(y)
  BY DEF Registers
<1>2. PICK a \in Int, b \in Int : a = Num(x) /\ b = Num(y) /\ b # 0
  BY <1>1, IntegerForms DEF NonZero2, IsNumZero
<1>3. ~LeavesWord(x, y)
  BY FixIsFix DEF LeavesWord
<1>4. PICK q \in Int : q = CDiv(a, b) /\ Num(NumQuotient(x, y)) = q
  BY <1>1, <1>2, <1>3, NumQuotientIs, CDivMeans
<1>5. Num(NumModulo(x, y)) = Turned(a, b)
  BY <1>1, <1>2, <1>3, NumModuloIs
<1>6. Halves \/ IsBig(x) \/ IsBig(y) => Num(NumRemainder(x, y)) = CMod(a, b)
  <2>1. CASE WordOf(x) /\ WordOf(y)
    <3>1. IsFix(x) /\ IsFix(y) /\ ~IsBig(x) /\ ~IsBig(y) /\ x.n = a /\ y.n = b
      BY <1>2, <2>1 DEF WordOf
    <3>2. Halves => /\ a \in (-(Half \div 2) + 1)..(Half \div 2 - 1)
                    /\ b \in (-(Half \div 2) + 1)..(Half \div 2 - 1)
      BY <3>1 DEF Halves
    <3> QED
      BY <1>1, <1>2, <3>1, <3>2, NumRemainderIs
  <2>2. CASE ~(WordOf(x) /\ WordOf(y))
    BY <1>1, <1>2, <2>2, NumRemainderIs
  <2> QED
    BY <2>1, <2>2
<1>7. /\ CMod(a, b) \in Int /\ Abs(CMod(a, b)) < Abs(b)
      /\ CMod(a, b) # 0 => (CMod(a, b) < 0) = (a < 0)
  <2>1. PICK c \in Int : c = CMod(a, b) /\ Abs(c) < Abs(b) /\ (c # 0 => (c < 0 <=> a < 0))
    BY <1>2, CDivMeans
  <2> QED
    BY <2>1
<1>8. /\ a - b * q = CMod(a, b)
      /\ (a - Turned(a, b)) % Abs(b) = 0
      /\ Abs(Turned(a, b)) < Abs(b)
      /\ Turned(a, b) # 0 => (Turned(a, b) < 0) = (b < 0)
  BY <1>2, <1>4, ModuloFacts
<1> QED
  BY <1>2, <1>4, <1>5, <1>6, <1>7, <1>8

LEMMA DivisorsOfIntegers ==
  ASSUME Registers
  PROVE  GcdAndLcm
<1> SUFFICES ASSUME NonZero2, ~IsNumZero(x), Num(x) # MinInt, Num(y) # MinInt
             PROVE  LET g == Num(NumGcd(x, y).gcd)
                        l == Num(NumLcm(x, y))
                    IN  /\ g > 0 /\ Num(x) % g = 0 /\ Num(y) % g = 0
                        /\ (IsBig(x) \/ IsBig(y) \/ Fits(Num(x) * Num(y)))
                             => l * g = Abs(Num(x) * Num(y))
  BY DEF GcdAndLcm
<1>1. Integer(x) /\ Integer(y) /\ Num(x) \in Int /\ Num(y) \in Int
  BY IntegerForms DEF Registers
<1>2. Num(x) # 0 /\ Num(y) # 0
  BY DEF NonZero2, IsNumZero
<1>3. PICK g : /\ g = Num(NumGcd(x, y).gcd)
               /\ GreatestCommon(g, Num(x), Num(y)) /\ g > 0
  BY <1>1, <1>2, NumGcdIs
<1>4. g \in Int /\ Divides(g, Num(x)) /\ Divides(g, Num(y))
  BY <1>3 DEF GreatestCommon
<1>5. g \in Nat \ {0}
  BY <1>3, <1>4
<1>6. Num(x) % g = 0 /\ Num(y) % g = 0
  BY <1>1, <1>4, <1>5, MultipleLeavesNothing
<1>7. IsBig(x) \/ IsBig(y) => ~(WordOf(x) /\ WordOf(y))
  BY DEF WordOf
<1>8. (IsBig(x) \/ IsBig(y) \/ Fits(Num(x) * Num(y)))
        => Num(NumLcm(x, y)) * g = Abs(Num(x) * Num(y))
  BY <1>1, <1>2, <1>3, <1>7, NumLcmIs
<1> QED
  BY <1>3, <1>6, <1>8

(* The registers hold numbers, and results have the form that is right.    *)
LEMMA NumbersAreNumbers == NumbersInv => TypeOK
<1> SUFFICES ASSUME NumbersInv
             PROVE  TypeOK
  OBVIOUS
<1>1. ASSUME NEW v, Number(v)
      PROVE  /\ Exact(v)
             /\ IsFix(v) => Fits(v.n)
             /\ IsRatio(v) => Fits(v.nu) /\ Fits(v.de) /\ v.de # 0
             /\ IsBig(v) => /\ v.data \in Seq(Limbs) /\ (Last(v.data) # 0 \/ v = BigZero)
                            /\ v.sign \in {1, -1}
  <2>1. ASSUME IsBig(v)
        PROVE  /\ v.data \in Seq(Limbs) /\ (Last(v.data) # 0 \/ v = BigZero)
               /\ v.sign \in {1, -1}
    <3>1. Proper(v) /\ v \in Bigs
      BY <1>1, <2>1, NumberForms
    <3>2. Last(v.data) = v.data[Len(v.data)]
      BY DEF Last
    <3> QED
      BY <3>1, <3>2, BigFacts DEF Proper
  <2>2. IsRatio(v) => Fits(v.nu) /\ Fits(v.de) /\ v.de # 0
    BY <1>1, NumberForms DEF Fits
  <2>3. Exact(v) /\ (IsFix(v) => Fits(v.n))
    BY <1>1, NumberForms DEF Fits
  <2> QED
    BY <2>1, <2>2, <2>3
<1>2. ResultsAreCanonical
  <2>1. CASE Integers2
    <3>1. Registers
      BY <2>1, IntegersAreIntegers DEF NumbersInv, Integers2, Registers
    <3> QED
      BY <3>1, FormsOfIntegers
  <2>2. CASE ~Integers2
    BY <2>2 DEF ResultsAreCanonical
  <2> QED
    BY <2>1, <2>2
<1> QED
  BY <1>1, <1>2 DEF NumbersInv, TypeOK

LEMMA DivisionsAreRight == NumbersInv => IntegerDivision /\ GcdAndLcm
<1> SUFFICES ASSUME NumbersInv
             PROVE  IntegerDivision /\ GcdAndLcm
  OBVIOUS
<1>1. CASE Integers2
  <2>1. Registers
    BY <1>1, IntegersAreIntegers DEF NumbersInv, Integers2, Registers
  <2> QED
    BY <2>1, DivisionOfIntegers, DivisorsOfIntegers
<1>2. CASE ~Integers2
  BY <1>2 DEF IntegerDivision, GcdAndLcm, NonZero2
<1> QED
  BY <1>1, <1>2

(* Every register holds a number, of a form the code can make: a small     *)
(* integer is a word, a big one has a non-zero leading limb, a ratio has a *)
(* denominator that is neither zero nor -1.                                *)
THEOREM NumbersTypeCorrect == Spec => []TypeOK
BY NumbersKeep, NumbersAreNumbers, PTL

-----------------------------------------------------------------------------
(* Ratios whose sums and products stay in a word.                          *)
Threes == (-3)..3
Nines == (-9)..9
TameRatio(a) ==
  Rational(a) /\ a.nu \in Threes /\ a.de \in Threes /\ a.de \notin {0, -1}

LEMMA ThreeFactors ==
  ASSUME NEW a \in Int, NEW b \in Int, NEW c \in Int
  PROVE  (a * b) * c = (a * c) * b /\ a * (b * c) = b * (a * c)
OBVIOUS

LEMMA RoomInWord == \A k \in (-31)..31 : Wrap(k) = k
<1>1. PICK b \in Nat : b = Base /\ b >= 64 /\ MaxInt = b \div 2 - 1 /\ MinInt = -MaxInt - 1
  BY LimbFacts, NumbersAssumption DEF MaxInt, MinInt
<1>2. MaxInt \in Nat /\ MaxInt >= 31
  BY <1>1
<1>3. ASSUME NEW k \in (-31)..31
      PROVE  Fits(k) /\ k \in Int
  BY <1>1, <1>2, <1>3 DEF Fits
<1> QED
  BY <1>3, WrapKeeps

LEMMA ThreeByThree ==
  ASSUME NEW p \in Threes, NEW q \in Threes
  PROVE  /\ p * q \in Nines
         /\ p \notin {0, -1} /\ q \notin {0, -1} => p * q \notin {0, -1}
         /\ p # 0 /\ q # 0 => p * q # 0
<1>1. p \in {-3, -2, -1, 0, 1, 2, 3} /\ q \in Int /\ q >= -3 /\ q <= 3
  BY DEF Threes
<1>2. CASE p = -3
  BY <1>1, <1>2 DEF Nines
<1>3. CASE p = -2
  BY <1>1, <1>3 DEF Nines
<1>4. CASE p = -1
  BY <1>1, <1>4 DEF Nines
<1>5. CASE p = 0
  BY <1>1, <1>5 DEF Nines
<1>6. CASE p = 1
  BY <1>1, <1>6 DEF Nines
<1>7. CASE p = 2
  BY <1>1, <1>7 DEF Nines
<1>8. CASE p = 3
  BY <1>1, <1>8 DEF Nines
<1> QED
  BY <1>1, <1>2, <1>3, <1>4, <1>5, <1>6, <1>7, <1>8

(* The common denominator is positive, and a multiple of both.             *)
LEMMA TameMultiple ==
  ASSUME NEW d1 \in Threes, NEW d2 \in Threes, d1 # 0, d2 # 0,
         NEW g, GreatestCommon(g, d1, d2), g = WordGcd(d1, d2)
  PROVE  \E k \in Threes, m \in Threes, L \in 1..9 :
           L = WordLcm(d1, d2) /\ L = d1 * m /\ L = d2 * k
<1>0. d1 \in Int /\ d2 \in Int
  BY DEF Threes
<1>1. g \in Int /\ g # 0
  BY <1>0, CommonDivisor DEF GreatestCommon
<1>2. PICK k \in Int, m \in Int : d1 = g * k /\ d2 = g * m
  BY DEF GreatestCommon, Divides
<1>3. PICK z \in Int : z = d1 * m
  BY <1>0
<1>4. z = d2 * k
  <2>1. (g * k) * m = (g * m) * k
    BY <1>1, ThreeFactors
  <2> QED
    BY <1>2, <1>3, <2>1
<1>5. PICK P \in Nines : P = d1 * d2 /\ P # 0
  BY ThreeByThree
<1>6. P = g * z
  <2>1. d1 * (g * m) = g * (d1 * m)
    BY <1>0, <1>1, ThreeFactors
  <2> QED
    BY <1>2, <1>3, <1>5, <2>1
<1>7. Wrap(P) = P /\ P \in Int
  BY RoomInWord DEF Nines
<1>8. CDiv(P, g) = z
  BY <1>1, <1>6, ExactDivision
<1>9. z # 0 /\ Abs(z) <= 9
  <2>1. P = z * g
    BY <1>1, <1>6
  <2>2. Divides(z, P)
    BY <1>1, <2>1 DEF Divides
  <2>3. z # 0 /\ Abs(z) <= Abs(P)
    BY <1>5, <1>7, <2>2, DivisorIsSmaller
  <2> QED
    BY <1>7, <2>3 DEF Abs, Nines
<1>10. k \in Threes /\ m \in Threes
  <2>1. d1 = k * g /\ d2 = m * g
    BY <1>1, <1>2
  <2>2. Divides(k, d1) /\ Divides(m, d2)
    BY <1>1, <2>1 DEF Divides
  <2>3. Abs(k) <= Abs(d1) /\ Abs(m) <= Abs(d2)
    BY <1>0, <2>2, DivisorIsSmaller
  <2>4. Abs(d1) <= 3 /\ Abs(d2) <= 3
    BY DEF Abs, Threes
  <2> QED
    BY <1>0, <2>3, <2>4 DEF Abs, Threes
<1>11. PICK L \in 1..9 : L = Abs(z)
  BY <1>9 DEF Abs
<1>12. WordLcm(d1, d2) = L
  <2>1. WordLcm(d1, d2) = CAbs(z)
    BY <1>5, <1>7, <1>8 DEF WordLcm
  <2>2. Wrap(L) = L
    BY RoomInWord
  <2> QED
    BY <1>11, <2>1, <2>2 DEF CAbs
<1>13. CASE z > 0
  <2>1. L = z
    BY <1>11, <1>13 DEF Abs
  <2> QED
    BY <1>3, <1>4, <1>10, <1>12, <2>1
<1>14. CASE z < 0
  <2>1. L = -z
    BY <1>11, <1>14 DEF Abs
  <2>2. -k \in Threes /\ -m \in Threes
    BY <1>10 DEF Threes
  <2>3. d1 * (-m) = -(d1 * m) /\ d2 * (-k) = -(d2 * k)
    BY <1>0
  <2>4. L = d1 * (-m) /\ L = d2 * (-k)
    BY <1>3, <1>4, <2>1, <2>3
  <2> QED
    BY <1>12, <2>2, <2>4
<1> QED
  BY <1>9, <1>13, <1>14

LEMMA TameCommon ==
  ASSUME NEW a, NEW b, TameRatio(a), TameRatio(b), NEW c, c = OverCommon(a, b)
  PROVE  /\ c.nu1 \in Nines /\ c.nu2 \in Nines /\ c.de \in 1..9
         /\ c.nu1 * a.de = a.nu * c.de /\ c.nu2 * b.de = b.nu * c.de
<1>1. PICK n1 \in Threes, d1 \in Threes : n1 = a.nu /\ d1 = a.de /\ d1 # 0
  BY DEF TameRatio
<1>2. PICK n2 \in Threes, d2 \in Threes : n2 = b.nu /\ d2 = b.de /\ d2 # 0
  BY DEF TameRatio
<1>3. GreatestCommon(WordGcd(d1, d2), d1, d2)
  BY <1>1, <1>2, WordsArePartners DEF TameRatio
<1>4. PICK k \in Threes, m \in Threes, L \in 1..9 :
        L = WordLcm(d1, d2) /\ L = d1 * m /\ L = d2 * k
  BY <1>1, <1>2, <1>3, TameMultiple
<1>5. d1 \in Int /\ d2 \in Int /\ n1 \in Int /\ n2 \in Int /\ k \in Int /\ m \in Int
  BY DEF Threes
<1>6. CDiv(L, d1) = m /\ CDiv(L, d2) = k
  BY <1>1, <1>2, <1>4, <1>5, ExactDivision
<1>7. PICK c1 \in Nines, c2 \in Nines : c1 = n1 * m /\ c2 = n2 * k
  BY ThreeByThree
<1>8. Wrap(c1) = c1 /\ Wrap(c2) = c2
  BY RoomInWord DEF Nines
<1>9. c.nu1 = c1 /\ c.nu2 = c2 /\ c.de = L
  BY <1>1, <1>2, <1>4, <1>6, <1>7, <1>8 DEF OverCommon
<1>10. (n1 * m) * d1 = n1 * (d1 * m) /\ (n2 * k) * d2 = n2 * (d2 * k)
  BY <1>5
<1> QED
  BY <1>1, <1>2, <1>4, <1>7, <1>9, <1>10

LEMMA SimplifyExact ==
  ASSUME NEW nu \in (-31)..31, NEW de \in (-31)..31, NEW s, s = SimplifyRatio(nu, de)
  PROVE  /\ Exact(s) /\ Num(s) * de = nu * Den(s) /\ Num(s) \in Int /\ Den(s) \in Int
         /\ de > 0 => Num(s) = nu /\ Den(s) = de
<1>1. nu \in Int /\ de \in Int /\ -nu \in (-31)..31
  OBVIOUS
<1>2. CASE de = 1
  <2>1. s = Fix(nu)
    BY <1>2 DEF SimplifyRatio
  <2> QED
    BY <1>1, <1>2, <2>1, FixIsFix
<1>3. CASE de = -1
  <2>1. Wrap(-nu) = -nu
    BY <1>1, RoomInWord
  <2>2. s = Fix(-nu)
    BY <1>3, <2>1 DEF SimplifyRatio
  <2>3. (-nu) * (-1) = nu * 1
    OBVIOUS
  <2> QED
    BY <1>1, <1>3, <2>2, <2>3, FixIsFix
<1>4. CASE de \notin {1, -1}
  <2>1. s = Ratio(nu, de)
    BY <1>1, <1>4 DEF SimplifyRatio
  <2> QED
    BY <1>1, <2>1, RatioIsRatio
<1> QED
  BY <1>2, <1>3, <1>4

-----------------------------------------------------------------------------
(* The arguments of an operation of which one is a ratio.                  *)
RatioPair(v, w) ==
  Number(v) /\ Number(w) /\ ~Mismatched(v, w) /\ (Rational(v) \/ Rational(w)) /\ Tame(v) /\ Tame(w)

LEMMA TamePair ==
  ASSUME NEW v, NEW w, RatioPair(v, w), NEW a, NEW b, a = Up(v, w), b = Up(w, v)
  PROVE  /\ TameRatio(a) /\ Num(v) = a.nu /\ Den(v) = a.de
         /\ TameRatio(b) /\ Num(w) = b.nu /\ Den(w) = b.de
<1>1. /\ Rational(a) /\ Num(a) = Num(v) /\ Den(a) = Den(v)
      /\ Rational(b) /\ Num(b) = Num(w) /\ Den(b) = Den(w)
  BY UpRational DEF RatioPair
<1>2. ASSUME NEW r, Rational(r), Abs(Num(r)) <= 3, Abs(Den(r)) <= 3
      PROVE  TameRatio(r) /\ Num(r) = r.nu /\ Den(r) = r.de
  <2>1. r.nu \in Int /\ r.de \in Int /\ Num(r) = r.nu /\ Den(r) = r.de /\ r.de \notin {0, -1}
    BY <1>2, RationalFields
  <2>2. r.nu \in Threes /\ r.de \in Threes
    BY <1>2, <2>1 DEF Abs, Threes
  <2> QED
    BY <1>2, <2>1, <2>2 DEF TameRatio
<1> QED
  BY <1>1, <1>2 DEF RatioPair, Tame

(* Sums over a common denominator, as sums of the ratios.                  *)
OneDenominator(n1, d1, n2, d2, L, c1, c2) ==
  /\ \A k \in {n1, d1, n2, d2, L, c1, c2} : k \in Int
  /\ c1 * d1 = n1 * L /\ c2 * d2 = n2 * L

LEMMA SumsOverCommon ==
  ASSUME NEW n1, NEW d1, NEW n2, NEW d2, NEW L, NEW c1, NEW c2,
         OneDenominator(n1, d1, n2, d2, L, c1, c2)
  PROVE  /\ ((c1 + c2) * d1) * d2 = (n1 * d2 + n2 * d1) * L
         /\ ((c1 - c2) * d1) * d2 = (n1 * d2 - n2 * d1) * L
<1>0. /\ n1 \in Int /\ d1 \in Int /\ n2 \in Int /\ d2 \in Int /\ L \in Int
      /\ c1 \in Int /\ c2 \in Int /\ c1 * d1 = n1 * L /\ c2 * d2 = n2 * L
  BY DEF OneDenominator
<1>1. PICK p \in Int, q \in Int : p = (c1 * d1) * d2 /\ q = (c2 * d2) * d1
  BY <1>0
<1>2. PICK u \in Int, w \in Int : u = (n1 * d2) * L /\ w = (n2 * d1) * L
  BY <1>0
<1>3. p = u
  <2>1. (n1 * L) * d2 = (n1 * d2) * L
    BY <1>0, ThreeFactors
  <2> QED
    BY <1>0, <1>1, <1>2, <2>1
<1>4. q = w
  <2>1. (n2 * L) * d1 = (n2 * d1) * L
    BY <1>0, ThreeFactors
  <2> QED
    BY <1>0, <1>1, <1>2, <2>1
<1>5. ((c1 + c2) * d1) * d2 = p + q /\ ((c1 - c2) * d1) * d2 = p - q
  <2>1. /\ ((c1 + c2) * d1) * d2 = (c1 * d1) * d2 + (c2 * d2) * d1
        /\ ((c1 - c2) * d1) * d2 = (c1 * d1) * d2 - (c2 * d2) * d1
    BY <1>0
  <2> QED
    BY <1>1, <2>1
<1>6. (n1 * d2 + n2 * d1) * L = u + w /\ (n1 * d2 - n2 * d1) * L = u - w
  <2>1. /\ (n1 * d2 + n2 * d1) * L = (n1 * d2) * L + (n2 * d1) * L
        /\ (n1 * d2 - n2 * d1) * L = (n1 * d2) * L - (n2 * d1) * L
    BY <1>0
  <2> QED
    BY <1>2, <2>1
<1> QED
  BY <1>3, <1>4, <1>5, <1>6

LEMMA SumOfRatios ==
  ASSUME NEW v, NEW w, RatioPair(v, w)
  PROVE  /\ LET s == NumAdd(v, w)
            IN  Exact(s) /\ Num(s) * Den(v) * Den(w) = (Num(v) * Den(w) + Num(w) * Den(v)) * Den(s)
         /\ LET s == NumSubtract(v, w, FALSE)
            IN  Exact(s) /\ Num(s) * Den(v) * Den(w) = (Num(v) * Den(w) - Num(w) * Den(v)) * Den(s)
<1>1. PICK a, b : a = Up(v, w) /\ b = Up(w, v)
  OBVIOUS
<1>2. PICK c : c = OverCommon(a, b)
  OBVIOUS
<1>3. PICK n1 \in Threes, d1 \in Threes, n2 \in Threes, d2 \in Threes :
        /\ n1 = a.nu /\ d1 = a.de /\ n2 = b.nu /\ d2 = b.de
        /\ Num(v) = n1 /\ Den(v) = d1 /\ Num(w) = n2 /\ Den(w) = d2
  BY <1>1, TamePair DEF TameRatio
<1>4. PICK c1 \in Nines, c2 \in Nines, L \in 1..9 :
        /\ c1 = c.nu1 /\ c2 = c.nu2 /\ L = c.de
        /\ c1 * d1 = n1 * L /\ c2 * d2 = n2 * L
  BY <1>1, <1>2, <1>3, TamePair, TameCommon
<1>5. /\ c1 + c2 \in (-31)..31 /\ c1 - c2 \in (-31)..31 /\ L \in (-31)..31 /\ L > 0
      /\ c1 \in Int /\ c2 \in Int /\ L \in Int
      /\ n1 \in Int /\ n2 \in Int /\ d1 \in Int /\ d2 \in Int
  BY DEF Nines, Threes
<1>6. Wrap(c1 + c2) = c1 + c2 /\ Wrap(c1 - c2) = c1 - c2
  BY <1>5, RoomInWord
<1>7. PICK s : s = NumAdd(v, w)
  OBVIOUS
<1>0. PICK same \in BOOLEAN : same = FALSE
  OBVIOUS
<1>8. PICK t : t = NumSubtract(v, w, same) /\ t = NumSubtract(v, w, FALSE)
  BY <1>0
<1>9. s = SimplifyRatio(c1 + c2, L) /\ t = SimplifyRatio(c1 - c2, L)
  <2>1. /\ s = SimplifyRatio(Wrap(c.nu1 + c.nu2), c.de)
        /\ t = SimplifyRatio(Wrap(c.nu1 - c.nu2), c.de)
    <3>1. Number(v) /\ Number(w) /\ ~Mismatched(v, w) /\ (Rational(v) \/ Rational(w))
      BY DEF RatioPair
    <3>2. /\ NumAdd(v, w) = SimplifyRatio(Wrap(c.nu1 + c.nu2), c.de)
          /\ NumSubtract(v, w, same) = SimplifyRatio(Wrap(c.nu1 - c.nu2), c.de)
      BY <1>1, <1>2, <3>1, RatioResults
    <3> QED
      BY <1>7, <1>8, <3>2
  <2> QED
    BY <1>4, <1>6, <2>1
<1>10. Exact(s) /\ Num(s) = c1 + c2 /\ Den(s) = L
  BY <1>5, <1>9, SimplifyExact
<1>11. Exact(t) /\ Num(t) = c1 - c2 /\ Den(t) = L
  BY <1>5, <1>9, SimplifyExact
<1>12. /\ ((c1 + c2) * d1) * d2 = (n1 * d2 + n2 * d1) * L
       /\ ((c1 - c2) * d1) * d2 = (n1 * d2 - n2 * d1) * L
  <2>1. OneDenominator(n1, d1, n2, d2, L, c1, c2)
    BY <1>4, <1>5 DEF OneDenominator
  <2> QED
    BY <2>1, SumsOverCommon
<1>13. Num(s) * Den(v) * Den(w) = (Num(v) * Den(w) + Num(w) * Den(v)) * Den(s)
  BY <1>3, <1>10, <1>12
<1>14. Num(t) * Den(v) * Den(w) = (Num(v) * Den(w) - Num(w) * Den(v)) * Den(t)
  BY <1>3, <1>11, <1>12
<1> QED
  BY <1>7, <1>8, <1>10, <1>11, <1>13, <1>14

LEMMA ProductOfRatios ==
  ASSUME NEW v, NEW w, RatioPair(v, w)
  PROVE  /\ LET s == NumMultiply(v, w)
            IN  Exact(s) /\ Num(s) * Den(v) * Den(w) = Num(v) * Num(w) * Den(s)
         /\ LET s == NumDivide(v, w)
            IN  Exact(s) /\ Num(s) * Num(w) * Den(v) = Num(v) * Den(w) * Den(s)
<1>1. PICK a, b : a = Up(v, w) /\ b = Up(w, v)
  OBVIOUS
<1>2. PICK c : c = OverCommon(a, b)
  OBVIOUS
<1>3. PICK n1 \in Threes, d1 \in Threes, n2 \in Threes, d2 \in Threes :
        /\ n1 = a.nu /\ d1 = a.de /\ n2 = b.nu /\ d2 = b.de
        /\ Num(v) = n1 /\ Den(v) = d1 /\ Num(w) = n2 /\ Den(w) = d2
  BY <1>1, TamePair DEF TameRatio
<1>4. PICK nn \in Nines, dd \in Nines, nd \in Nines, dn \in Nines :
        nn = n1 * n2 /\ dd = d1 * d2 /\ nd = n1 * d2 /\ dn = d1 * n2
  BY ThreeByThree
<1>5. /\ nn \in (-31)..31 /\ dd \in (-31)..31 /\ nd \in (-31)..31 /\ dn \in (-31)..31
      /\ n1 \in Int /\ n2 \in Int /\ d1 \in Int /\ d2 \in Int
  BY DEF Nines, Threes
<1>6. Wrap(nn) = nn /\ Wrap(dd) = dd /\ Wrap(nd) = nd /\ Wrap(dn) = dn
  BY <1>5, RoomInWord
<1>7. PICK s : s = NumMultiply(v, w)
  OBVIOUS
<1>8. PICK t : t = NumDivide(v, w)
  OBVIOUS
<1>9. s = SimplifyRatio(nn, dd) /\ t = SimplifyRatio(nd, dn)
  BY <1>1, <1>2, <1>3, <1>4, <1>6, <1>7, <1>8, RatioResults DEF RatioPair
<1>10. PICK ns \in Int, ds \in Int : Exact(s) /\ ns = Num(s) /\ ds = Den(s) /\ ns * dd = nn * ds
  <2>1. Exact(s) /\ Num(s) * dd = nn * Den(s) /\ Num(s) \in Int /\ Den(s) \in Int
    BY <1>5, <1>9, SimplifyExact
  <2> QED
    BY <2>1, Zenon
<1>11. PICK nt \in Int, dt \in Int : Exact(t) /\ nt = Num(t) /\ dt = Den(t) /\ nt * dn = nd * dt
  <2>1. Exact(t) /\ Num(t) * dn = nd * Den(t) /\ Num(t) \in Int /\ Den(t) \in Int
    BY <1>5, <1>9, SimplifyExact
  <2> QED
    BY <2>1, Zenon
<1>12. (ns * d1) * d2 = ns * (d1 * d2) /\ (nt * n2) * d1 = nt * (d1 * n2)
  BY <1>5
<1>13. Num(s) * Den(v) * Den(w) = Num(v) * Num(w) * Den(s)
  BY <1>3, <1>4, <1>10, <1>12
<1>14. Num(t) * Num(w) * Den(v) = Num(v) * Den(w) * Den(t)
  BY <1>3, <1>4, <1>11, <1>12
<1> QED
  BY <1>7, <1>8, <1>10, <1>11, <1>13, <1>14

-----------------------------------------------------------------------------
(* Order over a common denominator.                                        *)
LEMMA SignsAgree ==
  ASSUME NEW A \in Int, NEW P \in Int, P > 0, NEW B \in Int, NEW Q \in Int, Q > 0, A * P = B * Q
  PROVE  (A < 0 <=> B < 0) /\ (A = 0 <=> B = 0)
<1>1. A < 0 => A * P < 0
  OBVIOUS
<1>2. A > 0 => A * P > 0
  OBVIOUS
<1>3. A = 0 => A * P = 0
  OBVIOUS
<1>4. B < 0 => B * Q < 0
  OBVIOUS
<1>5. B > 0 => B * Q > 0
  OBVIOUS
<1>6. B = 0 => B * Q = 0
  OBVIOUS
<1>7. PICK z \in Int : z = A * P /\ z = B * Q
  OBVIOUS
<1> QED
  BY <1>1, <1>2, <1>3, <1>4, <1>5, <1>6, <1>7

ComparablePair(v, w) ==
  RatioPair(v, w) /\ Den(v) > 0 /\ Den(w) > 0 /\ (Num(v) = Num(w) => Num(v) >= 0)

LEMMA OrderOfRatios ==
  ASSUME NEW v, NEW w, ComparablePair(v, w)
  PROVE  /\ Num(v) * Den(w) \in Int /\ Num(w) * Den(v) \in Int
         /\ NumLessP(v, w) <=> Num(v) * Den(w) < Num(w) * Den(v)
         /\ NumBiggerP(v, w) <=> Num(v) * Den(w) > Num(w) * Den(v)
         /\ NumEqualP(v, w) <=> Num(v) * Den(w) = Num(w) * Den(v)
<1>0. RatioPair(v, w)
  BY DEF ComparablePair
<1>1. PICK a, b : a = Up(v, w) /\ b = Up(w, v)
  OBVIOUS
<1>2. PICK c : c = OverCommon(a, b)
  OBVIOUS
<1>3. PICK n1 \in Threes, d1 \in Threes, n2 \in Threes, d2 \in Threes :
        /\ n1 = a.nu /\ d1 = a.de /\ n2 = b.nu /\ d2 = b.de
        /\ Num(v) = n1 /\ Den(v) = d1 /\ Num(w) = n2 /\ Den(w) = d2
        /\ TameRatio(a) /\ TameRatio(b)
  BY <1>0, <1>1, TamePair DEF TameRatio
<1>4. PICK c1 \in Nines, c2 \in Nines, L \in 1..9 :
        /\ c1 = c.nu1 /\ c2 = c.nu2 /\ L = c.de
        /\ c1 * d1 = n1 * L /\ c2 * d2 = n2 * L
  BY <1>2, <1>3, TameCommon
<1>5. /\ c1 \in Int /\ c2 \in Int /\ L \in Int /\ L > 0
      /\ n1 \in Int /\ n2 \in Int /\ d1 \in Int /\ d2 \in Int
      /\ d1 > 0 /\ d2 > 0 /\ (n1 = n2 => n1 >= 0)
  BY <1>3 DEF Nines, Threes, ComparablePair
<1>6. PICK p \in Int, q \in Int : p = n1 * d2 /\ q = n2 * d1
  BY <1>5
<1>7. (c1 < c2 <=> p < q) /\ (c1 = c2 <=> p = q)
  <2>1. PICK A \in Int, P \in Int, B \in Int : A = c1 - c2 /\ P = d1 * d2 /\ B = p - q
    BY <1>5
  <2>2. P > 0
    BY <1>5, <2>1
  <2>3. ((c1 - c2) * d1) * d2 = (n1 * d2 - n2 * d1) * L
    <3>1. OneDenominator(n1, d1, n2, d2, L, c1, c2)
      BY <1>4, <1>5 DEF OneDenominator
    <3> QED
      BY <3>1, SumsOverCommon
  <2>4. (A * d1) * d2 = A * (d1 * d2)
    BY <1>5
  <2>5. A * P = B * L
    BY <1>6, <2>1, <2>3, <2>4
  <2>6. (A < 0 <=> B < 0) /\ (A = 0 <=> B = 0)
    BY <1>5, <2>2, <2>5, SignsAgree
  <2> QED
    BY <1>5, <2>1, <2>6
<1>8. d1 = d2 => (p < q <=> n1 < n2) /\ (p = q <=> n1 = n2)
  <2>1. PICK A \in Int, B \in Int : A = n1 - n2 /\ B = p - q
    BY <1>5
  <2>2. ASSUME d1 = d2
        PROVE  A * d1 = B * 1
    <3>1. (n1 - n2) * d1 = n1 * d1 - n2 * d1
      BY <1>5
    <3>2. A * d1 = p - q
      BY <1>6, <2>1, <2>2, <3>1
    <3> QED
      BY <2>1, <3>2
  <2>3. d1 = d2 => (A < 0 <=> B < 0) /\ (A = 0 <=> B = 0)
    BY <1>5, <2>2, SignsAgree
  <2> QED
    BY <1>5, <2>1, <2>3
<1>9. n1 = n2 => /\ d1 <= d2 => p >= q
                 /\ d1 >= d2 => p <= q
  <2>1. ASSUME n1 = n2, d1 <= d2
        PROVE  p >= q
    <3>1. PICK e \in Nat, n \in Nat : d2 = d1 + e /\ n = n1
      <4>1. d2 - d1 \in Nat /\ n1 \in Nat /\ d2 = d1 + (d2 - d1)
        BY <1>5, <2>1
      <4> QED
        BY <4>1
    <3>2. n * (d1 + e) = n * d1 + n * e /\ n * e \in Nat
      BY <1>5
    <3>3. n * d1 \in Int
      BY <1>5
    <3> QED
      BY <1>6, <2>1, <3>1, <3>2, <3>3
  <2>2. ASSUME n1 = n2, d1 >= d2
        PROVE  p <= q
    <3>1. PICK e \in Nat, n \in Nat : d1 = d2 + e /\ n = n1
      <4>1. d1 - d2 \in Nat /\ n1 \in Nat /\ d1 = d2 + (d1 - d2)
        BY <1>5, <2>2
      <4> QED
        BY <4>1
    <3>2. n * (d2 + e) = n * d2 + n * e /\ n * e \in Nat
      BY <1>5
    <3>3. n * d2 \in Int
      BY <1>5
    <3> QED
      BY <1>6, <2>2, <3>1, <3>2, <3>3
  <2> QED
    BY <2>1, <2>2
<1>10. IsRatio(a) /\ ~IsFix(a) /\ ~IsBig(a)
  BY <1>3, RationalFields DEF TameRatio
<1>11. NumSyncType(v, w) = <<a, b>>
  BY <1>1 DEF NumSyncType
<1>12. NumLessP(v, w) <=> ~(d1 = d2 /\ n1 >= n2) /\ ~(n1 = n2 /\ d1 <= d2) /\ c1 < c2
  BY <1>2, <1>3, <1>4, <1>10, <1>11 DEF NumLessP
<1>13. NumBiggerP(v, w) <=> ~(d1 = d2 /\ n1 <= n2) /\ ~(n1 = n2 /\ d1 >= d2) /\ c1 > c2
  BY <1>2, <1>3, <1>4, <1>10, <1>11 DEF NumBiggerP
<1>14. NumEqualP(v, w) <=> IF d1 = d2 THEN n1 = n2 ELSE c1 = c2
  BY <1>2, <1>3, <1>4, <1>10, <1>11 DEF NumEqualP
<1>15. NumLessP(v, w) <=> p < q
  BY <1>5, <1>7, <1>8, <1>9, <1>12
<1>16. NumBiggerP(v, w) <=> p > q
  BY <1>5, <1>7, <1>8, <1>9, <1>13
<1>17. NumEqualP(v, w) <=> p = q
  BY <1>5, <1>7, <1>8, <1>14
<1> QED
  BY <1>3, <1>6, <1>15, <1>16, <1>17

(* numdivide: an exact quotient of integers, a ratio or an integer, times  *)
(* the divisor is the dividend.                                            *)
LEMMA QuotientOfIntegers == Registers => DivisionIsExact
<1> SUFFICES ASSUME Registers, ~IsNumZero(y)
             PROVE  LET s == NumDivide(x, y)
                    IN  Exact(s) => Num(s) * Num(y) * Den(x) = Num(x) * Den(y) * Den(s)
  BY DEF DivisionIsExact
<1>1. Integer(x) /\ Integer(y)
  BY DEF Registers
<1>2. PICK p \in Int, q \in Int : p = Num(x) /\ q = Num(y) /\ q # 0 /\ Den(x) = 1 /\ Den(y) = 1
  BY <1>1, IntegerForms DEF IsNumZero
<1>3. PICK s : s = NumDivide(x, y)
  OBVIOUS
<1>4. ASSUME Exact(s)
      PROVE  Num(s) * Num(y) * Den(x) = Num(x) * Den(y) * Den(s)
  <2>1. Number(s) /\ Num(s) * q = p * Den(s)
    BY <1>1, <1>2, <1>3, <1>4, NumDivideIs
  <2>3. PICK n \in Int, d \in Int : n = Num(s) /\ d = Den(s)
    BY <2>1, NumberForms
  <2>4. PICK z \in Int : z = n * q /\ z = p * d
    BY <2>1, <2>3
  <2>5. z * 1 = z /\ p * 1 = p
    OBVIOUS
  <2> QED
    BY <1>2, <2>3, <2>4, <2>5
<1> QED
  BY <1>3, <1>4

LEMMA OrderIsRightOf ==
  ASSUME ComparablePair(x, y)
  PROVE  OrderIsRight
<1>1. ComparablePair(y, x)
  BY DEF ComparablePair, RatioPair, Mismatched
<1>2. PICK p \in Int, q \in Int : p = Num(x) * Den(y) /\ q = Num(y) * Den(x)
  BY OrderOfRatios
<1>3. /\ NumLessP(x, y) <=> p < q
      /\ NumBiggerP(x, y) <=> p > q
      /\ NumEqualP(x, y) <=> p = q
  BY <1>2, OrderOfRatios
<1>4. NumLessP(y, x) <=> q < p
  BY <1>1, <1>2, OrderOfRatios
<1>5. NumBiggerP(y, x) <=> q > p
  BY <1>1, <1>2, OrderOfRatios
<1>6. PICK a, b : /\ a = Up(x, y) /\ b = Up(y, x)
                  /\ Num(a) = Num(x) /\ Den(a) = Den(x) /\ Num(b) = Num(y) /\ Den(b) = Den(y)
  BY UpRational DEF ComparablePair, RatioPair
<1>7. NumMax(x, y) = IF q > p THEN b ELSE a
  BY <1>5, <1>6 DEF NumMax, NumSyncType
<1>8. NumMin(x, y) = IF q < p THEN b ELSE a
  BY <1>4, <1>6 DEF NumMin, NumSyncType
<1>9. Num(NumMax(x, y)) * Den(NumMin(x, y)) >= Num(NumMin(x, y)) * Den(NumMax(x, y))
  <2>1. CASE q > p
    BY <1>2, <1>6, <1>7, <1>8, <2>1
  <2>2. CASE q < p
    BY <1>2, <1>6, <1>7, <1>8, <2>2
  <2>3. CASE q = p
    <3>1. NumMax(x, y) = a /\ NumMin(x, y) = a
      BY <1>7, <1>8, <2>3
    <3>2. Num(x) * Den(x) \in Int
      BY NumberForms DEF ComparablePair, RatioPair
    <3> QED
      BY <1>6, <3>1, <3>2
  <2> QED
    BY <2>1, <2>2, <2>3
<1> QED
  BY <1>2, <1>3, <1>9 DEF OrderIsRight, SameNumber

LEMMA NumbersAreExact == NumbersInv => ArithmeticIsExact
<1> SUFFICES ASSUME NumbersInv
             PROVE  ArithmeticIsExact
  OBVIOUS
<1>1. Number(x) /\ Number(y)
  BY DEF NumbersInv
<1>2. CASE Integer(x) /\ Integer(y)
  <2>1. Registers
    BY <1>2 DEF Registers
  <2> QED
    BY <2>1, SumOfIntegers, DifferenceOfIntegers, ProductOfIntegers, QuotientOfIntegers,
       OrderOfIntegers DEF ArithmeticIsExact
<1>3. CASE ~(Integer(x) /\ Integer(y)) /\ ~Tame2
  BY <1>3 DEF ArithmeticIsExact, SumIsExact, DifferenceIsExact, ProductIsExact, DivisionIsExact,
              OrderIsRight, Comparable
<1>4. CASE ~(Integer(x) /\ Integer(y)) /\ Tame2
  <2>1. Rational(x) \/ Rational(y)
    BY <1>1, <1>4 DEF Number
  <2>2. IsRatio(x) \/ IsRatio(y)
    BY <2>1, RationalFields
  <2>3. RatioPair(x, y)
    BY <1>1, <1>4, <2>1, <2>2 DEF RatioPair, Tame2
  <2>4. SumIsExact
    BY <2>3, SumOfRatios DEF SumIsExact
  <2>5. DifferenceIsExact
    BY <2>3, SumOfRatios DEF DifferenceIsExact
  <2>6. ProductIsExact
    BY <2>3, ProductOfRatios DEF ProductIsExact
  <2>7. DivisionIsExact
    BY <2>3, ProductOfRatios DEF DivisionIsExact
  <2>8. OrderIsRight
    <3>1. CASE Comparable
      <4>1. ComparablePair(x, y)
        BY <2>2, <2>3, <3>1 DEF ComparablePair, Comparable
      <4> QED
        BY <4>1, OrderIsRightOf
    <3>2. CASE ~Comparable
      BY <3>2 DEF OrderIsRight
    <3> QED
      BY <3>1, <3>2
  <2> QED
    BY <2>4, <2>5, <2>6, <2>7, <2>8 DEF ArithmeticIsExact
<1> QED
  BY <1>2, <1>3, <1>4

(* Addition, subtraction, multiplication, division and comparison answer   *)
(* the rational number they should, in every state (numadd, numsubtract,   *)
(* nummultiply, numdivide, numlessp): integers of any length, and ratios   *)
(* whose sums and products stay in a word.                                 *)
THEOREM ArithmeticKeepsExact == Spec => []ArithmeticIsExact
BY NumbersKeep, NumbersAreExact, PTL

-----------------------------------------------------------------------------
(* Rounding of small ratios: numfloor, numceiling, numtruncate, numround on *)
(* a ratio nu/de that is n/d with a positive d.                            *)
FloorAndCeiling(nu, de, f, c, t) ==
  LET n == IF de < 0 THEN -nu ELSE nu
      d == Abs(de)
  IN  /\ f \in (-4)..4 /\ c \in (-4)..4 /\ t \in (-4)..4
      /\ f * d <= n /\ n < (f + 1) * d
      /\ (c - 1) * d < n /\ n <= c * d
      /\ t = IF n < 0 THEN c ELSE f

Nearest(nu, de, r) ==
  LET n == IF de < 0 THEN -nu ELSE nu
      d == Abs(de)
  IN  /\ r \in (-4)..4
      /\ 2 * Abs(r * d - n) <= d
      /\ 2 * Abs(r * d - n) = d => r % 2 = 0

Rounds(nu, de, f, c, t, r) == FloorAndCeiling(nu, de, f, c, t) /\ Nearest(nu, de, r)

LEMMA SmallRounds ==
  ASSUME NEW nu \in Threes, NEW de \in Threes, de \notin {0, -1}
  PROVE  Rounds(nu, de, FloorOf(nu, de), -FloorOf(-nu, de), CDiv(nu, de), ExactRound(nu, de))
<1>1. nu \in {-3, -2, -1, 0, 1, 2, 3} /\ de \in {-3, -2, 1, 2, 3}
  BY DEF Threes
<1>2. PICK f, g, t, r : /\ f = FloorOf(nu, de) /\ g = FloorOf(-nu, de)
                        /\ t = CDiv(nu, de) /\ r = ExactRound(nu, de)
  OBVIOUS
<1>3. FloorAndCeiling(nu, de, f, -g, t)
  <2>1. CASE de = -3
    BY <1>1, <1>2, <2>1 DEF FloorOf, CDiv, CMod, Abs, FloorAndCeiling
  <2>2. CASE de = -2
    BY <1>1, <1>2, <2>2 DEF FloorOf, CDiv, CMod, Abs, FloorAndCeiling
  <2>3. CASE de = 1
    BY <1>1, <1>2, <2>3 DEF FloorOf, CDiv, CMod, Abs, FloorAndCeiling
  <2>4. CASE de = 2
    BY <1>1, <1>2, <2>4 DEF FloorOf, CDiv, CMod, Abs, FloorAndCeiling
  <2>5. CASE de = 3
    BY <1>1, <1>2, <2>5 DEF FloorOf, CDiv, CMod, Abs, FloorAndCeiling
  <2> QED
    BY <1>1, <2>1, <2>2, <2>3, <2>4, <2>5
<1>4. Nearest(nu, de, r)
  <2>1. CASE de = -3
    BY <1>1, <1>2, <2>1 DEF CDiv, CMod, Abs, Nearest, ExactRound
  <2>2. CASE de = -2
    BY <1>1, <1>2, <2>2 DEF CDiv, CMod, Abs, Nearest, ExactRound
  <2>3. CASE de = 1
    BY <1>1, <1>2, <2>3 DEF CDiv, CMod, Abs, Nearest, ExactRound
  <2>4. CASE de = 2
    BY <1>1, <1>2, <2>4 DEF CDiv, CMod, Abs, Nearest, ExactRound
  <2>5. CASE de = 3
    BY <1>1, <1>2, <2>5 DEF CDiv, CMod, Abs, Nearest, ExactRound
  <2> QED
    BY <1>1, <2>1, <2>2, <2>3, <2>4, <2>5
<1> QED
  BY <1>2, <1>3, <1>4 DEF Rounds

LEMMA NumbersAreRounded == NumbersInv => RoundingIsRight
<1> SUFFICES ASSUME NumbersInv, IsRatio(x), Tame(x)
             PROVE  RoundingIsRight
  BY DEF RoundingIsRight
<1>1. Number(x)
  BY DEF NumbersInv
<1>2. Rational(x)
  BY <1>1, IntegerForms DEF Number
<1>3. TameRatio(x)
  BY <1>2, RationalFields DEF TameRatio, Tame, Threes, Num, Den, Abs
<1>4. PICK nu \in Threes, de \in Threes : nu = x.nu /\ de = x.de /\ de \notin {0, -1}
  BY <1>3 DEF TameRatio
<1>5. PICK f, c, t, r : /\ f = FloorOf(nu, de) /\ c = -FloorOf(-nu, de)
                        /\ t = CDiv(nu, de) /\ r = ExactRound(nu, de)
  OBVIOUS
<1>6. Rounds(nu, de, f, c, t, r)
  BY <1>4, <1>5, SmallRounds
<1>7. NumFloor(x) = Fix(f) /\ NumTruncate(x) = Fix(t) /\ NumRound(x) = Fix(r)
  BY <1>3, <1>4, <1>5, RationalFields DEF NumFloor, NumTruncate, NumRound, TameRatio
<1>8. NumCeiling(x) = Fix(c)
  <2>1. Wrap(-nu) = -nu /\ Wrap(c) = c
    <3>1. -nu \in (-31)..31 /\ c \in (-31)..31
      BY <1>4, <1>6 DEF Threes, Rounds, FloorAndCeiling
    <3> QED
      BY <3>1, RoomInWord
  <2> QED
    BY <1>3, <1>4, <1>5, <2>1, RationalFields DEF NumCeiling, TameRatio
<1>9. Fix(f).n = f /\ Fix(c).n = c /\ Fix(t).n = t /\ Fix(r).n = r
  BY DEF Fix
<1> QED
  BY <1>4, <1>6, <1>7, <1>8, <1>9 DEF RoundingIsRight, Rounds, FloorAndCeiling, Nearest

(* Quotient, modulo and remainder divide as they promise, the gcd divides  *)
(* both and its product with the lcm is theirs, and floor, ceiling,        *)
(* truncate and round of a small ratio are the integers next to it, in     *)
(* every state (numquotient, nummodulo, numremainder, numgcd, numlcm,      *)
(* numfloor, numceiling, numtruncate, numround).                           *)
LEMMA DivisionsKeep == Spec => [](IntegerDivision /\ GcdAndLcm /\ RoundingIsRight)
BY NumbersKeep, DivisionsAreRight, NumbersAreRounded, PTL

-----------------------------------------------------------------------------
BigSize == [b \in Bigs |-> Magnitude(b.data)]
BigQuot == [b \in Bigs |-> DivChunk(b).quot]
LastChunks == {b \in Bigs : IsZero(DivChunk(b).quot)}
LowOf(f) ==
  f = [b \in Bigs |-> ChunkDigits(DivChunk(b).rem, IsZero(DivChunk(b).quot))
                        \o (IF IsZero(DivChunk(b).quot) THEN <<>> ELSE f[DivChunk(b).quot])]

LEMMA ChunksDescend == Descends(Bigs, BigSize, LastChunks, BigQuot)
<1>1. ASSUME NEW b \in Bigs
      PROVE  /\ DivChunk(b).quot \in Bigs /\ Magnitude(b.data) \in Nat
             /\ b \notin LastChunks => Magnitude(DivChunk(b).quot.data) < Magnitude(b.data)
  <2>1. PICK e : /\ e = DivChunk(b) /\ e.quot \in Bigs /\ e.rem \in Nat
                 /\ Magnitude(b.data) = Chunk * Magnitude(e.quot.data) + e.rem
    BY DivChunkIs, ChunkFacts DEF Proper
  <2>2. PICK c \in Nat, q \in Nat, m \in Nat, r \in Nat :
          /\ c = Chunk /\ c >= 2 /\ q = Magnitude(e.quot.data) /\ m = Magnitude(b.data)
          /\ r = e.rem /\ m = c * q + r
    <3>1. Magnitude(e.quot.data) \in Nat /\ Magnitude(b.data) \in Nat
      BY <2>1, BigFacts, MagnitudeNat
    <3> QED
      BY <2>1, <3>1, ChunkFacts
  <2>3. ASSUME b \notin LastChunks
        PROVE  q < m
    <3>1. ~IsZero(e.quot)
      BY <2>1, <2>3 DEF LastChunks
    <3>2. q # 0
      BY <2>1, <2>2, <3>1, IsZeroMeans
    <3>3. c * q >= 2 * q
      BY <2>2
    <3> QED
      BY <2>2, <3>2, <3>3
  <2> QED
    BY <2>1, <2>2, <2>3
<1> QED
  BY <1>1 DEF Descends, BigSize, BigQuot

LEMMA LowExists == \E f : LowOf(f)
<1> DEFINE first == [b \in Bigs |-> ChunkDigits(DivChunk(b).rem, TRUE)]
           next == [p \in Bigs \X Seq(Digits) |-> ChunkDigits(DivChunk(p[1]).rem, FALSE) \o p[2]]
<1>1. ASSUME NEW b \in Bigs, NEW last \in BOOLEAN
      PROVE  ChunkDigits(DivChunk(b).rem, last) \in Seq(Digits)
  BY DivChunkIs, ChunkClimbs DEF Climbs
<1>2. first \in [Bigs -> Seq(Digits)]
  BY <1>1
<1>3. next \in [Bigs \X Seq(Digits) -> Seq(Digits)]
  <2>1. ASSUME NEW p \in Bigs \X Seq(Digits)
        PROVE  ChunkDigits(DivChunk(p[1]).rem, FALSE) \o p[2] \in Seq(Digits)
    <3>1. p[1] \in Bigs /\ p[2] \in Seq(Digits)
      OBVIOUS
    <3>2. PICK d \in Seq(Digits) : d = ChunkDigits(DivChunk(p[1]).rem, FALSE)
      BY <1>1, <3>1
    <3> QED
      BY <3>1, <3>2, ConcatProperties
  <2> QED
    BY <2>1
<1>4. \A b \in Bigs, s \in Seq(Digits) : next[<<b, s>>] = ChunkDigits(DivChunk(b).rem, FALSE) \o s
  OBVIOUS
<1>5. \A b \in Bigs : first[b] = ChunkDigits(DivChunk(b).rem, TRUE)
  OBVIOUS
<1> HIDE DEF first, next
<1>6. PICK f : Recurs(f, Bigs, Seq(Digits), LastChunks, BigQuot, first, next)
  BY <1>2, <1>3, ChunksDescend, MeasureRecursion
<1>7. f \in [Bigs -> Seq(Digits)]
  BY <1>6 DEF Recurs
<1>8. ASSUME NEW b \in Bigs
      PROVE  f[b] = ChunkDigits(DivChunk(b).rem, IsZero(DivChunk(b).quot))
                      \o (IF IsZero(DivChunk(b).quot) THEN <<>> ELSE f[DivChunk(b).quot])
  <2>1. f[b] = IF b \in LastChunks THEN first[b] ELSE next[<<b, f[BigQuot[b]]>>]
    BY <1>6 DEF Recurs
  <2>2. BigQuot[b] = DivChunk(b).quot /\ BigQuot[b] \in Bigs
    BY ChunksDescend DEF Descends, BigQuot
  <2>3. CASE IsZero(DivChunk(b).quot)
    <3>1. b \in LastChunks
      BY <2>3 DEF LastChunks
    <3>2. PICK d \in Seq(Digits) : d = ChunkDigits(DivChunk(b).rem, TRUE)
      BY <1>1
    <3>3. f[b] = d
      BY <1>5, <2>1, <3>1, <3>2
    <3>5. d \o <<>> = d
      BY <3>2, ConcatEmptySeq
    <3>4. ChunkDigits(DivChunk(b).rem, IsZero(DivChunk(b).quot)) = d
      BY <2>3, <3>2, ChunkDigitsAre
    <3> QED
      BY <2>3, <3>3, <3>4, <3>5
  <2>4. CASE ~IsZero(DivChunk(b).quot)
    <3>1. b \notin LastChunks
      BY <2>4 DEF LastChunks
    <3>2. f[b] = ChunkDigits(DivChunk(b).rem, FALSE) \o f[DivChunk(b).quot]
      BY <1>4, <1>7, <2>1, <2>2, <3>1
    <3>3. ChunkDigits(DivChunk(b).rem, IsZero(DivChunk(b).quot)) = ChunkDigits(DivChunk(b).rem, FALSE)
      BY <2>4, ChunkDigitsAre
    <3> QED
      BY <2>4, <3>2, <3>3
  <2> QED
    BY <2>3, <2>4
<1> QED
  BY <1>7, <1>8 DEF LowOf

LEMMA LowDigitsAre ==
  ASSUME NEW a, NEW f, f = CHOOSE g : LowOf(g)
  PROVE  LowDigits(a) = f[a]
BY DEF LowOf, LowDigits

LEMMA LowDigitsClimb ==
  ASSUME NEW a \in Bigs
  PROVE  LowDigits(a) # <<>> /\ Climbs(LowDigits(a), Magnitude(a.data), 0)
<1>1. PICK f : f = CHOOSE g : LowOf(g)
  OBVIOUS
<1>2. LowOf(f)
  BY <1>1, LowExists
<1> DEFINE T == {b \in Bigs : f[b] # <<>> /\ Climbs(f[b], Magnitude(b.data), 0)}
<1>3. ASSUME NEW b \in Bigs, \A c \in Bigs : BigSize[c] < BigSize[b] => c \in T
      PROVE  b \in T
  <2>1. PICK e : /\ e = DivChunk(b) /\ e.quot \in Bigs /\ e.rem \in Rems
                 /\ Magnitude(b.data) = Chunk * Magnitude(e.quot.data) + e.rem
    BY DivChunkIs DEF Proper
  <2>2. f[b] = ChunkDigits(e.rem, IsZero(e.quot)) \o (IF IsZero(e.quot) THEN <<>> ELSE f[e.quot])
    BY <1>2, <2>1 DEF LowOf
  <2>3. CASE IsZero(e.quot)
    <3>1. Magnitude(b.data) = e.rem
      <4>1. Magnitude(e.quot.data) = 0
        BY <2>1, <2>3, IsZeroMeans
      <4>2. e.rem \in Nat /\ Chunk * 0 + e.rem = e.rem
        <5>1. PICK c \in Nat, n \in Nat : c = Chunk /\ n = e.rem
          BY <2>1, ChunkFacts
        <5>2. c * 0 + n = n
          OBVIOUS
        <5> QED
          BY <5>1, <5>2
      <4> QED
        BY <2>1, <4>1, <4>2
    <3>2. PICK d : d = ChunkDigits(e.rem, TRUE) /\ d # <<>> /\ Climbs(d, e.rem, 0)
      BY <2>1, ChunkClimbs
    <3>3. d \in Seq(Digits) /\ d \o <<>> = d
      BY <3>2, ConcatEmptySeq DEF Climbs
    <3>4. ChunkDigits(e.rem, IsZero(e.quot)) = d
      BY <2>3, <3>2, ChunkDigitsAre
    <3>5. f[b] = d
      BY <2>2, <2>3, <3>3, <3>4
    <3> QED
      BY <3>1, <3>2, <3>5
  <2>4. CASE ~IsZero(e.quot)
    <3>1. BigSize[e.quot] < BigSize[b]
      <4>1. b \notin LastChunks /\ BigQuot[b] = e.quot
        BY <2>1, <2>4 DEF LastChunks, BigQuot
      <4> QED
        BY <4>1, ChunksDescend DEF Descends
    <3>2. f[e.quot] # <<>> /\ Climbs(f[e.quot], Magnitude(e.quot.data), 0)
      BY <1>3, <2>1, <3>1
    <3>3. PICK d, s : /\ d = ChunkDigits(e.rem, FALSE) /\ s = f[e.quot]
                      /\ Len(d) = ChunkLen /\ Climbs(d, e.rem, 0)
      BY <2>1, ChunkClimbs
    <3>4. ChunkDigits(e.rem, IsZero(e.quot)) = d
      <4>1. ChunkDigits(e.rem, IsZero(e.quot)) = ChunkDigits(e.rem, FALSE)
        BY <2>4, ChunkDigitsAre
      <4> QED
        BY <3>3, <4>1
    <3>5. f[b] = d \o s
      BY <2>2, <2>4, <3>3, <3>4
    <3>6. PICK q \in Nat, n \in Nat : q = Magnitude(e.quot.data) /\ n = e.rem
      BY <2>1, ChunkFacts, BigFacts, MagnitudeNat
    <3>7. Climbs(d \o s, Chunk * q + n, 0)
      BY <3>2, <3>3, <3>6, JoinClimbs
    <3>8. d \o s # <<>>
      <4>1. d \in Seq(Digits) /\ s \in Seq(Digits) /\ Len(d) \in Nat /\ Len(d) >= 1 /\ Len(s) \in Nat
        <5>1. d \in Seq(Digits) /\ s \in Seq(Digits)
          BY <3>2, <3>3 DEF Climbs
        <5> QED
          <6>1. Len(d) \in Nat /\ Len(s) \in Nat
            BY <5>1
          <6>2. Len(d) >= 1
            BY <3>3, RadixPowers
          <6> QED
            BY <5>1, <6>1, <6>2
      <4>2. Len(d \o s) = Len(d) + Len(s)
        BY <4>1, ConcatProperties
      <4>3. Len(d \o s) # 0
        BY <4>1, <4>2
      <4> QED
        BY <4>3
    <3> QED
      BY <2>1, <3>5, <3>6, <3>7, <3>8
  <2> QED
    BY <2>3, <2>4
<1>4. BigSize \in [Bigs -> Nat]
  BY ChunksDescend DEF Descends
<1>5. Bigs \subseteq T
  <2> HIDE DEF T
  <2> QED
    BY <1>3, <1>4, MeasureInduction
<1>6. LowDigits(a) = f[a]
  BY <1>1, LowDigitsAre
<1>7. a \in T
  BY <1>5
<1> QED
  BY <1>6, <1>7

(* What is printed of an integer spells its absolute value.                *)
Signs(negative, m) == IF negative THEN -m ELSE m
Written(s, n) ==
  \E m \in Nat, negative \in BOOLEAN :
    s.negative = negative /\ Spells(s.digits, m) /\ n = Signs(negative, m)

LEMMA TextIs == \A n, d : Text(n, d).negative = n /\ Text(n, d).digits = d
BY DEF Text

LEMMA BigIsWritten ==
  ASSUME NEW a, Proper(a)
  PROVE  Written(BigToStr(a), BigVal(a))
<1>1. a \in Bigs /\ a.data \in Seq(Limbs) /\ a.sign \in {1, -1}
  BY BigFacts DEF Proper
<1>3. CASE IsZero(a)
  <2>0. BigToStr(a) = Text(FALSE, <<0>>)
    BY <1>3 DEF BigToStr
  <2>6. PICK t, z : t = BigToStr(a) /\ z = <<0>> /\ t = Text(FALSE, z)
    BY <2>0
  <2>7. PICK no \in BOOLEAN : no = FALSE /\ t = Text(no, z)
    BY <2>6
  <2>1. t.negative = no /\ t.digits = z
    BY <2>7, TextIs, Zenon
  <2>2. 0 \in Digits
    BY RadixFacts DEF Digits
  <2>3. Spells(<<0>>, 0)
    BY <2>2, OneDigit
  <2>4. BigVal(a) = 0
    BY <1>1, <1>3, IsZeroMeans
  <2>5. Signs(no, 0) = 0
    BY <2>7 DEF Signs
  <2>8. Spells(t.digits, 0) /\ 0 \in Nat
    BY <2>1, <2>3, <2>6
  <2>9. Written(t, 0)
    BY <2>1, <2>5, <2>8, Zenon DEF Written
  <2> QED
    BY <2>4, <2>6, <2>9
<1>4. CASE ~IsZero(a)
  <2>1. PICK negative \in BOOLEAN : negative = (a.sign < 0)
    <3>1. (a.sign < 0) \in BOOLEAN
      BY <1>1
    <3> QED
      BY <3>1, Zenon
  <2>2. PICK t : t = BigToStr(a) /\ t = Text(negative, Reverse(LowDigits(a)))
    BY <1>4, <2>1, Zenon DEF BigToStr
  <2>3. t.negative = negative /\ t.digits = Reverse(LowDigits(a))
    BY <2>2, TextIs, Zenon
  <2>4. PICK m \in Nat : m = Magnitude(a.data) /\ m # 0
    BY <1>1, <1>4, MagnitudeNat, IsZeroMeans
  <2>5. Spells(t.digits, m)
    BY <1>1, <2>3, <2>4, LowDigitsClimb, ClimbSpells
  <2>6. negative <=> a.sign < 0
    BY <2>1, Zenon
  <2>7. BigVal(a) = Signs(negative, m)
    <3>1. BigVal(a) = a.sign * m
      BY <2>4 DEF BigVal
    <3> QED
      BY <1>1, <2>6, <3>1 DEF Signs
  <2> QED
    BY <2>2, <2>3, <2>5, <2>7 DEF Written
<1> QED
  BY <1>3, <1>4

LEMMA DigitsOfWord ==
  ASSUME NEW n \in MinInt..MaxInt, n # MinInt
  PROVE  Written(Number2String(Fix(n)), n)
<1>1. n \in Int
  BY WordFacts
<1>2. PICK negative \in BOOLEAN : negative = (n < 0)
  <2>1. (n < 0) \in BOOLEAN
    BY <1>1
  <2> QED
    BY <2>1, Zenon
<1>3. negative <=> n < 0
  BY <1>2, Zenon
<1>4. PICK m \in Nat : m = Abs(n)
  BY <1>1 DEF Abs
<1>5. PICK d : d = DigitsOf(m) /\ Spells(d, m)
  BY DigitsSpell
<1>6. Number2String(Fix(n)) = Text(n < 0, DigitsOf(Abs(n)))
  <2>1. IsFix(Fix(n)) /\ ~IsBig(Fix(n)) /\ ~IsRatio(Fix(n)) /\ Fix(n).n = n
    BY FixIsFix
  <2> QED
    BY <2>1 DEF Number2String
<1>7. PICK t : t = Number2String(Fix(n)) /\ t = Text(negative, d)
  BY <1>2, <1>4, <1>5, <1>6, Zenon
<1>8. t.negative = negative /\ t.digits = d
  BY <1>7, TextIs, Zenon
<1>9. n = Signs(negative, m)
  BY <1>1, <1>3, <1>4 DEF Signs, Abs
<1>10. Written(t, n)
  BY <1>5, <1>8, <1>9, Zenon DEF Written
<1> QED
  BY <1>7, <1>10

LEMMA IntegerIsWritten ==
  ASSUME NEW v, Integer(v), v # Fix(MinInt)
  PROVE  Written(Number2String(v), Num(v))
<1>1. CASE WordOf(v)
  <2>1. PICK n \in MinInt..MaxInt : v = Fix(n) /\ Num(v) = n
    BY <1>1 DEF WordOf
  <2>2. n # MinInt
    BY <2>1
  <2> QED
    BY <2>1, <2>2, DigitsOfWord
<1>2. CASE BigOf(v)
  <2>1. Number2String(v) = BigToStr(v)
    <3>1. IsBig(v) /\ ~IsFix(v) /\ ~IsRatio(v)
      BY <1>2, IntegerForms DEF BigOf
    <3> QED
      BY <3>1 DEF Number2String
  <2> QED
    BY <1>2, <2>1, BigIsWritten DEF BigOf
<1> QED
  BY <1>1, <1>2, IntegerForms

(* An integer has one form.                                                *)
LEMMA OneForm ==
  ASSUME NEW a, NEW b, Integer(a), Integer(b), Canonical(a), Canonical(b), Num(a) = Num(b),
         a # Fix(MinInt), b # Fix(MinInt)
  PROVE  a = b
<1>1. PICK M \in Nat : M = MaxInt /\ MinInt = -M - 1
  BY WordFacts
<1>2. PICK n \in Int : n = Num(a) /\ n = Num(b)
  BY IntegerForms
<1>3. ASSUME NEW v, Integer(v), v # Fix(MinInt), Canonical(v), Num(v) = n
      PROVE  \/ v = Fix(n) /\ n \in (-M)..M
             \/ BigOf(v) /\ n \notin (-M)..M
  <2>1. CASE WordOf(v)
    <3>1. v = Fix(n) /\ n \in MinInt..MaxInt
      BY <1>3, <2>1 DEF WordOf
    <3>2. n # MinInt
      BY <1>3, <3>1
    <3> QED
      BY <1>1, <3>1, <3>2
  <2>2. CASE BigOf(v)
    BY <1>1, <1>3, <2>2 DEF BigOf, Canonical
  <2> QED
    BY <1>3, <2>1, <2>2, IntegerForms
<1>4. CASE n \in (-M)..M
  BY <1>2, <1>3, <1>4
<1>5. CASE n \notin (-M)..M
  <2>1. BigOf(a) /\ BigOf(b)
    BY <1>2, <1>3, <1>5
  <2>2. Proper(a) /\ Proper(b) /\ BigVal(a) = n /\ BigVal(b) = n
    BY <1>2, <2>1 DEF BigOf
  <2>3. /\ a \in Bigs /\ b \in Bigs /\ a.sign \in {1, -1} /\ b.sign \in {1, -1}
        /\ a.data \in Seq(Limbs) /\ b.data \in Seq(Limbs) /\ Trimmed(a) /\ Trimmed(b)
    BY <2>2, BigFacts, ProperIsTrimmed DEF Proper
  <2>4. PICK p \in Nat, q \in Nat : /\ p = Magnitude(a.data) /\ q = Magnitude(b.data)
                                    /\ n = a.sign * p /\ n = b.sign * q
    BY <2>2, <2>3, MagnitudeNat DEF BigVal
  <2>5. n # 0
    BY <1>5
  <2>6. a.sign = b.sign /\ p = q
    BY <2>3, <2>4, <2>5
  <2>7. a.data = b.data
    <3>1. \/ Magnitude(a.data) > Magnitude(b.data)
          \/ a.data = b.data
          \/ Magnitude(a.data) < Magnitude(b.data)
      BY <2>3, CmpAbsMeans
    <3>2. ~(p > q) /\ ~(p < q)
      BY <2>6
    <3> QED
      BY <2>4, <3>1, <3>2
  <2>8. a = [sign |-> a.sign, data |-> a.data] /\ b = [sign |-> b.sign, data |-> b.data]
    BY <2>3 DEF Bigs
  <2> QED
    BY <2>6, <2>7, <2>8
<1> QED
  BY <1>4, <1>5

LEMMA NumbersReadBack == NumbersInv => PrintedReadsBack
<1> SUFFICES ASSUME NumbersInv, IsInteger(x), Canonical(x), x # Fix(MinInt)
             PROVE  String2Number(Number2String(x)) = x
  BY DEF PrintedReadsBack
<1>1. Integer(x)
  BY IntegersAreIntegers DEF NumbersInv
<1>2. PICK s : s = Number2String(x) /\ Written(s, Num(x))
  BY <1>1, IntegerIsWritten
<1>3. PICK m \in Nat, negative \in BOOLEAN :
        s.negative = negative /\ Spells(s.digits, m) /\ Num(x) = Signs(negative, m)
  BY <1>2 DEF Written
<1>4. PICK v : v = ReadUInteger(s.digits, negative)
  OBVIOUS
<1>5. Integer(v) /\ Num(v) = (IF negative THEN -m ELSE m) /\ Canonical(v) /\ v # Fix(MinInt)
  BY <1>3, <1>4, ReadUIntegerIs
<1>6. Num(v) = Num(x)
  BY <1>3, <1>5 DEF Signs
<1>7. v = x
  BY <1>1, <1>5, <1>6, OneForm
<1>8. String2Number(s) = v
  BY <1>3, <1>4 DEF String2Number
<1> QED
  BY <1>2, <1>7, <1>8

-----------------------------------------------------------------------------
(* Exact decimals.                                                         *)

(* The digits as a number, and whether a word would have overflowed.       *)
OverStep(p, d) == <<p[1] \/ p[2] > (MaxInt - d) \div Radix, p[2] * Radix + d>>
Overs(f, digits) ==
  f = [i \in 0..Len(digits) |-> IF i = 0 THEN <<FALSE, 0>> ELSE OverStep(f[i - 1], digits[i])]

(* The multiplications by the radix, and whether they overflowed.          *)
TimesStep(p) == <<p[1] \/ p[2] > MaxInt \div Radix, Wrap(p[2] * Radix)>>
Timed(f, n, k) == f = [i \in 0..k |-> IF i = 0 THEN <<FALSE, n>> ELSE TimesStep(f[i - 1])]
Times(n, k) == (CHOOSE f : Timed(f, n, k))[k]

LEMMA OversExist ==
  ASSUME NEW digits \in Seq(Digits)
  PROVE  \E f : Overs(f, digits)
<1>1. PICK n \in Nat : n = Len(digits)
  OBVIOUS
<1> DEFINE S == BOOLEAN \X Nat
           F == [p \in S \X (1..n) |-> OverStep(p[1], digits[p[2]])]
<1>2. <<FALSE, 0>> \in S
  OBVIOUS
<1>3. StepOn(F, S, n)
  <2>1. ASSUME NEW p \in S \X (1..n)
        PROVE  OverStep(p[1], digits[p[2]]) \in S
    <3>1. PICK a, b, i : p = <<<<a, b>>, i>> /\ a \in BOOLEAN /\ b \in Nat /\ i \in 1..n
      OBVIOUS
    <3>2. PICK r \in Nat, d \in Nat, M \in Nat : r = Radix /\ r >= 2 /\ d = digits[i] /\ M = MaxInt
      <4>1. digits[i] \in Digits
        BY <1>1, <3>1
      <4> QED
        BY <4>1, RadixFacts, WordFacts
    <3>3. PICK z \in Int, q \in Nat : z = (M - d) \div r /\ q = b * r + d
      <4>1. (M - d) \div r \in Int
        BY <3>2
      <4>2. b * r + d \in Nat
        BY <3>1, <3>2
      <4> QED
        BY <4>1, <4>2
    <3>4. PICK c \in BOOLEAN : c = (a \/ b > z)
      BY Zenon
    <3>5. p[1][1] = a /\ p[1][2] = b /\ p[2] = i
      BY <3>1
    <3>6. OverStep(p[1], digits[p[2]]) = <<c, q>>
      BY <3>2, <3>3, <3>4, <3>5, Zenon DEF OverStep
    <3> QED
      BY <3>6
  <2> QED
    BY <2>1 DEF StepOn
<1>4. \A p \in S, i \in 1..n : F[<<p, i>>] = OverStep(p, digits[i])
  OBVIOUS
<1> HIDE DEF F, S
<1>5. PICK g : Solution(g, <<FALSE, 0>>, F, S, n)
  BY <1>2, <1>3, Recursion
<1>6. g \in [0..n -> S] /\ g[0] = <<FALSE, 0>> /\ \A i \in 1..n : g[i] = F[<<g[i - 1], i>>]
  BY <1>5 DEF Solution
<1>7. ASSUME NEW i \in 0..n
      PROVE  g[i] = IF i = 0 THEN <<FALSE, 0>> ELSE OverStep(g[i - 1], digits[i])
  <2>1. CASE i = 0
    BY <1>6, <2>1
  <2>2. CASE i # 0
    <3>1. i \in 1..n /\ i - 1 \in 0..n
      BY <2>2
    <3>2. g[i - 1] \in S
      BY <1>6, <3>1
    <3> QED
      BY <1>4, <1>6, <2>2, <3>1, <3>2
  <2> QED
    BY <2>1, <2>2
<1>8. g = [i \in 0..n |-> IF i = 0 THEN <<FALSE, 0>> ELSE OverStep(g[i - 1], digits[i])]
  BY <1>6, <1>7
<1> QED
  BY <1>1, <1>8 DEF Overs

LEMMA TimedExist ==
  ASSUME NEW n \in Int, NEW k \in Nat
  PROVE  \E f : Timed(f, n, k)
<1> DEFINE S == BOOLEAN \X Int
           F == [p \in S \X (1..k) |-> TimesStep(p[1])]
<1>2. <<FALSE, n>> \in S
  OBVIOUS
<1>3. StepOn(F, S, k)
  <2>1. ASSUME NEW p \in S \X (1..k)
        PROVE  TimesStep(p[1]) \in S
    <3>1. PICK a, b : p[1] = <<a, b>> /\ a \in BOOLEAN /\ b \in Int
      OBVIOUS
    <3>2. PICK r \in Nat, M \in Nat, B \in Nat :
            r = Radix /\ r >= 2 /\ M = MaxInt /\ B = Base /\ B >= 4
      BY RadixFacts, WordFacts, BaseFacts
    <3>3. PICK z \in Int, y1 \in Int : z = M \div r /\ y1 = b * r
      BY <3>1, <3>2
    <3>4. PICK w \in Int : w = Wrap(y1)
      BY <3>3, WrapInWord, WordFacts
    <3>5. PICK c \in BOOLEAN : c = (a \/ b > z)
      BY Zenon
    <3>6. p[1][1] = a /\ p[1][2] = b
      BY <3>1
    <3>7. TimesStep(p[1]) = <<c, w>>
      BY <3>2, <3>3, <3>4, <3>5, <3>6, Zenon DEF TimesStep
    <3> QED
      BY <3>7
  <2> QED
    BY <2>1 DEF StepOn
<1>4. \A p \in S, i \in 1..k : F[<<p, i>>] = TimesStep(p)
  OBVIOUS
<1> HIDE DEF F, S
<1>5. PICK g : Solution(g, <<FALSE, n>>, F, S, k)
  BY <1>2, <1>3, Recursion
<1>6. g \in [0..k -> S] /\ g[0] = <<FALSE, n>> /\ \A i \in 1..k : g[i] = F[<<g[i - 1], i>>]
  BY <1>5 DEF Solution
<1>7. ASSUME NEW i \in 0..k
      PROVE  g[i] = IF i = 0 THEN <<FALSE, n>> ELSE TimesStep(g[i - 1])
  <2>1. CASE i = 0
    BY <1>6, <2>1
  <2>2. CASE i # 0
    <3>1. i \in 1..k /\ i - 1 \in 0..k
      BY <2>2
    <3>2. g[i - 1] \in S
      BY <1>6, <3>1
    <3> QED
      BY <1>4, <1>6, <2>2, <3>1, <3>2
  <2> QED
    BY <2>1, <2>2
<1>8. g = [i \in 0..k |-> IF i = 0 THEN <<FALSE, n>> ELSE TimesStep(g[i - 1])]
  BY <1>6, <1>7
<1> QED
  BY <1>8 DEF Timed

OverOf(digits) == CHOOSE f : Overs(f, digits)
Mantissa(digits, frac, expo, negative) ==
  LET nu0 == IF negative THEN -OverOf(digits)[Len(digits)][2] ELSE OverOf(digits)[Len(digits)][2]
      net == expo - frac
      nu == IF net > 0 THEN Times(nu0, net) ELSE <<FALSE, nu0>>
      de == IF net < 0 THEN Times(1, -net) ELSE <<FALSE, 1>>
      g == WordGcd(nu[2], de[2])
  IN  IF OverOf(digits)[Len(digits)][1] \/ nu[1] \/ de[1] THEN TooLarge
      ELSE IF de[2] = 1 \/ CDiv(de[2], g) = 1
      THEN Fix(IF de[2] = 1 THEN nu[2] ELSE CDiv(nu[2], g))
      ELSE Ratio(CDiv(nu[2], g), CDiv(de[2], g))

LEMMA MantissaIs ==
  ASSUME NEW digits, NEW frac, NEW expo, NEW negative
  PROVE  ExactFromMantissa(digits, frac, expo, negative) = Mantissa(digits, frac, expo, negative)
BY DEF ExactFromMantissa, Mantissa, OverOf, Overs, OverStep, Times, Timed, TimesStep, NetExponent

(* Powers of the radix up to k.                                            *)
PowersTo(k) == Radix ^ 0 = 1 /\ \A j \in 1..k : Radix ^ j = Radix * Radix ^ (j - 1)

LEMMA OverIs ==
  ASSUME NEW digits, NEW m \in Nat, Spells(digits, m)
  PROVE  OverOf(digits)[Len(digits)][2] = m
<1>1. digits \in Seq(Digits)
  BY DEF Spells
<1>2. PICK n \in Nat : n = Len(digits)
  BY <1>1
<1>3. PICK h \in [0..n -> Nat] : /\ h[0] = 0 /\ h[n] = m
                                 /\ \A i \in 1..n : h[i] = Radix * h[i - 1] + digits[i]
  BY <1>2 DEF Spells
<1>4. PICK f : f = OverOf(digits) /\ Overs(f, digits)
  BY <1>1, OversExist DEF OverOf
<1>5. n \in 0..n /\ 0 \in 0..n
  OBVIOUS
<1> DEFINE T == {i \in 0..n : f[i][2] = h[i]}
<1>6. 0 \in T
  <2>1. f[0] = <<FALSE, 0>>
    BY <1>2, <1>4, <1>5 DEF Overs
  <2> QED
    BY <1>3, <1>5, <2>1
<1>7. ASSUME NEW i \in 1..n, i - 1 \in T
      PROVE  i \in T
  <2>1. i \in 0..n /\ i # 0 /\ i - 1 \in 0..n
    OBVIOUS
  <2>2. f[i] = OverStep(f[i - 1], digits[i])
    BY <1>2, <1>4, <2>1 DEF Overs
  <2>3. f[i][2] = f[i - 1][2] * Radix + digits[i]
    BY <2>2 DEF OverStep
  <2>4. PICK r \in Nat, d \in Nat, a \in Nat : r = Radix /\ d = digits[i] /\ a = h[i - 1]
    <3>1. digits[i] \in Digits /\ h[i - 1] \in Nat
      BY <1>1, <1>2, <1>3, <2>1
    <3> QED
      BY <3>1, RadixFacts
  <2>5. a * r = r * a
    OBVIOUS
  <2>6. f[i][2] = h[i]
    BY <1>3, <1>7, <2>3, <2>4, <2>5
  <2> QED
    BY <2>1, <2>6
<1>8. n \in T
  <2>1. 0..n \subseteq T
    <3> HIDE DEF T
    <3> QED
      BY <1>6, <1>7, Upwards
  <2> QED
    BY <1>5, <2>1
<1> QED
  BY <1>2, <1>3, <1>4, <1>8

LEMMA TimesStepIs ==
  ASSUME NEW p, ~TimesStep(p)[1]
  PROVE  ~p[1] /\ ~(p[2] > MaxInt \div Radix) /\ TimesStep(p)[2] = Wrap(p[2] * Radix)
<1>1. PICK c, w : c = (p[1] \/ p[2] > MaxInt \div Radix) /\ w = Wrap(p[2] * Radix)
  BY Zenon
<1>2. PICK t : t = TimesStep(p) /\ t = <<c, w>>
  BY <1>1, Zenon DEF TimesStep
<1>3. t[1] = c /\ t[2] = w
  BY <1>2
<1>4. ~c
  BY <1>2, <1>3, Zenon
<1>5. ~(p[1] \/ p[2] > MaxInt \div Radix)
  BY <1>1, <1>4, Zenon
<1> QED
  BY <1>1, <1>2, <1>3, <1>5, Zenon

LEMMA TimesIs ==
  ASSUME NEW n \in Nat, n <= MaxInt, NEW k \in Nat, PowersTo(k), ~Times(n, k)[1]
  PROVE  Radix ^ k \in Nat /\ Radix ^ k >= 1 /\ Times(n, k)[2] = n * Radix ^ k /\ n * Radix ^ k <= MaxInt
<1>1. PICK r \in Nat, M \in Nat : r = Radix /\ r >= 2 /\ M = MaxInt /\ MinInt = -M - 1
  BY RadixFacts, WordFacts
<1>2. PICK f : f = CHOOSE g : Timed(g, n, k)
  OBVIOUS
<1>3. Timed(f, n, k) /\ Times(n, k) = f[k]
  BY <1>2, TimedExist DEF Times
<1>4. k \in 0..k /\ 0 \in 0..k
  OBVIOUS
<1> DEFINE T == {i \in 0..k : /\ r ^ i \in Nat /\ r ^ i >= 1
                              /\ ~f[i][1] => f[i][2] = n * r ^ i /\ n * r ^ i <= M}
<1>5. 0 \in T
  <2>1. f[0] = <<FALSE, n>> /\ r ^ 0 = 1 /\ n * 1 = n
    <3>1. f[0] = <<FALSE, n>>
      BY <1>3, <1>4 DEF Timed
    <3>2. r ^ 0 = 1
      BY <1>1 DEF PowersTo
    <3> QED
      BY <3>1, <3>2
  <2> QED
    BY <1>1, <1>4, <2>1
<1>6. ASSUME NEW i \in 1..k, i - 1 \in T
      PROVE  i \in T
  <2>1. i \in 0..k /\ i # 0 /\ i - 1 \in 0..k
    OBVIOUS
  <2>2. PICK p \in Nat : p = r ^ (i - 1) /\ p >= 1
    BY <1>6
  <2>3. PICK z \in Nat : z = r * p /\ z >= 1
    <3>1. r * p >= 1
      BY <1>1, <2>2
    <3> QED
      BY <3>1
  <2>4. r ^ i = z
    BY <1>1, <2>2, <2>3 DEF PowersTo
  <2>5. f[i] = TimesStep(f[i - 1])
    BY <1>3, <2>1 DEF Timed
  <2>6. ASSUME ~f[i][1]
        PROVE  f[i][2] = n * z /\ n * z <= M
    <3>1. ~f[i - 1][1] /\ ~(f[i - 1][2] > M \div r) /\ f[i][2] = Wrap(f[i - 1][2] * r)
      BY <1>1, <2>5, <2>6, TimesStepIs
    <3>2. PICK a \in Nat : a = f[i - 1][2] /\ a = n * p
      BY <1>6, <2>2, <3>1
    <3>3. PICK q \in Nat : q = M \div r /\ r * q <= M
      BY <1>1
    <3>4. a <= q
      BY <3>1, <3>2, <3>3
    <3>5. r * a <= r * q
      BY <3>4
    <3>6. PICK w \in Nat : w = a * r /\ w = r * a
      OBVIOUS
    <3>7. w <= M
      BY <3>3, <3>5, <3>6
    <3>8. Wrap(w) = w
      BY <1>1, <3>7, WrapKeeps DEF Fits
    <3>9. n * (r * p) = r * (n * p)
      OBVIOUS
    <3>10. n * z = w
      BY <2>3, <3>2, <3>6, <3>9
    <3> QED
      BY <3>1, <3>2, <3>6, <3>7, <3>8, <3>10
  <2> QED
    BY <2>1, <2>3, <2>4, <2>6
<1>7. k \in T
  <2>1. 0..k \subseteq T
    <3> HIDE DEF T
    <3> QED
      BY <1>5, <1>6, Upwards
  <2> QED
    BY <1>4, <2>1
<1> QED
  BY <1>1, <1>3, <1>7

(* A word over a power of the radix, cut down by their common divisor.     *)
LEMMA CutDown ==
  ASSUME NEW n \in Nat, n <= MaxInt, NEW d \in Nat, d >= 1, d <= MaxInt
  PROVE  LET g == WordGcd(n, d)
         IN  /\ CDiv(n, g) \in Int /\ CDiv(d, g) \in Int
             /\ CDiv(n, g) * d = n * CDiv(d, g)
<1>1. PICK g : g = WordGcd(n, d)
  OBVIOUS
<1>2. CAbs(n) = n /\ CAbs(d) = d
  <2>1. Abs(n) = n /\ Abs(d) = d
    BY DEF Abs
  <2> QED
    BY <2>1, CAbsIs
<1>3. GreatestCommon(g, n, d)
  BY <1>1, <1>2, WordGcdIs
<1>4. g \in Int /\ g # 0
  <2>1. g # 0
    BY <1>3, CommonDivisor
  <2> QED
    BY <1>3, <2>1 DEF GreatestCommon
<1>5. PICK u \in Int, w \in Int : n = g * u /\ d = g * w
  BY <1>3 DEF GreatestCommon, Divides
<1>6. CDiv(n, g) = u /\ CDiv(d, g) = w
  BY <1>4, <1>5, ExactDivision
<1>7. u * (g * w) = (g * u) * w
  BY <1>4
<1> QED
  BY <1>1, <1>5, <1>6, <1>7

LEMMA RadixPowersTo ==
  ASSUME NEW e \in Exponents, NEW k \in Nat, k <= e \/ k <= 2 - e
  PROVE  PowersTo(k)
<1>1. e \in Int /\ Radix ^ 0 = 1
  BY NumbersAssumption, BignumAssumption
<1>2. ASSUME NEW j \in 1..k
      PROVE  Radix ^ j = Radix * Radix ^ (j - 1)
  <2>1. PICK i \in Nat : i = j - 1 /\ i + 1 = j /\ i \in (0..(e - 1)) \union (0..(1 - e))
    BY <1>1
  <2>2. PICK b : b = Radix
    OBVIOUS
  <2>3. b ^ (i + 1) = b * b ^ i
    BY <2>1, <2>2, NumbersAssumption
  <2> QED
    BY <2>1, <2>2, <2>3
<1> QED
  BY <1>1, <1>2 DEF PowersTo

(* A decimal that is not refused is the digits times a power of the radix. *)
LEMMA DecimalIsRead ==
  ASSUME NEW n \in Nat, n <= MaxInt, NEW frac \in {0, 1, 2}, NEW e \in Exponents,
         NEW v, v = Mantissa(DigitsOf(n), frac, e, FALSE), v # TooLarge
  PROVE  IF e - frac >= 0 THEN v = Fix(n * Radix ^ (e - frac))
         ELSE Num(v) * Radix ^ (-(e - frac)) = n * Den(v)
<1>1. OverOf(DigitsOf(n))[Len(DigitsOf(n))][2] = n
  BY DigitsSpell, OverIs
<1>2. PICK net \in Int : net = e - frac /\ e \in Int
  BY NumbersAssumption
<1>0. \A c, b : Num(Ratio(c, b)) = c /\ Den(Ratio(c, b)) = b
  BY RatioIsRatio
<1> DEFINE nu == IF net > 0 THEN Times(n, net) ELSE <<FALSE, n>>
           de == IF net < 0 THEN Times(1, -net) ELSE <<FALSE, 1>>
           g == WordGcd(nu[2], de[2])
<1>3. v = IF OverOf(DigitsOf(n))[Len(DigitsOf(n))][1] \/ nu[1] \/ de[1] THEN TooLarge
          ELSE IF de[2] = 1 \/ CDiv(de[2], g) = 1
          THEN Fix(IF de[2] = 1 THEN nu[2] ELSE CDiv(nu[2], g))
          ELSE Ratio(CDiv(nu[2], g), CDiv(de[2], g))
  BY <1>1, <1>2, Zenon DEF Mantissa
<1> HIDE DEF nu, de, g
<1>4. ~nu[1] /\ ~de[1]
  BY <1>3, Zenon
<1>5. v = IF de[2] = 1 \/ CDiv(de[2], g) = 1
          THEN Fix(IF de[2] = 1 THEN nu[2] ELSE CDiv(nu[2], g))
          ELSE Ratio(CDiv(nu[2], g), CDiv(de[2], g))
  BY <1>3, Zenon
<1>6. ASSUME net > 0
      PROVE  v = Fix(n * Radix ^ net)
  <2>1. nu = Times(n, net) /\ de = <<FALSE, 1>> /\ de[2] = 1
    <3>1. ~(net < 0)
      BY <1>6
    <3>2. nu = Times(n, net) /\ de = <<FALSE, 1>>
      BY <1>6, <3>1, Zenon DEF nu, de
    <3> QED
      BY <3>2
  <2>2. net \in Nat /\ net <= e
    BY <1>2, <1>6
  <2>3. PowersTo(net)
    BY <2>2, RadixPowersTo
  <2>4. ~Times(n, net)[1]
    BY <1>4, <2>1
  <2>5. nu[2] = n * Radix ^ net
    BY <2>1, <2>2, <2>3, <2>4, TimesIs
  <2> QED
    BY <1>5, <2>1, <2>5
<1>7. ASSUME net = 0
      PROVE  v = Fix(n * Radix ^ net)
  <2>1. nu[2] = n /\ de[2] = 1
    BY <1>7 DEF nu, de
  <2>2. n * Radix ^ net = n
    <3>1. Radix ^ net = 1
      BY <1>7, BignumAssumption
    <3> QED
      BY <3>1
  <2> QED
    BY <1>5, <2>1, <2>2
<1>8. ASSUME net < 0
      PROVE  Num(v) * Radix ^ (-net) = n * Den(v)
  <2>1. nu[2] = n /\ de = Times(1, -net)
    BY <1>8 DEF nu, de
  <2>2. PICK k \in Nat : k = -net /\ k <= 2 - e
    BY <1>2, <1>8
  <2>3. PowersTo(k) /\ ~Times(1, k)[1]
    BY <1>4, <2>1, <2>2, RadixPowersTo
  <2>4. 1 <= MaxInt
    BY WordFacts
  <2>5. Radix ^ k \in Nat /\ Radix ^ k >= 1 /\ Times(1, k)[2] = 1 * Radix ^ k /\ 1 * Radix ^ k <= MaxInt
    BY <2>3, <2>4, TimesIs
  <2>6. PICK d \in Nat : d = Radix ^ k /\ d = de[2] /\ d >= 1 /\ d <= MaxInt
    <3>1. PICK d \in Nat : d = Radix ^ k
      BY <2>5
    <3> QED
      BY <2>1, <2>2, <2>5, <3>1
  <2>7. PICK c, b \in Int : c = CDiv(n, g) /\ b = CDiv(d, g) /\ c * d = n * b
    <3>1. g = WordGcd(n, d)
      BY <2>1, <2>6 DEF g
    <3>2. CDiv(n, g) \in Int /\ CDiv(d, g) \in Int /\ CDiv(n, g) * d = n * CDiv(d, g)
      BY <2>6, <3>1, CutDown
    <3> QED
      BY <3>2
  <2>8. ASSUME d = 1
        PROVE  Num(v) * d = n * Den(v)
    <3>1. v = Fix(n)
      BY <1>5, <2>1, <2>6, <2>8
    <3>2. Num(v) = n /\ Den(v) = 1
      BY <3>1, FixIsFix
    <3> QED
      BY <2>8, <3>2
  <2>9. ASSUME d # 1, b = 1
        PROVE  Num(v) * d = n * Den(v)
    <3>1. v = Fix(c)
      BY <1>5, <2>1, <2>6, <2>7, <2>9
    <3>2. Num(v) = c /\ Den(v) = 1
      BY <3>1, FixIsFix
    <3> QED
      BY <2>7, <2>9, <3>2
  <2>10. ASSUME d # 1, b # 1
         PROVE  Num(v) * d = n * Den(v)
    <3>1. v = Ratio(c, b)
      <4>1. g = WordGcd(n, d) /\ nu[2] = n /\ de[2] = d
        BY <2>1, <2>6 DEF g
      <4> QED
        BY <1>5, <2>7, <2>10, <4>1
    <3>2. Num(v) = c /\ Den(v) = b
      BY <1>0, <3>1, Zenon
    <3> QED
      BY <2>7, <3>2
  <2> QED
    BY <2>2, <2>6, <2>8, <2>9, <2>10
<1>9. net > 0 \/ net = 0 \/ net < 0
  OBVIOUS
<1>10. IF net >= 0 THEN v = Fix(n * Radix ^ net) ELSE Num(v) * Radix ^ (-net) = n * Den(v)
  <2>1. net > 0 \/ net = 0 <=> net >= 0
    OBVIOUS
  <2> QED
    BY <1>6, <1>7, <1>8, <1>9, <2>1, Zenon
<1> QED
  BY <1>2, <1>10, Zenon

LEMMA DecimalsAreExact ==
  NumbersInv => ExactRead
<1> SUFFICES ASSUME NumbersInv, IsFix(x), x.n >= 0, NEW frac \in {0, 1, 2}, NEW expo \in Exponents,
                    NEW v, v = ExactFromMantissa(DigitsOf(x.n), frac, expo, FALSE), v # TooLarge
             PROVE  IF expo - frac >= 0 THEN v = Fix(x.n * Radix ^ (expo - frac))
                    ELSE Num(v) * Radix ^ (-(expo - frac)) = x.n * Den(v)
  BY Zenon DEF ExactRead
<1>1. x.n \in Nat /\ x.n <= MaxInt
  <2>1. Integer(x)
    BY IntegersAreIntegers DEF NumbersInv, IsInteger
  <2>2. x.n \in MinInt..MaxInt
    BY <2>1, IntegerForms DEF WordOf, BigOf
  <2> QED
    BY <2>2, WordFacts
<1>2. v = Mantissa(DigitsOf(x.n), frac, expo, FALSE)
  BY MantissaIs
<1> QED
  BY <1>1, <1>2, DecimalIsRead

(* What is printed reads back, and what is read as a decimal is exact.     *)
THEOREM ReadBackKeeps == Spec => []ReadBack
<1>1. NumbersInv => ReadBack
  BY NumbersReadBack, DecimalsAreExact DEF ReadBack
<1> QED
  BY <1>1, NumbersKeep, PTL

-----------------------------------------------------------------------------
(* Powers by squaring.                                                     *)
PowerOf(f, b) == f = [k \in Nat |-> IF k = 0 THEN 1 ELSE f[k - 1] * b]

LEMMA PowerFacts ==
  ASSUME NEW b \in Int
  PROVE  /\ Power(b, 0) = 1
         /\ \A n \in Nat : Power(b, n) \in Int /\ Power(b, n + 1) = Power(b, n) * b
<1> DEFINE m == [n \in Nat |-> n]
           pre == [n \in Nat |-> IF n = 0 THEN 0 ELSE n - 1]
           first == [n \in Nat |-> 1]
           next == [q \in Nat \X Int |-> q[2] * b]
<1>1. Descends(Nat, m, {0}, pre)
  <2>1. \A n \in Nat : n \notin {0} => m[pre[n]] < m[n]
    OBVIOUS
  <2> QED
    BY <2>1 DEF Descends
<1>2. first \in [Nat -> Int] /\ next \in [Nat \X Int -> Int]
  OBVIOUS
<1>3. /\ \A n \in Nat : first[n] = 1 /\ (n # 0 => pre[n] = n - 1)
      /\ \A a \in Nat, c \in Int : next[<<a, c>>] = c * b
  OBVIOUS
<1> HIDE DEF m, pre, first, next
<1>4. PICK p : Recurs(p, Nat, Int, {0}, pre, first, next)
  BY <1>1, <1>2, MeasureRecursion
<1>5. p \in [Nat -> Int] /\ p[0] = 1
  BY <1>3, <1>4 DEF Recurs
<1>6. ASSUME NEW n \in Nat
      PROVE  p[n] = IF n = 0 THEN 1 ELSE p[n - 1] * b
  <2>1. CASE n # 0
    <3>1. n \notin {0} /\ pre[n] = n - 1 /\ n - 1 \in Nat
      BY <1>3, <2>1
    <3>2. p[n] = next[<<n, p[n - 1]>>]
      BY <1>4, <3>1 DEF Recurs
    <3>3. p[n - 1] \in Int
      BY <1>5, <3>1
    <3> QED
      BY <1>3, <2>1, <3>2, <3>3
  <2> QED
    BY <1>5, <2>1
<1>7. PowerOf(p, b)
  BY <1>5, <1>6 DEF PowerOf
<1>8. PICK f : f = (CHOOSE g : PowerOf(g, b)) /\ PowerOf(f, b)
  BY <1>7
<1>9. \A n : Power(b, n) = f[n]
  BY <1>8 DEF Power, PowerOf
<1>10. f[0] = 1 /\ \A n \in Nat : f[n + 1] = f[n] * b
  <2>1. \A k \in Nat : f[k] = IF k = 0 THEN 1 ELSE f[k - 1] * b
    BY <1>8 DEF PowerOf
  <2>2. \A n \in Nat : n + 1 \in Nat /\ n + 1 # 0 /\ (n + 1) - 1 = n
    OBVIOUS
  <2> QED
    BY <2>1, <2>2
<1>11. ASSUME NEW n \in Nat
       PROVE  f[n] \in Int
  <2> DEFINE T == {k \in 0..n : f[k] \in Int}
  <2>1. 0 \in T
    BY <1>10
  <2>2. ASSUME NEW k \in 1..n, k - 1 \in T
        PROVE  k \in T
    <3>1. f[(k - 1) + 1] = f[k - 1] * b /\ (k - 1) + 1 = k
      BY <1>10
    <3> QED
      BY <2>2, <3>1
  <2>3. 0..n \subseteq T /\ n \in 0..n
    <3> HIDE DEF T
    <3> QED
      BY <2>1, <2>2, Upwards
  <2> QED
    BY <2>3
<1> QED
  BY <1>9, <1>10, <1>11

LEMMA PowerSquares ==
  ASSUME NEW b \in Int, NEW n \in Nat
  PROVE  /\ Power(b, 2 * n) = Power(b * b, n)
         /\ Power(b, 2 * n + 1) = Power(b * b, n) * b
<1> DEFINE T == {k \in 0..n : Power(b, 2 * k) = Power(b * b, k)}
<1>0. b * b \in Int
  OBVIOUS
<1>1. 0 \in T
  <2>1. Power(b, 0) = 1 /\ Power(b * b, 0) = 1 /\ 2 * 0 = 0
    BY <1>0, PowerFacts
  <2> QED
    BY <2>1
<1>2. ASSUME NEW k \in 1..n, k - 1 \in T
      PROVE  k \in T
  <2>1. PICK i \in Nat : i = k - 1 /\ i + 1 = k /\ 2 * k = (2 * i + 1) + 1 /\ 2 * i + 1 \in Nat /\ 2 * i \in Nat
    OBVIOUS
  <2>2. PICK p \in Int : p = Power(b, 2 * i)
    BY <2>1, PowerFacts
  <2>3. Power(b, 2 * i + 1) = p * b
    BY <2>1, <2>2, PowerFacts
  <2>4. Power(b, (2 * i + 1) + 1) = (p * b) * b
    BY <2>1, <2>3, PowerFacts
  <2>5. Power(b * b, i + 1) = p * (b * b)
    <3>1. Power(b * b, i) = p
      BY <1>2, <2>1, <2>2
    <3> QED
      BY <1>0, <2>1, <3>1, PowerFacts
  <2>6. (p * b) * b = p * (b * b)
    OBVIOUS
  <2>7. Power(b, 2 * k) = Power(b * b, k)
    BY <2>1, <2>4, <2>5, <2>6
  <2> QED
    BY <2>7
<1>3. 0..n \subseteq T /\ n \in 0..n
  <2> HIDE DEF T
  <2> QED
    BY <1>1, <1>2, Upwards
<1>4. Power(b, 2 * n) = Power(b * b, n)
  BY <1>3
<1>5. 2 * n \in Nat
  OBVIOUS
<1>6. Power(b, 2 * n + 1) = Power(b, 2 * n) * b
  BY <1>5, PowerFacts
<1> QED
  BY <1>4, <1>6

LEMMA PowersOfUnits ==
  ASSUME NEW n \in Nat
  PROVE  Power(1, n) = 1 /\ Power(-1, n) = IF n % 2 = 1 THEN -1 ELSE 1
<1> DEFINE T == {k \in 0..n : Power(1, k) = 1 /\ Power(-1, k) = IF k % 2 = 1 THEN -1 ELSE 1}
<1>1. 0 \in T
  <2>1. Power(1, 0) = 1 /\ Power(-1, 0) = 1 /\ 0 % 2 = 0 /\ 0 \in 0..n
    BY PowerFacts
  <2> QED
    BY <2>1
<1>2. ASSUME NEW k \in 1..n, k - 1 \in T
      PROVE  k \in T
  <2>1. PICK i \in Nat : i = k - 1 /\ i + 1 = k
    OBVIOUS
  <2>2. Power(1, i + 1) = Power(1, i) * 1 /\ Power(-1, i + 1) = Power(-1, i) * (-1)
    BY <2>1, PowerFacts
  <2>3. Power(1, i) = 1 /\ Power(-1, i) = IF i % 2 = 1 THEN -1 ELSE 1
    BY <1>2, <2>1
  <2>4. (i + 1) % 2 = 1 <=> ~(i % 2 = 1)
    OBVIOUS
  <2> QED
    BY <2>1, <2>2, <2>3, <2>4
<1>3. 0..n \subseteq T /\ n \in 0..n
  <2> HIDE DEF T
  <2> QED
    BY <1>1, <1>2, Upwards
<1> QED
  BY <1>3

(* What the loop keeps: the result times the power of the base to come.    *)
Powered(s, p) == s \in ExptStates /\ BigVal(s.result) * Power(BigVal(s.base), s.exp) = p

LEMMA ExptStepPowers ==
  ASSUME NEW s, NEW p, Powered(s, p)
  PROVE  Powered(ExptStep(s), p) /\ ExptStep(s).exp = s.exp \div 2
<1>1. PICK r \in Bigs, b \in Bigs, k \in Nat : r = s.result /\ b = s.base /\ k = s.exp
  BY DEF ExptStates, Powered
<1>2. ExptStep(s) \in ExptStates
  BY ExptStepKeeps DEF Powered
<1>3. PICK R \in Int, B \in Int : R = BigVal(r) /\ B = BigVal(b)
  BY ValueBySign
<1>4. R * Power(B, k) = p
  BY <1>1, <1>3 DEF Powered
<1>5. CASE k = 0
  <2>1. ExptStep(s) = s
    BY <1>1, <1>5 DEF ExptStep
  <2>2. k = k \div 2
    BY <1>5
  <2> QED
    BY <1>1, <2>1, <2>2
<1>6. CASE k # 0
  <2>1. ExptStep(s) = [result |-> IF k % 2 = 1 THEN BigMul(r, b) ELSE r,
                       base |-> IF k > 1 THEN BigMul(b, b) ELSE b, exp |-> k \div 2]
    BY <1>1, <1>6 DEF ExptStep
  <2>2. PICK h \in Nat : h = k \div 2 /\ (k = 2 * h \/ k = 2 * h + 1) /\ (k % 2 = 1 <=> k = 2 * h + 1)
    OBVIOUS
  <2>3. BigVal(BigMul(r, b)) = R * B /\ BigVal(BigMul(b, b)) = B * B
    BY <1>3, BigMulExact
  <2>4. PICK c, d : c = (IF k % 2 = 1 THEN BigMul(r, b) ELSE r) /\ d = (IF k > 1 THEN BigMul(b, b) ELSE b)
    OBVIOUS
  <2>5. ExptStep(s).result = c /\ ExptStep(s).base = d /\ ExptStep(s).exp = h
    BY <2>1, <2>2, <2>4
  <2>6. B * B \in Int /\ Power(B, 2 * h) = Power(B * B, h) /\ Power(B, 2 * h + 1) = Power(B * B, h) * B
    BY PowerSquares
  <2>7. PICK q \in Int : q = Power(B * B, h)
    BY <2>6, PowerFacts
  <2>8. BigVal(c) = (IF k % 2 = 1 THEN R * B ELSE R)
    BY <1>3, <2>3, <2>4
  <2>9. Power(BigVal(d), h) = q
    <3>1. CASE k > 1
      BY <2>3, <2>4, <2>7, <3>1
    <3>2. CASE ~(k > 1)
      <4>1. h = 0 /\ BigVal(d) = B
        BY <1>3, <2>2, <2>4, <3>2
      <4> QED
        BY <2>6, <2>7, <4>1, PowerFacts
    <3> QED
      BY <3>1, <3>2
  <2>10. BigVal(c) * q = R * Power(B, k)
    <3>1. CASE k % 2 = 1
      <4>1. Power(B, k) = q * B /\ BigVal(c) = R * B
        BY <2>2, <2>6, <2>7, <2>8, <3>1
      <4>2. (R * B) * q = R * (q * B)
        OBVIOUS
      <4> QED
        BY <4>1, <4>2
    <3>2. CASE k % 2 # 1
      <4>1. Power(B, k) = q /\ BigVal(c) = R
        BY <2>2, <2>6, <2>7, <2>8, <3>2
      <4> QED
        BY <4>1
    <3> QED
      BY <3>1, <3>2
  <2> QED
    BY <1>1, <1>2, <1>4, <2>2, <2>5, <2>9, <2>10 DEF Powered
<1> QED
  BY <1>5, <1>6

LEMMA ExptIsPower ==
  ASSUME NEW b \in Bigs, NEW e \in Nat, NEW t, t = CHOOSE f : ExptLoop(f, b, e)
  PROVE  BigVal(t[e].result) = Power(BigVal(b), e)
<1>0. ExptLoop(t, b, e)
  BY ExptLoopExists
<1>1. PICK p \in Int : p = Power(BigVal(b), e)
  BY ValueBySign, PowerFacts
<1> DEFINE T == {i \in 0..e : Powered(t[i], p) /\ t[i].exp <= e - i}
<1>2. 0 \in T
  <2>0. 0 \in 0..e
    OBVIOUS
  <2>1. t[0] = ExptStart(b, e)
    BY <1>0, <2>0 DEF ExptLoop
  <2>2. Big(1, <<1>>) \in Bigs /\ BigVal(Big(1, <<1>>)) = 1
    <3>1. 1 \in Limbs
      BY LimbFacts
    <3>2. Big(1, <<1>>) \in Bigs /\ Big(1, <<1>>).data = <<1>> /\ Magnitude(<<1>>) = 1
      BY <3>1, OneLimb
    <3>3. PICK d : d = <<1>>
      OBVIOUS
    <3>4. Big(1, d).sign = 1
      BY DEF Big
    <3> QED
      BY <3>2, <3>3, <3>4, ValueBySign
  <2>3. ExptStart(b, e) \in ExptStates
    BY <2>2 DEF ExptStart, ExptStates
  <2>4. ExptStart(b, e).result = Big(1, <<1>>) /\ ExptStart(b, e).base = b /\ ExptStart(b, e).exp = e
    BY DEF ExptStart
  <2>5. 1 * p = p
    OBVIOUS
  <2> QED
    BY <1>1, <2>0, <2>1, <2>2, <2>3, <2>4, <2>5 DEF Powered
<1>3. ASSUME NEW i \in 1..e, i - 1 \in T
      PROVE  i \in T
  <2>1. i \in 0..e /\ i # 0
    OBVIOUS
  <2>2. t[i] = ExptStep(t[i - 1])
    BY <1>0, <2>1 DEF ExptLoop
  <2>3. Powered(t[i], p) /\ t[i].exp = t[i - 1].exp \div 2
    BY <1>3, <2>2, ExptStepPowers
  <2>4. PICK k \in Nat : k = t[i - 1].exp /\ k <= e - (i - 1)
    BY <1>3 DEF Powered, ExptStates
  <2>5. k \div 2 <= e - i
    BY <2>4
  <2> QED
    BY <2>1, <2>3, <2>4, <2>5
<1>4. 0..e \subseteq T /\ e \in 0..e
  <2> HIDE DEF T
  <2> QED
    BY <1>2, <1>3, Upwards
<1>5. Powered(t[e], p) /\ t[e].exp = 0
  <2>1. Powered(t[e], p) /\ t[e].exp <= 0
    BY <1>4
  <2> QED
    BY <2>1 DEF Powered, ExptStates
<1>6. BigVal(t[e].result) \in Int /\ BigVal(t[e].base) \in Int
  BY <1>5, ValueBySign DEF Powered, ExptStates
<1>7. BigVal(t[e].result) * Power(BigVal(t[e].base), 0) = p
  BY <1>5 DEF Powered
<1>8. Power(BigVal(t[e].base), 0) = 1
  BY <1>6, PowerFacts
<1> QED
  BY <1>1, <1>6, <1>7, <1>8

(* expt multiplies as often as the exponent says.                          *)
LEMMA NumExptIs ==
  ASSUME NEW v, Integer(v), NEW e \in Nat
  PROVE  Num(NumExpt(v, e)) = Power(Num(v), e)
<1>0. WordOf(v) \/ BigOf(v)
  BY IntegerForms
<1>1. CASE IsFix(v) /\ v.n \in {1, -1}
  <2>1. Num(v) = v.n
    BY <1>0, <1>1 DEF WordOf, BigOf
  <2>2. NumExpt(v, e) = Fix(IF v.n = -1 /\ e % 2 = 1 THEN -1 ELSE 1)
    BY <1>1 DEF NumExpt
  <2> QED
    BY <1>1, <2>1, <2>2, FixIsFix, PowersOfUnits
<1>2. CASE ~(IsFix(v) /\ v.n \in {1, -1}) /\ e = 0
  <2>1. NumExpt(v, e) = Fix(1)
    BY <1>2 DEF NumExpt
  <2>2. Num(v) \in Int
    BY IntegerForms
  <2> QED
    BY <1>2, <2>1, <2>2, FixIsFix, PowerFacts
<1>3. CASE ~(IsFix(v) /\ v.n \in {1, -1}) /\ e > 0
  <2>1. PICK b : b = IF IsFix(v) THEN NumBigFromI(v.n) ELSE v
    OBVIOUS
  <2>2. b \in Bigs /\ BigVal(b) = Num(v)
    <3>1. CASE IsFix(v)
      BY <1>0, <2>1, <3>1, NumBigFromIKeeps DEF WordOf, BigOf, Proper
    <3>2. CASE ~IsFix(v)
      BY <1>0, <2>1, <3>2 DEF WordOf, BigOf, Proper
    <3> QED
      BY <3>1, <3>2
  <2>3. PICK t : t = CHOOSE f : ExptLoop(f, b, e)
    OBVIOUS
  <2>4. t[e].result \in Bigs
    BY <2>2, <2>3, ExptKeeps
  <2>5. NumExpt(v, e) = BigSetVT(t[e].result)
    BY <1>3, <2>1, <2>3, SMTT(60) DEF NumExpt, ExptLoop, ExptStart, ExptStep
  <2>6. BigVal(t[e].result) = Power(BigVal(b), e)
    BY <2>2, <2>3, ExptIsPower
  <2> QED
    BY <2>2, <2>4, <2>5, <2>6, BigSetVTKeeps
<1> QED
  BY <1>1, <1>2, <1>3

LEMMA PowersHold == NumbersInv => PowersAgree
<1> SUFFICES ASSUME NumbersInv, IsInteger(x), NEW e \in Exponents, e >= 0
             PROVE  Num(NumExpt(x, e)) = Power(Num(x), e)
  BY DEF PowersAgree
<1>1. Integer(x)
  BY IntegersAreIntegers DEF NumbersInv
<1>2. e \in Nat
  BY NumbersAssumption
<1> QED
  BY <1>1, <1>2, NumExptIs

-----------------------------------------------------------------------------
(* Words as sets of bits.                                                  *)
LEMMA BitSumsAdd ==
  ASSUME NEW P, NEW Q
  PROVE  BitSum(P \cap Q) + BitSum(P \union Q) = BitSum(P) + BitSum(Q)
<1>1. PICK W \in Nat : W = 2 * HalfBits
  BY WidthFacts
<1> DEFINE Sums(s, S) == /\ s \in [0..W -> Nat] /\ s[0] = 0
                         /\ \A i \in 1..W : s[i] = s[i - 1] + Bit(i - 1, S) * Pow[i - 1]
                         /\ BitSum(S) = s[W]
<1>2. \A S : \E s : Sums(s, S)
  BY <1>1, BitSumIs
<1>3. PICK f, g, p, q : Sums(f, P \cap Q) /\ Sums(g, P \union Q) /\ Sums(p, P) /\ Sums(q, Q)
  <2> HIDE DEF Sums
  <2> QED
    BY <1>2
<1> DEFINE T == {i \in 0..W : f[i] + g[i] = p[i] + q[i]}
<1>4. 0 \in T
  BY <1>3
<1>5. ASSUME NEW i \in 1..W, i - 1 \in T
      PROVE  i \in T
  <2>1. i \in 0..W /\ i - 1 \in 0..W /\ i - 1 \in Nat
    OBVIOUS
  <2>2. PICK d \in Nat : d = Pow[i - 1]
    BY <2>1, PowFacts
  <2>3. PICK b1, b2, b3, b4 \in {0, 1} :
          /\ b1 = Bit(i - 1, P \cap Q) /\ b2 = Bit(i - 1, P \union Q)
          /\ b3 = Bit(i - 1, P) /\ b4 = Bit(i - 1, Q) /\ b1 + b2 = b3 + b4
    BY DEF Bit
  <2>4. /\ f[i] = f[i - 1] + b1 * d /\ g[i] = g[i - 1] + b2 * d
        /\ p[i] = p[i - 1] + b3 * d /\ q[i] = q[i - 1] + b4 * d
    BY <1>3, <2>2, <2>3
  <2>5. f[i - 1] \in Nat /\ g[i - 1] \in Nat /\ p[i - 1] \in Nat /\ q[i - 1] \in Nat
    BY <1>3, <2>1
  <2>6. b1 * d + b2 * d = b3 * d + b4 * d
    BY <2>3
  <2>7. b1 * d \in Nat /\ b2 * d \in Nat /\ b3 * d \in Nat /\ b4 * d \in Nat
    OBVIOUS
  <2>8. f[i] + g[i] = p[i] + q[i]
    BY <1>5, <2>4, <2>5, <2>6, <2>7
  <2> QED
    BY <2>1, <2>8
<1>6. 0..W \subseteq T /\ W \in 0..W
  <2> HIDE DEF T
  <2> QED
    BY <1>4, <1>5, Upwards
<1> QED
  BY <1>3, <1>6

(* The sum of a set of bits, the highest bit apart.                        *)
LEMMA BitSumTop ==
  ASSUME NEW S
  PROVE  /\ \E low \in 0..(Base \div 2 - 1) : BitSum(S) = low + Bit(Width - 1, S) * (Base \div 2)
         /\ BitSum(S) \in 0..(Base - 1)
<1>1. PICK W \in Nat : W = 2 * HalfBits /\ W = Width /\ W >= 2
  BY WidthFacts
<1>2. PICK s : /\ s \in [0..W -> Nat] /\ s[0] = 0
               /\ \A i \in 1..W : s[i] = s[i - 1] + Bit(i - 1, S) * Pow[i - 1]
               /\ BitSum(S) = s[W]
  BY <1>1, BitSumIs
<1> DEFINE T == {i \in 0..W : s[i] <= Pow[i] - 1}
<1>3. 0 \in T
  <2>1. 0 \in 0..W /\ Pow[0] = 1
    BY PowFacts
  <2> QED
    BY <1>2, <2>1
<1>4. ASSUME NEW i \in 1..W, i - 1 \in T
      PROVE  i \in T
  <2>1. i \in 0..W /\ i - 1 \in 0..W /\ i - 1 \in Nat /\ (i - 1) + 1 = i
    OBVIOUS
  <2>2. PICK d \in Nat : d = Pow[i - 1] /\ Pow[i] = 2 * d
    BY <2>1, PowFacts
  <2>3. PICK b \in {0, 1} : b = Bit(i - 1, S)
    BY DEF Bit
  <2>4. s[i] = s[i - 1] + b * d /\ s[i - 1] \in Nat /\ s[i - 1] <= d - 1
    BY <1>2, <1>4, <2>1, <2>2, <2>3
  <2>5. b * d \in Nat /\ b * d <= d
    BY <2>3
  <2> QED
    BY <2>1, <2>2, <2>4, <2>5
<1>5. 0..W \subseteq T /\ W \in 0..W /\ W - 1 \in 0..W /\ W \in 1..W /\ W - 1 \in Nat /\ (W - 1) + 1 = W
  <2> HIDE DEF T
  <2> QED
    BY <1>1, <1>3, <1>4, Upwards
<1>6. PICK h \in Nat : h = Pow[W - 1] /\ Base = 2 * h /\ Base \div 2 = h
  <2>1. Pow[W] = 2 * Pow[W - 1] /\ Pow[W - 1] \in Nat /\ Base = Pow[W]
    BY <1>1, <1>5, PowFacts, PowIs
  <2> QED
    BY <2>1
<1>7. s[W - 1] \in Nat /\ s[W - 1] <= h - 1 /\ s[W] \in Nat /\ s[W] <= 2 * h - 1
  <2>1. Pow[W] = Base
    BY <1>1, PowIs
  <2> QED
    BY <1>2, <1>5, <1>6, <2>1
<1>8. BitSum(S) = s[W - 1] + Bit(Width - 1, S) * h
  BY <1>1, <1>2, <1>5, <1>6
<1>9. PICK low \in 0..(h - 1) : low = s[W - 1]
  BY <1>7
<1>10. BitSum(S) = low + Bit(Width - 1, S) * (Base \div 2)
  BY <1>6, <1>8, <1>9
<1>11. low \in 0..(Base \div 2 - 1)
  BY <1>6, <1>9
<1>12. BitSum(S) \in 0..(Base - 1)
  BY <1>2, <1>6, <1>7
<1> QED
  BY <1>10, <1>11, <1>12

LEMMA BitSumEnds == BitSum({}) = 0 /\ BitSum(0..(Width - 1)) = Base - 1
<1>1. PICK W \in Nat : W = 2 * HalfBits /\ W = Width /\ W >= 2
  BY WidthFacts
<1>2. PICK s : /\ s \in [0..W -> Nat] /\ s[0] = 0
               /\ \A i \in 1..W : s[i] = s[i - 1] + Bit(i - 1, {}) * Pow[i - 1]
               /\ BitSum({}) = s[W]
  BY <1>1, BitSumIs
<1>3. PICK t : /\ t \in [0..W -> Nat] /\ t[0] = 0
               /\ \A i \in 1..W : t[i] = t[i - 1] + Bit(i - 1, 0..(W - 1)) * Pow[i - 1]
               /\ BitSum(0..(W - 1)) = t[W]
  BY <1>1, BitSumIs
<1> DEFINE T == {i \in 0..W : s[i] = 0 /\ t[i] = Pow[i] - 1}
<1>4. 0 \in T
  <2>1. 0 \in 0..W /\ Pow[0] = 1
    BY PowFacts
  <2> QED
    BY <1>2, <1>3, <2>1
<1>5. ASSUME NEW i \in 1..W, i - 1 \in T
      PROVE  i \in T
  <2>1. i \in 0..W /\ i - 1 \in 0..W /\ i - 1 \in Nat /\ (i - 1) + 1 = i /\ i - 1 \in 0..(W - 1)
    OBVIOUS
  <2>2. PICK d \in Nat : d = Pow[i - 1] /\ Pow[i] = 2 * d
    BY <2>1, PowFacts
  <2>3. Bit(i - 1, {}) = 0 /\ Bit(i - 1, 0..(W - 1)) = 1
    BY <2>1 DEF Bit
  <2>4. s[i] = s[i - 1] + 0 * d /\ t[i] = t[i - 1] + 1 * d
    BY <1>2, <1>3, <2>2, <2>3
  <2> QED
    BY <1>5, <2>1, <2>2, <2>4
<1>6. 0..W \subseteq T /\ W \in 0..W
  <2> HIDE DEF T
  <2> QED
    BY <1>4, <1>5, Upwards
<1>7. Base = Pow[W]
  BY <1>1, PowIs
<1> QED
  BY <1>1, <1>2, <1>3, <1>6, <1>7

(* The highest bit counts as minus its weight.                             *)
LEMMA FromBitsIs ==
  ASSUME NEW S
  PROVE  FromBits(S) = BitSum(S) - Base * Bit(Width - 1, S)
<1>1. PICK h \in Nat \ {0} : Base = 2 * h /\ Base \div 2 = h /\ MaxInt = h - 1 /\ MinInt = -h
  BY BaseIsEven DEF MaxInt, MinInt
<1>2. PICK low \in 0..(h - 1), b \in {0, 1} : b = Bit(Width - 1, S) /\ BitSum(S) = low + b * h
  <2>1. PICK b \in {0, 1} : b = Bit(Width - 1, S)
    BY DEF Bit
  <2> QED
    BY <1>1, <2>1, BitSumTop
<1>3. CASE b = 0
  <2>1. BitSum(S) = low /\ Fits(low)
    BY <1>1, <1>2, <1>3 DEF Fits
  <2> QED
    BY <1>1, <1>2, <1>3, <2>1, WrapKeeps DEF FromBits
<1>4. CASE b = 1
  <2>1. BitSum(S) = low + h
    BY <1>2, <1>4
  <2>2. (low + 2 * h) % (2 * h) = low
    <3>1. PICK B \in Nat \ {0} : B = 2 * h
      BY <1>1
    <3>2. (B * 1 + low) % B = low
      BY <3>1, DivMod
    <3> QED
      BY <3>1, <3>2
  <2>3. Wrap(low + h) = low - h
    BY <1>1, <2>2 DEF Wrap
  <2> QED
    BY <1>1, <1>2, <1>4, <2>1, <2>3 DEF FromBits
<1> QED
  BY <1>3, <1>4

LEMMA FromBitsAdd ==
  ASSUME NEW P, NEW Q
  PROVE  /\ FromBits(P \cap Q) + FromBits(P \union Q) = FromBits(P) + FromBits(Q)
         /\ FromBits(P) \in Int
<1>1. PICK B \in Nat : B = Base
  BY LimbFacts
<1>2. PICK b1, b2, b3, b4 \in {0, 1} :
        /\ b1 = Bit(Width - 1, P \cap Q) /\ b2 = Bit(Width - 1, P \union Q)
        /\ b3 = Bit(Width - 1, P) /\ b4 = Bit(Width - 1, Q) /\ b1 + b2 = b3 + b4
  BY DEF Bit
<1>3. \A S : BitSum(S) \in Nat
  BY BitSumTop, LimbFacts
<1>4. PICK n1, n2, n3, n4 \in Nat :
        /\ n1 = BitSum(P \cap Q) /\ n2 = BitSum(P \union Q) /\ n3 = BitSum(P) /\ n4 = BitSum(Q)
        /\ n1 + n2 = n3 + n4
  <2>1. BitSum(P \cap Q) \in Nat /\ BitSum(P \union Q) \in Nat /\ BitSum(P) \in Nat /\ BitSum(Q) \in Nat
    BY <1>3
  <2>2. BitSum(P \cap Q) + BitSum(P \union Q) = BitSum(P) + BitSum(Q)
    BY BitSumsAdd
  <2> QED
    BY <2>1, <2>2
<1>5. /\ FromBits(P \cap Q) = n1 - B * b1 /\ FromBits(P \union Q) = n2 - B * b2
      /\ FromBits(P) = n3 - B * b3 /\ FromBits(Q) = n4 - B * b4
  BY <1>1, <1>2, <1>4, FromBitsIs
<1>6. B * b1 + B * b2 = B * b3 + B * b4
  <2>1. B * (b1 + b2) = B * (b3 + b4)
    BY <1>2
  <2>2. B * (b1 + b2) = B * b1 + B * b2 /\ B * (b3 + b4) = B * b3 + B * b4
    OBVIOUS
  <2> QED
    BY <2>1, <2>2
<1>7. PICK m1, m2, m3, m4 \in Nat :
        m1 = B * b1 /\ m2 = B * b2 /\ m3 = B * b3 /\ m4 = B * b4 /\ m1 + m2 = m3 + m4
  <2>1. B * b1 \in Nat /\ B * b2 \in Nat /\ B * b3 \in Nat /\ B * b4 \in Nat
    OBVIOUS
  <2> QED
    BY <1>6, <2>1
<1>8. /\ FromBits(P \cap Q) = n1 - m1 /\ FromBits(P \union Q) = n2 - m2
      /\ FromBits(P) = n3 - m3 /\ FromBits(Q) = n4 - m4
  BY <1>5, <1>7
<1>9. (n1 - m1) + (n2 - m2) = (n3 - m3) + (n4 - m4) /\ n3 - m3 \in Int
  BY <1>4, <1>7
<1> QED
  BY <1>8, <1>9, Zenon

(* A word, and the same number without a sign.                             *)
Unsigned(a) == a % Base

LEMMA UnsignedIs ==
  ASSUME NEW a \in MinInt..MaxInt
  PROVE  /\ a \in Int /\ Unsigned(a) \in Nat /\ Unsigned(a) < Base
         /\ Unsigned(a) = IF a < 0 THEN a + Base ELSE a
<1>1. PICK h \in Nat \ {0} : Base = 2 * h /\ MaxInt = h - 1 /\ MinInt = -h
  BY BaseIsEven DEF MaxInt, MinInt
<1>2. PICK B \in Nat \ {0} : B = Base /\ a \in Int
  BY <1>1
<1>3. CASE a < 0
  <2>1. a + B \in 0..(B - 1)
    BY <1>1, <1>2, <1>3
  <2>2. (B * (-1) + (a + B)) % B = a + B
    BY <2>1, DivMod
  <2>3. B * (-1) + (a + B) = a
    BY <1>2
  <2> QED
    BY <1>2, <1>3, <2>1, <2>2, <2>3 DEF Unsigned
<1>4. CASE ~(a < 0)
  <2>1. a \in 0..(B - 1)
    BY <1>1, <1>2, <1>4
  <2> QED
    BY <1>2, <1>4, <2>1, SmallModulo DEF Unsigned
<1> QED
  BY <1>3, <1>4

LEMMA BitsAre ==
  ASSUME NEW a \in MinInt..MaxInt, NEW u, u = Unsigned(a)
  PROVE  /\ BitsFrom([c \in Nat |-> u \div (1 * Pow[c])], OddAt(u, 1))
         /\ Bits(a) = {i \in 0..(Width - 1) : i \in OddAt(u, 1)}
         /\ BitSum(Bits(a)) = u
<1>1. u \in Nat /\ u < Base
  BY UnsignedIs
<1>2. BitsFrom([c \in Nat |-> u \div (1 * Pow[c])], OddAt(u, 1))
  <2>1. 1 \in Nat \ {0}
    OBVIOUS
  <2> QED
    BY <1>1, <2>1, QuotientBits
<1>3. ASSUME NEW i \in 0..(Width - 1)
      PROVE  i \in Bits(a) <=> i \in OddAt(u, 1)
  <2>1. i \in Nat /\ i \in 0..(2 * HalfBits)
    BY WidthFacts
  <2>2. 2 ^ i = Pow[i] /\ Pow[i] \in Nat
    BY <2>1, PowIs, PowFacts
  <2>3. 1 * Pow[i] = Pow[i]
    BY <2>2
  <2> QED
    BY <2>1, <2>2, <2>3 DEF Bits, OddAt, Unsigned
<1>4. Bits(a) = {i \in 0..(Width - 1) : i \in OddAt(u, 1)}
  BY <1>3 DEF Bits
<1>5. BitSum(Bits(a)) = u
  <2>1. PICK f : f = [c \in Nat |-> u \div (1 * Pow[c])] /\ BitsFrom(f, OddAt(u, 1))
    BY <1>2
  <2>2. Bits(a) = {i \in 0..(2 * HalfBits - 1) : 0 + i \in OddAt(u, 1)}
    <3>1. \A i \in 0..(2 * HalfBits - 1) : 0 + i = i
      BY WidthFacts
    <3> QED
      BY <1>4, <3>1, WidthFacts
  <2>3. f[0] = BitSum(Bits(a)) + Base * f[0 + 2 * HalfBits] /\ BitSum(Bits(a)) \in Limbs
    BY <2>1, <2>2, BitSumOf
  <2>4. f[0] = u /\ f[2 * HalfBits] = 0
    <3>1. 1 * Pow[0] = 1 /\ u \div 1 = u
      BY <1>1, PowFacts
    <3>2. 1 * Pow[2 * HalfBits] = Base /\ u \div Base = 0
      <4>1. Pow[2 * HalfBits] = Base /\ Base \in Nat
        BY PowIs, LimbFacts
      <4> QED
        BY <1>1, <4>1, SmallDividend
    <3> QED
      BY <2>1, <3>1, <3>2, WidthFacts
  <2>5. PICK B \in Nat, z \in Nat : B = Base /\ z = BitSum(Bits(a))
    BY <2>3, LimbFacts
  <2>6. 0 + 2 * HalfBits = 2 * HalfBits /\ B * 0 = 0
    BY WidthFacts
  <2> QED
    BY <2>3, <2>4, <2>5, <2>6
<1> QED
  BY <1>2, <1>4, <1>5

LEMMA WordOfBits ==
  ASSUME NEW a \in MinInt..MaxInt
  PROVE  FromBits(Bits(a)) = a
<1>1. PICK h \in Nat \ {0} : Base = 2 * h /\ Base \div 2 = h /\ MaxInt = h - 1 /\ MinInt = -h
  BY BaseIsEven DEF MaxInt, MinInt
<1>2. FromBits(Bits(a)) = Wrap(Unsigned(a))
  BY BitsAre DEF FromBits
<1>3. CASE a >= 0
  BY <1>1, <1>2, <1>3, UnsignedIs, WrapKeeps DEF Fits
<1>4. CASE a < 0
  <2>1. Unsigned(a) = a + 2 * h /\ a \in Int
    BY <1>1, <1>4, UnsignedIs
  <2>2. ((a + 2 * h) + h) % (2 * h) = a + h
    <3>1. PICK B \in Nat \ {0} : B = 2 * h
      BY <1>1
    <3>2. a + h \in 0..(B - 1)
      BY <1>1, <1>4, <2>1, <3>1
    <3>3. (B * 1 + (a + h)) % B = a + h
      BY <3>1, <3>2, DivMod, SMTT(60)
    <3>4. B * 1 + (a + h) = (a + 2 * h) + h
      BY <2>1, <3>1
    <3> QED
      BY <3>1, <3>3, <3>4
  <2> QED
    BY <1>1, <1>2, <2>1, <2>2 DEF Wrap
<1> QED
  BY <1>1, <1>3, <1>4

(* And, or, exclusive or and complement, as numbers.                       *)
LEMMA BitwiseIs ==
  ASSUME NEW a \in MinInt..MaxInt, NEW b \in MinInt..MaxInt
  PROVE  /\ BitwiseNot(a) = -a - 1
         /\ BitwiseAnd(a, b) + BitwiseIor(a, b) = a + b
         /\ BitwiseIor(a, b) - BitwiseAnd(a, b) = BitwiseXor(a, b)
<1>1. a \in Int /\ b \in Int
  BY WordFacts
<1>2. FromBits({}) = 0 /\ FromBits(0..(Width - 1)) = -1
  <2>1. Width - 1 \in 0..(Width - 1) /\ Base \in Nat
    BY WidthFacts, LimbFacts
  <2>2. Bit(Width - 1, {}) = 0 /\ Bit(Width - 1, 0..(Width - 1)) = 1
    BY <2>1 DEF Bit
  <2> QED
    BY <2>1, <2>2, BitSumEnds, FromBitsIs
<1>3. BitwiseNot(a) = -a - 1
  <2> DEFINE P == Bits(a)
             Q == (0..(Width - 1)) \ P
  <2>1. P \cap Q = {} /\ P \union Q = 0..(Width - 1)
    BY DEF Bits
  <2>2. BitwiseNot(a) = FromBits(Q)
    BY DEF BitwiseNot
  <2> HIDE DEF P, Q
  <2>3. FromBits({}) + FromBits(0..(Width - 1)) = FromBits(P) + FromBits(Q) /\ FromBits(Q) \in Int
    BY <2>1, FromBitsAdd
  <2>4. FromBits(P) = a
    BY WordOfBits DEF P
  <2> QED
    BY <1>1, <1>2, <2>2, <2>3, <2>4
<1>4. BitwiseAnd(a, b) + BitwiseIor(a, b) = a + b
  BY FromBitsAdd, WordOfBits DEF BitwiseAnd, BitwiseIor
<1>5. BitwiseIor(a, b) - BitwiseAnd(a, b) = BitwiseXor(a, b)
  <2> DEFINE P == Bits(a) \cap Bits(b)
             R == Bits(a) \union Bits(b)
             Q == R \ P
  <2>1. P \cap Q = {} /\ P \union Q = R
    OBVIOUS
  <2>2. BitwiseAnd(a, b) = FromBits(P) /\ BitwiseIor(a, b) = FromBits(R) /\ BitwiseXor(a, b) = FromBits(Q)
    BY DEF BitwiseAnd, BitwiseIor, BitwiseXor
  <2> HIDE DEF P, Q, R
  <2>3. FromBits({}) + FromBits(R) = FromBits(P) + FromBits(Q)
    BY <2>1, FromBitsAdd
  <2>4. FromBits(P) \in Int /\ FromBits(Q) \in Int /\ FromBits(R) \in Int
    BY FromBitsAdd
  <2> QED
    BY <1>2, <2>2, <2>3, <2>4
<1> QED
  BY <1>3, <1>4, <1>5

LEMMA LeastAndGreatest ==
  ASSUME NEW n \in Nat, NEW S, S \subseteq 0..n, S # {}
  PROVE  Max(S) \in S /\ Min(S) \in S /\ \A i \in S : Max(S) >= i /\ Min(S) <= i
<1> DEFINE HasLeast(R) == \E m \in R : \A i \in R : m <= i
           HasGreatest(R) == \E m \in R : \A i \in R : m >= i
           T == {k \in 0..n : S \cap 0..k # {} => HasLeast(S \cap 0..k) /\ HasGreatest(S \cap 0..k)}
<1>1. 0 \in T
  <2>1. S \cap 0..0 # {} => S \cap 0..0 = {0}
    OBVIOUS
  <2>2. HasLeast({0}) /\ HasGreatest({0})
    OBVIOUS
  <2> QED
    BY <2>1, <2>2
<1>2. ASSUME NEW k \in 1..n, k - 1 \in T
      PROVE  k \in T
  <2> DEFINE R == S \cap 0..(k - 1)
             Q == S \cap 0..k
  <2>1. Q = R \/ (k \in S /\ Q = R \union {k})
    OBVIOUS
  <2>2. \A i \in R : i \in Int /\ i < k
    OBVIOUS
  <2>3. R # {} => HasLeast(R) /\ HasGreatest(R)
    BY <1>2
  <2> HIDE DEF Q, R
  <2>4. ASSUME Q = R \union {k}
        PROVE  HasLeast(Q) /\ HasGreatest(Q)
    <3>1. \A i \in Q : k >= i
      BY <2>2, <2>4
    <3>2. HasGreatest(Q)
      BY <2>4, <3>1
    <3>3. CASE R = {}
      BY <2>4, <3>3
    <3>4. CASE R # {}
      <4>1. PICK m \in R : \A i \in R : m <= i
        BY <2>3, <3>4
      <4>2. m \in Q /\ \A i \in Q : m <= i
        BY <2>2, <2>4, <4>1
      <4> QED
        BY <3>2, <4>2
    <3> QED
      BY <3>2, <3>3, <3>4
  <2>5. Q # {} => HasLeast(Q) /\ HasGreatest(Q)
    BY <2>1, <2>3, <2>4
  <2> HIDE DEF HasLeast, HasGreatest
  <2> QED
    BY <2>5 DEF Q
<1>3. n \in T
  <2>1. 0..n \subseteq T /\ n \in 0..n
    <3> HIDE DEF T
    <3> QED
      BY <1>1, <1>2, Upwards
  <2> QED
    BY <2>1
<1>4. S \cap 0..n = S
  OBVIOUS
<1>5. HasLeast(S) /\ HasGreatest(S)
  <2> HIDE DEF HasLeast, HasGreatest
  <2> QED
    BY <1>3, <1>4
<1> QED
  BY <1>5 DEF Max, Min

(* Above the bits of a number there is nothing left of it.                 *)
LEMMA NothingAbove ==
  ASSUME NEW f, NEW S, BitsFrom(f, S), NEW n \in Nat, f[n] = 0,
         NEW l \in 0..n, \A i \in l..(n - 1) : i \notin S
  PROVE  f[l] = 0
<1> DEFINE T == {i \in 0..n : i >= l => f[i] = 0}
<1>1. n \in T
  OBVIOUS
<1>2. ASSUME NEW i \in 1..n, i \in T
      PROVE  i - 1 \in T
  <2>1. i - 1 \in 0..n /\ i - 1 \in Nat /\ (i - 1) + 1 = i
    OBVIOUS
  <2>2. f[i - 1] = 2 * f[i] + Bit(i - 1, S)
    BY <2>1 DEF BitsFrom
  <2>3. ASSUME i - 1 >= l
        PROVE  f[i - 1] = 0
    <3>1. Bit(i - 1, S) = 0 /\ f[i] = 0
      BY <1>2, <2>3 DEF Bit
    <3> QED
      BY <2>2, <3>1
  <2> QED
    BY <2>1, <2>3
<1>3. 0..n \subseteq T
  <2> HIDE DEF T
  <2> QED
    BY <1>1, <1>2, Downwards
<1> QED
  BY <1>3

(* Below the lowest bit a number is a multiple.                            *)
LEMMA NothingBelow ==
  ASSUME NEW f, NEW S, BitsFrom(f, S), NEW k \in Nat, \A i \in 0..(k - 1) : i \notin S
  PROVE  f[0] = Pow[k] * f[k]
<1> DEFINE T == {i \in 0..k : f[0] = Pow[i] * f[i]}
<1>0. \A i \in Nat : f[i] \in Nat
  BY DEF BitsFrom
<1>1. 0 \in T
  BY <1>0, PowFacts
<1>2. ASSUME NEW i \in 1..k, i - 1 \in T
      PROVE  i \in T
  <2>1. i \in 0..k /\ i \in Nat /\ i - 1 \in 0..(k - 1) /\ i - 1 \in Nat /\ (i - 1) + 1 = i
    OBVIOUS
  <2>2. f[i - 1] = 2 * f[i] + Bit(i - 1, S) /\ Bit(i - 1, S) = 0
    BY <2>1 DEF BitsFrom, Bit
  <2>3. PICK p \in Nat, m \in Nat : p = Pow[i - 1] /\ m = f[i] /\ Pow[i] = 2 * p
    BY <1>0, <2>1, PowFacts
  <2>4. f[0] = p * (2 * m)
    BY <1>2, <2>2, <2>3
  <2>5. p * (2 * m) = (2 * p) * m
    OBVIOUS
  <2> QED
    BY <2>1, <2>3, <2>4, <2>5
<1>3. 0..k \subseteq T /\ k \in 0..k
  <2> HIDE DEF T
  <2> QED
    BY <1>1, <1>2, Upwards
<1> QED
  BY <1>3

(* The length of a word.                                                   *)
LEMMA LengthIs ==
  ASSUME NEW a \in MinInt..MaxInt
  PROVE  /\ WordLength(a) \in 0..(Width - 1)
         /\ a \in (-(2 ^ WordLength(a)))..(2 ^ WordLength(a) - 1)
<1>1. PICK W \in Nat : W = 2 * HalfBits /\ W = Width /\ W >= 2 /\ W - 1 \in Nat /\ (W - 1) + 1 = W
  BY WidthFacts
<1>2. PICK h \in Nat \ {0} : Base = 2 * h /\ MaxInt = h - 1 /\ MinInt = -h /\ h = Pow[W - 1]
  <2>1. PICK h \in Nat \ {0} : Base = 2 * h /\ MaxInt = h - 1 /\ MinInt = -h
    BY BaseIsEven DEF MaxInt, MinInt
  <2>2. Base = Pow[W] /\ Pow[W] = 2 * Pow[W - 1] /\ Pow[W - 1] \in Nat
    BY <1>1, PowIs, PowFacts
  <2> QED
    BY <2>1, <2>2
<1>3. PICK u \in Nat : u = (IF a < 0 THEN -a - 1 ELSE a) /\ u < Pow[W - 1] /\ u \in MinInt..MaxInt /\ a \in Int
  BY <1>2
<1>4. Unsigned(u) = u
  BY <1>3, UnsignedIs
<1>5. PICK f : f = [c \in Nat |-> u \div (1 * Pow[c])] /\ BitsFrom(f, OddAt(u, 1))
  BY <1>3, <1>4, BitsAre
<1>6. \A i \in 0..(W - 1) : i \in Bits(u) <=> i \in OddAt(u, 1)
  BY <1>1, <1>3, <1>4, BitsAre
<1>7. f[W - 1] = 0 /\ W - 1 \notin OddAt(u, 1)
  <2>1. PICK p \in Nat : p = Pow[W - 1] /\ 1 * p = p /\ u < p
    BY <1>1, <1>3, PowFacts
  <2>2. u \div p = 0 /\ 0 % 2 = 0
    BY <2>1, SmallDividend
  <2> QED
    BY <1>1, <1>5, <2>1, <2>2 DEF OddAt
<1>8. Bits(u) \subseteq 0..(W - 2)
  <2>1. \A i \in Bits(u) : i \in 0..(W - 1) /\ i # W - 1
    BY <1>1, <1>6, <1>7 DEF Bits
  <2> QED
    BY <1>1, <2>1
<1>9. PICK l \in 0..(W - 1) : l = WordLength(a) /\ \A i \in l..(W - 2) : i \notin OddAt(u, 1)
  <2>1. WordLength(a) = IF Bits(u) = {} THEN 0 ELSE Max(Bits(u)) + 1
    BY <1>3 DEF WordLength
  <2>2. CASE Bits(u) = {}
    <3>1. \A i \in 0..(W - 2) : i \notin OddAt(u, 1)
      BY <1>6, <2>2
    <3> QED
      BY <1>1, <2>1, <2>2, <3>1
  <2>3. CASE Bits(u) # {}
    <3>1. W - 2 \in Nat
      BY <1>1
    <3>2. PICK m \in Bits(u) : m = Max(Bits(u)) /\ \A i \in Bits(u) : m >= i
      BY <1>8, <2>3, <3>1, LeastAndGreatest
    <3>3. m \in 0..(W - 2) /\ m + 1 \in 0..(W - 1)
      BY <1>8, <3>2
    <3>4. \A i \in (m + 1)..(W - 2) : i \notin OddAt(u, 1)
      BY <1>6, <3>2, <3>3
    <3> QED
      BY <2>1, <2>3, <3>2, <3>3, <3>4
  <2> QED
    BY <2>2, <2>3
<1>10. f[l] = 0
  <2>1. (W - 1) - 1 = W - 2
    BY <1>1
  <2> QED
    BY <1>1, <1>5, <1>7, <1>9, <2>1, NothingAbove
<1>11. PICK p \in Nat \ {0} : p = Pow[l] /\ p = 2 ^ l /\ u < p
  <2>1. l \in Nat /\ l \in 0..(2 * HalfBits)
    BY <1>1
  <2>2. PICK p \in Nat \ {0} : p = Pow[l] /\ p = 2 ^ l /\ 1 * p = p
    BY <2>1, PowFacts, PowIs
  <2>3. u \div p = 0
    BY <1>5, <1>10, <2>1, <2>2
  <2>4. u < p
    <3>1. u = p * 0 + (u % p) /\ u % p \in 0..(p - 1)
      BY <2>3, DivModExists
    <3>2. p * 0 = 0
      OBVIOUS
    <3> QED
      BY <3>1, <3>2
  <2> QED
    BY <2>2, <2>4
<1>12. a \in (-p)..(p - 1)
  BY <1>3, <1>11
<1> QED
  BY <1>1, <1>9, <1>11, <1>12

(* The lowest bit of a word.                                               *)
LEMMA FirstSetBitIs ==
  ASSUME NEW a \in MinInt..MaxInt, a # 0
  PROVE  a % 2 ^ FirstSetBit(a) = 0 /\ BitSetP(FirstSetBit(a), a)
<1>1. PICK W \in Nat : W = 2 * HalfBits /\ W = Width /\ W >= 2 /\ W - 1 \in Nat
  BY WidthFacts
<1>2. PICK u \in Nat : u = Unsigned(a) /\ u = (IF a < 0 THEN a + Base ELSE a) /\ a \in Int
  BY UnsignedIs
<1>3. PICK f : f = [c \in Nat |-> u \div (1 * Pow[c])] /\ BitsFrom(f, OddAt(u, 1))
  BY <1>2, BitsAre
<1>4. Bits(a) = {i \in 0..(W - 1) : i \in OddAt(u, 1)} /\ BitSum(Bits(a)) = u
  BY <1>1, <1>2, BitsAre
<1>5. u # 0
  <2>1. u < Base /\ a # 0
    BY <1>2, UnsignedIs
  <2>2. PICK h \in Nat \ {0} : Base = 2 * h /\ MinInt = -h /\ MaxInt = h - 1
    BY BaseIsEven DEF MaxInt, MinInt
  <2> QED
    BY <1>2, <2>1, <2>2
<1>6. Bits(a) # {}
  BY <1>4, <1>5, BitSumEnds
<1>7. PICK k \in Bits(a) : k = Min(Bits(a)) /\ \A i \in Bits(a) : k <= i
  BY <1>1, <1>4, <1>6, LeastAndGreatest
<1>8. FirstSetBit(a) = k
  BY <1>7 DEF FirstSetBit
<1>9. k \in 0..(W - 1) /\ k \in Nat /\ k \in 0..W
  BY <1>1, <1>4
<1>10. \A i \in 0..(k - 1) : i \notin OddAt(u, 1)
  BY <1>4, <1>7, <1>9
<1>11. f[0] = Pow[k] * f[k]
  BY <1>3, <1>9, <1>10, NothingBelow
<1>12. PICK p \in Nat \ {0}, m \in Nat : p = Pow[k] /\ p = 2 ^ k /\ m = f[k] /\ u = p * m
  <2>1. Pow[k] \in Nat \ {0} /\ Pow[k] = 2 ^ k
    BY <1>1, <1>9, PowFacts, PowIs
  <2>2. f[k] \in Nat
    BY <1>3, <1>9 DEF BitsFrom
  <2>3. f[0] = u
    <3>1. 1 * Pow[0] = 1 /\ u \div 1 = u
      BY PowFacts
    <3> QED
      BY <1>3, <3>1
  <2> QED
    BY <1>11, <2>1, <2>2, <2>3
<1>13. PICK q \in Nat : q = Pow[W - k] /\ Base = p * q
  <2>1. W - k \in Nat /\ k + (W - k) = W
    BY <1>1, <1>9
  <2>2. PICK j \in Nat : j = W - k
    BY <2>1
  <2>3. Pow[k + j] = Pow[k] * Pow[j] /\ Pow[j] \in Nat
    BY <1>9, PowAdds, PowFacts
  <2> QED
    BY <1>1, <1>12, <2>1, <2>2, <2>3, PowIs
<1>14. \E z \in Int : a = p * z
  <2>1. CASE a < 0
    <3>1. p * (m - q) = p * m - p * q
      OBVIOUS
    <3>2. PICK y1 \in Int, y2 \in Int : y1 = p * m /\ y2 = p * q
      OBVIOUS
    <3>3. a = y1 - y2
      BY <1>2, <1>12, <1>13, <2>1, <3>2
    <3> QED
      BY <3>1, <3>2, <3>3
  <2>2. CASE ~(a < 0)
    BY <1>2, <1>12, <2>2
  <2> QED
    BY <2>1, <2>2
<1>15. a % p = 0
  <2>1. PICK z \in Int : a = p * z
    BY <1>14
  <2>2. 0 \in 0..(p - 1) /\ p * z \in Int
    OBVIOUS
  <2>3. (p * z + 0) % p = 0
    BY <2>2, DivMod
  <2> QED
    BY <2>1, <2>2, <2>3
<1> QED
  BY <1>7, <1>8, <1>12, <1>15 DEF BitSetP

-----------------------------------------------------------------------------
(* Shifts and fields.                                                      *)
LEMMA TwoPowers ==
  ASSUME NEW e \in Exponents
  PROVE  /\ e >= 0 => \A k \in 0..e : 2 ^ k = Pow[k]
         /\ e < 0 => \A k \in 0..(-e) : 2 ^ k = Pow[k]
<1>1. e \in Int /\ 2 ^ 0 = 1 /\ Pow[0] = 1
  BY NumbersAssumption, BignumAssumption, PowFacts
<1>2. ASSUME NEW n \in Nat, n = e \/ n = -e
      PROVE  \A k \in 0..n : 2 ^ k = Pow[k]
  <2> DEFINE T == {k \in 0..n : 2 ^ k = Pow[k]}
  <2>1. 0 \in T
    BY <1>1
  <2>2. ASSUME NEW k \in 1..n, k - 1 \in T
        PROVE  k \in T
    <3>1. PICK i \in Nat : i = k - 1 /\ i + 1 = k /\ i \in (0..(e - 1)) \union (0..(1 - e)) /\ k \in 0..n
      BY <1>1, <1>2
    <3>2. PICK b : b = 2
      OBVIOUS
    <3>3. b ^ (i + 1) = b * b ^ i
      BY <3>1, <3>2, NumbersAssumption
    <3>4. 2 ^ i = Pow[i] /\ Pow[i + 1] = 2 * Pow[i]
      BY <2>2, <3>1, PowFacts
    <3> QED
      BY <3>1, <3>2, <3>3, <3>4
  <2>3. 0..n \subseteq T
    <3> HIDE DEF T
    <3> QED
      BY <2>1, <2>2, Upwards
  <2> QED
    BY <2>3
<1>3. ASSUME e >= 0
      PROVE  \A k \in 0..e : 2 ^ k = Pow[k]
  <2>1. e \in Nat
    BY <1>1, <1>3
  <2> QED
    BY <1>2, <2>1
<1>4. ASSUME e < 0
      PROVE  \A k \in 0..(-e) : 2 ^ k = Pow[k]
  <2>1. -e \in Nat
    BY <1>1, <1>4
  <2>2. PICK n \in Nat : n = -e
    BY <2>1
  <2> QED
    BY <1>2, <2>2
<1> QED
  BY <1>3, <1>4

LEMMA WrapOver ==
  ASSUME NEW q \in MinInt..MaxInt
  PROVE  Wrap(q + Base) = q
<1>1. PICK h \in Nat \ {0} : Base = 2 * h /\ Base \div 2 = h /\ MaxInt = h - 1 /\ MinInt = -h
  BY BaseIsEven DEF MaxInt, MinInt
<1>2. PICK B \in Nat \ {0} : B = Base /\ q \in Int /\ q + h \in 0..(B - 1)
  BY <1>1
<1>3. (B * 1 + (q + h)) % B = q + h
  <2>1. PICK p \in 0..(B - 1) : p = q + h
    BY <1>2
  <2>2. (B * 1 + p) % B = p
    BY DivMod
  <2> QED
    BY <2>1, <2>2
<1>4. B * 1 + (q + h) = (q + B) + h
  BY <1>2
<1> QED
  BY <1>1, <1>2, <1>3, <1>4 DEF Wrap

LEMMA WrapModulo ==
  ASSUME NEW w \in Nat, w < Base
  PROVE  Wrap(w) % Base = w
<1>1. PICK h \in Nat \ {0} : Base = 2 * h /\ Base \div 2 = h /\ MaxInt = h - 1 /\ MinInt = -h
  BY BaseIsEven DEF MaxInt, MinInt
<1>2. PICK B \in Nat \ {0} : B = Base /\ w \in 0..(B - 1)
  BY <1>1
<1>3. CASE w < h
  <2>1. Wrap(w) = w
    BY <1>1, <1>3, WrapKeeps DEF Fits
  <2> QED
    BY <1>2, <2>1, SmallModulo
<1>4. CASE ~(w < h)
  <2>1. w - B \in MinInt..MaxInt /\ (w - B) + Base = w
    BY <1>1, <1>2, <1>4
  <2>2. Wrap((w - B) + Base) = w - B
    BY <2>1, WrapOver
  <2>3. (B * (-1) + w) % B = w
    BY <1>2, DivMod
  <2>4. B * (-1) + w = w - B
    OBVIOUS
  <2> QED
    BY <1>2, <2>1, <2>2, <2>3, <2>4
<1> QED
  BY <1>3, <1>4

(* A shift to the right is a division that rounds down.                    *)
LEMMA AshRight ==
  ASSUME NEW a \in MinInt..MaxInt, NEW n \in Exponents, n < 0
  PROVE  Ash(a, n) = a \div 2 ^ (-n)
<1>1. PICK W \in Nat : W = 2 * HalfBits /\ W = Width /\ W >= 2
  BY WidthFacts
<1>2. PICK h \in Nat \ {0} : Base = 2 * h /\ MaxInt = h - 1 /\ MinInt = -h /\ Base = Pow[W]
  BY <1>1, BaseIsEven, PowIs DEF MaxInt, MinInt
<1>3. n \in Int /\ a \in Int
  BY <1>2, NumbersAssumption
<1>4. PICK k \in Nat \ {0} : k = -n
  BY <1>3
<1>5. PICK p \in Nat \ {0} : p = 2 ^ k /\ p = Pow[k]
  <2>1. k \in 0..(-n)
    BY <1>3, <1>4
  <2>2. 2 ^ k = Pow[k] /\ Pow[k] \in Nat /\ Pow[k] >= 1
    BY <2>1, TwoPowers, PowFacts
  <2> QED
    BY <2>2
<1>6. PICK q \in Int, r \in 0..(p - 1) : a = p * q + r /\ q = a \div p
  <2>1. a \div p \in Int /\ a % p \in 0..(p - 1) /\ a = p * (a \div p) + (a % p)
    BY <1>3
  <2> QED
    BY <2>1
<1>7. CASE k >= W
  <2>1. 2 * h <= p
    BY <1>1, <1>2, <1>5, <1>7, PowMonotone
  <2>2. CASE a < 0
    <3>1. a + p \in 0..(p - 1)
      BY <1>2, <1>3, <2>1, <2>2
    <3>2. (p * (-1) + (a + p)) \div p = -1
      BY <3>1, DivMod
    <3>3. p * (-1) + (a + p) = a
      BY <1>3
    <3>4. Ash(a, n) = -1
      BY <1>1, <1>3, <1>4, <1>7, <2>2 DEF Ash
    <3> QED
      BY <1>4, <1>5, <3>2, <3>3, <3>4
  <2>3. CASE ~(a < 0)
    <3>1. a \in Nat /\ a < p
      BY <1>2, <1>3, <2>1, <2>3
    <3>2. a \div p = 0
      BY <3>1, SmallDividend
    <3>3. Ash(a, n) = 0
      BY <1>1, <1>3, <1>4, <1>7, <2>3 DEF Ash
    <3> QED
      BY <1>4, <1>5, <3>2, <3>3
  <2> QED
    BY <2>2, <2>3
<1>8. CASE k < W
  <2>1. PICK j \in Nat : j = W - k /\ k + j = W
    BY <1>8
  <2>2. PICK c \in Nat : c = 2 ^ j /\ 2 * h = p * c
    <3>1. Pow[k + j] = Pow[k] * Pow[j] /\ Pow[j] \in Nat
      BY PowAdds, PowFacts
    <3>2. 2 ^ j = Pow[j]
      BY <1>1, <2>1, PowIs
    <3> QED
      BY <1>2, <1>5, <2>1, <3>1, <3>2
  <2>3. PICK s \in Int : s = IF a < 0 THEN 2 * h - c ELSE 0
    <3>1. 2 * h - c \in Int /\ 0 \in Int
      BY <2>2
    <3> QED
      BY <3>1
  <2>4. Ash(a, n) = Wrap(Unsigned(a) \div p + s)
    <3>1. Width + n = j
      BY <1>1, <1>3, <1>4, <2>1
    <3>2. ~(-n >= Width)
      BY <1>1, <1>3, <1>4, <1>8
    <3> QED
      BY <1>2, <1>4, <1>5, <2>2, <2>3, <3>1, <3>2 DEF Ash, Unsigned
  <2>5. q \in MinInt..MaxInt
    <3>1. CASE q >= 1
      <4>1. p * q >= q
        BY <3>1
      <4>2. PICK z \in Int : z = p * q
        OBVIOUS
      <4> QED
        BY <1>2, <1>3, <1>6, <3>1, <4>1, <4>2
    <3>2. CASE q = 0
      BY <1>2, <3>2
    <3>3. CASE q <= -1
      <4>1. PICK m \in Nat : m = -q /\ m >= 1
        BY <3>3
      <4>2. (p - 1) * (m - 1) >= 0
        BY <4>1, SMTT(60)
      <4>3. (p - 1) * (m - 1) = p * m - p - m + 1
        OBVIOUS
      <4>4. p * q = -(p * m)
        BY <4>1
      <4>5. PICK z \in Int : z = p * m
        OBVIOUS
      <4>6. -m >= -h
        BY <1>2, <1>3, <1>6, <4>1, <4>2, <4>3, <4>4, <4>5
      <4> QED
        BY <1>2, <3>3, <4>1, <4>6
    <3> QED
      BY <3>1, <3>2, <3>3
  <2>6. CASE a < 0
    <3>1. Unsigned(a) = p * (q + c) + r
      <4>1. p * (q + c) = p * q + p * c
        OBVIOUS
      <4>2. PICK y1 \in Int, y2 \in Int : y1 = p * q /\ y2 = p * c
        OBVIOUS
      <4>3. Unsigned(a) = a + 2 * h
        BY <1>2, <2>6, UnsignedIs
      <4> QED
        BY <1>6, <2>2, <4>1, <4>2, <4>3
    <3>2. (p * (q + c) + r) \div p = q + c
      BY DivMod
    <3>3. Ash(a, n) = Wrap((q + c) + (2 * h - c))
      BY <2>3, <2>4, <2>6, <3>1, <3>2
    <3>4. Wrap((q + c) + (2 * h - c)) = q
      BY <1>2, <2>5, WrapOver
    <3> QED
      BY <1>4, <1>5, <1>6, <3>3, <3>4
  <2>7. CASE ~(a < 0)
    <3>1. Unsigned(a) = p * q + r
      BY <1>6, <2>7, UnsignedIs
    <3>2. (p * q + r) \div p = q
      BY DivMod
    <3>3. Ash(a, n) = Wrap(q)
      BY <2>3, <2>4, <2>7, <3>1, <3>2
    <3> QED
      BY <1>4, <1>5, <1>6, <2>5, <3>3, WrapKeeps DEF Fits
  <2> QED
    BY <2>6, <2>7
<1> QED
  BY <1>7, <1>8

(* A shift to the left is a multiplication, when the product fits.         *)
LEMMA AshLeft ==
  ASSUME NEW a \in MinInt..MaxInt, NEW n \in Exponents, n >= 0, Fits(a * 2 ^ n)
  PROVE  Ash(a, n) = a * 2 ^ n
<1>1. PICK W \in Nat : W = 2 * HalfBits /\ W = Width /\ W >= 2
  BY WidthFacts
<1>2. PICK h \in Nat \ {0} : Base = 2 * h /\ MaxInt = h - 1 /\ MinInt = -h /\ Base = Pow[W]
  BY <1>1, BaseIsEven, PowIs DEF MaxInt, MinInt
<1>3. n \in Nat /\ a \in Int
  BY <1>2, NumbersAssumption
<1>4. PICK p \in Nat : p = 2 ^ n /\ p = Pow[n]
  <2>1. n \in 0..n
    BY <1>3
  <2> QED
    BY <1>3, <2>1, TwoPowers, PowFacts
<1>5. CASE n < W
  <2>1. Ash(a, n) = Wrap(a * 2 ^ n)
    BY <1>1, <1>3, <1>5 DEF Ash
  <2>2. a * p \in Int
    BY <1>3
  <2> QED
    BY <1>4, <2>1, <2>2, WrapKeeps
<1>6. CASE n >= W
  <2>1. Ash(a, n) = 0
    BY <1>1, <1>3, <1>6 DEF Ash
  <2>2. 2 * h <= p
    BY <1>1, <1>2, <1>3, <1>4, <1>6, PowMonotone
  <2>3. a * p \in (-h)..(h - 1)
    BY <1>2, <1>4 DEF Fits
  <2>4. a = 0
    <3>1. ASSUME a >= 1
          PROVE  FALSE
      <4>1. a * p >= p
        BY <1>3, <3>1
      <4>2. PICK z \in Int : z = a * p
        BY <1>3
      <4> QED
        BY <2>2, <2>3, <4>1, <4>2
    <3>2. ASSUME a <= -1
          PROVE  FALSE
      <4>1. PICK m \in Nat : m = -a /\ m >= 1
        BY <1>3, <3>2
      <4>2. m * p >= p
        BY <4>1
      <4>3. a * p = -(m * p)
        BY <1>3, <4>1
      <4>4. PICK z \in Int : z = m * p
        OBVIOUS
      <4> QED
        BY <2>2, <2>3, <4>2, <4>3, <4>4
    <3> QED
      BY <1>3, <3>1, <3>2
  <2>5. a * p = 0
    BY <2>4
  <2> QED
    BY <1>4, <2>1, <2>5
<1> QED
  BY <1>3, <1>5, <1>6

(* A field is what a division leaves.                                      *)
LEMMA BitFieldIs ==
  ASSUME NEW a \in MinInt..MaxInt, NEW n \in Exponents, n >= 0, NEW s \in 0..n
  PROVE  BitField(a, s, n) % Base = ((a % Base) \div 2 ^ s) % 2 ^ (n - s)
<1>1. PICK W \in Nat : W = 2 * HalfBits /\ W = Width /\ W >= 2 /\ Base = Pow[W]
  BY WidthFacts, PowIs
<1>2. PICK B \in Nat \ {0} : B = Base
  BY LimbFacts
<1>3. n \in Nat
  BY NumbersAssumption
<1>4. PICK d \in Nat : d = n - s /\ d \in 0..n
  BY <1>3
<1>5. PICK p \in Nat \ {0}, q \in Nat \ {0} : p = 2 ^ s /\ p = Pow[s] /\ q = 2 ^ d /\ q = Pow[d]
  <2>1. s \in Nat /\ 2 ^ s = Pow[s] /\ 2 ^ d = Pow[d]
    BY <1>3, <1>4, TwoPowers
  <2>2. Pow[s] \in Nat \ {0} /\ Pow[d] \in Nat \ {0}
    BY <2>1, PowFacts
  <2> QED
    BY <2>1, <2>2
<1>6. PICK u \in Nat : u = a % Base /\ u < B
  BY <1>2, UnsignedIs DEF Unsigned
<1>7. PICK z \in Nat : z = u \div p /\ z < B
  <2>1. PICK c \in Nat, r \in 0..(p - 1) : c = u \div p /\ u = p * c + r
    BY DivModExists, ZenonT(60)
  <2>2. p * c >= c
    OBVIOUS
  <2>3. PICK y1 \in Nat : y1 = p * c
    OBVIOUS
  <2> QED
    BY <1>6, <2>1, <2>2, <2>3
<1>8. ASSUME NEW w \in Nat, w < B
      PROVE  Wrap(w) % Base = w
  BY <1>2, <1>8, WrapModulo
<1>9. CASE s >= W
  <2>1. BitField(a, s, n) = 0
    BY <1>1, <1>9 DEF BitField
  <2>2. u \div p = 0
    <3>1. s \in Nat /\ B <= p
      BY <1>1, <1>2, <1>3, <1>5, <1>9, PowMonotone
    <3>2. u < p
      BY <1>6, <3>1
    <3> QED
      BY <3>2, SmallDividend
  <2>3. 0 % q = 0 /\ 0 % B = 0
    BY SmallModulo
  <2> QED
    BY <1>2, <1>4, <1>5, <1>6, <2>1, <2>2, <2>3
<1>10. CASE ~(s >= W) /\ d >= W
  <2>1. BitField(a, s, n) = Wrap(z)
    BY <1>1, <1>4, <1>5, <1>6, <1>7, <1>10 DEF BitField
  <2>2. z % q = z
    <3>1. B <= q
      BY <1>1, <1>2, <1>5, <1>10, PowMonotone
    <3>2. z < q
      BY <1>7, <3>1
    <3> QED
      BY <3>2, SmallDividend
  <2> QED
    BY <1>4, <1>5, <1>6, <1>7, <1>8, <2>1, <2>2
<1>11. CASE ~(s >= W) /\ ~(d >= W)
  <2>1. BitField(a, s, n) = Wrap(z % q)
    BY <1>1, <1>4, <1>5, <1>6, <1>7, <1>11 DEF BitField
  <2>2. PICK w \in Nat : w = z % q /\ w < B
    <3>1. PICK c \in Nat, r \in 0..(q - 1) : r = z % q /\ z = q * c + r
      BY DivModExists, ZenonT(60)
    <3>2. PICK y1 \in Nat : y1 = q * c
      OBVIOUS
    <3> QED
      BY <1>7, <3>1, <3>2
  <2> QED
    BY <1>4, <1>5, <1>6, <1>7, <1>8, <2>1, <2>2
<1> QED
  BY <1>9, <1>10, <1>11

LEMMA BitsHold == NumbersInv => BitsAreRight
<1> SUFFICES ASSUME NumbersInv, IsFix(x)
             PROVE  BitsAreRight
  BY DEF BitsAreRight
<1>1. \A v : Number(v) /\ IsFix(v) => v.n \in MinInt..MaxInt
  <2>1. ASSUME NEW v, Number(v), IsFix(v)
        PROVE  v.n \in MinInt..MaxInt
    <3>1. Integer(v)
      BY <2>1, IntegersAreIntegers DEF IsInteger
    <3> QED
      BY <2>1, <3>1, IntegerForms DEF WordOf, BigOf
  <2> QED
    BY <2>1
<1>2. PICK a \in MinInt..MaxInt : a = x.n /\ a \in Int /\ -a - 1 \in MinInt..MaxInt
  <2>1. x.n \in MinInt..MaxInt
    BY <1>1 DEF NumbersInv
  <2> QED
    BY <2>1, WordFacts
<1>3. ASSUME NEW n \in Exponents
      PROVE  /\ n < 0 => Ash(a, n) = a \div 2 ^ (-n)
             /\ n >= 0 /\ Fits(a * 2 ^ n) => Ash(a, n) = a * 2 ^ n
             /\ n >= 0 => \A s \in Exponents \cap 0..n :
                  BitField(a, s, n) % Base = ((a % Base) \div 2 ^ s) % 2 ^ (n - s)
  <2>1. n < 0 => Ash(a, n) = a \div 2 ^ (-n)
    BY AshRight
  <2>2. n >= 0 /\ Fits(a * 2 ^ n) => Ash(a, n) = a * 2 ^ n
    BY AshLeft
  <2>3. n >= 0 => \A s \in Exponents \cap 0..n :
          BitField(a, s, n) % Base = ((a % Base) \div 2 ^ s) % 2 ^ (n - s)
    BY BitFieldIs
  <2> QED
    BY <2>1, <2>2, <2>3
<1>4. BitwiseNot(a) = -a - 1
  BY BitwiseIs
<1>5. WordLength(a) < Width /\ a \in (-(2 ^ WordLength(a)))..(2 ^ WordLength(a) - 1)
  BY LengthIs, WidthFacts
<1>6. a # 0 => a % 2 ^ FirstSetBit(a) = 0 /\ BitSetP(FirstSetBit(a), a)
  BY FirstSetBitIs
<1>7. BitCount(BitwiseNot(a)) = BitCount(a)
  <2>1. PICK m \in Int : m = -a - 1 /\ m = BitwiseNot(a)
    BY <1>2, <1>4
  <2>2. (IF m < 0 THEN -m - 1 ELSE m) = (IF a < 0 THEN -a - 1 ELSE a)
    BY <1>2, <2>1
  <2> QED
    BY <2>1, <2>2, Zenon DEF BitCount
<1>8. ASSUME IsFix(y)
      PROVE  /\ BitwiseAnd(a, y.n) + BitwiseIor(a, y.n) = a + y.n
             /\ BitwiseIor(a, y.n) - BitwiseAnd(a, y.n) = BitwiseXor(a, y.n)
  <2>1. y.n \in MinInt..MaxInt
    BY <1>1, <1>8 DEF NumbersInv
  <2> QED
    BY <2>1, BitwiseIs
<1> QED
  BY <1>2, <1>3, <1>4, <1>5, <1>6, <1>7, <1>8, Zenon DEF BitsAreRight

(* What the integer operations promise is kept in every state: division,   *)
(* divisors, powers, roundings and bits.                                   *)
THEOREM IntegersKeepRight == Spec => []IntegersAreRight
<1>1. NumbersInv => PowersAgree /\ BitsAreRight
  BY PowersHold, BitsHold
<1>2. Spec => [](IntegerDivision /\ GcdAndLcm /\ RoundingIsRight)
  BY DivisionsKeep
<1>3. PowersAgree /\ BitsAreRight /\ (IntegerDivision /\ GcdAndLcm /\ RoundingIsRight) => IntegersAreRight
  BY DEF IntegersAreRight
<1> QED
  BY <1>1, <1>2, <1>3, NumbersKeep, PTL
=============================================================================
