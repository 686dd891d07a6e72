-------------------------------- MODULE Numbers --------------------------------
(***************************************************************************)
(* The exact numbers of Scheme: fixnums of one machine word, big integers, *)
(* and ratios of two fixnums.  Two registers hold numbers a program has    *)
(* read or computed; each action applies one arithmetic procedure to them. *)
(* Inexact (real and complex) numbers are opaque: a procedure that leaves  *)
(* the exact numbers gives Inexact, which no register keeps.               *)
(***************************************************************************)
EXTENDS Bignum

CONSTANTS
  Literals,    \* integers that the program text holds
  Ratios,      \* <<nu, de>>: ratios that the program text holds
  Exponents,   \* second arguments of expt, shifts and bit positions
  MaxLimbs,    \* bound: larger results are not kept
  MaxSteps     \* bound: number of results kept

VARIABLES
  x, y,    \* two numbers
  steps    \* results kept so far

vars == <<x, y, steps>>

-----------------------------------------------------------------------------
Width == 2 * HalfBits
MaxInt == Base \div 2 - 1
MinInt == -MaxInt - 1

ASSUME NumbersAssumption ==
  /\ Literals \subseteq Int /\ Exponents \subseteq Int
  /\ \A r \in Ratios : r[1] \in (-MaxInt)..MaxInt /\ r[2] \in 1..MaxInt
  \* As in BignumAssumption: what a prover has to be told of powers.
  /\ \A b \in {2, Radix}, e \in Exponents :
       \A k \in (0..(e - 1)) \union (0..(1 - e)) : b ^ (k + 1) = b * b ^ k
  /\ MaxLimbs \in Nat \ {0} /\ MaxSteps \in Nat
  /\ Base >= 64   \* 2^64 in the code; the ratios compared below need six bits

(* What is left of an integer in a word, and in a C int of half a word.    *)
Wrap(n) == ((n + Base \div 2) % Base) - Base \div 2
Narrow(n) == ((n + Half \div 2) % Half) - Half \div 2

Abs(n) == IF n < 0 THEN -n ELSE n
CAbs(n) == Wrap(Abs(n))   \* std::abs

(* Division as C does it, towards zero.                                    *)
CDiv(a, b) == IF (a < 0) = (b < 0) THEN Abs(a) \div Abs(b) ELSE -(Abs(a) \div Abs(b))
CMod(a, b) == a - b * CDiv(a, b)

Fix(n) == [n |-> n]
Ratio(nu, de) == [nu |-> nu, de |-> de]
Inexact == [real |-> TRUE]
Undefined == [undefined |-> TRUE]   \* a fault, or an object of the wrong type read

IsFix(v) == DOMAIN v = {"n"}
IsBig(v) == DOMAIN v = {"sign", "data"}
IsRatio(v) == DOMAIN v = {"nu", "de"}
IsInteger(v) == IsFix(v) \/ IsBig(v)
Exact(v) == IsInteger(v) \/ IsRatio(v)

(* The rational number a value stands for.                                 *)
Num(v) == IF IsFix(v) THEN v.n ELSE IF IsBig(v) THEN BigVal(v) ELSE v.nu
Den(v) == IF IsRatio(v) THEN v.de ELSE 1
SameNumber(v, w) == Num(v) * Den(w) = Num(w) * Den(v)

(* numbigfromi; bigsetvt, which brings a small big integer back to a word; *)
(* simplifyratio.                                                          *)
NumBigFromI(n) == Big(IF n < 0 THEN -1 ELSE 1, <<Abs(n)>>)

(* Mutant: a result stays a big integer.                                   *)
BigSetVTNever(a) == Normalize(a)

BigSetVT(a) ==
  LET b == Normalize(a)
  IN  IF Len(b.data) = 1 /\ b.data[1] <= MaxInt THEN Fix(b.sign * b.data[1]) ELSE b

SimplifyRatio(nu, de) ==
  IF de = 1 THEN Fix(nu) ELSE IF de = -1 THEN Fix(Wrap(-nu)) ELSE Ratio(nu, de)

(* The two arguments of an operation brought to one type.  A ratio and a   *)
(* big integer stay different: the big one becomes a real.                 *)
Up(v, w) ==
  IF IsFix(v) /\ IsRatio(w) THEN Ratio(v.n, 1)
  ELSE IF IsFix(v) /\ IsBig(w) THEN NumBigFromI(v.n)
  ELSE v

NumSyncType(v, w) == <<Up(v, w), Up(w, v)>>
Mismatched(v, w) == (IsRatio(v) /\ IsBig(w)) \/ (IsBig(v) /\ IsRatio(w))

-----------------------------------------------------------------------------
(* gcd and lcm of words.                                                   *)
WordGcd(a, b) ==
  LET euclid[p \in Int \X Int] ==
        IF p[2] = 0 THEN p[1] ELSE euclid[<<p[2], CMod(p[1], p[2])>>]
  IN  euclid[<<CAbs(a), CAbs(b)>>]

WordLcm(a, b) == CAbs(CDiv(Wrap(a * b), WordGcd(a, b)))

(* Whether the sum, the difference or the product of words leaves a word.  *)
Fits(n) == n \in MinInt..MaxInt
AddOverflow(a, b) == (b > 0 /\ a > MaxInt - b) \/ (b < 0 /\ a < MinInt - b)
SubOverflow(a, b) == (b > 0 /\ a < MinInt + b) \/ (b < 0 /\ a > MaxInt + b)
MulOverflow(a, b) ==
  IF a > 0 THEN IF b > 0 THEN a > CDiv(MaxInt, b) ELSE b < CDiv(MinInt, a)
  ELSE IF b > 0 THEN a < CDiv(MinInt, b) ELSE a # 0 /\ b < CDiv(MaxInt, a)

(* Ratios over their common denominator.                                   *)
OverCommon(v, w) ==
  LET de == WordLcm(v.de, w.de)
  IN  [nu1 |-> Wrap(v.nu * CDiv(de, v.de)), nu2 |-> Wrap(w.nu * CDiv(de, w.de)), de |-> de]

NumAdd(v, w) ==
  LET p == NumSyncType(v, w)
      a == p[1]
      b == p[2]
      c == OverCommon(a, b)
  IN  IF Mismatched(v, w) THEN Undefined
      ELSE CASE IsFix(a) -> IF ~AddOverflow(a.n, b.n) THEN Fix(Wrap(a.n + b.n))
                            ELSE BigSetVT(BigAdd(NumBigFromI(a.n), NumBigFromI(b.n)))
             [] IsBig(a) -> BigSetVT(BigAdd(a, b))
             [] IsRatio(a) -> SimplifyRatio(Wrap(c.nu1 + c.nu2), c.de)

(* same: both arguments are one object.                                    *)
NumSubtract(v, w, same) ==
  LET p == NumSyncType(v, w)
      a == p[1]
      b == p[2]
      c == OverCommon(a, b)
  IN  IF Mismatched(v, w) THEN Undefined
      ELSE CASE IsFix(a) -> IF ~SubOverflow(a.n, b.n) THEN Fix(a.n - b.n)
                            ELSE BigSetVT(BigSub(NumBigFromI(a.n), NumBigFromI(b.n), FALSE))
             [] IsBig(a) -> BigSetVT(BigSub(a, b, same))
             [] IsRatio(a) -> SimplifyRatio(Wrap(c.nu1 - c.nu2), c.de)

NumMultiply(v, w) ==
  LET p == NumSyncType(v, w)
      a == p[1]
      b == p[2]
  IN  IF Mismatched(v, w) THEN Undefined
      ELSE CASE IsFix(a) -> IF ~MulOverflow(a.n, b.n) THEN Fix(a.n * b.n)
                            ELSE BigSetVT(BigMul(NumBigFromI(a.n), NumBigFromI(b.n)))
             [] IsBig(a) -> BigSetVT(BigMul(a, b))
             [] IsRatio(a) -> SimplifyRatio(Wrap(a.nu * b.nu), Wrap(a.de * b.de))

(* Defined when w is not zero.                                             *)
NumDivide(v, w) ==
  LET p == NumSyncType(v, w)
      a == p[1]
      b == p[2]
      gd == WordGcd(a.n, b.n)
  IN  IF Mismatched(v, w) THEN Undefined
      ELSE CASE IsFix(a) -> IF \/ a.n = MinInt /\ b.n = -1
                               \/ gd = -1 /\ MinInt \in {a.n, b.n} THEN Undefined
                            ELSE IF CMod(a.n, b.n) = 0 THEN Fix(CDiv(a.n, b.n))
                            ELSE SimplifyRatio(CDiv(a.n, gd), CDiv(b.n, gd))
             [] IsBig(a) -> IF IsZero(DivAbs(a, b).rem) THEN BigSetVT(BigDiv(a, b)) ELSE Inexact
             [] IsRatio(a) -> SimplifyRatio(Wrap(a.nu * b.de), Wrap(a.de * b.nu))

IsNumZero(v) == Num(v) = 0

-----------------------------------------------------------------------------
(* Integer division, defined for integers w # 0.                           *)
NumQuotient(v, w) ==
  LET p == NumSyncType(v, w)
  IN  IF IsFix(v) /\ IsFix(w)
      THEN IF v.n = MinInt /\ w.n = -1 THEN Undefined ELSE Fix(CDiv(v.n, w.n))
      ELSE BigSetVT(BigDiv(p[1], p[2]))

(* Mutant: the remainder keeps its sign.                                   *)
NumModuloUnsigned(v, w) ==
  LET p == NumSyncType(v, w)
  IN  IF IsFix(v) /\ IsFix(w) THEN Fix(CMod(v.n, w.n)) ELSE BigSetVT(BigMod(p[1], p[2]))

NumModulo(v, w) ==
  LET p == NumSyncType(v, w)
      rem == CMod(v.n, w.n)
      r == BigMod(p[1], p[2])
      turned == SubAbs(Signed(1, p[2]), r)
  IN  IF IsFix(v) /\ IsFix(w)
      THEN IF v.n = MinInt /\ w.n = -1 THEN Undefined
           ELSE Fix(IF rem # 0 /\ (rem < 0) # (w.n < 0) THEN rem + w.n ELSE rem)
      ELSE BigSetVT(Signed(p[2].sign, IF ~IsZero(r) /\ p[1].sign # p[2].sign THEN turned ELSE r))

(* The absolute values are taken of C ints: half of a word.                *)
NumRemainder(v, w) ==
  LET p == NumSyncType(v, w)
      na == Narrow(v.n)
      nb == Narrow(w.n)
      rem == CMod(Narrow(Abs(na)), Narrow(Abs(nb)))
  IN  IF IsFix(v) /\ IsFix(w)
      THEN IF nb = 0 THEN Undefined ELSE Fix(IF v.n < 0 THEN -rem ELSE rem)
      ELSE BigSetVT(BigMod(p[1], p[2]))

(* gcd: the result, and what becomes of the two arguments: a big integer   *)
(* that comes out as the result is the argument itself, whose sign is set. *)
NumGcd(v, w) ==
  LET p == NumSyncType(v, w)
      g == Signed(1, Normalize(BigGcd(p[1], p[2])))
      isfirst == IsBig(v) /\ IsZero(p[2])
      issecond == IsBig(w) /\ ~IsZero(p[2]) /\ IsZero(BigMod(p[1], p[2]))
  IN  IF IsFix(v) /\ IsFix(w)
      THEN [gcd |-> Fix(CAbs(WordGcd(v.n, w.n))), first |-> v, second |-> w]
      ELSE [gcd |-> BigSetVT(g),
            first |-> IF isfirst THEN Signed(1, v) ELSE v,
            second |-> IF issecond THEN Signed(1, w) ELSE w]

NumLcm(v, w) ==
  LET p == NumSyncType(v, w)
      abs(l) == IF IsFix(l) THEN Fix(Abs(l.n)) ELSE Signed(1, l)
  IN  IF IsFix(v) /\ IsFix(w)
      THEN IF v.n = 0 /\ w.n = 0 THEN Undefined ELSE Fix(WordLcm(v.n, w.n))
      ELSE abs(BigSetVT(BigLcm(p[1], p[2])))

(* expt with an integer base, by squaring.                                 *)
NumExpt(v, e) ==
  LET start(b) == [result |-> Big(1, <<1>>), base |-> b, exp |-> e]
      step(s) ==
        IF s.exp = 0 THEN s
        ELSE [result |-> IF s.exp % 2 = 1 THEN BigMul(s.result, s.base) ELSE s.result,
              base |-> IF s.exp > 1 THEN BigMul(s.base, s.base) ELSE s.base,
              exp |-> s.exp \div 2]
      power(b) ==   \* e steps are more than enough
        LET loop[i \in 0..e] == IF i = 0 THEN start(b) ELSE step(loop[i - 1])
        IN  loop[e].result
  IN  IF IsFix(v) /\ v.n \in {1, -1} THEN Fix(IF v.n = -1 /\ e % 2 = 1 THEN -1 ELSE 1)
      ELSE IF e < 0 THEN Inexact
      ELSE IF e = 0 THEN Fix(1)
      ELSE BigSetVT(power(IF IsFix(v) THEN NumBigFromI(v.n) ELSE v))

-----------------------------------------------------------------------------
(* Order.  Ratios with equal numerators, or equal denominators, are not    *)
(* brought to their common denominator.                                    *)
NumLessP(v, w) ==
  LET p == NumSyncType(v, w)
      a == p[1]
      b == p[2]
      c == OverCommon(a, b)
  IN  CASE IsFix(a) -> a.n < b.n
        [] IsBig(a) -> Cmp(a, b) < 0
        [] IsRatio(a) -> /\ ~(a.de = b.de /\ a.nu >= b.nu)
                         /\ ~(a.nu = b.nu /\ a.de <= b.de)
                         /\ c.nu1 < c.nu2

NumBiggerP(v, w) ==
  LET p == NumSyncType(v, w)
      a == p[1]
      b == p[2]
      c == OverCommon(a, b)
  IN  CASE IsFix(a) -> a.n > b.n
        [] IsBig(a) -> Cmp(a, b) > 0
        [] IsRatio(a) -> /\ ~(a.de = b.de /\ a.nu <= b.nu)
                         /\ ~(a.nu = b.nu /\ a.de >= b.de)
                         /\ c.nu1 > c.nu2

NumEqualP(v, w) ==
  LET p == NumSyncType(v, w)
      a == p[1]
      b == p[2]
      c == OverCommon(a, b)
  IN  CASE IsFix(a) -> a.n = b.n
        [] IsBig(a) -> Cmp(a, b) = 0
        [] IsRatio(a) -> IF a.de = b.de THEN a.nu = b.nu ELSE c.nu1 = c.nu2

(* max and min give back the argument as it was converted.                 *)
NumMax(v, w) ==
  LET p == NumSyncType(v, w) IN IF NumBiggerP(w, v) THEN p[2] ELSE p[1]
NumMin(v, w) ==
  LET p == NumSyncType(v, w) IN IF NumLessP(w, v) THEN p[2] ELSE p[1]

NumAbs(v) ==
  LET p == NumSyncType(v, Fix(0))
  IN  IF NumLessP(v, Fix(0)) THEN NumSubtract(Fix(0), v, FALSE) ELSE p[1]

-----------------------------------------------------------------------------
(* Rounding of a fixnum or a ratio to an integer.                          *)
FloorOf(nu, de) ==
  LET q == CDiv(nu, de)
  IN  IF CMod(nu, de) # 0 /\ (nu < 0) # (de < 0) THEN q - 1 ELSE q

NumFloor(v) == IF IsFix(v) THEN v ELSE Fix(FloorOf(v.nu, v.de))
NumCeiling(v) == IF IsFix(v) THEN v ELSE Fix(Wrap(-FloorOf(Wrap(-v.nu), v.de)))
NumTruncate(v) == IF IsFix(v) THEN v ELSE Fix(CDiv(v.nu, v.de))

ExactRound(nu, de) ==
  LET q == CDiv(nu, de)
      twice == 2 * Abs(CMod(nu, de))
      away == IF (nu < 0) # (de < 0) THEN q - 1 ELSE q + 1
  IN  IF twice > Abs(de) \/ (twice = Abs(de) /\ q % 2 # 0) THEN away ELSE q

NumRound(v) == IF IsFix(v) THEN v ELSE Fix(ExactRound(v.nu, v.de))

-----------------------------------------------------------------------------
(* Bitwise operations, on the bits of a word.                              *)
Bits(n) == {i \in 0..(Width - 1) : ((n % Base) \div 2 ^ i) % 2 = 1}
FromBits(s) == Wrap(BitSum(s))

BitwiseNot(a) == FromBits((0..(Width - 1)) \ Bits(a))
BitwiseAnd(a, b) == FromBits(Bits(a) \cap Bits(b))
BitwiseIor(a, b) == FromBits(Bits(a) \union Bits(b))
BitwiseXor(a, b) == FromBits((Bits(a) \union Bits(b)) \ (Bits(a) \cap Bits(b)))

Ash(a, n) ==
  LET sign == IF a < 0 THEN Base - 2 ^ (Width + n) ELSE 0
  IN  IF n < 0 THEN IF -n >= Width THEN (IF a < 0 THEN -1 ELSE 0)
                    ELSE Wrap((a % Base) \div 2 ^ (-n) + sign)
      ELSE IF n >= Width THEN 0 ELSE Wrap(a * 2 ^ n)

BitCount(a) == Cardinality(Bits(IF a < 0 THEN -a - 1 ELSE a))
WordLength(a) ==
  LET bits == Bits(IF a < 0 THEN -a - 1 ELSE a)
  IN  IF bits = {} THEN 0 ELSE Max(bits) + 1
BitSetP(i, a) == i \in Bits(a)
FirstSetBit(a) == IF a = 0 THEN -1 ELSE Min(Bits(a))
BitField(a, s, e) ==
  IF s >= Width THEN 0
  ELSE IF e - s >= Width THEN Wrap((a % Base) \div 2 ^ s)
  ELSE Wrap(((a % Base) \div 2 ^ s) % 2 ^ (e - s))

-----------------------------------------------------------------------------
(* Reading.  The digits of an integer are accumulated in a word as long as *)
(* that cannot overflow; then the value so far is turned into digits and   *)
(* what follows is kept as digits, from which a big integer is made.       *)
DigitsOf(n) ==
  LET low[k \in Nat] == IF k < Radix THEN <<k>> ELSE Append(low[k \div Radix], k % Radix)
  IN  low[n]

MaxPre == (MaxInt - (Radix - 1)) \div Radix

ReadUInteger(digits, negative) ==
  LET read[i \in 0..Len(digits)] ==   \* [word] while it fits, then [str]
        IF i = 0 THEN [word |-> 0, str |-> <<>>]
        ELSE LET p == read[i - 1]
             IN  IF p.str # <<>> THEN [p EXCEPT !.str = Append(@, digits[i])]
                 ELSE IF p.word > MaxPre
                 THEN [word |-> 0, str |-> Append(DigitsOf(p.word), digits[i])]
                 ELSE [word |-> p.word * Radix + digits[i], str |-> <<>>]
      end == read[Len(digits)]
      sign == IF negative THEN -1 ELSE 1
  IN  IF end.str = <<>> THEN Fix(sign * end.word) ELSE BigSetVT(BigFromStr(end.str, sign))

ReadInteger(n) == ReadUInteger(DigitsOf(Abs(n)), n < 0)

(* A decimal after #e: mantissa digits, of which frac follow the point,    *)
(* and an exponent.  TooLarge is the error raised when a word overflows.   *)
TooLarge == [toolarge |-> TRUE]

NetExponent(expo, frac) == expo - frac

ExactFromMantissa(digits, frac, expo, negative) ==
  LET over[i \in 0..Len(digits)] ==
        IF i = 0 THEN <<FALSE, 0>>
        ELSE LET p == over[i - 1]
             IN  <<p[1] \/ p[2] > (MaxInt - digits[i]) \div Radix, p[2] * Radix + digits[i]>>
      nu0 == IF negative THEN -over[Len(digits)][2] ELSE over[Len(digits)][2]
      net == NetExponent(expo, frac)
      times(n, k) ==   \* multiplied by the radix k times; too large only when positive
        LET t[i \in 0..k] ==
              IF i = 0 THEN <<FALSE, n>>
              ELSE <<t[i - 1][1] \/ t[i - 1][2] > MaxInt \div Radix, Wrap(t[i - 1][2] * Radix)>>
        IN  t[k]
      nu == IF net > 0 THEN times(nu0, net) ELSE <<FALSE, nu0>>
      de == IF net < 0 THEN times(1, -net) ELSE <<FALSE, 1>>
      g == WordGcd(nu[2], de[2])
  IN  IF over[Len(digits)][1] \/ nu[1] \/ de[1] THEN TooLarge
      ELSE IF de[2] = 1 \/ CDiv(de[2], g) = 1
      THEN Fix(IF de[2] = 1 THEN nu[2] ELSE CDiv(nu[2], g))
      ELSE Ratio(CDiv(nu[2], g), CDiv(de[2], g))

(* Printing.  The digits of the smallest word are undefined: its negation  *)
(* overflows.                                                              *)
Number2String(v) ==
  LET word(n) == Text(n < 0, IF n = MinInt THEN <<>> ELSE DigitsOf(Abs(n)))
  IN  CASE IsFix(v) -> word(v.n)
        [] IsBig(v) -> BigToStr(v)
        [] IsRatio(v) -> [nu |-> word(v.nu), de |-> word(v.de)]

String2Number(s) == ReadUInteger(s.digits, s.negative)

-----------------------------------------------------------------------------
ReadRatio(r) ==
  Ratio((IF r[1] < 0 THEN -1 ELSE 1) * ReadInteger(Abs(r[1])).n, ReadInteger(r[2]).n)

Read == {ReadInteger(n) : n \in Literals} \union {ReadRatio(r) : r \in Ratios}

Init == x \in Read /\ y \in Read /\ steps = 0

Small(v) ==
  IF IsBig(v) THEN Len(v.data) <= MaxLimbs ELSE IsRatio(v) => v.de # 0

Keep(v) ==
  /\ steps < MaxSteps
  /\ Exact(v) /\ Small(v)
  /\ x' = v /\ steps' = steps + 1

Integers2 == IsInteger(x) /\ IsInteger(y)
NonZero2 == Integers2 /\ ~IsNumZero(y)

Add == Keep(NumAdd(x, y)) /\ UNCHANGED y
Subtract == \E same \in BOOLEAN : (same => x = y) /\ Keep(NumSubtract(x, y, same)) /\ UNCHANGED y
Multiply == Keep(NumMultiply(x, y)) /\ UNCHANGED y
Divide == ~IsNumZero(y) /\ Keep(NumDivide(x, y)) /\ UNCHANGED y
Quotient == NonZero2 /\ Keep(NumQuotient(x, y)) /\ UNCHANGED y
Modulo == NonZero2 /\ Keep(NumModulo(x, y)) /\ UNCHANGED y
Remainder == NonZero2 /\ Keep(NumRemainder(x, y)) /\ UNCHANGED y
(* gcd: a register that holds the object whose sign is set sees it.        *)
Gcd ==
  /\ Integers2 /\ Keep(NumGcd(x, y).gcd)
  /\ y' = NumGcd(x, y).second
Lcm == NonZero2 /\ Keep(NumLcm(x, y)) /\ UNCHANGED y
Expt == IsInteger(x) /\ (\E e \in Exponents : Keep(NumExpt(x, e))) /\ UNCHANGED y
MaxMin == ~Mismatched(x, y) /\ (Keep(NumMax(x, y)) \/ Keep(NumMin(x, y))) /\ UNCHANGED y
AbsOf == Keep(NumAbs(x)) /\ UNCHANGED y
Rounding ==
  /\ ~IsBig(x)
  /\ \E v \in {NumFloor(x), NumCeiling(x), NumTruncate(x), NumRound(x)} : Keep(v)
  /\ UNCHANGED y
Shift == IsFix(x) /\ (\E n \in Exponents : Keep(Fix(Ash(x.n, n)))) /\ UNCHANGED y
Bitwise2 ==
  /\ IsFix(x) /\ IsFix(y)
  /\ \E r \in {BitwiseAnd(x.n, y.n), BitwiseIor(x.n, y.n), BitwiseXor(x.n, y.n)} : Keep(Fix(r))
  /\ UNCHANGED y

(* The result becomes the second argument, or both.                        *)
Swap == x' = y /\ y' = x /\ UNCHANGED steps
Copy == y' = x /\ UNCHANGED <<x, steps>>

Next ==
  \/ Add \/ Subtract \/ Multiply \/ Divide
  \/ Quotient \/ Modulo \/ Remainder \/ Gcd \/ Lcm
  \/ Expt \/ MaxMin \/ AbsOf \/ Rounding \/ Shift \/ Bitwise2
  \/ Swap \/ Copy

Spec == Init /\ [][Next]_vars

-----------------------------------------------------------------------------
(* Each integer is one object in one form: the results of + - * are words  *)
(* when they fit a word, but for the smallest word.                        *)
Canonical(v) == IsBig(v) => ~(Num(v) \in (-MaxInt)..MaxInt)
ResultsAreCanonical ==
  Integers2 =>
    /\ Canonical(NumAdd(x, y)) /\ Canonical(NumSubtract(x, y, FALSE))
    /\ Canonical(NumMultiply(x, y))

(* Registers hold fixnums that fit a word, big integers without leading    *)
(* zero limbs and without a negative zero, and ratios with a denominator;  *)
(* and an operation on integers chooses the form that is right.            *)
TypeOK ==
  /\ \A v \in {x, y} :
       /\ Exact(v)
       /\ IsFix(v) => Fits(v.n)
       /\ IsRatio(v) => Fits(v.nu) /\ Fits(v.de) /\ v.de # 0
       /\ IsBig(v) => /\ v.data \in Seq(Limbs) /\ (Last(v.data) # 0 \/ v = BigZero)
                      /\ v.sign \in {1, -1}
  /\ steps \in 0..MaxSteps
  /\ ResultsAreCanonical

(* Ratios whose sums and products stay in a word.                          *)
Tame(v) == Abs(Num(v)) <= 3 /\ Abs(Den(v)) <= 3
Tame2 == ~Mismatched(x, y) /\ (IsRatio(x) \/ IsRatio(y) => Tame(x) /\ Tame(y))

(* An addition of magnitudes is only right when the first is not the       *)
(* shorter one.                                                            *)
LimbCount(v) == IF IsBig(v) THEN Len(v.data) ELSE 1
FirstIsLonger == LimbCount(x) >= LimbCount(y)
SameSign == (Num(x) < 0) = (Num(y) < 0)

(* The sum is the sum: across the overflow of a word, the carry from limb  *)
(* to limb, the return of a small result to a word.  Not when both have    *)
(* one sign and the second one has more limbs (SumIsExactAlways).          *)
SumIsExact ==
  Tame2 /\ (FirstIsLonger \/ ~SameSign \/ IsRatio(x)) =>
    LET s == NumAdd(x, y)
    IN  Exact(s) /\ Num(s) * Den(x) * Den(y) = (Num(x) * Den(y) + Num(y) * Den(x)) * Den(s)

(* The sum is the sum, whatever the lengths: "bignum is supported".        *)
SumIsExactAlways ==
  Integers2 => Num(NumAdd(x, y)) = Num(x) + Num(y)

(* The difference is the difference, unless the arguments are one big      *)
(* object, or magnitudes are added of which the first is the shorter one.  *)
DifferenceIsExact ==
  Tame2 /\ (FirstIsLonger \/ SameSign \/ IsRatio(x)) =>
    LET s == NumSubtract(x, y, FALSE)
    IN  Exact(s) /\ Num(s) * Den(x) * Den(y) = (Num(x) * Den(y) - Num(y) * Den(x)) * Den(s)

(* The product is the product, through the carries of mulabs and the       *)
(* overflow of a word.                                                     *)
ProductIsExact ==
  Tame2 =>
    LET s == NumMultiply(x, y)
    IN  Exact(s) /\ Num(s) * Den(x) * Den(y) = Num(x) * Num(y) * Den(s)

(* The exact quotient times the divisor gives the dividend back, a ratio   *)
(* or an integer (numdivide).                                              *)
DivisionIsExact ==
  Tame2 /\ ~IsNumZero(y) =>
    LET s == NumDivide(x, y)
    IN  Exact(s) => Num(s) * Num(y) * Den(x) = Num(x) * Den(y) * Den(s)

(* quotient, modulo and remainder of integers belong together: the modulo  *)
(* has the sign of the divisor, and both remainders are smaller than it.   *)
(* Remainders of words are taken of their lower halves, so only words that *)
(* fit a half are in question.                                             *)
Halves == \A v \in {x, y} : IsFix(v) => v.n \in (-(Half \div 2) + 1)..(Half \div 2 - 1)

IntegerDivision ==
  NonZero2 /\ (IsFix(x) => x.n # MinInt) =>
    LET q == Num(NumQuotient(x, y))
        m == Num(NumModulo(x, y))
        r == Num(NumRemainder(x, y))
        d == Num(x) - Num(y) * q
    IN  /\ Abs(d) < Abs(Num(y)) /\ (d # 0 => (d < 0) = (Num(x) < 0))
        /\ (Num(x) - m) % Abs(Num(y)) = 0 /\ Abs(m) < Abs(Num(y))
        /\ m # 0 => (m < 0) = (Num(y) < 0)
        /\ Halves \/ IsBig(x) \/ IsBig(y) => r = d

(* The greatest common divisor divides both, and its product with the      *)
(* least common multiple is the product of the two.                        *)
GcdAndLcm ==
  NonZero2 /\ ~IsNumZero(x) /\ Num(x) # MinInt /\ Num(y) # MinInt =>
    LET g == Num(NumGcd(x, y).gcd)
        l == Num(NumLcm(x, y))
    IN  /\ g > 0 /\ Num(x) % g = 0 /\ Num(y) % g = 0
        /\ (IsBig(x) \/ IsBig(y) \/ Fits(Num(x) * Num(y))) => l * g = Abs(Num(x) * Num(y))

(* Powers agree with repeated multiplication (up to four limbs, which TLC  *)
(* can still compute).                                                     *)
Power(b, e) == LET p[k \in Nat] == IF k = 0 THEN 1 ELSE p[k - 1] * b IN p[e]
PowersAgree ==
  IsInteger(x) => \A e \in {k \in Exponents : k >= 0 /\ k * LimbCount(x) <= 4} :
    Num(NumExpt(x, e)) = Power(Num(x), e)

(* The comparisons agree with the numbers, whatever forms they have: a     *)
(* word, a big integer, a ratio that is not reduced.  Negative ratios with *)
(* equal numerators, and ratios with a negative denominator, are excluded. *)
Comparable ==
  /\ Tame2 /\ Den(x) > 0 /\ Den(y) > 0
  /\ (IsRatio(x) \/ IsRatio(y)) => (Num(x) = Num(y) => Num(x) >= 0)

OrderIsRight ==
  Comparable =>
    /\ NumLessP(x, y) <=> Num(x) * Den(y) < Num(y) * Den(x)
    /\ NumBiggerP(x, y) <=> Num(x) * Den(y) > Num(y) * Den(x)
    /\ NumEqualP(x, y) <=> SameNumber(x, y)
    /\ Num(NumMax(x, y)) * Den(NumMin(x, y)) >= Num(NumMin(x, y)) * Den(NumMax(x, y))

(* Numbers of all forms combine and compare as the rationals they stand    *)
(* for (numadd, numsubtract, nummultiply, numdivide, numlessp, numequalp). *)
ArithmeticIsExact ==
  SumIsExact /\ DifferenceIsExact /\ ProductIsExact /\ DivisionIsExact /\ OrderIsRight

(* What is printed of an integer reads back as the same integer, in the    *)
(* same form.                                                              *)
PrintedReadsBack ==
  IsInteger(x) /\ Canonical(x) /\ x # Fix(MinInt) => String2Number(Number2String(x)) = x

(* floor, ceiling, truncate and round give the integers they promise.      *)
RoundingIsRight ==
  IsRatio(x) /\ Tame(x) =>
    LET n == IF x.de < 0 THEN -x.nu ELSE x.nu
        d == Abs(x.de)
        f == NumFloor(x).n
        c == NumCeiling(x).n
        r == NumRound(x).n
    IN  /\ f * d <= n /\ n < (f + 1) * d
        /\ (c - 1) * d < n /\ n <= c * d
        /\ NumTruncate(x).n = IF n < 0 THEN c ELSE f
        /\ 2 * Abs(r * d - n) <= d
        /\ 2 * Abs(r * d - n) = d => r % 2 = 0

(* The operations on bits, on two's complement: a shift to the right is a  *)
(* floor division, a shift to the left a multiplication when it fits; and  *)
(* and or add up; counts and fields are those of the bits.                 *)
BitsAreRight ==
  IsFix(x) =>
    /\ \A n \in Exponents :
         /\ n < 0 => Ash(x.n, n) = x.n \div 2 ^ (-n)
         /\ n >= 0 /\ Fits(x.n * 2 ^ n) => Ash(x.n, n) = x.n * 2 ^ n
         /\ n >= 0 => \A s \in Exponents \cap 0..n :
              BitField(x.n, s, n) % Base = ((x.n % Base) \div 2 ^ s) % 2 ^ (n - s)
    /\ BitwiseNot(x.n) = -x.n - 1
    /\ WordLength(x.n) < Width
    /\ x.n \in (-(2 ^ WordLength(x.n)))..(2 ^ WordLength(x.n) - 1)
    /\ x.n # 0 => x.n % 2 ^ FirstSetBit(x.n) = 0 /\ BitSetP(FirstSetBit(x.n), x.n)
    /\ IsFix(y) =>
         /\ BitwiseAnd(x.n, y.n) + BitwiseIor(x.n, y.n) = x.n + y.n
         /\ BitwiseIor(x.n, y.n) - BitwiseAnd(x.n, y.n) = BitwiseXor(x.n, y.n)
         /\ BitCount(BitwiseNot(x.n)) = BitCount(x.n)

(* A decimal marked exact is read as exactly that number, or refused.      *)
ExactRead ==
  \A frac \in {0, 1, 2}, expo \in Exponents :
    IsFix(x) /\ x.n >= 0 =>
      LET v == ExactFromMantissa(DigitsOf(x.n), frac, expo, FALSE)
          net == expo - frac
      IN  v # TooLarge =>
            IF net >= 0 THEN v = Fix(x.n * Radix ^ net)
            ELSE Num(v) * Radix ^ (-net) = x.n * Den(v)
(* What the integer operations promise, on words and on big integers, is   *)
(* kept: division, divisors, powers, roundings to an integer and bits      *)
(* (numquotient, nummodulo, numgcd, numexpt, numround, ash).               *)
IntegersAreRight ==
  IntegerDivision /\ GcdAndLcm /\ PowersAgree /\ RoundingIsRight /\ BitsAreRight

(* A number survives being written, and one that is read is the one that   *)
(* stands there (number2string, string2number).                            *)
ReadBack == PrintedReadsBack /\ ExactRead
=============================================================================
