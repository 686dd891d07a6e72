-------------------------------- MODULE Bignum --------------------------------
(***************************************************************************)
(* Big integers: a sign and limbs, least significant limb first.  The code *)
(* works on 64-bit limbs and takes them apart into halves where a product  *)
(* or a quotient would not fit; here a half has HalfBits bits.  Everything *)
(* that the code computes in scm_uint is computed modulo Base.             *)
(***************************************************************************)
EXTENDS Integers, Sequences, SequencesExt

CONSTANTS
  HalfBits,  \* INT_BITS_HALF
  Radix,     \* the base of printed digits, 10
  ChunkLen   \* UINT_BASE_LEN: digits printed per division

Half == 2 ^ HalfBits
Base == Half * Half
Chunk == Radix ^ ChunkLen   \* UINT_BASE

ASSUME BignumAssumption ==
  /\ HalfBits \in Nat \ {0} /\ Radix \in Nat \ {0, 1} /\ ChunkLen \in Nat \ {0}
  /\ Chunk <= Half   \* "must be < 2^32 for div128by64"
  /\ Half \in Nat \ {0, 1} /\ Chunk \in Nat \ {0} /\ Radix <= Chunk
  \* What a prover has to be told of powers.
  /\ 2 ^ 0 = 1 /\ \A k \in 0..(2 * HalfBits - 1) : 2 ^ (k + 1) = 2 * 2 ^ k
  /\ Radix ^ 0 = 1 /\ \A k \in 0..(ChunkLen - 1) : Radix ^ (k + 1) = Radix * Radix ^ k

Limbs == 0..(Base - 1)
Bigs == [sign : {1, -1}, data : Seq(Limbs)]

Big(sign, data) == [sign |-> sign, data |-> data]
BigZero == Big(1, <<0>>)

(* Without leading zero limbs.                                             *)
TrimmedBigs == {a \in Bigs : Len(a.data) > 0 /\ (Len(a.data) = 1 \/ a.data[Len(a.data)] # 0)}

Limb(data, i) == IF i \in DOMAIN data THEN data[i] ELSE 0

(* The integer a number stands for.                                        *)
Magnitude(data) ==
  LET n == Len(data)
      high[i \in 0..n] ==   \* of the i highest limbs
        IF i = 0 THEN 0 ELSE data[n - i + 1] + Base * high[i - 1]
  IN  high[n]

BigVal(a) == a.sign * Magnitude(a.data)

Zeros(n) == <<>> \o [i \in 1..n |-> 0]

IsZero(a) == \A i \in DOMAIN a.data : a.data[i] = 0

(* Leading zero limbs go, and the sign of zero.                            *)
Normalize(a) ==
  LET used == {i \in DOMAIN a.data : a.data[i] # 0}
  IN  IF used = {} THEN BigZero ELSE Big(a.sign, SubSeq(a.data, 1, Max(used)))

CmpAbs(a, b) ==
  LET differ == {i \in DOMAIN a.data : a.data[i] # b.data[i]}
      top == CHOOSE i \in differ : \A j \in differ : j <= i
  IN  IF Len(a.data) # Len(b.data) THEN IF Len(a.data) > Len(b.data) THEN 1 ELSE -1
      ELSE IF differ = {} THEN 0
      ELSE IF a.data[top] > b.data[top] THEN 1 ELSE -1

Cmp(a, b) ==
  CASE IsZero(a) /\ IsZero(b) -> 0
    [] IsZero(a) /\ ~IsZero(b) -> IF b.sign > 0 THEN -1 ELSE 1
    [] ~IsZero(a) /\ IsZero(b) -> IF a.sign > 0 THEN 1 ELSE -1
    [] OTHER -> IF a.sign # b.sign THEN IF a.sign > b.sign THEN 1 ELSE -1
                ELSE b.sign * CmpAbs(a, b)

-----------------------------------------------------------------------------
(* Mutant: a carry into a full limb is lost.                               *)
AddAbsNoCarryIn(a, b) ==
  LET n == Len(a.data)
      sum(i, c) == (a.data[i] + Limb(b.data, i) + c) % Base
      carry[i \in 0..n] ==
        IF i = 0 THEN 0 ELSE IF sum(i, carry[i - 1]) < a.data[i] THEN 1 ELSE 0
  IN  Normalize(Big(1, [i \in 1..(n + 1) |->
        IF i <= n THEN sum(i, carry[i - 1]) ELSE carry[n]]))

(* The sum of the magnitudes.  Only as many limbs of b are added as a has. *)
AddAbs(a, b) ==
  LET n == Len(a.data)
      sum(i, c) == (a.data[i] + Limb(b.data, i) + c) % Base
      carry[i \in 0..n] ==
        IF i = 0 THEN 0
        ELSE LET s == sum(i, carry[i - 1])
             IN  IF s < a.data[i] \/ (s = a.data[i] /\ carry[i - 1] > 0) THEN 1 ELSE 0
  IN  Normalize(Big(1, [i \in 1..(n + 1) |->
        IF i <= n THEN sum(i, carry[i - 1]) ELSE carry[n]]))

(* The difference of the magnitudes, of which a's is not the smaller one.  *)
SubAbs(a, b) ==
  LET n == Len(a.data)
      borrow[i \in 0..n] ==
        IF i = 0 THEN 0
        ELSE IF \/ a.data[i] < Limb(b.data, i)
                \/ a.data[i] = Limb(b.data, i) /\ borrow[i - 1] > 0
             THEN 1 ELSE 0
  IN  Normalize(Big(1, [i \in 1..n |-> (a.data[i] - Limb(b.data, i) - borrow[i - 1]) % Base]))

(* One product of limbs, added to a limb of the result and a carry: the    *)
(* new limb and the new carry, through the four products of halves.        *)
MulLimb(ua, ub, dest, carry) ==
  LET lo(u) == u % Half
      hi(u) == u \div Half
      p0 == lo(ua) * lo(ub)
      p1 == lo(ua) * hi(ub)
      p2 == hi(ua) * lo(ub)
      p3 == hi(ua) * hi(ub)
      mid == (p1 + p2) % Base
      midcarry == IF mid < p1 THEN 1 ELSE 0
      low0 == (p0 + mid * Half) % Base
      high0 == (p3 + hi(mid) + midcarry * Half + (IF low0 < p0 THEN 1 ELSE 0)) % Base
      low1 == (low0 + dest) % Base
      high1 == (high0 + (IF low1 < dest THEN 1 ELSE 0)) % Base
      low2 == (low1 + carry) % Base
      high2 == (high1 + (IF low2 < carry THEN 1 ELSE 0)) % Base
  IN  <<low2, high2>>

(* One row of the product: a limb times the limbs of b, added to the limbs *)
(* of the result from i on; the last carry goes upwards.                   *)
MulRow(ua, b, result, i) ==
  LET m == Len(b)
      over == Len(result) - m - i + 1
      cell[j \in 0..m] ==   \* the limbs and the carry, after j limbs of b
        IF j = 0 THEN <<result, 0>>
        ELSE LET p == cell[j - 1]
                 at == i + j - 1
                 r == MulLimb(ua, b[j], p[1][at], p[2])
             IN  <<[p[1] EXCEPT ![at] = r[1]], r[2]>>
      up[k \in 0..over] ==   \* the same, after k limbs above the row
        IF k = 0 THEN cell[m]
        ELSE LET p == up[k - 1]
                 at == i + m + k - 1
                 s == (p[1][at] + p[2]) % Base
             IN  IF p[2] = 0 THEN p
                 ELSE <<[p[1] EXCEPT ![at] = s], IF s < p[1][at] THEN 1 ELSE 0>>
  IN  up[over][1]

(* The schoolbook product: a row for each limb of a that is not zero.      *)
MulAbs(a, b) ==
  LET n == Len(a.data)
      rows[i \in 0..n] ==
        IF i = 0 THEN Zeros(n + Len(b.data))
        ELSE IF a.data[i] = 0 THEN rows[i - 1]
        ELSE MulRow(a.data[i], b.data, rows[i - 1], i)
  IN  IF IsZero(a) \/ IsZero(b) THEN BigZero ELSE Normalize(Big(1, rows[n]))

-----------------------------------------------------------------------------
Signed(sign, a) == [a EXCEPT !.sign = sign]

BigAdd(a, b) ==
  CASE IsZero(a) -> b
    [] ~IsZero(a) /\ IsZero(b) -> a
    [] OTHER -> IF a.sign = b.sign THEN Signed(a.sign, AddAbs(a, b))
                ELSE IF CmpAbs(a, b) >= 0 THEN Signed(a.sign, SubAbs(a, b))
                ELSE Signed(b.sign, SubAbs(b, a))

(* The sign of b is turned for the time of the addition: that of a as      *)
(* well, when both are one object.                                         *)
BigSub(a, b, same) ==
  BigAdd(IF same THEN Signed(-a.sign, a) ELSE a, Signed(-b.sign, b))

BigMul(a, b) ==
  IF IsZero(a) \/ IsZero(b) THEN BigZero
  ELSE Signed(IF a.sign = b.sign THEN 1 ELSE -1, MulAbs(a, b))

BitLength(a) ==
  LET n == Len(a.data)
      bits(u) == CHOOSE k \in 0..(2 * HalfBits) : u < 2 ^ k /\ (k = 0 \/ u >= 2 ^ (k - 1))
  IN  (n - 1) * 2 * HalfBits + bits(a.data[n])

(* The magnitude shifted to the left: whole limbs, then bits.              *)
ShlAbs(a, shift) ==
  LET limbs == shift \div (2 * HalfBits)
      bits == shift % (2 * HalfBits)
      n == Len(a.data)
      high(i) == IF i \in 1..n THEN a.data[i] \div 2 ^ (2 * HalfBits - bits) ELSE 0
      low(i) == IF i \in 1..n THEN (a.data[i] * 2 ^ bits) % Base ELSE 0
      len == n + limbs + (IF bits > 0 THEN 1 ELSE 0)
  IN  IF shift = 0 THEN a
      ELSE Normalize(Big(a.sign, [k \in 1..len |-> low(k - limbs) + high(k - limbs - 1)]))

Shr1Abs(a) ==
  Normalize(Big(a.sign, [i \in DOMAIN a.data |->
    a.data[i] \div 2 + (Limb(a.data, i + 1) % 2) * (Base \div 2)]))

(* The limb with these bits, and the magnitude with these bits, of n limbs. *)
BitSum(bits) ==
  LET sum[i \in 0..(2 * HalfBits)] ==
        IF i = 0 THEN 0 ELSE sum[i - 1] + (IF i - 1 \in bits THEN 2 ^ (i - 1) ELSE 0)
  IN  sum[2 * HalfBits]

FromBitSet(bits, n) ==
  Normalize(Big(1, [k \in 1..n |->
    BitSum({i \in 0..(2 * HalfBits - 1) : (k - 1) * 2 * HalfBits + i \in bits})]))

(* Long division, one bit of the quotient at a time.                       *)
DivAbs(a, b) ==
  LET shift == BitLength(a) - BitLength(b)
      loop[i \in 0..(shift + 1)] ==   \* after the i highest bits of the quotient
        IF i = 0 THEN [rem |-> a, sub |-> ShlAbs(b, shift), quot |-> {}]
        ELSE LET s == loop[i - 1]
                 goes == CmpAbs(s.rem, s.sub) >= 0
             IN  [rem |-> IF goes THEN SubAbs(s.rem, s.sub) ELSE s.rem,
                  sub |-> Shr1Abs(s.sub),
                  quot |-> IF goes THEN s.quot \union {shift - i + 1} ELSE s.quot]
      end == loop[shift + 1]
  IN  CASE CmpAbs(a, b) < 0 -> [quot |-> BigZero, rem |-> a]
        [] CmpAbs(a, b) = 0 -> [quot |-> Big(1, <<1>>), rem |-> BigZero]
        [] OTHER -> [quot |-> FromBitSet(end.quot, shift \div (2 * HalfBits) + 1),
                     rem |-> Normalize(end.rem)]

BigDiv(a, b) == Signed(IF a.sign = b.sign THEN 1 ELSE -1, DivAbs(a, b).quot)
BigMod(a, b) == Signed(a.sign, DivAbs(a, b).rem)

BigGcd(a, b) ==
  LET euclid[p \in TrimmedBigs \X TrimmedBigs] ==
        IF IsZero(p[2]) THEN p[1] ELSE euclid[<<p[2], BigMod(p[1], p[2])>>]
  IN  euclid[<<a, b>>]

BigLcm(a, b) == BigDiv(MulAbs(a, b), BigGcd(a, b))

-----------------------------------------------------------------------------
(* Division of two limbs by a chunk of digits, half a limb at a time: the  *)
(* quotient and the remainder.                                             *)
Div128By64(uhi, ulo, divisor) ==
  LET part1 == ((uhi * Half) % Base) + ulo \div Half
      part0 == (((part1 % divisor) * Half) % Base) + (ulo % Half)
  IN  <<(((part1 \div divisor) * Half) % Base) + part0 \div divisor, part0 % divisor>>

(* The magnitude divided by Chunk, from the highest limb down.             *)
DivChunk(a) ==
  LET n == Len(a.data)
      step[i \in 0..n] ==   \* after the i highest limbs
        IF i = 0 THEN <<a.data, 0>>
        ELSE LET k == n - i + 1
                 r == Div128By64(step[i - 1][2], a.data[k], Chunk)
             IN  <<[step[i - 1][1] EXCEPT ![k] = r[1]], r[2]>>
  IN  [quot |-> Normalize(Big(a.sign, step[n][1])), rem |-> step[n][2]]

(* Mutant: zeros at the top of a chunk are left out.                       *)
ChunkDigitsShort(rem, last) ==
  LET needed == CHOOSE k \in 1..ChunkLen :
                  rem < Radix ^ k /\ \A j \in 1..(k - 1) : rem >= Radix ^ j
  IN  [k \in 1..needed |-> (rem \div Radix ^ (k - 1)) % Radix]

(* The digits of a number below Chunk, lowest first: all ChunkLen of them, *)
(* or in the last chunk those that are needed.                             *)
ChunkDigits(rem, last) ==
  LET digit(k) == (rem \div Radix ^ (k - 1)) % Radix
      needed == CHOOSE k \in 1..ChunkLen :
                  rem < Radix ^ k /\ \A j \in 1..(k - 1) : rem >= Radix ^ j
  IN  [k \in 1..(IF last THEN needed ELSE ChunkLen) |-> digit(k)]

LowDigits(a) ==
  LET low[b \in Bigs] ==
        LET d == DivChunk(b)
            last == IsZero(d.quot)
        IN  ChunkDigits(d.rem, last) \o (IF last THEN <<>> ELSE low[d.quot])
  IN  low[a]

(* tostr: the sign and the digits, highest first.                          *)
Text(negative, digits) == [negative |-> negative, digits |-> digits]

BigToStr(a) ==
  IF IsZero(a) THEN Text(FALSE, <<0>>) ELSE Text(a.sign < 0, Reverse(LowDigits(a)))

(* bigfromstr: multiply by the radix, add the digit.                       *)
BigFromStr(digits, sign) ==
  LET one(d) == Big(1, <<d>>)
      made[i \in 0..Len(digits)] ==
        IF i = 0 THEN BigZero
        ELSE Signed(1, AddAbs(BigMul(made[i - 1], one(Radix)), one(digits[i])))
      all == made[Len(digits)]
  IN  IF IsZero(all) THEN BigZero ELSE Signed(sign, all)
=============================================================================
