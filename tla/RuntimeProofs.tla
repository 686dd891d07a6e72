---------------------------- MODULE RuntimeProofs -----------------------------
(***************************************************************************)
(* Theorems about require, for any modules, templates and files, any       *)
(* nesting of loads, catches and after thunks; about input ports, for any  *)
(* text, any size of the buffer, any mixture of read-char, peek-char and   *)
(* read; about the line table, which gives every instruction back the line *)
(* it was compiled with, whatever lines the instructions of a procedure    *)
(* stand on; about the hook engine, which leaves the program as it was,    *)
(* whatever the hooks do; about string-pack and string-unpack, for any     *)
(* integers, strings, formats and prefixes; and about all of them in the   *)
(* runtime that TLC checks.                                                *)
(***************************************************************************)
EXTENDS MCRuntime, FiniteSetTheorems, SequenceTheorems,
        WellFoundedInduction, TLAPS

(* string-pack and string-unpack.                                          *)

Byte == 0 .. 255
Word == [1 .. 8 -> Byte]

(* A set with 0 and the successor of each of its numbers contains all      *)
(* numbers.                                                                *)
LEMMA SetInduction ==
  ASSUME NEW T, 0 \in T, \A u \in Nat : u \in T => u + 1 \in T
  PROVE  Nat \subseteq T
<1> DEFINE U == Nat \ T
<1>1. PICK R : R = OpToRel(<, Nat) /\ IsWellFoundedOn(R, Nat)
  BY NatLessThanWellFounded
<1>2. \A x, y \in Nat : <<x, y>> \in R <=> x < y
  BY <1>1 DEF OpToRel
<1>3. U # {} => \E x \in U : \A y \in U : ~(<<y, x>> \in R)
  BY <1>1, WFMin
<1>4. ASSUME NEW x \in U, \A y \in U : ~(<<y, x>> \in R)
      PROVE  FALSE
  <2>1. x \in Nat /\ x \notin T /\ x # 0 /\ x - 1 \in Nat /\ (x - 1) + 1 = x /\ x - 1 < x
    OBVIOUS
  <2>2. x - 1 \notin U
    BY <1>2, <1>4, <2>1
  <2> QED
    BY <2>1, <2>2
<1> QED
  BY <1>3, <1>4

(* A set of numbers that is not empty has a least element.                 *)
LEMMA LeastNumber ==
  ASSUME NEW N, N \subseteq Nat, N # {}
  PROVE  \E x \in N : \A y \in N : x <= y
<1>1. PICK R : R = OpToRel(<, Nat) /\ IsWellFoundedOn(R, Nat)
  BY NatLessThanWellFounded
<1>2. \A x, y \in Nat : <<x, y>> \in R <=> x < y
  BY <1>1 DEF OpToRel
<1>3. PICK x \in N : \A y \in N : ~(<<y, x>> \in R)
  BY <1>1, WFMin
<1>4. ASSUME NEW y \in N
      PROVE  x <= y
  <2>1. x \in Nat /\ y \in Nat /\ ~(<<y, x>> \in R)
    BY <1>3
  <2>2. ~(y < x)
    BY <1>2, <2>1
  <2> QED
    BY <2>1, <2>2
<1> QED
  BY <1>4

-----------------------------------------------------------------------------
(* Sequences of bytes.                                                     *)

LEMMA Joined ==
  ASSUME NEW S, NEW s \in Seq(S), NEW t \in Seq(S)
  PROVE  /\ s \o t \in Seq(S) /\ Len(s \o t) = Len(s) + Len(t)
         /\ \A i \in 1 .. Len(s) : (s \o t)[i] = s[i]
         /\ \A i \in 1 .. Len(t) : (s \o t)[Len(s) + i] = t[i]
OBVIOUS

LEMMA SameSeq ==
  ASSUME NEW S, NEW s \in Seq(S), NEW t \in Seq(S), Len(s) = Len(t),
         \A i \in 1 .. Len(s) : s[i] = t[i]
  PROVE  s = t
OBVIOUS

LEMMA Cut ==
  ASSUME NEW S, NEW s \in Seq(S), NEW p \in Nat, NEW u \in Nat, p + u <= Len(s)
  PROVE  /\ SubSeq(s, p + 1, p + u) \in Seq(S)
         /\ Len(SubSeq(s, p + 1, p + u)) = u
         /\ \A i \in 1 .. u : SubSeq(s, p + 1, p + u)[i] = s[p + i]
OBVIOUS

LEMMA CutIs ==
  ASSUME NEW S, NEW s \in Seq(S), NEW t \in Seq(S), NEW p \in Nat, p + Len(t) <= Len(s),
         \A i \in 1 .. Len(t) : s[p + i] = t[i]
  PROVE  SubSeq(s, p + 1, p + Len(t)) = t
<1> DEFINE c == SubSeq(s, p + 1, p + Len(t))
<1>1. c \in Seq(S) /\ Len(c) = Len(t) /\ \A i \in 1 .. Len(t) : c[i] = s[p + i]
  BY Cut
<1> HIDE DEF c
<1>2. \A i \in 1 .. Len(c) : c[i] = t[i]
  BY <1>1
<1>3. c = t
  BY <1>1, <1>2, SameSeq
<1> QED
  BY <1>3 DEF c

LEMMA ReverseFacts ==
  ASSUME NEW S, NEW s \in Seq(S)
  PROVE  /\ Reverse(s) \in Seq(S) /\ Len(Reverse(s)) = Len(s)
         /\ \A i \in 1 .. Len(s) : Reverse(s)[i] = s[Len(s) - i + 1]
         /\ Reverse(Reverse(s)) = s
<1>1. ASSUME NEW t \in Seq(S)
      PROVE  /\ Reverse(t) \in Seq(S) /\ Len(Reverse(t)) = Len(t)
             /\ \A i \in 1 .. Len(t) : Reverse(t)[i] = t[Len(t) - i + 1]
  BY DEF Reverse
<1> DEFINE r == Reverse(s)
           q == Reverse(r)
<1>2. r \in Seq(S) /\ Len(r) = Len(s) /\ \A i \in 1 .. Len(s) : r[i] = s[Len(s) - i + 1]
  BY <1>1
<1> HIDE DEF r
<1>3. q \in Seq(S) /\ Len(q) = Len(s) /\ \A i \in 1 .. Len(s) : q[i] = r[Len(s) - i + 1]
  BY <1>1, <1>2
<1> HIDE DEF q
<1>4. ASSUME NEW i \in 1 .. Len(s)
      PROVE  q[i] = s[i]
  <2>1. Len(s) - i + 1 \in 1 .. Len(s) /\ Len(s) - (Len(s) - i + 1) + 1 = i
    OBVIOUS
  <2> QED
    BY <1>2, <1>3, <2>1
<1>5. q = s
  BY <1>3, <1>4, SameSeq
<1> QED
  BY <1>2, <1>5 DEF q, r

-----------------------------------------------------------------------------
(* Integers.                                                               *)

LEMMA WidthInRange ==
  ASSUME PackAssumption, NEW o \in Options
  PROVE  /\ o.op \in IntOps => Width(o) \in 1 .. 8
         /\ o.op = "s" => OrElse(o.n, 8) \in 1 .. 8
         /\ o.n \in Nat
         /\ o.op \in SwitchOps \union PadOps \union IntOps \union StringOps
<1>1. o \in [op : SwitchOps \union PadOps \union IntOps \union StringOps, n : Nat]
      /\ (o.op \in {"i", "I", "s"} => o.n \in 0 .. 8)
  BY DEF PackAssumption
<1>2. o.n \in Nat /\ o.op \in SwitchOps \union PadOps \union IntOps \union StringOps
  BY <1>1
<1>3. o.op = "s" => OrElse(o.n, 8) \in 1 .. 8
  BY <1>1 DEF OrElse
<1>4. o.op \in IntOps => Width(o) \in 1 .. 8
  BY <1>1 DEF IntOps, Width, OrElse
<1> QED
  BY <1>2, <1>3, <1>4

LEMMA IntBytes ==
  ASSUME NEW i \in Word, NEW u \in 1 .. 8, NEW e
  PROVE  /\ PackInt(i, u, e) \in Seq(Byte) /\ Len(PackInt(i, u, e)) = u
         /\ LowBytes(i, u) \in Seq(Byte) /\ Len(LowBytes(i, u)) = u
         /\ \A k \in 1 .. u : LowBytes(i, u)[k] = i[k]
         /\ e = 1 => Reverse(PackInt(i, u, e)) = LowBytes(i, u)
         /\ e # 1 => PackInt(i, u, e) = LowBytes(i, u)
<1> DEFINE low == LowBytes(i, u)
<1>1. low \in Seq(Byte) /\ Len(low) = u /\ \A k \in 1 .. u : low[k] = i[k]
  BY DEF LowBytes, Word
<1> HIDE DEF low
<1>2. Reverse(low) \in Seq(Byte) /\ Len(Reverse(low)) = u /\ Reverse(Reverse(low)) = low
  BY <1>1, ReverseFacts
<1>3. PackInt(i, u, e) = IF e = 1 THEN Reverse(low) ELSE low
  BY DEF PackInt, low
<1> QED
  BY <1>1, <1>2, <1>3 DEF low

LEMMA IntComesBack ==
  ASSUME NEW i \in Word, NEW u \in 1 .. 8, NEW e, NEW op, FitsInt(i, u, op \in SignedOps)
  PROVE  LoadInt(PackInt(i, u, e), op \in SignedOps, e) = i
<1> DEFINE P == PackInt(i, u, e)
           low == LowBytes(i, u)
<1>1. /\ P \in Seq(Byte) /\ Len(P) = u
      /\ low \in Seq(Byte) /\ Len(low) = u /\ \A k \in 1 .. u : low[k] = i[k]
      /\ e = 1 => Reverse(P) = low
      /\ e # 1 => P = low
  BY IntBytes
<1> HIDE DEF P, low
<1>2. LoadInt(P, op \in SignedOps, e) =
        [k \in 1 .. 8 |-> IF k <= u THEN low[k]
                          ELSE IF op \in SignedOps /\ low[u] >= 128 THEN 255 ELSE 0]
  BY <1>1 DEF LoadInt
<1>3. u \in 1 .. u /\ i[u] \in Byte /\ \A k \in 1 .. 8 : k <= u \/ k \in u + 1 .. 8
  BY DEF Word
<1>4. CASE op \in SignedOps
  <2>1. u = 8 \/ /\ \A k \in u + 1 .. 8 : i[k] = SignFill(i)
                 /\ (i[u] >= 128) <=> Negative(i)
    BY <1>4 DEF FitsInt
  <2>2. ASSUME NEW k \in u + 1 .. 8
        PROVE  i[k] = IF low[u] >= 128 THEN 255 ELSE 0
    BY <1>1, <1>3, <2>1 DEF SignFill
  <2>3. \A k \in 1 .. 8 : i[k] = IF k <= u THEN low[k] ELSE IF low[u] >= 128 THEN 255 ELSE 0
    BY <1>1, <1>3, <2>2
  <2> QED
    BY <1>2, <1>4, <2>3 DEF P, Word
<1>5. CASE ~(op \in SignedOps)
  <2>1. \A k \in u + 1 .. 8 : i[k] = 0
    BY <1>5 DEF FitsInt
  <2>2. \A k \in 1 .. 8 : i[k] = IF k <= u THEN low[k] ELSE 0
    BY <1>1, <1>3, <2>1
  <2> QED
    BY <1>2, <1>5, <2>2 DEF P, Word
<1> QED
  BY <1>4, <1>5

LEMMA AsIntIsWord ==
  ASSUME NEW m \in Nat, m < 256 * 256
  PROVE  AsInt(m) \in Word
<1>1. m % 256 \in 0 .. 255 /\ m \div 256 \in 0 .. 255
  OBVIOUS
<1> QED
  BY <1>1 DEF AsInt, Word, Byte

(* The length of a string comes back from its prefix.                      *)
LEMMA LengthComesBack ==
  ASSUME NEW m \in Nat, m < 256 * 256, NEW u \in 1 .. 8, u = 1 => m < 256
  PROVE  /\ AsInt(m) \in Word
         /\ AsLen(LoadInt(PackInt(AsInt(m), u, 1), FALSE, 1)) = m
<1> DEFINE i == AsInt(m)
           P == PackInt(i, u, 1)
           low == LowBytes(i, u)
<1>1. m % 256 \in Byte /\ m \div 256 \in Byte /\ (m % 256) + 256 * (m \div 256) = m
      /\ (m < 256 => m \div 256 = 0)
  BY DEF Byte
<1>2. i \in Word
  BY <1>1 DEF AsInt, Word, Byte
<1>3. /\ P \in Seq(Byte) /\ Len(P) = u
      /\ Len(low) = u /\ \A k \in 1 .. u : low[k] = i[k]
      /\ Reverse(P) = low
  BY <1>2, IntBytes
<1>4. i[1] = m % 256 /\ i[2] = m \div 256
  BY DEF AsInt
<1> HIDE DEF P, low, i
<1> DEFINE L == LoadInt(P, FALSE, 1)
<1>5. L = [k \in 1 .. 8 |-> IF k <= u THEN low[k] ELSE 0]
  BY <1>3 DEF LoadInt
<1> HIDE DEF L
<1>6. L[1] = low[1] /\ L[2] = IF 2 <= u THEN low[2] ELSE 0
  BY <1>5
<1>7. L[1] = m % 256 /\ L[2] = m \div 256
  <2>1. low[1] = i[1]
    BY <1>3
  <2>2. CASE 2 <= u
    BY <1>3, <1>4, <1>6, <2>1, <2>2
  <2>3. CASE ~(2 <= u)
    <3>1. m \div 256 = 0
      BY <1>1, <2>3
    <3> QED
      BY <1>4, <1>6, <2>1, <2>3, <3>1
  <2> QED
    BY <2>2, <2>3
<1>8. AsLen(L) = m
  BY <1>1, <1>7 DEF AsLen
<1> QED
  BY <1>2, <1>8 DEF L, P, i

(* What is loaded is an integer, whatever the bytes.                       *)
LEMMA LoadsWord ==
  ASSUME NEW s \in Seq(Byte), Len(s) \in 1 .. 8, NEW sgn, NEW e
  PROVE  LoadInt(s, sgn, e) \in Word /\ AsLen(LoadInt(s, sgn, e)) \in Nat
<1> DEFINE low == IF e = 1 THEN Reverse(s) ELSE s
           L == LoadInt(s, sgn, e)
<1>1. low \in Seq(Byte) /\ Len(low) = Len(s)
  BY ReverseFacts
<1> HIDE DEF low
<1>2. \A k \in 1 .. Len(s) : low[k] \in Byte
  BY <1>1
<1>3. L = [k \in 1 .. 8 |-> IF k <= Len(s) THEN low[k]
                            ELSE IF sgn /\ low[Len(s)] >= 128 THEN 255 ELSE 0]
  BY DEF LoadInt, low
<1>4. L \in Word
  BY <1>2, <1>3, SMTT(60) DEF Word, Byte
<1>5. L[1] \in Byte /\ L[2] \in Byte
  BY <1>4 DEF Word
<1> HIDE DEF L
<1>6. \A a, b \in 0 .. 255 : a + 256 * b \in Nat
  OBVIOUS
<1>7. AsLen(L) \in Nat
  BY <1>5, <1>6 DEF AsLen, Byte
<1> QED
  BY <1>4, <1>7 DEF L

-----------------------------------------------------------------------------
(* The layout of a record: for each prefix of the format, the bytes packed *)
(* so far, the byte order and the arguments taken.                         *)

PadLen(o, pos) == IF o.op = "x" THEN 1 ELSE PadTo(pos, o.n)

Coded(o, v, e) ==
  CASE o.op \in IntOps -> PackInt(v, Width(o), e)
    [] o.op = "s" -> PackInt(AsInt(Len(v)), OrElse(o.n, 8), 1) \o v
    [] o.op = "z" -> v \o <<0>>
    [] OTHER -> SubSeq(v, 1, o.n)

(* Option o takes the record from p bytes, order e and a arguments to q    *)
(* bytes, order f and b arguments.                                         *)
LaidInt(o, args, outs, p, q, e, b) ==
  LET v == args[b]
      bs == Coded(o, v, e)
  IN  /\ v \in Ints /\ FitsInt(v, Width(o), o.op \in SignedOps)
      /\ q = p + Len(bs) /\ \A i \in 1 .. Len(bs) : outs[p + i] = bs[i]

LaidText(o, args, outs, p, q, e, b) ==
  LET v == args[b]
      bs == Coded(o, v, e)
  IN  /\ v \in Strings /\ (o.op = "c" => o.n # 0 /\ o.n <= Len(v))
      /\ q = p + Len(bs) /\ \A i \in 1 .. Len(bs) : outs[p + i] = bs[i]

Laid(o, args, outs, p, q, e, f, a, b) ==
  /\ p \in 0 .. Len(outs) /\ q \in 0 .. Len(outs) /\ p <= q
  /\ a \in 0 .. Len(args) /\ b \in 0 .. Len(args)
  /\ f = IF o.op \in SwitchOps THEN Endian(o) ELSE e
  /\ b = IF Takes(o) THEN a + 1 ELSE a
  /\ o.op \in SwitchOps => q = p
  /\ o.op \in PadOps => q = p + PadLen(o, p)
  /\ o.op \in IntOps => LaidInt(o, args, outs, p, q, e, b)
  /\ o.op \in StringOps => LaidText(o, args, outs, p, q, e, b)

Layout(fmt, args, outs, pos, en, arg) ==
  /\ pos \in [0 .. Len(fmt) -> Nat] /\ arg \in [0 .. Len(fmt) -> Nat]
  /\ en \in [0 .. Len(fmt) -> {0, 1}]
  /\ pos[0] = 0 /\ en[0] = 0 /\ arg[0] = 0
  /\ pos[Len(fmt)] = Len(outs) /\ arg[Len(fmt)] = Len(args)
  /\ \A k \in 1 .. Len(fmt) :
       Laid(fmt[k], args, outs, pos[k - 1], pos[k], en[k - 1], en[k], arg[k - 1], arg[k])

LEMMA PadFacts ==
  ASSUME NEW p \in Nat, NEW u \in Nat
  PROVE  /\ PadTo(p, u) \in Nat
         /\ \A b \in Nat : (u > 1 => b % u = 0) => PadTo(b + p, u) = PadTo(p, u)
<1>1. CASE u > 1
  <2>1. p % u \in 0 .. u - 1
    BY <1>1
  <2>2. PadTo(p, u) \in Nat
    BY <1>1, <2>1 DEF PadTo
  <2>3. ASSUME NEW b \in Nat, b % u = 0
        PROVE  (b + p) % u = p % u
    <3>1. b = u * (b \div u) + 0 /\ b \div u \in Nat
      BY <1>1, <2>3
    <3>2. p = u * (p \div u) + (p % u) /\ p \div u \in Nat
      BY <1>1
    <3> DEFINE x == b \div u
               y == p \div u
               r == p % u
    <3>3. x \in Nat /\ y \in Nat /\ r \in 0 .. u - 1 /\ b = u * x /\ p = u * y + r
      BY <2>1, <3>1, <3>2
    <3>7. r = p % u
      OBVIOUS
    <3> HIDE DEF x, y, r
    <3>4. u * x + u * y = u * (x + y)
      BY <3>3
    <3>5. b + p = u * (x + y) + r /\ x + y \in Int
      BY <3>3, <3>4
    <3>6. (u * (x + y) + r) % u = r
      <4>1. \A q \in Int : (u * q + r) % u = r
        BY <1>1, <3>3
      <4> QED
        BY <3>5, <4>1
    <3> QED
      BY <3>5, <3>6, <3>7, Zenon
  <2> QED
    BY <1>1, <2>2, <2>3 DEF PadTo
<1>2. CASE ~(u > 1)
  BY <1>2 DEF PadTo
<1> QED
  BY <1>1, <1>2

(* What is laid stays laid when bytes and arguments are added.             *)
LEMMA LaidStays ==
  ASSUME NEW o, NEW args, NEW args2, NEW outs, NEW out2,
         NEW p, NEW q, NEW e, NEW f, NEW a, NEW b,
         Len(args) \in Nat, Len(args2) \in Nat, Len(outs) \in Nat, Len(out2) \in Nat,
         Len(args) <= Len(args2), \A i \in 1 .. Len(args) : args2[i] = args[i],
         Len(outs) <= Len(out2), \A i \in 1 .. Len(outs) : out2[i] = outs[i],
         Laid(o, args, outs, p, q, e, f, a, b),
         Takes(o) => Coded(o, args[b], e) \in Seq(Byte)
  PROVE  Laid(o, args2, out2, p, q, e, f, a, b)
<1>1. /\ p \in 0 .. Len(outs) /\ q \in 0 .. Len(outs) /\ p <= q
      /\ a \in 0 .. Len(args) /\ b \in 0 .. Len(args)
      /\ f = IF o.op \in SwitchOps THEN Endian(o) ELSE e
      /\ b = IF Takes(o) THEN a + 1 ELSE a
      /\ o.op \in SwitchOps => q = p
      /\ o.op \in PadOps => q = p + PadLen(o, p)
  BY DEF Laid
<1>2. /\ p \in 0 .. Len(out2) /\ q \in 0 .. Len(out2)
      /\ a \in 0 .. Len(args2) /\ b \in 0 .. Len(args2)
  BY <1>1
<1>3. ASSUME Takes(o)
      PROVE  args2[b] = args[b]
  BY <1>1, <1>3
<1> DEFINE bs == Coded(o, args[b], e)
<1>4. ASSUME Takes(o), q = p + Len(bs), \A i \in 1 .. Len(bs) : outs[p + i] = bs[i]
      PROVE  \A i \in 1 .. Len(bs) : out2[p + i] = bs[i]
  <2>1. Len(bs) \in Nat
    BY <1>4
  <2> HIDE DEF bs
  <2>2. \A i \in 1 .. Len(bs) : p + i \in 1 .. Len(outs)
    BY <1>1, <1>4, <2>1
  <2> QED
    BY <1>4, <2>2
<1>5. ASSUME o.op \in IntOps
      PROVE  LaidInt(o, args2, out2, p, q, e, b)
  <2>1. Takes(o) /\ LaidInt(o, args, outs, p, q, e, b)
    BY <1>5 DEF Laid, Takes
  <2> QED
    BY <1>3, <1>4, <2>1 DEF LaidInt
<1>6. ASSUME o.op \in StringOps
      PROVE  LaidText(o, args2, out2, p, q, e, b)
  <2>1. Takes(o) /\ LaidText(o, args, outs, p, q, e, b)
    BY <1>6 DEF Laid, Takes
  <2> QED
    BY <1>3, <1>4, <2>1 DEF LaidText
<1> QED
  BY <1>1, <1>2, <1>5, <1>6 DEF Laid

(* The bytes of an argument are bytes.                                     *)
LEMMA CodedBytes ==
  ASSUME PackAssumption, NEW o \in Options, NEW v, NEW e,
         o.op \in IntOps => v \in Ints,
         o.op \in StringOps => v \in Strings /\ (o.op = "c" => o.n # 0 /\ o.n <= Len(v)),
         Takes(o)
  PROVE  /\ Coded(o, v, e) \in Seq(Byte) /\ Len(Coded(o, v, e)) \in Nat
         /\ o.op \in IntOps => Len(Coded(o, v, e)) = Width(o)
<1>1. /\ o.op \in IntOps => Width(o) \in 1 .. 8
      /\ o.op = "s" => OrElse(o.n, 8) \in 1 .. 8
      /\ o.n \in Nat
  BY WidthInRange
<1>2. o.op \in StringOps => v \in Seq(Byte) /\ Len(v) \in Nat /\ Len(v) < 256 * 256
  BY DEF PackAssumption, Byte
<1>3. CASE o.op \in IntOps
  <2>1. v \in Word
    BY <1>3 DEF PackAssumption, Word, Byte
  <2>2. Coded(o, v, e) = PackInt(v, Width(o), e)
    BY <1>3 DEF Coded, IntOps
  <2>3. Width(o) \in 1 .. 8
    BY <1>1, <1>3
  <2>4. PackInt(v, Width(o), e) \in Seq(Byte) /\ Len(PackInt(v, Width(o), e)) = Width(o)
    BY <2>1, <2>3, IntBytes
  <2> QED
    BY <2>2, <2>3, <2>4
<1>4. CASE o.op = "s"
  <2>1. v \in Seq(Byte) /\ Len(v) \in Nat /\ Len(v) < 256 * 256 /\ o.op \notin IntOps
    BY <1>2, <1>4 DEF StringOps, IntOps
  <2>2. AsInt(Len(v)) \in Word
    BY <2>1, AsIntIsWord
  <2>3. PackInt(AsInt(Len(v)), OrElse(o.n, 8), 1) \in Seq(Byte)
    BY <1>1, <1>4, <2>2, IntBytes
  <2>4. Coded(o, v, e) = PackInt(AsInt(Len(v)), OrElse(o.n, 8), 1) \o v
    BY <1>4, <2>1 DEF Coded
  <2> QED
    BY <2>1, <2>3, <2>4, Joined
<1>5. CASE o.op = "z"
  <2>1. v \in Seq(Byte) /\ o.op \notin IntOps /\ <<0>> \in Seq(Byte)
    BY <1>2, <1>5 DEF StringOps, IntOps, Byte
  <2>2. Coded(o, v, e) = v \o <<0>>
    BY <1>5, <2>1 DEF Coded
  <2> QED
    BY <2>1, <2>2, Joined
<1>6. CASE o.op = "c"
  <2>1. v \in Seq(Byte) /\ o.op \notin IntOps /\ o.n \in Nat /\ o.n <= Len(v)
    BY <1>1, <1>2, <1>6 DEF StringOps, IntOps
  <2>2. Coded(o, v, e) = SubSeq(v, 0 + 1, 0 + o.n)
    BY <1>6, <2>1 DEF Coded
  <2> QED
    BY <2>1, <2>2, Cut
<1> QED
  BY <1>3, <1>4, <1>5, <1>6 DEF Takes, StringOps

-----------------------------------------------------------------------------
(* The types.                                                              *)

Values == Word \union Seq(Byte)

PackTypes ==
  /\ packing \in {"pack", "unpack", "done", "error"}
  /\ format \in Seq(Options) /\ endian \in {0, 1}
  /\ packed \in Seq(Byte) /\ data \in Seq(Byte)
  /\ arguments \in Seq(Ints \union Strings) /\ vals \in Seq(Values)
  /\ off \in Nat /\ fi \in 1 .. Len(format) + 1
  /\ packing = "pack" => fi = 1 /\ vals = <<>>

(* How many arguments the options up to each one take.                     *)
ArgCounts(fmt, args, arg) ==
  /\ arg \in [0 .. Len(fmt) -> 0 .. Len(args)]
  /\ arg[0] = 0 /\ arg[Len(fmt)] = Len(args)
  /\ \A k \in 1 .. Len(fmt) : arg[k] = IF Takes(fmt[k]) THEN arg[k - 1] + 1 ELSE arg[k - 1]

PackTypeInv ==
  /\ PackTypes
  /\ \E arg : ArgCounts(format, arguments, arg) /\ Len(vals) <= arg[fi - 1]

LEMMA OneMore ==
  ASSUME NEW S, NEW s \in Seq(S), NEW x \in S
  PROVE  /\ Append(s, x) \in Seq(S) /\ Len(Append(s, x)) = Len(s) + 1
         /\ Append(s, x)[Len(s) + 1] = x
         /\ \A i \in 1 .. Len(s) : Append(s, x)[i] = s[i]
OBVIOUS

LEMMA CountsGrow ==
  ASSUME NEW fmt \in Seq(Options), NEW o \in Options, NEW args, NEW args2, NEW arg,
         ArgCounts(fmt, args, arg), Len(args) \in Nat,
         Len(args2) = IF Takes(o) THEN Len(args) + 1 ELSE Len(args)
  PROVE  \E arg2 : ArgCounts(Append(fmt, o), args2, arg2)
<1> DEFINE u == Len(fmt)
           F == Append(fmt, o)
           g == [k \in 0 .. u + 1 |-> IF k <= u THEN arg[k] ELSE Len(args2)]
<1>1. u \in Nat /\ Len(F) = u + 1 /\ F[u + 1] = o /\ \A k \in 1 .. u : F[k] = fmt[k]
  BY OneMore
<1>2. /\ arg \in [0 .. u -> 0 .. Len(args)] /\ arg[0] = 0 /\ arg[u] = Len(args)
      /\ \A k \in 1 .. u : arg[k] = IF Takes(fmt[k]) THEN arg[k - 1] + 1 ELSE arg[k - 1]
  BY DEF ArgCounts
<1> HIDE DEF F, u
<1>3. Len(args2) \in Nat /\ Len(args) <= Len(args2)
  OBVIOUS
<1>4. \A k \in 0 .. u + 1 : (k \in 0 .. u /\ k <= u) \/ (k = u + 1 /\ ~(k <= u))
  BY <1>1
<1>5. /\ g \in [0 .. u + 1 -> 0 .. Len(args2)] /\ g[u + 1] = Len(args2)
      /\ \A k \in 0 .. u : g[k] = arg[k]
  BY <1>1, <1>2, <1>3, <1>4
<1> HIDE DEF g
<1>6. 0 \in 0 .. u /\ u \in 0 .. u /\ (u + 1) - 1 = u
      /\ \A k \in 1 .. u : k \in 0 .. u /\ k - 1 \in 0 .. u
  <2>1. u \in Nat
    BY <1>1
  <2> QED
    BY <2>1
<1>7. g[0] = 0 /\ g[u] = Len(args)
  BY <1>2, <1>5, <1>6
<1>8. ASSUME NEW k \in 1 .. u + 1
      PROVE  g[k] = IF Takes(F[k]) THEN g[k - 1] + 1 ELSE g[k - 1]
  <2>1. CASE k \in 1 .. u
    BY <1>1, <1>2, <1>5, <1>6, <2>1
  <2>2. CASE k = u + 1
    BY <1>1, <1>5, <1>6, <1>7, <2>2
  <2> QED
    BY <1>1, <2>1, <2>2
<1>9. ArgCounts(F, args2, g)
  BY <1>1, <1>5, <1>7, <1>8 DEF ArgCounts
<1> QED
  BY <1>9 DEF F

LEMMA ZeroBytes ==
  ASSUME NEW u \in Nat
  PROVE  Zeros(u) \in Seq(Byte) /\ Len(Zeros(u)) = u
BY DEF Zeros, Byte

LEMMA PadLenIsNat ==
  ASSUME NEW o, o.n \in Nat, NEW p \in Nat
  PROVE  PadLen(o, p) \in Nat
BY PadFacts DEF PadLen

LEMMA PackBytesAreCoded ==
  ASSUME NEW o, o.op \in StringOps, NEW v, NEW e
  PROVE  PackBytes(o, v) = Coded(o, v, e)
<1>1. CASE o.op = "s"
  BY <1>1 DEF PackBytes, Coded, PackString, IntOps
<1>2. CASE o.op = "z"
  BY <1>2 DEF PackBytes, Coded, IntOps
<1>3. CASE o.op = "c"
  BY <1>3 DEF PackBytes, Coded, IntOps
<1> QED
  BY <1>1, <1>2, <1>3 DEF StringOps

(* An option that is packed.                                               *)
LEMMA PackKeepsTypes ==
  ASSUME PackTypeInv, packing = "pack", NEW o \in Options, format' = Append(format, o),
         packing' \in {"pack", "error"}, endian' \in {0, 1}, packed' \in Seq(Byte),
         IF Takes(o) THEN \E v \in Ints \union Strings : arguments' = Append(arguments, v)
                     ELSE arguments' = arguments,
         UNCHANGED <<data, off, fi, vals>>
  PROVE  PackTypeInv'
<1>1. /\ format \in Seq(Options) /\ data \in Seq(Byte) /\ off \in Nat
      /\ arguments \in Seq(Ints \union Strings) /\ vals \in Seq(Values)
      /\ fi = 1 /\ vals = <<>>
  BY DEF PackTypeInv, PackTypes
<1>2. format' \in Seq(Options) /\ Len(format') = Len(format) + 1 /\ Len(format) \in Nat
  BY <1>1
<1>3. arguments' \in Seq(Ints \union Strings) /\ Len(arguments) \in Nat
      /\ Len(arguments') = IF Takes(o) THEN Len(arguments) + 1 ELSE Len(arguments)
  <2>1. CASE Takes(o)
    <3>1. PICK v \in Ints \union Strings : arguments' = Append(arguments, v)
      BY <2>1
    <3> QED
      BY <1>1, <2>1, <3>1, OneMore
  <2>2. CASE ~Takes(o)
    BY <1>1, <2>2
  <2> QED
    BY <2>1, <2>2
<1>4. PackTypes'
  BY <1>1, <1>2, <1>3 DEF PackTypes
<1>5. PICK arg : ArgCounts(format, arguments, arg)
  BY DEF PackTypeInv
<1>6. PICK arg2 : ArgCounts(format', arguments', arg2)
  BY <1>1, <1>3, <1>5, CountsGrow
<1>7. arg2[0] = 0 /\ Len(vals') = 0 /\ fi' - 1 = 0
  BY <1>1, <1>6 DEF ArgCounts
<1> QED
  BY <1>4, <1>6, <1>7 DEF PackTypeInv

(* An option that is unpacked.                                             *)
LEMMA UnpackKeepsTypes ==
  ASSUME PackTypeInv, Reading, UNCHANGED <<format, packed, arguments, data>>,
         packing' \in {"unpack", "error"}, endian' \in {0, 1}, off' \in Nat, fi' = fi + 1,
         vals' = vals \/ (Takes(Option) /\ \E v \in Values : vals' = Append(vals, v))
  PROVE  PackTypeInv'
<1>1. /\ format \in Seq(Options) /\ vals \in Seq(Values) /\ fi \in 1 .. Len(format) + 1
      /\ fi <= Len(format) /\ Len(format) \in Nat
  BY DEF PackTypeInv, PackTypes, Reading
<1>2. /\ vals' \in Seq(Values)
      /\ Len(vals') <= Len(vals) + 1 /\ (Len(vals') = Len(vals) \/ Takes(Option))
      /\ Len(vals) \in Nat /\ Len(vals') \in Nat
  BY <1>1
<1>3. fi' \in 1 .. Len(format) + 1 /\ fi \in 1 .. Len(format) /\ fi' - 1 = fi
      /\ fi \in 0 .. Len(format) /\ fi - 1 \in 0 .. Len(format)
  BY <1>1
<1>4. PackTypes'
  BY <1>2, <1>3 DEF PackTypeInv, PackTypes
<1>5. PICK arg : ArgCounts(format, arguments, arg) /\ Len(vals) <= arg[fi - 1]
  BY DEF PackTypeInv
<1>6. /\ arg[fi] = IF Takes(Option) THEN arg[fi - 1] + 1 ELSE arg[fi - 1]
      /\ arg[fi] \in 0 .. Len(arguments) /\ arg[fi - 1] \in 0 .. Len(arguments)
  BY <1>3, <1>5 DEF ArgCounts, Option
<1>7. Len(vals') <= arg[fi' - 1]
  BY <1>2, <1>3, <1>5, <1>6
<1>8. ArgCounts(format', arguments', arg)
  BY <1>5
<1> QED
  BY <1>4, <1>7, <1>8 DEF PackTypeInv

LEMMA PackSwitchTypes ==
  ASSUME PackAssumption, PackTypeInv, NEW o \in Options, PackSwitch(o)
  PROVE  PackTypeInv'
<1>1. /\ packing = "pack" /\ format' = Append(format, o) /\ packing' = packing
      /\ endian' \in {0, 1} /\ packed' = packed /\ arguments' = arguments
      /\ UNCHANGED <<data, off, fi, vals>>
  BY DEF PackSwitch, MorePacked, Noted, Endian
<1>2. ~Takes(o)
  BY DEF PackSwitch, Takes, SwitchOps, IntOps, StringOps
<1>3. packed \in Seq(Byte)
  BY DEF PackTypeInv, PackTypes
<1> QED
  BY <1>1, <1>2, <1>3, PackKeepsTypes

LEMMA PackPaddingTypes ==
  ASSUME PackAssumption, PackTypeInv, NEW o \in Options, PackPadding(o)
  PROVE  PackTypeInv'
<1>1. /\ packing = "pack" /\ format' = Append(format, o) /\ packing' = packing
      /\ endian' = endian /\ packed' = packed \o Zeros(PadLen(o, Len(packed)))
      /\ arguments' = arguments /\ UNCHANGED <<data, off, fi, vals>>
  BY DEF PackPadding, MorePacked, Noted, PadLen
<1>2. ~Takes(o)
  BY DEF PackPadding, Takes, PadOps, IntOps, StringOps
<1>3. packed \in Seq(Byte) /\ endian \in {0, 1} /\ Len(packed) \in Nat
  BY DEF PackTypeInv, PackTypes
<1>4. packed' \in Seq(Byte)
  <2>1. PadLen(o, Len(packed)) \in Nat
    BY <1>3, WidthInRange, PadLenIsNat
  <2>2. Zeros(PadLen(o, Len(packed))) \in Seq(Byte)
    BY <2>1, ZeroBytes
  <2> QED
    BY <1>1, <1>3, <2>2, Joined
<1> QED
  BY <1>1, <1>2, <1>3, <1>4, PackKeepsTypes

LEMMA PackIntegerTypes ==
  ASSUME PackAssumption, PackTypeInv, NEW o \in Options, NEW i \in Ints, PackInteger(o, i)
  PROVE  PackTypeInv'
<1>1. /\ packing = "pack" /\ format' = Append(format, o) /\ packing' \in {"pack", "error"}
      /\ endian' = endian /\ arguments' = Append(arguments, i)
      /\ packed' = packed \/ packed' = packed \o PackInt(i, Width(o), endian)
      /\ UNCHANGED <<data, off, fi, vals>> /\ o.op \in IntOps
  BY DEF PackInteger, MorePacked, Noted
<1>2. Takes(o)
  BY <1>1 DEF Takes
<1>3. packed \in Seq(Byte) /\ endian \in {0, 1}
  BY DEF PackTypeInv, PackTypes
<1>4. packed' \in Seq(Byte)
  <2>1. i \in Word /\ Width(o) \in 1 .. 8
    BY <1>1, WidthInRange DEF PackAssumption, Word, Byte
  <2>2. PackInt(i, Width(o), endian) \in Seq(Byte)
    BY <2>1, IntBytes
  <2> QED
    BY <1>1, <1>3, <2>2, Joined
<1> QED
  BY <1>1, <1>2, <1>3, <1>4, PackKeepsTypes

LEMMA PackTextTypes ==
  ASSUME PackAssumption, PackTypeInv, NEW o \in Options, NEW s \in Strings, PackText(o, s)
  PROVE  PackTypeInv'
<1>1. /\ packing = "pack" /\ format' = Append(format, o) /\ packing' \in {"pack", "error"}
      /\ endian' = endian /\ arguments' = Append(arguments, s)
      /\ UNCHANGED <<data, off, fi, vals>> /\ o.op \in StringOps
      /\ \/ packed' = packed
         \/ packed' = packed \o PackBytes(o, s) /\ ~(o.op = "c" /\ (o.n = 0 \/ Len(s) < o.n))
  BY DEF PackText, MorePacked, Noted
<1>2. Takes(o)
  BY <1>1 DEF Takes
<1>3. packed \in Seq(Byte) /\ endian \in {0, 1}
  BY DEF PackTypeInv, PackTypes
<1>4. packed' \in Seq(Byte)
  <2>1. CASE packed' = packed
    BY <1>3, <2>1
  <2>2. CASE packed' = packed \o PackBytes(o, s) /\ ~(o.op = "c" /\ (o.n = 0 \/ Len(s) < o.n))
    <3>1. o.op \notin IntOps
      BY <1>1 DEF IntOps, StringOps
    <3>2. Len(s) \in Nat /\ o.n \in Nat
      BY WidthInRange DEF PackAssumption
    <3>3. Coded(o, s, 0) \in Seq(Byte)
      BY <1>1, <1>2, <2>2, <3>1, <3>2, CodedBytes
    <3>4. PackBytes(o, s) = Coded(o, s, 0)
      BY <1>1, PackBytesAreCoded
    <3> QED
      BY <1>3, <2>2, <3>3, <3>4, Joined
  <2> QED
    BY <1>1, <2>1, <2>2
<1> QED
  BY <1>1, <1>2, <1>3, <1>4, PackKeepsTypes

LEMMA UnpackTypes ==
  ASSUME PackTypeInv, NEW prefix \in Before, PackAssumption, Unpack(prefix)
  PROVE  PackTypeInv'
<1>1. /\ format \in Seq(Options) /\ packed \in Seq(Byte) /\ prefix \in Seq(Byte)
      /\ arguments \in Seq(Ints \union Strings) /\ vals = <<>> /\ fi = 1 /\ vals \in Seq(Values)
  BY DEF PackTypeInv, PackTypes, Unpack, PackAssumption, Byte
<1>2. data' \in Seq(Byte) /\ off' \in Nat /\ Len(format) \in Nat
  BY <1>1, Joined DEF Unpack
<1>3. PackTypes'
  BY <1>1, <1>2 DEF PackTypes, Unpack
<1>4. PICK arg : ArgCounts(format, arguments, arg) /\ Len(vals) <= arg[fi - 1]
  BY DEF PackTypeInv
<1>5. UNCHANGED <<format, arguments, vals, fi>>
  BY <1>1 DEF Unpack
<1> QED
  BY <1>3, <1>4, <1>5 DEF PackTypeInv

LEMMA ReadingFacts ==
  ASSUME PackAssumption, PackTypeInv, Reading
  PROVE  /\ fi \in 1 .. Len(format) /\ Len(format) \in Nat /\ Option \in Options /\ Option.n \in Nat
         /\ packing = "unpack" /\ endian \in {0, 1}
         /\ data \in Seq(Byte) /\ Len(data) \in Nat /\ off \in Nat
         /\ Option.op \in IntOps => Width(Option) \in 1 .. 8
         /\ Option.op = "s" => OrElse(Option.n, 8) \in 1 .. 8
<1>1. /\ format \in Seq(Options) /\ fi \in 1 .. Len(format) + 1 /\ fi <= Len(format)
      /\ packing = "unpack" /\ data \in Seq(Byte) /\ off \in Nat /\ endian \in {0, 1}
  BY DEF PackTypeInv, PackTypes, Reading
<1>2. fi \in 1 .. Len(format) /\ Option \in Options
  BY <1>1 DEF Option
<1> QED
  BY <1>1, <1>2, WidthInRange

(* Nothing that is read changes the record.                                *)
LEMMA UnpackSwitchTypes ==
  ASSUME PackAssumption, PackTypeInv, UnpackSwitch
  PROVE  PackTypeInv'
<1>1. /\ Reading /\ UNCHANGED <<packing, format, packed, arguments, data, off, vals>>
      /\ fi' = fi + 1 /\ endian' \in {0, 1}
  BY DEF UnpackSwitch, Endian
<1> QED
  BY <1>1, ReadingFacts, UnpackKeepsTypes

LEMMA UnpackPaddingTypes ==
  ASSUME PackAssumption, PackTypeInv, UnpackPadding
  PROVE  PackTypeInv'
<1>1. /\ Reading /\ UNCHANGED <<packing, format, packed, arguments, data, endian, vals>>
      /\ fi' = fi + 1 /\ off' = off + PadLen(Option, off)
  BY DEF UnpackPadding, PadLen
<1>2. Option.n \in Nat /\ off \in Nat
  BY <1>1, ReadingFacts
<1>3. PadLen(Option, off) \in Nat
  BY <1>2, PadLenIsNat
<1>4. off' \in Nat
  BY <1>1, <1>2, <1>3
<1> QED
  BY <1>1, <1>4, ReadingFacts, UnpackKeepsTypes

LEMMA UnpackIntegerTypes ==
  ASSUME PackAssumption, PackTypeInv, UnpackInteger
  PROVE  PackTypeInv'
<1>1. /\ Reading /\ UNCHANGED <<format, packed, arguments, data, endian>> /\ fi' = fi + 1
      /\ Option.op \in IntOps
  BY DEF UnpackInteger
<1>2. Takes(Option)
  BY <1>1 DEF Takes
<1>3. CASE off + Width(Option) > Len(data)
  <2>1. packing' = "error" /\ UNCHANGED <<off, vals>>
    BY <1>3 DEF UnpackInteger, Fail
  <2> QED
    BY <1>1, <2>1, ReadingFacts, UnpackKeepsTypes
<1>4. CASE ~(off + Width(Option) > Len(data))
  <2> DEFINE v == LoadInt(Bytes(Width(Option)), Option.op \in SignedOps, endian)
  <2>1. packing' = packing /\ off' = off + Width(Option) /\ vals' = Append(vals, v)
    BY <1>4 DEF UnpackInteger, Deliver, Ok
  <2>2. off' \in Nat /\ Width(Option) \in 1 .. 8
    BY <1>1, <2>1, ReadingFacts
  <2>3. Bytes(Width(Option)) \in Seq(Byte) /\ Len(Bytes(Width(Option))) = Width(Option)
    <3> DEFINE w == Width(Option)
    <3>1. w \in Nat /\ off \in Nat /\ data \in Seq(Byte) /\ off + w <= Len(data)
      BY <1>1, <1>4, <2>2, ReadingFacts
    <3> HIDE DEF w
    <3>2. Bytes(w) \in Seq(Byte) /\ Len(Bytes(w)) = w
      BY <3>1, Cut DEF Bytes
    <3> QED
      BY <3>2 DEF w
  <2>4. v \in Values
    BY <2>2, <2>3, LoadsWord DEF Values
  <2> HIDE DEF v
  <2> QED
    BY <1>1, <1>2, <2>1, <2>2, <2>4, ReadingFacts, UnpackKeepsTypes
<1> QED
  BY <1>3, <1>4

LEMMA UnpackCountedTypes ==
  ASSUME PackAssumption, PackTypeInv, UnpackCounted
  PROVE  PackTypeInv'
<1> DEFINE u == OrElse(Option.n, 8)
           len == AsLen(LoadInt(Bytes(u), FALSE, 1))
           v == SubSeq(data, off + u + 1, off + u + len)
<1>1. /\ Reading /\ UNCHANGED <<format, packed, arguments, data, endian>> /\ fi' = fi + 1
      /\ Option.op = "s"
  BY DEF UnpackCounted
<1>2. Takes(Option)
  BY <1>1 DEF Takes, StringOps
<1>3. u \in 1 .. 8 /\ off \in Nat /\ Len(data) \in Nat /\ data \in Seq(Byte)
      /\ endian \in {0, 1} /\ packing = "unpack"
  BY <1>1, ReadingFacts
<1>4. CASE off + u > Len(data)
  <2>1. packing' = "error" /\ UNCHANGED <<off, vals>>
    BY <1>4 DEF UnpackCounted, Fail
  <2> QED
    BY <1>1, <1>3, <2>1, UnpackKeepsTypes
<1>5. CASE ~(off + u > Len(data))
  <2>1. Bytes(u) \in Seq(Byte) /\ Len(Bytes(u)) = u
    <3> HIDE DEF u
    <3> QED
      BY <1>3, <1>5, Cut DEF Bytes
  <2>2. len \in Nat
    BY <1>3, <2>1, LoadsWord
  <2>3. CASE off + u + len > Len(data)
    <3>1. packing' = "error" /\ off' = off + u /\ UNCHANGED vals
      BY <1>5, <2>3 DEF UnpackCounted
    <3>2. off' \in Nat
      BY <1>3, <3>1
    <3> QED
      BY <1>1, <1>3, <3>1, <3>2, UnpackKeepsTypes
  <2>4. CASE ~(off + u + len > Len(data))
    <3>1. packing' = packing /\ off' = off + u + len /\ vals' = Append(vals, v)
      BY <1>5, <2>4 DEF UnpackCounted, Deliver, Ok
    <3>2. v \in Seq(Byte) /\ off' \in Nat
      <4> HIDE DEF u, len
      <4>1. PICK p \in Nat, l \in Nat : p = off + u /\ l = len /\ p + l = off + u + len
        BY <1>3, <2>2
      <4>2. p + l <= Len(data)
        BY <1>3, <2>4, <4>1
      <4>3. SubSeq(data, p + 1, p + l) \in Seq(Byte)
        BY <1>3, <4>2, Cut
      <4>4. v = SubSeq(data, p + 1, p + l)
        BY <4>1
      <4>5. off' = p + l
        BY <3>1, <4>1
      <4>6. off' \in Nat
        BY <4>5
      <4> HIDE DEF v
      <4> QED
        BY <4>3, <4>4, <4>6
    <3>3. v \in Values
      BY <3>2 DEF Values
    <3> HIDE DEF v, u, len
    <3> QED
      BY <1>1, <1>2, <1>3, <3>1, <3>2, <3>3, UnpackKeepsTypes
  <2> QED
    BY <2>3, <2>4
<1> QED
  BY <1>4, <1>5

LEMMA UnpackTerminatedTypes ==
  ASSUME PackAssumption, PackTypeInv, UnpackTerminated
  PROVE  PackTypeInv'
<1> DEFINE nuls == {j \in off + 1 .. Len(data) : data[j] = 0}
           nul == CHOOSE j \in nuls : \A k \in nuls : j <= k
           v == SubSeq(data, off + 1, nul - 1)
<1>1. /\ Reading /\ UNCHANGED <<format, packed, arguments, data, endian>> /\ fi' = fi + 1
      /\ Option.op = "z"
  BY DEF UnpackTerminated
<1>2. Takes(Option)
  BY <1>1 DEF Takes, StringOps
<1>3. off \in Nat /\ Len(data) \in Nat /\ data \in Seq(Byte)
      /\ endian \in {0, 1} /\ packing = "unpack"
  BY <1>1, ReadingFacts
<1>4. CASE nuls = {}
  <2>1. packing' = "error" /\ UNCHANGED <<off, vals>>
    BY <1>4 DEF UnpackTerminated, Fail
  <2> QED
    BY <1>1, <1>3, <2>1, UnpackKeepsTypes
<1>5. CASE nuls # {}
  <2>1. packing' = packing /\ off' = nul /\ vals' = Append(vals, v)
    BY <1>5 DEF UnpackTerminated, Deliver, Ok
  <2>2. nuls \subseteq Nat
    BY <1>3
  <2>3. nul \in nuls
    <3> HIDE DEF nuls
    <3> QED
      BY <1>5, <2>2, LeastNumber
  <2>4. nul \in Nat /\ nul - 1 - off \in Nat /\ off + (nul - 1 - off) = nul - 1 /\ nul - 1 <= Len(data)
    <3> HIDE DEF nul
    <3> QED
      BY <1>3, <2>3
  <2>5. v \in Values
    <3> HIDE DEF nul
    <3>1. SubSeq(data, off + 1, off + (nul - 1 - off)) \in Seq(Byte)
      BY <1>3, <2>4, Cut
    <3> QED
      BY <2>4, <3>1 DEF Values
  <2> HIDE DEF v, nul, nuls
  <2> QED
    BY <1>1, <1>2, <1>3, <2>1, <2>4, <2>5, UnpackKeepsTypes
<1> QED
  BY <1>4, <1>5

LEMMA UnpackFixedTypes ==
  ASSUME PackAssumption, PackTypeInv, UnpackFixed
  PROVE  PackTypeInv'
<1> DEFINE u == OrElse(Option.n, Len(data) - off)
<1>1. /\ Reading /\ UNCHANGED <<format, packed, arguments, data, endian>> /\ fi' = fi + 1
      /\ Option.op = "c"
  BY DEF UnpackFixed
<1>2. Takes(Option)
  BY <1>1 DEF Takes, StringOps
<1>3. off \in Nat /\ Len(data) \in Nat /\ data \in Seq(Byte) /\ u \in Int
      /\ endian \in {0, 1} /\ packing = "unpack"
  BY <1>1, ReadingFacts DEF OrElse
<1>4. CASE u < 0 \/ off + u > Len(data)
  <2>1. packing' = "error" /\ UNCHANGED <<off, vals>>
    BY <1>4 DEF UnpackFixed, Fail
  <2> QED
    BY <1>1, <1>3, <2>1, UnpackKeepsTypes
<1>5. CASE ~(u < 0 \/ off + u > Len(data))
  <2>1. packing' = packing /\ off' = off + u /\ vals' = Append(vals, Bytes(u))
    BY <1>5 DEF UnpackFixed, Deliver, Ok
  <2> HIDE DEF u
  <2>2. u \in Nat /\ off' \in Nat
    BY <1>3, <1>5, <2>1
  <2>3. Bytes(u) \in Values
    BY <1>3, <1>5, <2>2, Cut DEF Bytes, Values
  <2> QED
    BY <1>1, <1>2, <1>3, <2>1, <2>2, <2>3, UnpackKeepsTypes
<1> QED
  BY <1>4, <1>5

LEMMA InitIsTyped ==
  ASSUME PackInit
  PROVE  PackTypeInv
<1>1. /\ format \in Seq(Options) /\ packed \in Seq(Byte) /\ data \in Seq(Byte)
      /\ arguments \in Seq(Ints \union Strings) /\ vals \in Seq(Values) /\ Len(format) = 0
      /\ Len(arguments) = 0 /\ Len(vals) = 0 /\ fi = 1 /\ vals = <<>>
  BY DEF PackInit
<1>2. PackTypes
  BY <1>1 DEF PackTypes, PackInit
<1> DEFINE g == [k \in 0 .. 0 |-> 0]
<1>3. ArgCounts(format, arguments, g) /\ Len(vals) <= g[fi - 1]
  BY <1>1 DEF ArgCounts
<1> QED
  BY <1>2, <1>3 DEF PackTypeInv

LEMMA StepKeepsTypes ==
  ASSUME PackAssumption, PackTypeInv, [PackNext]_packVars
  PROVE  PackTypeInv'
<1>1. ASSUME NEW o \in Options, PackSwitch(o) \/ PackPadding(o)
      PROVE  PackTypeInv'
  BY <1>1, PackSwitchTypes, PackPaddingTypes
<1>2. ASSUME NEW o \in Options, NEW i \in Ints, PackInteger(o, i)
      PROVE  PackTypeInv'
  BY <1>2, PackIntegerTypes
<1>3. ASSUME NEW o \in Options, NEW s \in Strings, PackText(o, s)
      PROVE  PackTypeInv'
  BY <1>3, PackTextTypes
<1>4. ASSUME NEW prefix \in Before, Unpack(prefix)
      PROVE  PackTypeInv'
  BY <1>4, UnpackTypes
<1>5. CASE UnpackSwitch \/ UnpackPadding \/ UnpackInteger
  BY <1>5, UnpackSwitchTypes, UnpackPaddingTypes, UnpackIntegerTypes
<1>6. CASE UnpackCounted \/ UnpackTerminated \/ UnpackFixed
  BY <1>6, UnpackCountedTypes, UnpackTerminatedTypes, UnpackFixedTypes
<1>7. CASE Finish \/ UNCHANGED packVars
  <2>1. UNCHANGED <<format, endian, packed, arguments, data, off, fi, vals>>
        /\ (packing' = "done" \/ packing' = packing)
    BY <1>7 DEF Finish, packVars
  <2> QED
    BY <2>1 DEF PackTypeInv, PackTypes
<1> QED
  BY <1>1, <1>2, <1>3, <1>4, <1>5, <1>6, <1>7 DEF PackNext

LEMMA AlwaysTyped == ASSUME PackAssumption PROVE PackSpec => []PackTypeInv
<1>1. PackInit => PackTypeInv
  BY InitIsTyped
<1>2. PackTypeInv /\ [PackNext]_packVars => PackTypeInv'
  BY StepKeepsTypes
<1> QED
  BY <1>1, <1>2, PTL DEF PackSpec

(* Whatever is packed and unpacked, and wherever it stands, the variables  *)
(* hold values of their types: what is read is integers of eight bytes and *)
(* strings of bytes, and never more values than were packed (packint,      *)
(* loaduint, signext).                                                     *)
THEOREM PackTypesCorrect == ASSUME PackAssumption PROVE PackSpec => []PackTypeOK
<1>1. ASSUME PackTypeInv
      PROVE  PackTypeOK
  <2>1. PackTypes
    BY <1>1 DEF PackTypeInv
  <2>2. PICK arg : ArgCounts(format, arguments, arg) /\ Len(vals) <= arg[fi - 1]
    BY <1>1 DEF PackTypeInv
  <2>3. Len(format) \in Nat /\ fi \in 1 .. Len(format) + 1 /\ Len(arguments) \in Nat /\ Len(vals) \in Nat
    BY <2>1 DEF PackTypes
  <2>4. fi - 1 \in 0 .. Len(format)
    BY <2>3
  <2>5. arg[fi - 1] <= Len(arguments) /\ arg[fi - 1] \in Int
    BY <2>2, <2>3, <2>4 DEF ArgCounts
  <2>6. Len(vals) <= Len(arguments)
    BY <2>2, <2>3, <2>5
  <2> QED
    BY <2>1, <2>6 DEF PackTypes, PackTypeOK, Byte
<1> QED
  BY <1>1, AlwaysTyped, PTL

-----------------------------------------------------------------------------
(* The round trip.  The formats and strings that come back: a length fits  *)
(* its prefix, no string that ends at a zero byte has one, and the record  *)
(* stands at a multiple of what it is aligned to.                          *)

Unambiguous ==
  \A o \in Options :
    /\ o.op = "s" /\ OrElse(o.n, 8) = 1 => \A s \in Strings : Len(s) < 256
    /\ o.op = "z" => \A s \in Strings : \A i \in 1 .. Len(s) : s[i] # 0
    /\ o.op = "X" /\ o.n > 1 => \A s \in Before : Len(s) % o.n = 0

Start == Len(data) - Len(packed)

(* The record stands behind Start bytes, and the reader is where the       *)
(* packer was after as many options.                                       *)
Followed(pos, en, arg) ==
  /\ Start \in Nat /\ \A i \in 1 .. Len(packed) : data[Start + i] = packed[i]
  /\ \A o \in Options : o.op = "X" /\ o.n > 1 => Start % o.n = 0
  /\ off = Start + pos[fi - 1] /\ endian = en[fi - 1] /\ Len(vals) = arg[fi - 1]
  /\ \A k \in 1 .. fi - 1 : Takes(format[k]) =>
       /\ arg[k] \in 1 .. Len(vals)
       /\ vals[arg[k]] = Delivered(format[k], arguments[arg[k]])

RecordInv ==
  /\ packing = "error" => fi = 1
  /\ packing = "done" => fi = Len(format) + 1
  /\ packing # "error" =>
       \E pos, en, arg :
         /\ Layout(format, arguments, packed, pos, en, arg)
         /\ packing = "pack" => endian = en[Len(format)]
         /\ packing \in {"unpack", "done"} => Followed(pos, en, arg)

LEMMA LayoutGrows ==
  ASSUME PackAssumption, NEW fmt \in Seq(Options), NEW o \in Options,
         NEW args, NEW args2, NEW outs, NEW out2, NEW f \in {0, 1}, NEW pos, NEW en, NEW arg,
         Layout(fmt, args, outs, pos, en, arg),
         Len(args) \in Nat, Len(args2) \in Nat, Len(outs) \in Nat, Len(out2) \in Nat,
         Len(args) <= Len(args2), \A i \in 1 .. Len(args) : args2[i] = args[i],
         Len(outs) <= Len(out2), \A i \in 1 .. Len(outs) : out2[i] = outs[i],
         Laid(o, args2, out2, Len(outs), Len(out2), en[Len(fmt)], f, Len(args), Len(args2))
  PROVE  \E pos2, en2, arg2 : /\ Layout(Append(fmt, o), args2, out2, pos2, en2, arg2)
                              /\ en2[Len(fmt) + 1] = f
<1> DEFINE u == Len(fmt)
           F == Append(fmt, o)
           P == [k \in 0 .. u + 1 |-> IF k <= u THEN pos[k] ELSE Len(out2)]
           E == [k \in 0 .. u + 1 |-> IF k <= u THEN en[k] ELSE f]
           A == [k \in 0 .. u + 1 |-> IF k <= u THEN arg[k] ELSE Len(args2)]
<1>1. u \in Nat /\ Len(F) = u + 1 /\ F[u + 1] = o /\ \A k \in 1 .. u : F[k] = fmt[k] /\ F[k] \in Options
  BY OneMore
<1>2. /\ pos \in [0 .. u -> Nat] /\ arg \in [0 .. u -> Nat] /\ en \in [0 .. u -> {0, 1}]
      /\ pos[0] = 0 /\ en[0] = 0 /\ arg[0] = 0
      /\ pos[u] = Len(outs) /\ arg[u] = Len(args)
      /\ \A k \in 1 .. u :
           Laid(fmt[k], args, outs, pos[k - 1], pos[k], en[k - 1], en[k], arg[k - 1], arg[k])
  BY DEF Layout
<1>0. Laid(o, args2, out2, Len(outs), Len(out2), en[u], f, Len(args), Len(args2))
  OBVIOUS
<1> HIDE DEF F, u
<1>3. \A k \in 0 .. u + 1 : (k \in 0 .. u /\ k <= u) \/ (k = u + 1 /\ ~(k <= u))
  BY <1>1
<1>4. /\ P \in [0 .. u + 1 -> Nat] /\ P[u + 1] = Len(out2) /\ \A k \in 0 .. u : P[k] = pos[k]
  BY <1>1, <1>2, <1>3
<1>5. /\ A \in [0 .. u + 1 -> Nat] /\ A[u + 1] = Len(args2) /\ \A k \in 0 .. u : A[k] = arg[k]
  BY <1>1, <1>2, <1>3
<1>6. /\ E \in [0 .. u + 1 -> {0, 1}] /\ E[u + 1] = f /\ \A k \in 0 .. u : E[k] = en[k]
  BY <1>1, <1>2, <1>3
<1> HIDE DEF P, A, E
<1>7. 0 \in 0 .. u /\ u \in 0 .. u /\ (u + 1) - 1 = u
      /\ \A k \in 1 .. u : k \in 0 .. u /\ k - 1 \in 0 .. u
  <2>1. u \in Nat
    BY <1>1
  <2> QED
    BY <2>1
<1>8. P[0] = 0 /\ E[0] = 0 /\ A[0] = 0 /\ P[u] = Len(outs) /\ E[u] = en[u] /\ A[u] = Len(args)
  BY <1>2, <1>4, <1>5, <1>6, <1>7
<1>9. ASSUME NEW k \in 1 .. u + 1
      PROVE  Laid(F[k], args2, out2, P[k - 1], P[k], E[k - 1], E[k], A[k - 1], A[k])
  <2>1. CASE k \in 1 .. u
    <3>1. Laid(F[k], args, outs, P[k - 1], P[k], E[k - 1], E[k], A[k - 1], A[k])
      BY <1>1, <1>2, <1>4, <1>5, <1>6, <1>7, <2>1
    <3>2. F[k] \in Options
      BY <1>1, <2>1
    <3>3. Takes(F[k]) => Coded(F[k], args[A[k]], E[k - 1]) \in Seq(Byte)
      <4>1. /\ F[k].op \in IntOps => args[A[k]] \in Ints
            /\ F[k].op \in StringOps => args[A[k]] \in Strings
                 /\ (F[k].op = "c" => F[k].n # 0 /\ F[k].n <= Len(args[A[k]]))
        BY <3>1 DEF Laid, LaidInt, LaidText
      <4> QED
        BY <3>2, <4>1, CodedBytes
    <3> QED
      BY <3>1, <3>3, LaidStays
  <2>2. CASE k = u + 1
    BY <1>0, <1>1, <1>4, <1>5, <1>6, <1>7, <1>8, <2>2
  <2> QED
    BY <1>1, <2>1, <2>2
<1>10. Layout(F, args2, out2, P, E, A)
  BY <1>1, <1>4, <1>5, <1>6, <1>8, <1>9 DEF Layout
<1> QED
  BY <1>6, <1>10 DEF F, u

(* One option is packed.                                                   *)
LEMMA PackKeepsRecord ==
  ASSUME PackAssumption, PackTypeInv, PackTypeInv', RecordInv,
         packing = "pack", packing' = "pack", NEW o \in Options, format' = Append(format, o),
         UNCHANGED <<data, off, fi, vals>>,
         endian' = IF o.op \in SwitchOps THEN Endian(o) ELSE endian,
         Len(arguments) <= Len(arguments'),
         \A i \in 1 .. Len(arguments) : arguments'[i] = arguments[i],
         Len(packed) <= Len(packed'), \A i \in 1 .. Len(packed) : packed'[i] = packed[i],
         Laid(o, arguments', packed', Len(packed), Len(packed'), endian, endian',
              Len(arguments), Len(arguments'))
  PROVE  RecordInv'
<1>1. /\ format \in Seq(Options) /\ endian' \in {0, 1} /\ Len(format) \in Nat
      /\ Len(arguments) \in Nat /\ Len(arguments') \in Nat
      /\ Len(packed) \in Nat /\ Len(packed') \in Nat
  BY DEF PackTypeInv, PackTypes
<1>2. PICK pos, en, arg : Layout(format, arguments, packed, pos, en, arg) /\ endian = en[Len(format)]
  BY DEF RecordInv
<1>3. PICK pos2, en2, arg2 : /\ Layout(format', arguments', packed', pos2, en2, arg2)
                             /\ en2[Len(format) + 1] = endian'
  BY <1>1, <1>2, LayoutGrows
<1>4. Len(format') = Len(format) + 1
  BY <1>1
<1> QED
  BY <1>3, <1>4 DEF RecordInv

LEMMA Unchanged ==
  ASSUME NEW s, NEW t, s = t, Len(s) \in Nat
  PROVE  Len(s) <= Len(t) /\ \A i \in 1 .. Len(s) : t[i] = s[i]
OBVIOUS

LEMMA PackSwitchKeeps ==
  ASSUME PackAssumption, PackTypeInv, PackTypeInv', RecordInv, NEW o \in Options, PackSwitch(o)
  PROVE  RecordInv'
<1>1. /\ packing = "pack" /\ packing' = "pack" /\ format' = Append(format, o)
      /\ endian' = Endian(o) /\ packed' = packed /\ arguments' = arguments
      /\ UNCHANGED <<data, off, fi, vals>> /\ o.op \in SwitchOps
  BY DEF PackSwitch, MorePacked, Noted
<1>2. Len(packed) \in Nat /\ Len(arguments) \in Nat
  BY DEF PackTypeInv, PackTypes
<1>3. ~Takes(o) /\ o.op \notin PadOps /\ o.op \notin IntOps /\ o.op \notin StringOps
  BY <1>1 DEF Takes, SwitchOps, IntOps, StringOps, PadOps
<1>4. Laid(o, arguments', packed', Len(packed), Len(packed'), endian, endian',
           Len(arguments), Len(arguments'))
  BY <1>1, <1>2, <1>3 DEF Laid
<1>5. /\ Len(arguments) <= Len(arguments') /\ \A i \in 1 .. Len(arguments) : arguments'[i] = arguments[i]
      /\ Len(packed) <= Len(packed') /\ \A i \in 1 .. Len(packed) : packed'[i] = packed[i]
  BY <1>1, <1>2
<1> QED
  BY <1>1, <1>4, <1>5, PackKeepsRecord

LEMMA PackPaddingKeeps ==
  ASSUME PackAssumption, PackTypeInv, PackTypeInv', RecordInv, NEW o \in Options, PackPadding(o)
  PROVE  RecordInv'
<1> DEFINE m == PadLen(o, Len(packed))
<1>1. /\ packing = "pack" /\ packing' = "pack" /\ format' = Append(format, o)
      /\ endian' = endian /\ packed' = packed \o Zeros(m) /\ arguments' = arguments
      /\ UNCHANGED <<data, off, fi, vals>> /\ o.op \in PadOps
  BY DEF PackPadding, MorePacked, Noted, PadLen
<1>2. packed \in Seq(Byte) /\ Len(packed) \in Nat /\ Len(arguments) \in Nat
  BY DEF PackTypeInv, PackTypes
<1>3. ~Takes(o) /\ o.op \notin SwitchOps /\ o.op \notin IntOps /\ o.op \notin StringOps
  BY <1>1 DEF Takes, SwitchOps, IntOps, StringOps, PadOps
<1>4. m \in Nat
  BY <1>2, WidthInRange, PadLenIsNat
<1>5. Zeros(m) \in Seq(Byte) /\ Len(Zeros(m)) = m
  BY <1>4, ZeroBytes
<1>6. Len(packed') = Len(packed) + m /\ \A i \in 1 .. Len(packed) : packed'[i] = packed[i]
  BY <1>1, <1>2, <1>5, Joined
<1>7. Laid(o, arguments', packed', Len(packed), Len(packed'), endian, endian',
           Len(arguments), Len(arguments'))
  BY <1>1, <1>2, <1>3, <1>4, <1>6 DEF Laid
<1>8. Len(packed) <= Len(packed')
  BY <1>2, <1>4, <1>6
<1>9. Len(arguments) <= Len(arguments') /\ \A i \in 1 .. Len(arguments) : arguments'[i] = arguments[i]
  BY <1>1, <1>2
<1> QED
  BY <1>1, <1>3, <1>6, <1>7, <1>8, <1>9, PackKeepsRecord

(* An argument is packed: its bytes are behind those that are there.       *)
LEMMA ArgumentKeeps ==
  ASSUME PackAssumption, PackTypeInv, PackTypeInv', RecordInv, NEW o \in Options, NEW v,
         packing = "pack", packing' = "pack", format' = Append(format, o),
         UNCHANGED <<endian, data, off, fi, vals>>, Takes(o),
         v \in Ints \union Strings, arguments' = Append(arguments, v),
         packed' = packed \o Coded(o, v, endian),
         o.op \in IntOps => v \in Ints /\ FitsInt(v, Width(o), o.op \in SignedOps),
         o.op \in StringOps => v \in Strings /\ (o.op = "c" => o.n # 0 /\ o.n <= Len(v))
  PROVE  RecordInv'
<1> DEFINE bs == Coded(o, v, endian)
           p == Len(packed)
           a == Len(arguments)
<1>1. packed \in Seq(Byte) /\ p \in Nat /\ arguments \in Seq(Ints \union Strings) /\ a \in Nat
  BY DEF PackTypeInv, PackTypes
<1>2. bs \in Seq(Byte) /\ Len(bs) \in Nat
  BY CodedBytes
<1>3. /\ Len(packed') = p + Len(bs)
      /\ \A i \in 1 .. p : packed'[i] = packed[i]
      /\ \A i \in 1 .. Len(bs) : packed'[p + i] = bs[i]
  <2> HIDE DEF bs
  <2> QED
    BY <1>1, <1>2, Joined DEF bs
<1>4. /\ Len(arguments') = a + 1 /\ arguments'[a + 1] = v
      /\ \A i \in 1 .. a : arguments'[i] = arguments[i]
  BY <1>1, OneMore
<1>5. o.op \notin SwitchOps /\ o.op \notin PadOps
  BY DEF Takes, SwitchOps, IntOps, StringOps, PadOps
<1>6. o.op \in IntOps => LaidInt(o, arguments', packed', p, Len(packed'), endian, a + 1)
  BY <1>3, <1>4 DEF LaidInt
<1>7. o.op \in StringOps => LaidText(o, arguments', packed', p, Len(packed'), endian, a + 1)
  BY <1>3, <1>4 DEF LaidText
<1>8. /\ p <= Len(packed') /\ p \in 0 .. Len(packed') /\ Len(packed') \in 0 .. Len(packed')
      /\ a <= Len(arguments') /\ a \in 0 .. Len(arguments') /\ Len(arguments') \in 0 .. Len(arguments')
  BY <1>1, <1>2, <1>3, <1>4
<1> HIDE DEF bs
<1>9. Laid(o, arguments', packed', p, Len(packed'), endian, endian', a, Len(arguments'))
  BY <1>4, <1>5, <1>6, <1>7, <1>8 DEF Laid
<1> QED
  BY <1>3, <1>4, <1>5, <1>8, <1>9, PackKeepsRecord

LEMMA PackIntegerKeeps ==
  ASSUME PackAssumption, PackTypeInv, PackTypeInv', RecordInv,
         NEW o \in Options, NEW i \in Ints, PackInteger(o, i)
  PROVE  RecordInv'
<1>1. /\ packing = "pack" /\ format' = Append(format, o) /\ o.op \in IntOps
      /\ arguments' = Append(arguments, i) /\ UNCHANGED <<endian, data, off, fi, vals>>
  BY DEF PackInteger, MorePacked, Noted
<1>2. CASE FitsInt(i, Width(o), o.op \in SignedOps)
  <2>1. packing' = "pack" /\ packed' = packed \o PackInt(i, Width(o), endian)
    BY <1>1, <1>2 DEF PackInteger
  <2>2. Coded(o, i, endian) = PackInt(i, Width(o), endian)
    BY <1>1 DEF Coded, IntOps
  <2>3. Takes(o) /\ o.op \notin StringOps
    BY <1>1 DEF Takes, IntOps, StringOps
  <2> QED
    BY <1>1, <1>2, <2>1, <2>2, <2>3, ArgumentKeeps
<1>3. CASE ~FitsInt(i, Width(o), o.op \in SignedOps)
  <2>1. packing' = "error" /\ fi' = 1
    BY <1>1, <1>3 DEF PackInteger, PackTypeInv, PackTypes
  <2> QED
    BY <2>1 DEF RecordInv
<1> QED
  BY <1>2, <1>3

LEMMA PackTextKeeps ==
  ASSUME PackAssumption, PackTypeInv, PackTypeInv', RecordInv,
         NEW o \in Options, NEW s \in Strings, PackText(o, s)
  PROVE  RecordInv'
<1>1. /\ packing = "pack" /\ format' = Append(format, o) /\ o.op \in StringOps
      /\ arguments' = Append(arguments, s) /\ UNCHANGED <<endian, data, off, fi, vals>>
  BY DEF PackText, MorePacked, Noted
<1>2. CASE ~(o.op = "c" /\ (o.n = 0 \/ Len(s) < o.n))
  <2>1. packing' = "pack" /\ packed' = packed \o PackBytes(o, s)
    BY <1>1, <1>2 DEF PackText
  <2>2. Coded(o, s, endian) = PackBytes(o, s)
    BY <1>1, PackBytesAreCoded
  <2>3. Takes(o) /\ o.op \notin IntOps
    BY <1>1 DEF Takes, IntOps, StringOps
  <2>4. o.op = "c" => o.n # 0 /\ o.n <= Len(s)
    <3>1. o.n \in Nat /\ Len(s) \in Nat
      BY WidthInRange, SMTT(60) DEF PackAssumption
    <3> QED
      BY <1>2, <3>1
  <2> QED
    BY <1>1, <2>1, <2>2, <2>3, <2>4, ArgumentKeeps
<1>3. CASE o.op = "c" /\ (o.n = 0 \/ Len(s) < o.n)
  <2>1. packing' = "error" /\ fi' = 1
    BY <1>1, <1>3 DEF PackText, PackTypeInv, PackTypes
  <2> QED
    BY <2>1 DEF RecordInv
<1> QED
  BY <1>2, <1>3

-----------------------------------------------------------------------------
(* The record is unpacked.                                                 *)

LEMMA UnpackStarts ==
  ASSUME PackAssumption, Unambiguous, PackTypeInv, RecordInv,
         NEW prefix \in Before, Unpack(prefix)
  PROVE  RecordInv'
<1>1. /\ packing = "pack" /\ packing' = "unpack" /\ fi' = 1 /\ endian' = 0
      /\ data' = prefix \o packed /\ off' = Len(prefix)
      /\ UNCHANGED <<format, packed, arguments, vals>>
  BY DEF Unpack
<1>2. packed \in Seq(Byte) /\ vals = <<>> /\ prefix \in Seq(Byte)
  BY <1>1 DEF PackTypeInv, PackTypes, PackAssumption, Byte
<1>3. PICK pos, en, arg : Layout(format, arguments, packed, pos, en, arg)
  BY <1>1 DEF RecordInv
<1>4. pos[0] = 0 /\ en[0] = 0 /\ arg[0] = 0
  BY <1>3 DEF Layout
<1>5. /\ Len(data') = Len(prefix) + Len(packed) /\ Len(prefix) \in Nat /\ Len(packed) \in Nat
      /\ \A i \in 1 .. Len(packed) : data'[Len(prefix) + i] = packed[i]
  BY <1>1, <1>2, Joined
<1>6. Start' = Len(prefix)
  BY <1>1, <1>5 DEF Start
<1>7. \A o \in Options : o.op = "X" /\ o.n > 1 => Len(prefix) % o.n = 0
  BY DEF Unambiguous
<1>8. Len(vals') = 0 /\ fi' - 1 = 0 /\ \A k : k \notin 1 .. 0
  BY <1>1, <1>2
<1>9. Followed(pos, en, arg)'
  <2>1. Start' \in Nat /\ \A i \in 1 .. Len(packed') : data'[Start' + i] = packed'[i]
    BY <1>1, <1>5, <1>6
  <2>2. \A o \in Options : o.op = "X" /\ o.n > 1 => Start' % o.n = 0
    BY <1>6, <1>7
  <2>3. off' = Start' + pos[fi' - 1] /\ endian' = en[fi' - 1] /\ Len(vals') = arg[fi' - 1]
    BY <1>1, <1>4, <1>5, <1>6, <1>8
  <2>4. \A k \in 1 .. fi' - 1 : FALSE
    BY <1>8
  <2> QED
    BY <2>1, <2>2, <2>3, <2>4 DEF Followed
<1>10. Layout(format', arguments', packed', pos, en, arg)
  BY <1>1, <1>3
<1> QED
  BY <1>1, <1>9, <1>10 DEF RecordInv

(* What the option that is read next was packed as.                        *)
LEMMA NextOption ==
  ASSUME PackAssumption, PackTypeInv, Reading, NEW pos, NEW en, NEW arg,
         Layout(format, arguments, packed, pos, en, arg), Followed(pos, en, arg)
  PROVE  LET o == Option
             p == pos[fi - 1]
             q == pos[fi]
             v == arguments[arg[fi]]
             bs == Coded(o, v, endian)
         IN  /\ p \in Nat /\ q \in Nat /\ off = Start + p /\ Start \in Nat
             /\ Start + q <= Len(data)
             /\ en[fi] = IF o.op \in SwitchOps THEN Endian(o) ELSE endian
             /\ o.op \in SwitchOps => q = p
             /\ o.op \in PadOps => q = p + PadLen(o, p)
             /\ o.op \in IntOps => v \in Ints /\ FitsInt(v, Width(o), o.op \in SignedOps)
             /\ o.op \in StringOps => v \in Strings /\ (o.op = "c" => o.n # 0 /\ o.n <= Len(v))
             /\ Takes(o) => /\ bs \in Seq(Byte) /\ Len(bs) \in Nat /\ q = p + Len(bs)
                            /\ off + Len(bs) <= Len(data)
                            /\ \A i \in 1 .. Len(bs) : data[off + i] = bs[i]
<1> DEFINE o == Option
           p == pos[fi - 1]
           q == pos[fi]
           v == arguments[arg[fi]]
           bs == Coded(o, v, endian)
<1>1. /\ fi \in 1 .. Len(format) /\ Len(format) \in Nat /\ o \in Options
      /\ data \in Seq(Byte) /\ Len(data) \in Nat /\ off \in Nat
  BY ReadingFacts
<1>2. Len(packed) \in Nat
  BY DEF PackTypeInv, PackTypes
<1>3. /\ Start \in Nat /\ \A i \in 1 .. Len(packed) : data[Start + i] = packed[i]
      /\ off = Start + p /\ endian = en[fi - 1]
  BY DEF Followed
<1>4. Start + Len(packed) = Len(data)
  BY <1>1, <1>2 DEF Start
<1>5. Laid(o, arguments, packed, p, q, endian, en[fi], arg[fi - 1], arg[fi])
  BY <1>1, <1>3 DEF Layout, Option
<1> HIDE DEF o, p, q, v, bs
<1>6. /\ p \in 0 .. Len(packed) /\ q \in 0 .. Len(packed) /\ p <= q
      /\ en[fi] = IF o.op \in SwitchOps THEN Endian(o) ELSE endian
      /\ o.op \in SwitchOps => q = p
      /\ o.op \in PadOps => q = p + PadLen(o, p)
  BY <1>5 DEF Laid
<1>7. o.op \in IntOps => /\ v \in Ints /\ FitsInt(v, Width(o), o.op \in SignedOps)
                         /\ q = p + Len(bs) /\ \A i \in 1 .. Len(bs) : packed[p + i] = bs[i]
  BY <1>5 DEF Laid, LaidInt, v, bs
<1>8. o.op \in StringOps => /\ v \in Strings /\ (o.op = "c" => o.n # 0 /\ o.n <= Len(v))
                            /\ q = p + Len(bs) /\ \A i \in 1 .. Len(bs) : packed[p + i] = bs[i]
  BY <1>5 DEF Laid, LaidText, v, bs
<1>9. p \in Nat /\ q \in Nat /\ Start + q <= Len(data)
  BY <1>2, <1>3, <1>4, <1>6
<1>10. ASSUME Takes(o)
       PROVE  /\ bs \in Seq(Byte) /\ Len(bs) \in Nat /\ q = p + Len(bs)
              /\ off + Len(bs) <= Len(data)
              /\ \A i \in 1 .. Len(bs) : data[off + i] = bs[i]
  <2>1. bs \in Seq(Byte) /\ Len(bs) \in Nat
    BY <1>1, <1>7, <1>8, <1>10, CodedBytes DEF bs
  <2>2. q = p + Len(bs) /\ \A i \in 1 .. Len(bs) : packed[p + i] = bs[i]
    BY <1>7, <1>8, <1>10 DEF Takes
  <2>3. off + Len(bs) <= Len(data)
    BY <1>1, <1>3, <1>9, <2>1, <2>2
  <2>4. ASSUME NEW i \in 1 .. Len(bs)
        PROVE  data[off + i] = bs[i]
    <3>1. p + i \in 1 .. Len(packed) /\ Start + (p + i) = off + i
      BY <1>2, <1>3, <1>6, <1>9, <2>1, <2>2
    <3>2. data[Start + (p + i)] = packed[p + i]
      BY <1>3, <3>1
    <3> QED
      BY <2>2, <3>1, <3>2
  <2> QED
    BY <2>1, <2>2, <2>3, <2>4
<1> QED
  BY <1>3, <1>6, <1>7, <1>8, <1>9, <1>10 DEF o, p, q, v, bs

(* The reader goes on as the packer did.                                   *)
LEMMA ReaderFollows ==
  ASSUME PackAssumption, PackTypeInv, Reading, UNCHANGED <<format, packed, arguments, data>>,
         NEW pos, NEW en, NEW arg,
         Layout(format, arguments, packed, pos, en, arg), Followed(pos, en, arg),
         packing' = "unpack", fi' = fi + 1, off' = Start + pos[fi], endian' = en[fi],
         ~Takes(Option) => vals' = vals,
         Takes(Option) => \E x \in Values :
            vals' = Append(vals, x) /\ x = Delivered(Option, arguments[arg[fi]])
  PROVE  RecordInv'
<1>1. fi \in 1 .. Len(format) /\ fi \in Nat /\ vals \in Seq(Values) /\ Len(vals) \in Nat
  BY ReadingFacts DEF PackTypeInv, PackTypes
<1>2. /\ Start \in Nat /\ \A i \in 1 .. Len(packed) : data[Start + i] = packed[i]
      /\ \A o \in Options : o.op = "X" /\ o.n > 1 => Start % o.n = 0
      /\ Len(vals) = arg[fi - 1]
      /\ \A k \in 1 .. fi - 1 : Takes(format[k]) =>
           /\ arg[k] \in 1 .. Len(vals)
           /\ vals[arg[k]] = Delivered(format[k], arguments[arg[k]])
  BY DEF Followed
<1>3. Start' = Start /\ fi' - 1 = fi /\ Option = format[fi]
  BY <1>1 DEF Start, Option
<1>4. arg[fi] = IF Takes(Option) THEN arg[fi - 1] + 1 ELSE arg[fi - 1]
  BY <1>1 DEF Layout, Laid, Option
<1>5. /\ Len(vals') = arg[fi]
      /\ \A k \in 1 .. fi : Takes(format[k]) =>
           /\ arg[k] \in 1 .. Len(vals')
           /\ vals'[arg[k]] = Delivered(format[k], arguments[arg[k]])
  <2>1. \A k \in 1 .. fi : k = fi \/ k \in 1 .. fi - 1
    BY <1>1
  <2>2. CASE Takes(Option)
    <3>1. PICK x \in Values : vals' = Append(vals, x) /\ x = Delivered(Option, arguments[arg[fi]])
      BY <2>2
    <3>2. /\ Len(vals') = Len(vals) + 1 /\ vals'[Len(vals) + 1] = x
          /\ \A i \in 1 .. Len(vals) : vals'[i] = vals[i]
      BY <1>1, <3>1, OneMore
    <3>3. arg[fi] = Len(vals) + 1
      BY <1>2, <1>4, <2>2
    <3>4. ASSUME NEW k \in 1 .. fi, Takes(format[k])
          PROVE  /\ arg[k] \in 1 .. Len(vals')
                 /\ vals'[arg[k]] = Delivered(format[k], arguments[arg[k]])
      <4>1. CASE k = fi
        BY <1>1, <1>3, <3>1, <3>2, <3>3, <4>1
      <4>2. CASE k \in 1 .. fi - 1
        <5>1. arg[k] \in 1 .. Len(vals) /\ vals[arg[k]] = Delivered(format[k], arguments[arg[k]])
          BY <1>2, <3>4, <4>2
        <5> QED
          BY <1>1, <3>2, <5>1
      <4> QED
        BY <2>1, <4>1, <4>2
    <3> QED
      BY <3>2, <3>3, <3>4
  <2>3. CASE ~Takes(Option)
    BY <1>2, <1>3, <1>4, <2>1, <2>3
  <2> QED
    BY <2>2, <2>3
<1>6. Followed(pos, en, arg)'
  BY <1>2, <1>3, <1>5 DEF Followed
<1>7. Layout(format', arguments', packed', pos, en, arg)
  OBVIOUS
<1> QED
  BY <1>6, <1>7 DEF RecordInv

LEMMA UnpackSwitchKeeps ==
  ASSUME PackAssumption, PackTypeInv, RecordInv, UnpackSwitch
  PROVE  RecordInv'
<1>1. /\ Reading /\ packing = "unpack" /\ packing' = "unpack" /\ fi' = fi + 1
      /\ UNCHANGED <<format, packed, arguments, data, off, vals>>
      /\ Option.op \in SwitchOps /\ endian' = Endian(Option)
  BY DEF UnpackSwitch, Reading
<1>2. PICK pos, en, arg :
        Layout(format, arguments, packed, pos, en, arg) /\ Followed(pos, en, arg)
  BY <1>1 DEF RecordInv
<1>3. off' = Start + pos[fi] /\ endian' = en[fi]
  BY <1>1, <1>2, NextOption
<1>4. ~Takes(Option)
  BY <1>1 DEF Takes, SwitchOps, IntOps, StringOps
<1> QED
  BY <1>1, <1>2, <1>3, <1>4, ReaderFollows

LEMMA UnpackPaddingKeeps ==
  ASSUME PackAssumption, PackTypeInv, RecordInv, UnpackPadding
  PROVE  RecordInv'
<1>1. /\ Reading /\ packing = "unpack" /\ packing' = "unpack" /\ fi' = fi + 1
      /\ UNCHANGED <<format, packed, arguments, data, endian, vals>>
      /\ Option.op \in PadOps /\ off' = off + PadLen(Option, off)
  BY DEF UnpackPadding, Reading, PadLen
<1>2. PICK pos, en, arg :
        Layout(format, arguments, packed, pos, en, arg) /\ Followed(pos, en, arg)
  BY <1>1 DEF RecordInv
<1>3. ~Takes(Option) /\ Option.op \notin SwitchOps
  BY <1>1 DEF Takes, SwitchOps, IntOps, StringOps, PadOps
<1> DEFINE p == pos[fi - 1]
<1>4. /\ p \in Nat /\ off = Start + p /\ Start \in Nat /\ endian' = en[fi]
      /\ pos[fi] = p + PadLen(Option, p)
  BY <1>1, <1>2, <1>3, NextOption
<1>5. Option \in Options /\ Option.n \in Nat
  BY <1>1, ReadingFacts
<1> HIDE DEF p
<1>6. PadLen(Option, off) = PadLen(Option, p) /\ PadLen(Option, p) \in Nat
  <2>1. Option.op = "x" \/ Option.op = "X"
    BY <1>1 DEF PadOps
  <2>2. Option.op = "X" /\ Option.n > 1 => Start % Option.n = 0
    BY <1>2, <1>5 DEF Followed
  <2>3. CASE Option.op = "x"
    BY <2>3 DEF PadLen
  <2>4. CASE Option.op = "X"
    <3>1. PadTo(Start + p, Option.n) = PadTo(p, Option.n) /\ PadTo(p, Option.n) \in Nat
      BY <1>4, <1>5, <2>2, <2>4, PadFacts
    <3> QED
      BY <1>4, <2>4, <3>1 DEF PadLen
  <2> QED
    BY <2>1, <2>3, <2>4
<1>7. off' = Start + pos[fi]
  BY <1>1, <1>4, <1>6
<1> QED
  BY <1>1, <1>2, <1>3, <1>4, <1>7, ReaderFollows

LEMMA UnpackIntegerKeeps ==
  ASSUME PackAssumption, PackTypeInv, RecordInv, UnpackInteger
  PROVE  RecordInv'
<1>1. /\ Reading /\ packing = "unpack" /\ fi' = fi + 1 /\ Option.op \in IntOps
      /\ UNCHANGED <<format, packed, arguments, data, endian>>
  BY DEF UnpackInteger, Reading
<1>2. PICK pos, en, arg :
        Layout(format, arguments, packed, pos, en, arg) /\ Followed(pos, en, arg)
  BY <1>1 DEF RecordInv
<1>3. Takes(Option) /\ Option.op \notin SwitchOps
  BY <1>1 DEF Takes, SwitchOps, IntOps
<1> DEFINE v == arguments[arg[fi]]
           w == Width(Option)
           bs == Coded(Option, v, endian)
<1>4. /\ v \in Ints /\ FitsInt(v, w, Option.op \in SignedOps)
      /\ pos[fi] = pos[fi - 1] + Len(bs) /\ off + Len(bs) <= Len(data)
      /\ off = Start + pos[fi - 1] /\ pos[fi - 1] \in Nat /\ Start \in Nat
      /\ bs \in Seq(Byte) /\ \A i \in 1 .. Len(bs) : data[off + i] = bs[i]
      /\ endian' = en[fi]
  <2>1. v \in Ints /\ FitsInt(v, w, Option.op \in SignedOps)
    BY <1>1, <1>2, NextOption
  <2>2. /\ pos[fi] = pos[fi - 1] + Len(bs) /\ off + Len(bs) <= Len(data)
        /\ bs \in Seq(Byte) /\ \A i \in 1 .. Len(bs) : data[off + i] = bs[i]
    BY <1>1, <1>2, <1>3, NextOption
  <2>3. off = Start + pos[fi - 1] /\ pos[fi - 1] \in Nat /\ Start \in Nat
    BY <1>1, <1>2, NextOption
  <2>4. endian' = en[fi]
    BY <1>1, <1>2, <1>3, NextOption
  <2> QED
    BY <2>1, <2>2, <2>3, <2>4
<1>5. /\ w \in 1 .. 8 /\ data \in Seq(Byte) /\ Len(data) \in Nat /\ off \in Nat
  BY <1>1, ReadingFacts
<1>6. v \in Word
  BY <1>4 DEF PackAssumption, Word, Byte
<1>7. bs = PackInt(v, w, endian)
  BY <1>1 DEF Coded, IntOps
<1>8. Len(bs) = w
  <2> HIDE DEF v, w, bs
  <2>1. Len(PackInt(v, w, endian)) = w
    BY <1>5, <1>6, IntBytes
  <2> QED
    BY <1>7, <2>1
<1>9. Bytes(w) = bs
  <2> HIDE DEF bs, w
  <2>1. SubSeq(data, off + 1, off + Len(bs)) = bs
    BY <1>4, <1>5, CutIs
  <2> QED
    BY <1>8, <2>1 DEF Bytes
<1>10. LoadInt(Bytes(w), Option.op \in SignedOps, endian) = v
  <2>1. LoadInt(PackInt(v, w, endian), Option.op \in SignedOps, endian) = v
    <3> DEFINE op == Option.op
    <3>1. FitsInt(v, w, op \in SignedOps)
      BY <1>4
    <3> HIDE DEF v, w, op
    <3>2. LoadInt(PackInt(v, w, endian), op \in SignedOps, endian) = v
      BY <1>5, <1>6, <3>1, IntComesBack
    <3> QED
      BY <3>2 DEF op
  <2> QED
    BY <1>7, <1>9, <2>1
<1>11. packing' = "unpack" /\ vals' = Append(vals, v) /\ off' = off + w
  <2>1. ~(off + w > Len(data))
    BY <1>4, <1>5, <1>8
  <2> QED
    BY <1>1, <1>10, <2>1 DEF UnpackInteger, Deliver, Ok
<1>12. v \in Values /\ v = Delivered(Option, v)
  BY <1>1, <1>6 DEF Values, Delivered, IntOps
<1>13. off' = Start + pos[fi]
  <2> HIDE DEF bs, w
  <2> QED
    BY <1>4, <1>5, <1>8, <1>11
<1> QED
  BY <1>1, <1>2, <1>3, <1>4, <1>11, <1>12, <1>13, ReaderFollows

LEMMA UnpackCountedKeeps ==
  ASSUME PackAssumption, Unambiguous, PackTypeInv, RecordInv, UnpackCounted
  PROVE  RecordInv'
<1>1. /\ Reading /\ packing = "unpack" /\ fi' = fi + 1 /\ Option.op = "s"
      /\ UNCHANGED <<format, packed, arguments, data, endian>>
  BY DEF UnpackCounted, Reading
<1>2. PICK pos, en, arg :
        Layout(format, arguments, packed, pos, en, arg) /\ Followed(pos, en, arg)
  BY <1>1 DEF RecordInv
<1>3. Takes(Option) /\ Option.op \in StringOps /\ Option.op \notin SwitchOps /\ Option.op \notin IntOps
  BY <1>1 DEF Takes, SwitchOps, IntOps, StringOps
<1> DEFINE v == arguments[arg[fi]]
           u == OrElse(Option.n, 8)
           pre == PackInt(AsInt(Len(v)), u, 1)
           bs == Coded(Option, v, endian)
<1>4. /\ v \in Strings
      /\ pos[fi] = pos[fi - 1] + Len(bs) /\ off + Len(bs) <= Len(data)
      /\ off = Start + pos[fi - 1] /\ pos[fi - 1] \in Nat /\ Start \in Nat
      /\ bs \in Seq(Byte) /\ \A i \in 1 .. Len(bs) : data[off + i] = bs[i]
      /\ endian' = en[fi]
  BY <1>1, <1>2, <1>3, NextOption
<1>5. /\ u \in 1 .. 8 /\ data \in Seq(Byte) /\ Len(data) \in Nat /\ off \in Nat /\ Option \in Options
  BY <1>1, ReadingFacts
<1>6. /\ v \in Seq(Byte) /\ Len(v) \in Nat /\ Len(v) < 256 * 256
      /\ u = 1 => Len(v) < 256
  BY <1>1, <1>4, <1>5, SMTT(60) DEF PackAssumption, Unambiguous, Byte
<1>7. bs = pre \o v
  BY <1>1, <1>3 DEF Coded
<1> DEFINE len == Len(v)
<1> HIDE DEF v, u, bs
<1>8. pre \in Seq(Byte) /\ Len(pre) = u
  <2>1. AsInt(len) \in Word
    BY <1>6, AsIntIsWord
  <2> QED
    BY <1>5, <2>1, IntBytes
<1>9. AsLen(LoadInt(pre, FALSE, 1)) = len
  BY <1>5, <1>6, LengthComesBack
<1> HIDE DEF pre
<1>10. /\ Len(bs) = u + len
       /\ \A i \in 1 .. u : data[off + i] = pre[i]
       /\ \A i \in 1 .. len : data[off + u + i] = v[i]
  <2>1. /\ Len(bs) = u + len
        /\ \A i \in 1 .. u : bs[i] = pre[i]
        /\ \A i \in 1 .. len : bs[u + i] = v[i]
    BY <1>6, <1>7, <1>8, Joined
  <2>2. ASSUME NEW i \in 1 .. u
        PROVE  data[off + i] = pre[i]
    <3>1. i \in 1 .. Len(bs)
      BY <1>5, <1>6, <2>1
    <3> QED
      BY <1>4, <2>1, <3>1
  <2>3. ASSUME NEW i \in 1 .. len
        PROVE  data[off + u + i] = v[i]
    <3>1. u + i \in 1 .. Len(bs) /\ off + (u + i) = off + u + i
      BY <1>5, <1>6, <2>1
    <3> QED
      BY <1>4, <2>1, <3>1
  <2> QED
    BY <2>1, <2>2, <2>3
<1>11. len \in Nat /\ u \in Nat /\ off + u \in Nat /\ off + u + len <= Len(data) /\ off + u <= Len(data)
  <2>1. len \in Nat /\ u \in Nat /\ off \in Nat /\ Len(data) \in Nat
    BY <1>5, <1>6
  <2>2. Len(bs) = u + len /\ off + Len(bs) <= Len(data)
    BY <1>4, <1>10
  <2> HIDE DEF len
  <2> QED
    BY <2>1, <2>2
<1>12. Bytes(u) = pre
  <2>1. SubSeq(data, off + 1, off + Len(pre)) = pre
    BY <1>5, <1>8, <1>10, <1>11, CutIs
  <2> QED
    BY <1>8, <2>1 DEF Bytes
<1>13. SubSeq(data, off + u + 1, off + u + len) = v
  <2>1. \A i \in 1 .. Len(v) : data[(off + u) + i] = v[i]
    BY <1>10
  <2>2. (off + u) + Len(v) <= Len(data)
    BY <1>11
  <2>3. SubSeq(data, (off + u) + 1, (off + u) + Len(v)) = v
    BY <1>5, <1>6, <1>11, <2>1, <2>2, CutIs
  <2> QED
    BY <2>3
<1>14. AsLen(LoadInt(Bytes(u), FALSE, 1)) = len
  BY <1>9, <1>12
<1>15. packing' = "unpack" /\ vals' = Append(vals, v) /\ off' = off + u + len
  <2>1. ~(off + u > Len(data)) /\ ~(off + u + len > Len(data))
    BY <1>5, <1>11
  <2>2. \/ off + u > Len(data)
        \/ off + u + AsLen(LoadInt(Bytes(u), FALSE, 1)) > Len(data)
        \/ /\ vals' = Append(vals, SubSeq(data, off + u + 1,
                                off + u + AsLen(LoadInt(Bytes(u), FALSE, 1))))
           /\ off' = off + u + AsLen(LoadInt(Bytes(u), FALSE, 1)) /\ packing' = packing
    BY DEF UnpackCounted, Deliver, Ok, u
  <2> QED
    BY <1>1, <1>13, <1>14, <2>1, <2>2
<1>16. v \in Values /\ v = Delivered(Option, v)
  BY <1>1, <1>6 DEF Values, Delivered
<1>17. off' = Start + pos[fi]
  BY <1>4, <1>10, <1>11, <1>15
<1> QED
  BY <1>1, <1>2, <1>3, <1>4, <1>15, <1>16, <1>17, ReaderFollows DEF v

LEMMA UnpackTerminatedKeeps ==
  ASSUME PackAssumption, Unambiguous, PackTypeInv, RecordInv, UnpackTerminated
  PROVE  RecordInv'
<1>1. /\ Reading /\ packing = "unpack" /\ fi' = fi + 1 /\ Option.op = "z"
      /\ UNCHANGED <<format, packed, arguments, data, endian>>
  BY DEF UnpackTerminated, Reading
<1>2. PICK pos, en, arg :
        Layout(format, arguments, packed, pos, en, arg) /\ Followed(pos, en, arg)
  BY <1>1 DEF RecordInv
<1>3. Takes(Option) /\ Option.op \in StringOps /\ Option.op \notin SwitchOps /\ Option.op \notin IntOps
  BY <1>1 DEF Takes, SwitchOps, IntOps, StringOps
<1> DEFINE v == arguments[arg[fi]]
           bs == Coded(Option, v, endian)
<1>4. /\ v \in Strings
      /\ pos[fi] = pos[fi - 1] + Len(bs) /\ off + Len(bs) <= Len(data)
      /\ off = Start + pos[fi - 1] /\ pos[fi - 1] \in Nat /\ Start \in Nat
      /\ bs \in Seq(Byte) /\ \A i \in 1 .. Len(bs) : data[off + i] = bs[i]
      /\ endian' = en[fi]
  BY <1>1, <1>2, <1>3, NextOption
<1>5. /\ data \in Seq(Byte) /\ Len(data) \in Nat /\ off \in Nat /\ Option \in Options
  BY <1>1, ReadingFacts
<1>6. v \in Seq(Byte) /\ Len(v) \in Nat /\ \A i \in 1 .. Len(v) : v[i] # 0
  BY <1>1, <1>4, <1>5, SMTT(60) DEF PackAssumption, Unambiguous, Byte
<1>7. bs = v \o <<0>>
  BY <1>1, <1>3 DEF Coded
<1> DEFINE len == Len(v)
           nuls == {j \in off + 1 .. Len(data) : data[j] = 0}
           nul == off + len + 1
<1> HIDE DEF v, bs
<1>8. /\ Len(bs) = len + 1 /\ bs[len + 1] = 0 /\ \A i \in 1 .. len : bs[i] = v[i]
  <2>1. <<0>> \in Seq(Byte) /\ Len(<<0>>) = 1 /\ <<0>>[1] = 0 /\ 1 \in 1 .. 1
    BY DEF Byte
  <2> QED
    BY <1>6, <1>7, <2>1, Joined
<1>9. /\ nul \in Nat /\ nul \in off + 1 .. Len(data) /\ data[nul] = 0
      /\ \A i \in 1 .. len : data[off + i] = v[i] /\ data[off + i] # 0
  <2>1. len + 1 \in 1 .. Len(bs) /\ off + (len + 1) = nul
    BY <1>5, <1>6, <1>8
  <2>2. data[nul] = 0
    BY <1>4, <1>8, <2>1
  <2>3. ASSUME NEW i \in 1 .. len
        PROVE  data[off + i] = v[i] /\ data[off + i] # 0
    <3>1. i \in 1 .. Len(bs)
      BY <1>6, <1>8
    <3> QED
      BY <1>4, <1>6, <1>8, <3>1
  <2>4. nul <= Len(data)
    BY <1>4, <1>5, <1>6, <1>8
  <2> QED
    BY <1>5, <1>6, <2>2, <2>3, <2>4
<1>10. nul \in nuls /\ \A k \in nuls : nul <= k
  <2>1. ASSUME NEW k \in nuls, ~(nul <= k)
        PROVE  FALSE
    <3>1. k - off \in 1 .. len /\ off + (k - off) = k
      BY <1>5, <1>6, <2>1
    <3> QED
      BY <1>9, <2>1, <3>1
  <2> QED
    BY <1>9, <2>1
<1>11. nul = CHOOSE j \in nuls : \A k \in nuls : j <= k
  <2>1. \A k \in nuls : k \in Nat
    BY <1>5
  <2>2. \A j \in nuls : (\A k \in nuls : j <= k) => j = nul
    <3> HIDE DEF nuls, nul
    <3> QED
      BY <1>9, <1>10, <2>1
  <2> HIDE DEF nuls, nul
  <2> QED
    BY <1>10, <2>2
<1>12. nuls # {}
  BY <1>10
<1>13. SubSeq(data, off + 1, nul - 1) = v
  <2>1. SubSeq(data, off + 1, off + Len(v)) = v
    <3>1. \A i \in 1 .. Len(v) : data[off + i] = v[i]
      BY <1>9
    <3>2. off + Len(v) <= Len(data)
      BY <1>4, <1>5, <1>6, <1>8
    <3> HIDE DEF nul, nuls, len
    <3> QED
      BY <1>5, <1>6, <3>1, <3>2, CutIs
  <2>2. nul - 1 = off + Len(v)
    BY <1>5, <1>6
  <2> QED
    BY <2>1, <2>2
<1>14. packing' = "unpack" /\ vals' = Append(vals, v) /\ off' = nul
  <2> DEFINE first == CHOOSE j \in nuls : \A k \in nuls : j <= k
  <2>1. packing' = packing /\ vals' = Append(vals, SubSeq(data, off + 1, first - 1)) /\ off' = first
    BY <1>12 DEF UnpackTerminated, Deliver, Ok
  <2> HIDE DEF first, nul
  <2>2. first = nul
    BY <1>11 DEF first
  <2> QED
    BY <1>1, <1>13, <2>1, <2>2
<1>15. v \in Values /\ v = Delivered(Option, v)
  BY <1>1, <1>6 DEF Values, Delivered
<1>16. off' = Start + pos[fi]
  BY <1>4, <1>5, <1>6, <1>8, <1>14, SMTT(60)
<1> QED
  BY <1>1, <1>2, <1>3, <1>4, <1>14, <1>15, <1>16, ReaderFollows DEF v

LEMMA UnpackFixedKeeps ==
  ASSUME PackAssumption, PackTypeInv, RecordInv, UnpackFixed
  PROVE  RecordInv'
<1>1. /\ Reading /\ packing = "unpack" /\ fi' = fi + 1 /\ Option.op = "c"
      /\ UNCHANGED <<format, packed, arguments, data, endian>>
  BY DEF UnpackFixed, Reading
<1>2. PICK pos, en, arg :
        Layout(format, arguments, packed, pos, en, arg) /\ Followed(pos, en, arg)
  BY <1>1 DEF RecordInv
<1>3. Takes(Option) /\ Option.op \in StringOps /\ Option.op \notin SwitchOps /\ Option.op \notin IntOps
  BY <1>1 DEF Takes, SwitchOps, IntOps, StringOps
<1> DEFINE v == arguments[arg[fi]]
           u == Option.n
           bs == Coded(Option, v, endian)
<1>4. /\ v \in Strings /\ u # 0 /\ u <= Len(v)
      /\ pos[fi] = pos[fi - 1] + Len(bs) /\ off + Len(bs) <= Len(data)
      /\ off = Start + pos[fi - 1] /\ pos[fi - 1] \in Nat /\ Start \in Nat
      /\ bs \in Seq(Byte) /\ \A i \in 1 .. Len(bs) : data[off + i] = bs[i]
      /\ endian' = en[fi]
  BY <1>1, <1>2, <1>3, NextOption
<1>5. /\ data \in Seq(Byte) /\ Len(data) \in Nat /\ off \in Nat /\ u \in Nat
  BY <1>1, ReadingFacts
<1>6. v \in Seq(Byte)
  BY <1>4 DEF PackAssumption, Byte
<1>7. bs = SubSeq(v, 1, u) /\ Delivered(Option, v) = SubSeq(v, 1, u) /\ OrElse(u, Len(data) - off) = u
  BY <1>1, <1>3, <1>4 DEF Coded, Delivered, OrElse
<1>8. Len(bs) = u
  <2> HIDE DEF v, u, bs
  <2>1. Len(SubSeq(v, 0 + 1, 0 + u)) = u
    BY <1>4, <1>5, <1>6, Cut
  <2> QED
    BY <1>5, <1>7, <2>1
<1>9. Bytes(u) = bs
  <2> HIDE DEF bs, u
  <2>1. SubSeq(data, off + 1, off + Len(bs)) = bs
    BY <1>4, <1>5, CutIs
  <2> QED
    BY <1>8, <2>1 DEF Bytes
<1>10. packing' = "unpack" /\ vals' = Append(vals, bs) /\ off' = off + u
  <2>1. ~(u < 0 \/ off + u > Len(data))
    BY <1>4, <1>5, <1>8
  <2>2. packing' = packing /\ vals' = Append(vals, Bytes(u)) /\ off' = off + u
    BY <1>7, <2>1 DEF UnpackFixed, Deliver, Ok
  <2> QED
    BY <1>1, <1>9, <2>2
<1>11. bs \in Values /\ bs = Delivered(Option, v)
  BY <1>4, <1>7 DEF Values
<1>12. off' = Start + pos[fi]
  <2> HIDE DEF bs, u
  <2> QED
    BY <1>4, <1>5, <1>8, <1>10
<1> HIDE DEF bs
<1> QED
  BY <1>1, <1>2, <1>3, <1>4, <1>10, <1>11, <1>12, ReaderFollows

-----------------------------------------------------------------------------
LEMMA FinishKeeps ==
  ASSUME RecordInv, PackTypeInv, Finish \/ UNCHANGED packVars
  PROVE  RecordInv'
<1>1. UNCHANGED <<format, endian, packed, arguments, data, off, fi, vals>>
  BY DEF Finish, packVars
<1>2. CASE packing' = packing
  BY <1>1, <1>2, SMTT(60) DEF RecordInv, Layout, Followed, Start
<1>3. CASE packing = "unpack" /\ fi > Len(format) /\ packing' = "done"
  <2>1. fi' = Len(format') + 1
    BY <1>1, <1>3 DEF PackTypeInv, PackTypes
  <2>2. PICK pos, en, arg :
          Layout(format, arguments, packed, pos, en, arg) /\ Followed(pos, en, arg)
    BY <1>3 DEF RecordInv
  <2>3. Layout(format', arguments', packed', pos, en, arg)
    BY <1>1, <2>2
  <2>4. Followed(pos, en, arg)'
    BY <1>1, <2>2 DEF Followed, Start
  <2> QED
    BY <1>3, <2>1, <2>3, <2>4 DEF RecordInv
<1> QED
  BY <1>2, <1>3 DEF Finish, packVars

LEMMA InitIsRecord ==
  ASSUME PackInit
  PROVE  RecordInv
<1> DEFINE g == [k \in 0 .. 0 |-> 0]
<1>1. /\ packing = "pack" /\ endian = 0 /\ format = <<>> /\ packed = <<>> /\ arguments = <<>>
      /\ Len(format) = 0 /\ Len(packed) = 0 /\ Len(arguments) = 0
  BY DEF PackInit
<1>2. g \in [0 .. 0 -> Nat] /\ g \in [0 .. 0 -> {0, 1}] /\ g[0] = 0
  OBVIOUS
<1>3. \A k \in 1 .. 0 : FALSE
  OBVIOUS
<1> HIDE DEF g
<1>4. Layout(format, arguments, packed, g, g, g) /\ endian = g[Len(format)]
  BY <1>1, <1>2, <1>3 DEF Layout
<1> QED
  BY <1>1, <1>4 DEF RecordInv

LEMMA StepKeepsRecord ==
  ASSUME PackAssumption, Unambiguous, PackTypeInv, RecordInv, [PackNext]_packVars
  PROVE  RecordInv'
<1>0. PackTypeInv'
  BY StepKeepsTypes
<1>1. ASSUME NEW o \in Options, PackSwitch(o) \/ PackPadding(o)
      PROVE  RecordInv'
  BY <1>0, <1>1, PackSwitchKeeps, PackPaddingKeeps
<1>2. ASSUME NEW o \in Options, NEW i \in Ints, PackInteger(o, i)
      PROVE  RecordInv'
  BY <1>0, <1>2, PackIntegerKeeps
<1>3. ASSUME NEW o \in Options, NEW s \in Strings, PackText(o, s)
      PROVE  RecordInv'
  BY <1>0, <1>3, PackTextKeeps
<1>4. ASSUME NEW prefix \in Before, Unpack(prefix)
      PROVE  RecordInv'
  BY <1>4, UnpackStarts
<1>5. CASE UnpackSwitch \/ UnpackPadding \/ UnpackInteger
  BY <1>0, <1>5, UnpackSwitchKeeps, UnpackPaddingKeeps, UnpackIntegerKeeps
<1>6. CASE UnpackCounted \/ UnpackTerminated \/ UnpackFixed
  BY <1>0, <1>6, UnpackCountedKeeps, UnpackTerminatedKeeps, UnpackFixedKeeps
<1>7. CASE Finish \/ UNCHANGED packVars
  BY <1>7, FinishKeeps
<1> QED
  BY <1>1, <1>2, <1>3, <1>4, <1>5, <1>6, <1>7 DEF PackNext

LEMMA AlwaysRecord ==
  ASSUME PackAssumption, Unambiguous
  PROVE  PackSpec => [](PackTypeInv /\ RecordInv)
<1>1. PackInit => PackTypeInv /\ RecordInv
  BY InitIsTyped, InitIsRecord
<1>2. PackTypeInv /\ RecordInv /\ [PackNext]_packVars => (PackTypeInv /\ RecordInv)'
  BY StepKeepsTypes, StepKeepsRecord
<1> QED
  BY <1>1, <1>2, PTL DEF PackSpec

(* A layout counts the arguments as the property does, and measures the    *)
(* record as string-packsize does.                                         *)
LEMMA LayoutCounts ==
  ASSUME NEW fmt, Len(fmt) \in Nat, NEW arg \in [0 .. Len(fmt) -> Nat], arg[0] = 0,
         \A k \in 1 .. Len(fmt) : arg[k] = arg[k - 1] + (IF Takes(fmt[k]) THEN 1 ELSE 0)
  PROVE  \A k \in 0 .. Len(fmt) : Taken(fmt)[k] = arg[k]
<1> DEFINE u == Len(fmt)
           F(f) == [k \in 0 .. u |->
                      IF k = 0 THEN 0 ELSE f[k - 1] + (IF Takes(fmt[k]) THEN 1 ELSE 0)]
           t == Taken(fmt)
<1>1. arg = F(arg)
  <2>1. ASSUME NEW k \in 0 .. u
        PROVE  arg[k] = IF k = 0 THEN 0 ELSE arg[k - 1] + (IF Takes(fmt[k]) THEN 1 ELSE 0)
    <3>1. k = 0 \/ k \in 1 .. u
      OBVIOUS
    <3> QED
      BY <3>1
  <2>2. arg = [k \in 0 .. u |-> arg[k]]
    OBVIOUS
  <2> QED
    BY <2>1, <2>2
<1>2. t = CHOOSE f : f = F(f)
  BY DEF Taken
<1>3. t = F(t)
  <2> HIDE DEF F, t
  <2> QED
    BY <1>1, <1>2
<1> HIDE DEF t
<1> DEFINE T == {k \in Nat : k <= u => t[k] = arg[k]}
<1>4. 0 \in T
  <2>1. 0 \in 0 .. u
    OBVIOUS
  <2> QED
    BY <1>3, <2>1
<1>5. ASSUME NEW k \in Nat, k \in T
      PROVE  k + 1 \in T
  <2>1. CASE k + 1 <= u
    <3>1. k + 1 \in 1 .. u /\ k + 1 \in 0 .. u /\ k + 1 # 0 /\ (k + 1) - 1 = k /\ k <= u
      BY <2>1
    <3>2. t[k + 1] = t[k] + (IF Takes(fmt[k + 1]) THEN 1 ELSE 0)
      BY <1>3, <3>1
    <3>3. arg[k + 1] = arg[k] + (IF Takes(fmt[k + 1]) THEN 1 ELSE 0)
      BY <3>1
    <3> QED
      BY <1>5, <3>1, <3>2, <3>3
  <2>2. CASE ~(k + 1 <= u)
    BY <2>2
  <2> QED
    BY <2>1, <2>2
<1> HIDE DEF T
<1>6. Nat \subseteq T
  BY <1>4, <1>5, SetInduction
<1>7. \A k \in 0 .. u : k \in Nat /\ k <= u
  OBVIOUS
<1> QED
  BY <1>6, <1>7 DEF T, t

LEMMA LayoutMeasures ==
  ASSUME NEW fmt, Len(fmt) \in Nat, NEW pos \in [0 .. Len(fmt) -> Nat], pos[0] = 0,
         \A k \in 1 .. Len(fmt) : pos[k] = pos[k - 1] + OptionSize(pos[k - 1], fmt[k])
  PROVE  PackSize(fmt) = pos[Len(fmt)]
<1> DEFINE u == Len(fmt)
           F(f) == [k \in 0 .. u |->
                      IF k = 0 THEN 0 ELSE f[k - 1] + OptionSize(f[k - 1], fmt[k])]
           t == CHOOSE f : f = F(f)
<1>1. pos = F(pos)
  <2>1. ASSUME NEW k \in 0 .. u
        PROVE  pos[k] = IF k = 0 THEN 0 ELSE pos[k - 1] + OptionSize(pos[k - 1], fmt[k])
    <3>1. k = 0 \/ k \in 1 .. u
      OBVIOUS
    <3> QED
      BY <3>1
  <2>2. pos = [k \in 0 .. u |-> pos[k]]
    OBVIOUS
  <2> QED
    BY <2>1, <2>2
<1>2. PackSize(fmt) = t[u]
  BY DEF PackSize
<1>3. t = F(t)
  <2> HIDE DEF F
  <2> QED
    BY <1>1
<1> HIDE DEF t
<1> DEFINE T == {k \in Nat : k <= u => t[k] = pos[k]}
<1>4. 0 \in T
  <2>1. 0 \in 0 .. u
    OBVIOUS
  <2> QED
    BY <1>3, <2>1
<1>5. ASSUME NEW k \in Nat, k \in T
      PROVE  k + 1 \in T
  <2>1. CASE k + 1 <= u
    <3>1. k + 1 \in 1 .. u /\ k + 1 \in 0 .. u /\ k + 1 # 0 /\ (k + 1) - 1 = k /\ k <= u
      BY <2>1
    <3>2. t[k + 1] = t[k] + OptionSize(t[k], fmt[k + 1])
      BY <1>3, <3>1
    <3>3. pos[k + 1] = pos[k] + OptionSize(pos[k], fmt[k + 1])
      BY <3>1
    <3> QED
      BY <1>5, <3>1, <3>2, <3>3
  <2>2. CASE ~(k + 1 <= u)
    BY <2>2
  <2> QED
    BY <2>1, <2>2
<1> HIDE DEF T
<1>6. Nat \subseteq T
  BY <1>4, <1>5, SetInduction
<1> QED
  BY <1>2, <1>6 DEF T

(* An option takes as many bytes as string-packsize counts for it.         *)
LEMMA SizeOfLaid ==
  ASSUME PackAssumption, NEW o \in Options, o.op \notin StringOps, NEW args, NEW outs,
         NEW p, NEW q, NEW e \in {0, 1}, NEW f, NEW a, NEW b, Len(outs) \in Nat,
         Laid(o, args, outs, p, q, e, f, a, b)
  PROVE  q = p + OptionSize(p, o)
<1>1. o.op \in SwitchOps \/ o.op \in PadOps \/ o.op \in IntOps
  BY DEF PackAssumption
<1>2. p \in Nat
  BY DEF Laid
<1>3. CASE o.op \in SwitchOps
  <2>1. q = p
    BY <1>3 DEF Laid
  <2>2. OptionSize(p, o) = 0
    <3>1. ~(o.op = "x") /\ ~(o.op = "X") /\ ~(o.op \in IntOps)
      BY <1>3 DEF SwitchOps, IntOps
    <3> QED
      BY <1>3, <3>1 DEF OptionSize
  <2> QED
    BY <1>2, <2>1, <2>2
<1>4. CASE o.op \in PadOps
  <2>1. q = p + PadLen(o, p)
    BY <1>4 DEF Laid
  <2>2. OptionSize(p, o) = PadLen(o, p)
    <3>1. ~(o.op \in SwitchOps) /\ ~(o.op \in IntOps) /\ (o.op = "x" \/ o.op = "X") /\ "x" # "X"
      BY <1>4 DEF PadOps, SwitchOps, IntOps
    <3>2. CASE o.op = "x"
      BY <3>1, <3>2 DEF OptionSize, PadLen
    <3>3. CASE o.op = "X"
      BY <3>1, <3>3 DEF OptionSize, PadLen
    <3> QED
      BY <3>1, <3>2, <3>3
  <2> QED
    BY <2>1, <2>2
<1>5. CASE o.op \in IntOps
  <2>1. LaidInt(o, args, outs, p, q, e, b)
    BY <1>5 DEF Laid
  <2>2. args[b] \in Word /\ q = p + Len(PackInt(args[b], Width(o), e))
    <3>1. args[b] \in Ints /\ q = p + Len(Coded(o, args[b], e))
      BY <2>1 DEF LaidInt
    <3>2. args[b] \in Word
      BY <3>1 DEF PackAssumption, Word, Byte
    <3> QED
      <4>1. o.op # "s" /\ o.op # "z"
        BY <1>5 DEF IntOps
      <4>2. Coded(o, args[b], e) = PackInt(args[b], Width(o), e)
        BY <1>5, <4>1 DEF Coded
      <4> QED
        BY <3>1, <3>2, <4>2
  <2>3. Width(o) \in 1 .. 8
    BY <1>5, WidthInRange
  <2>4. Len(PackInt(args[b], Width(o), e)) = Width(o)
    BY <2>2, <2>3, IntBytes
  <2>5. OptionSize(p, o) = Width(o)
    BY <1>5 DEF OptionSize, IntOps, SwitchOps
  <2> QED
    BY <2>2, <2>4, <2>5
<1> QED
  BY <1>1, <1>3, <1>4, <1>5

LEMMA RecordReadsBack ==
  ASSUME PackTypeInv, RecordInv
  PROVE  ReadsBack
<1>1. packing = "error" => fi = 1
  BY DEF RecordInv
<1>2. ASSUME packing = "done"
      PROVE  /\ off = Len(data) /\ Len(vals) = Len(arguments)
             /\ \A k \in DOMAIN format : Takes(format[k]) =>
                  vals[Taken(format)[k]] = Delivered(format[k], arguments[Taken(format)[k]])
  <2>1. PICK pos, en, arg :
          Layout(format, arguments, packed, pos, en, arg) /\ Followed(pos, en, arg)
    BY <1>2 DEF RecordInv
  <2>2. Len(format) \in Nat /\ DOMAIN format = 1 .. Len(format) /\ Len(data) \in Nat /\ Len(packed) \in Nat
    BY DEF PackTypeInv, PackTypes
  <2>3. fi - 1 = Len(format)
    BY <1>2, <2>2 DEF RecordInv
  <2>4. /\ pos[Len(format)] = Len(packed) /\ arg[Len(format)] = Len(arguments)
        /\ arg \in [0 .. Len(format) -> Nat] /\ arg[0] = 0
    BY <2>1 DEF Layout
  <2>5. off = Start + Len(packed) /\ Len(vals) = Len(arguments)
        /\ \A k \in 1 .. Len(format) : Takes(format[k]) =>
             vals[arg[k]] = Delivered(format[k], arguments[arg[k]])
    BY <2>1, <2>3, <2>4 DEF Followed
  <2>6. off = Len(data)
    BY <2>2, <2>5 DEF Start
  <2>7. ASSUME NEW k \in 1 .. Len(format)
        PROVE  arg[k] = arg[k - 1] + (IF Takes(format[k]) THEN 1 ELSE 0)
    <3>1. arg[k] = (IF Takes(format[k]) THEN arg[k - 1] + 1 ELSE arg[k - 1])
      BY <2>1 DEF Layout, Laid
    <3>2. arg[k - 1] \in Nat
      <4>1. k - 1 \in 0 .. Len(format)
        BY <2>2
      <4> QED
        BY <2>4, <4>1
    <3> QED
      BY <3>1, <3>2
  <2>8. \A k \in 0 .. Len(format) : Taken(format)[k] = arg[k]
    BY <2>2, <2>4, <2>7, LayoutCounts
  <2>9. \A k \in 1 .. Len(format) : Taken(format)[k] = arg[k]
    BY <2>2, <2>8
  <2> QED
    BY <2>2, <2>5, <2>6, <2>9
<1> QED
  BY <1>1, <1>2 DEF ReadsBack

LEMMA RecordSizeAgrees ==
  ASSUME PackAssumption, PackTypeInv, RecordInv
  PROVE  SizeAgrees
<1> SUFFICES ASSUME packing = "pack", \A k \in DOMAIN format : format[k].op \notin StringOps
             PROVE  PackSize(format) = Len(packed)
  BY DEF SizeAgrees
<1>1. PICK pos, en, arg : Layout(format, arguments, packed, pos, en, arg)
  BY DEF RecordInv
<1>2. /\ format \in Seq(Options) /\ Len(format) \in Nat /\ DOMAIN format = 1 .. Len(format)
      /\ Len(packed) \in Nat
  BY DEF PackTypeInv, PackTypes
<1>3. /\ pos[Len(format)] = Len(packed) /\ pos \in [0 .. Len(format) -> Nat] /\ pos[0] = 0
      /\ en \in [0 .. Len(format) -> {0, 1}]
  BY <1>1 DEF Layout
<1>4. ASSUME NEW k \in 1 .. Len(format)
      PROVE  pos[k] = pos[k - 1] + OptionSize(pos[k - 1], format[k])
  <2>1. format[k] \in Options /\ format[k].op \notin StringOps
    BY <1>2
  <2>2. k - 1 \in 0 .. Len(format)
    BY <1>2
  <2>3. en[k - 1] \in {0, 1}
    BY <1>3, <2>2
  <2>4. Laid(format[k], arguments, packed, pos[k - 1], pos[k], en[k - 1], en[k], arg[k - 1], arg[k])
    BY <1>1 DEF Layout
  <2> QED
    BY <1>2, <2>1, <2>3, <2>4, SizeOfLaid
<1> QED
  BY <1>2, <1>3, <1>4, LayoutMeasures

(* For any integers and strings, any format of any length and wherever the *)
(* record stands: unpacking with the format it was packed with does not    *)
(* fail, gives back what was packed and stops behind the record, and       *)
(* string-packsize tells the length of a format without strings            *)
(* (scm_stub_string_pack, scm_stub_string_unpack,                          *)
(* scm_stub_string_packsize).                                              *)
THEOREM RoundTripHolds ==
  ASSUME PackAssumption, Unambiguous
  PROVE  PackSpec => []RoundTrip
<1>1. PackTypeInv /\ RecordInv => RoundTrip
  BY RecordReadsBack, RecordSizeAgrees DEF RoundTrip
<1> QED
  BY <1>1, AlwaysRecord, PTL

-----------------------------------------------------------------------------
(* The module loader.                                                      *)

(* The modules being loaded in some activations.                           *)
LoadingIn(ls) == {ls[i].name : i \in {j \in DOMAIN ls : ls[j].kind = "load"}}

OneLoadEach(ls, names) ==
  \A i, j \in DOMAIN ls :
    (/\ ls[i].kind = "load" /\ ls[j].kind = "load"
     /\ ls[i].name = ls[j].name /\ ls[i].name \in names) => i = j

(* The invariant that every step keeps.                                    *)
LoaderIInv ==
  /\ LoaderTypeOK
  /\ path = RequireMakePath(given)
  /\ CacheTellsTruth /\ LoadingIsUnderWay /\ NotInsideItself

-----------------------------------------------------------------------------
(* What is pushed is an activation, and what lies below stays.             *)
LEMMA Pushed ==
  ASSUME NEW ls \in Seq(Level), NEW l \in Level
  PROVE  /\ Append(ls, l) \in Seq(Level)
         /\ l.kind # "load" => LoadingIn(Append(ls, l)) = LoadingIn(ls)
         /\ l.kind = "load" => LoadingIn(Append(ls, l)) = LoadingIn(ls) \union {l.name}
<1> DEFINE as == Append(ls, l)
<1>1. /\ as \in Seq(Level) /\ Len(as) = Len(ls) + 1 /\ Len(ls) \in Nat
      /\ \A i \in 1..Len(ls) : as[i] = ls[i]
      /\ as[Len(ls) + 1] = l
  BY AppendProperties
<1>2. DOMAIN ls = 1..Len(ls) /\ DOMAIN as = 1..(Len(ls) + 1)
  BY <1>1
<1>3. \A i \in DOMAIN as : i \in DOMAIN ls \/ i = Len(ls) + 1
  BY <1>1, <1>2
<1>4. Len(ls) + 1 \in DOMAIN as /\ DOMAIN ls \subseteq DOMAIN as
  BY <1>1, <1>2
<1>5. ASSUME NEW u
      PROVE  u \in LoadingIn(as) <=> u \in LoadingIn(ls) \/ (l.kind = "load" /\ u = l.name)
  <2>1. u \in LoadingIn(as) <=> \E i \in DOMAIN as : as[i].kind = "load" /\ as[i].name = u
    BY DEF LoadingIn
  <2>2. u \in LoadingIn(ls) <=> \E i \in DOMAIN ls : ls[i].kind = "load" /\ ls[i].name = u
    BY DEF LoadingIn
  <2>3. \A i \in DOMAIN ls : as[i] = ls[i]
    BY <1>1, <1>2
  <2> HIDE DEF as
  <2> QED
    BY <1>1, <1>3, <1>4, <2>1, <2>2, <2>3
<1> HIDE DEF as
<1>6. l.kind # "load" => LoadingIn(as) = LoadingIn(ls)
  BY <1>5
<1>7. l.kind = "load" => LoadingIn(as) = LoadingIn(ls) \union {l.name}
  BY <1>5
<1> QED
  BY <1>1, <1>6, <1>7 DEF as

(* The innermost activation and those outside of it.                       *)
LEMMA Popped ==
  ASSUME NEW ls \in Seq(Level), ls # <<>>
  PROVE  LET below == SubSeq(ls, 1, Len(ls) - 1)
             in == ls[Len(ls)]
         IN  /\ below \in Seq(Level) /\ in \in Level
             /\ in.kind # "load" => LoadingIn(below) = LoadingIn(ls)
             /\ in.kind = "load" => LoadingIn(ls) = LoadingIn(below) \union {in.name}
             /\ DOMAIN below = 1..(Len(ls) - 1) /\ DOMAIN ls = 1..Len(ls) /\ Len(ls) \in Nat \ {0}
             /\ \A i \in DOMAIN below : below[i] = ls[i]
<1> DEFINE below == SubSeq(ls, 1, Len(ls) - 1)
           in == ls[Len(ls)]
<1>1. Len(ls) \in Nat \ {0} /\ DOMAIN ls = 1..Len(ls) /\ in \in Level
  BY EmptySeq, LenProperties, ElementOfSeq
<1>2. \A i \in 1..(Len(ls) - 1) : ls[i] \in Level
  BY <1>1
<1>3. /\ below \in Seq(Level) /\ Len(below) = Len(ls) - 1
      /\ \A i \in 1..(Len(ls) - 1) : below[i] = ls[i]
  <2>1. /\ SubSeq(ls, 1, Len(ls) - 1) \in Seq(Level)
        /\ Len(SubSeq(ls, 1, Len(ls) - 1))
             = IF 1 <= Len(ls) - 1 THEN (Len(ls) - 1) - 1 + 1 ELSE 0
        /\ \A i \in 1..((Len(ls) - 1) - 1 + 1) : SubSeq(ls, 1, Len(ls) - 1)[i] = ls[1 + i - 1]
    BY <1>1, <1>2, SubSeqProperties
  <2>2. (Len(ls) - 1) - 1 + 1 = Len(ls) - 1 /\ \A i \in 1..(Len(ls) - 1) : 1 + i - 1 = i
    BY <1>1
  <2> QED
    BY <1>1, <2>1, <2>2
<1>4. DOMAIN below = 1..(Len(ls) - 1)
  BY <1>3, LenProperties
<1>5. \A i \in DOMAIN ls : i \in DOMAIN below \/ i = Len(ls)
  BY <1>1, <1>4
<1>6. Len(ls) \in DOMAIN ls /\ DOMAIN below \subseteq DOMAIN ls
  BY <1>1, <1>4
<1>7. ASSUME NEW u
      PROVE  u \in LoadingIn(ls) <=> u \in LoadingIn(below) \/ (in.kind = "load" /\ u = in.name)
  <2>1. u \in LoadingIn(below) <=> \E i \in DOMAIN below : below[i].kind = "load" /\ below[i].name = u
    BY DEF LoadingIn
  <2>2. u \in LoadingIn(ls) <=> \E i \in DOMAIN ls : ls[i].kind = "load" /\ ls[i].name = u
    BY DEF LoadingIn
  <2>3. \A i \in DOMAIN below : below[i] = ls[i]
    BY <1>3, <1>4
  <2> HIDE DEF below
  <2> QED
    BY <1>5, <1>6, <2>1, <2>2, <2>3
<1> HIDE DEF below, in
<1>8. in.kind # "load" => LoadingIn(below) = LoadingIn(ls)
  BY <1>7
<1>9. in.kind = "load" => LoadingIn(ls) = LoadingIn(below) \union {in.name}
  BY <1>7
<1> QED
  BY <1>1, <1>3, <1>4, <1>8, <1>9 DEF below, in

-----------------------------------------------------------------------------
Elements == Templates \union {Sep}

(* The ";;" that is replaced lies inside of the list.                      *)
LEMMA MarkIsInside ==
  ASSUME NEW s \in Seq(Elements), MarksOf(s) # {}
  PROVE  FirstOf(MarksOf(s)) \in MarksOf(s)
<1>1. MarksOf(s) \subseteq Nat
  BY LenProperties DEF MarksOf
<1>2. PICK u \in MarksOf(s) : \A m \in MarksOf(s) : ~(<<m, u>> \in OpToRel(<, Nat))
  BY <1>1, WFMin, NatLessThanWellFounded, Zenon
<1>3. \A m \in MarksOf(s) : u <= m
  <2>1. \A m \in MarksOf(s) : ~(m < u)
    BY <1>1, <1>2, Zenon DEF OpToRel
  <2> QED
    BY <1>1, <2>1
<1> QED
  BY <1>3 DEF FirstOf

(* The elements of two lists, one behind the other.                        *)
LEMMA JoinKeeps ==
  ASSUME NEW s \in Seq(Elements), NEW t \in Seq(Elements)
  PROVE  /\ s \o t \in Seq(Elements)
         /\ \A i \in DOMAIN s : \E k \in DOMAIN (s \o t) : (s \o t)[k] = s[i]
         /\ \A i \in DOMAIN t : \E k \in DOMAIN (s \o t) : (s \o t)[k] = t[i]
<1> DEFINE st == s \o t
<1>1. /\ st \in Seq(Elements) /\ Len(st) = Len(s) + Len(t)
      /\ \A i \in 1..(Len(s) + Len(t)) : st[i] = IF i <= Len(s) THEN s[i] ELSE t[i - Len(s)]
  BY ConcatProperties
<1>2. /\ DOMAIN s = 1..Len(s) /\ DOMAIN t = 1..Len(t) /\ Len(s) \in Nat /\ Len(t) \in Nat
      /\ DOMAIN st = 1..(Len(s) + Len(t))
  BY <1>1, LenProperties
<1> HIDE DEF st
<1>3. \A i \in DOMAIN s : i \in DOMAIN st /\ st[i] = s[i]
  BY <1>1, <1>2
<1>4. \A i \in DOMAIN t : Len(s) + i \in DOMAIN st /\ st[Len(s) + i] = t[i]
  <2>1. ASSUME NEW i \in DOMAIN t
        PROVE  Len(s) + i \in 1..(Len(s) + Len(t)) /\ ~(Len(s) + i <= Len(s)) /\ Len(s) + i - Len(s) = i
    BY <1>2
  <2> QED
    BY <1>1, <1>2, <2>1
<1> QED
  BY <1>1, <1>3, <1>4 DEF st

(* There are no places in an empty list.                                   *)
LEMMA EmptyRange == 1..0 = {}
OBVIOUS

(* What is followed by no second one is the last but one.                  *)
LEMMA LastIsBefore ==
  ASSUME NEW u \in Nat, NEW m \in 1..(u - 1), ~(m + 2 <= u)
  PROVE  m = u - 1
OBVIOUS

(* require_make_path gives a list of templates, in which every template of *)
(* the given list and, for ";;", of the default list has a place.          *)
LEMMA PathHoldsMeant ==
  ASSUME NEW s \in Seq(Elements)
  PROVE  /\ RequireMakePath(s) \in Seq(Elements)
         /\ \A t \in Meant(s) \ {Sep} :
              \E k \in DOMAIN RequireMakePath(s) : RequireMakePath(s)[k] = t
<1> DEFINE mark == FirstOf(MarksOf(s))
           before == SubSeq(s, 1, mark - 1)
           suffix == SubSeq(s, mark + 2, Len(s))
           first == IF before = <<>> THEN <<>> ELSE Append(before, Sep)
           last == IF suffix = <<>> THEN <<>> ELSE <<Sep>> \o suffix
           result == (first \o Default) \o last
<1>1. CASE MarksOf(s) = {}
  BY <1>1 DEF RequireMakePath, Meant
<1>2. CASE MarksOf(s) # {}
  <2>1. /\ Len(s) \in Nat /\ DOMAIN s = 1..Len(s) /\ \A i \in 1..Len(s) : s[i] \in Elements
    BY LenProperties, ElementOfSeq
  <2>2. /\ mark \in 1..(Len(s) - 1) /\ s[mark] = Sep /\ s[mark + 1] = Sep
    BY <1>2, MarkIsInside DEF MarksOf
  <2> HIDE DEF mark
  <2>3. /\ before \in Seq(Elements) /\ DOMAIN before = 1..(mark - 1)
        /\ \A i \in 1..(mark - 1) : before[i] = s[i]
    <3>1. \A i \in 1..(mark - 1) : s[i] \in Elements
      BY <2>1, <2>2
    <3>2. /\ SubSeq(s, 1, mark - 1) \in Seq(Elements)
          /\ Len(SubSeq(s, 1, mark - 1)) = IF 1 <= mark - 1 THEN (mark - 1) - 1 + 1 ELSE 0
          /\ \A i \in 1..((mark - 1) - 1 + 1) : SubSeq(s, 1, mark - 1)[i] = s[1 + i - 1]
      BY <2>2, <3>1, SubSeqProperties
    <3>3. Len(before) = mark - 1
      BY <2>2, <3>2
    <3>4. \A i \in 1..(mark - 1) : i \in 1..((mark - 1) - 1 + 1) /\ 1 + i - 1 = i
      BY <2>2
    <3> QED
      BY <3>2, <3>3, <3>4, LenProperties
  <2>4. /\ suffix \in Seq(Elements) /\ DOMAIN suffix = 1..(Len(s) - mark - 1)
        /\ \A i \in 1..(Len(s) - mark - 1) : suffix[i] = s[mark + 1 + i]
    <3>1. \A i \in (mark + 2)..Len(s) : s[i] \in Elements
      BY <2>1, <2>2
    <3>2. mark + 2 \in Int /\ Len(s) \in Int
      BY <2>1, <2>2
    <3>3. /\ SubSeq(s, mark + 2, Len(s)) \in Seq(Elements)
          /\ Len(SubSeq(s, mark + 2, Len(s)))
               = IF mark + 2 <= Len(s) THEN Len(s) - (mark + 2) + 1 ELSE 0
          /\ \A i \in 1..(Len(s) - (mark + 2) + 1) :
               SubSeq(s, mark + 2, Len(s))[i] = s[(mark + 2) + i - 1]
      BY <3>1, <3>2, SubSeqProperties
    <3>4. Len(suffix) = Len(s) - mark - 1
      <4>1. CASE mark + 2 <= Len(s)
        BY <2>1, <2>2, <3>3, <4>1
      <4>2. CASE ~(mark + 2 <= Len(s))
        <5>1. mark = Len(s) - 1
          BY <2>1, <2>2, <4>2, LastIsBefore
        <5> QED
          BY <2>1, <3>3, <4>2, <5>1
      <4> QED
        BY <4>1, <4>2
    <3>5. \A i \in 1..(Len(s) - mark - 1) :
            i \in 1..(Len(s) - (mark + 2) + 1) /\ (mark + 2) + i - 1 = mark + 1 + i
      BY <2>1, <2>2
    <3> QED
      BY <3>3, <3>4, <3>5, LenProperties
  <2> HIDE DEF before, suffix
  <2>5. <<>> \in Seq(Elements) /\ <<Sep>> \in Seq(Elements) /\ Default \in Seq(Elements) /\ Sep \in Elements
    BY LoaderAssumption DEF Elements
  <2>6. /\ first \in Seq(Elements)
        /\ \A i \in DOMAIN before : \E k \in DOMAIN first : first[k] = before[i]
    <3>1. CASE before = <<>>
      <4>1. DOMAIN before = {}
        <5>1. Len(before) = 0
          BY <3>1
        <5> QED
          BY <2>3, <5>1, LenProperties, EmptyRange
      <4> QED
        BY <2>5, <3>1, <4>1
    <3>2. CASE before # <<>>
      <4>1. /\ Append(before, Sep) \in Seq(Elements)
            /\ Len(Append(before, Sep)) = Len(before) + 1
            /\ \A i \in 1..Len(before) : Append(before, Sep)[i] = before[i]
        BY <2>3, <2>5, AppendProperties
      <4>2. Len(before) \in Nat /\ DOMAIN before = 1..Len(before)
        BY <2>3, LenProperties
      <4>3. DOMAIN Append(before, Sep) = 1..(Len(before) + 1)
        BY <4>1, LenProperties
      <4>4. first = Append(before, Sep)
        BY <3>2
      <4>5. \A i \in DOMAIN before : i \in DOMAIN first /\ first[i] = before[i]
        BY <4>1, <4>2, <4>3, <4>4
      <4> QED
        BY <4>1, <4>4, <4>5
    <3> QED
      BY <3>1, <3>2
  <2>7. /\ last \in Seq(Elements)
        /\ \A i \in DOMAIN suffix : \E k \in DOMAIN last : last[k] = suffix[i]
    <3>1. CASE suffix = <<>>
      <4>1. DOMAIN suffix = {}
        <5>1. Len(suffix) = 0
          BY <3>1
        <5> QED
          BY <2>4, <5>1, LenProperties, EmptyRange
      <4> QED
        BY <2>5, <3>1, <4>1
    <3>2. CASE suffix # <<>>
      <4>1. last = <<Sep>> \o suffix
        BY <3>2
      <4> HIDE DEF suffix, last
      <4>2. /\ <<Sep>> \o suffix \in Seq(Elements)
            /\ \A i \in DOMAIN suffix :
                 \E k \in DOMAIN (<<Sep>> \o suffix) : (<<Sep>> \o suffix)[k] = suffix[i]
        BY <2>4, <2>5, JoinKeeps, Zenon
      <4> QED
        BY <4>1, <4>2, Zenon
    <3> QED
      BY <3>1, <3>2
  <2> HIDE DEF first, last
  <2>8. /\ first \o Default \in Seq(Elements)
        /\ \A i \in DOMAIN first : \E k \in DOMAIN (first \o Default) : (first \o Default)[k] = first[i]
        /\ \A i \in DOMAIN Default : \E k \in DOMAIN (first \o Default) : (first \o Default)[k] = Default[i]
    BY <2>5, <2>6, JoinKeeps
  <2>9. /\ result \in Seq(Elements)
        /\ \A i \in DOMAIN (first \o Default) : \E k \in DOMAIN result : result[k] = (first \o Default)[i]
        /\ \A i \in DOMAIN last : \E k \in DOMAIN result : result[k] = last[i]
    BY <2>7, <2>8, JoinKeeps
  <2> HIDE DEF result
  <2>10. RequireMakePath(s) = result
    BY <1>2 DEF RequireMakePath, result, first, last, before, suffix, mark
  <2>11. ASSUME NEW t \in Meant(s) \ {Sep}
         PROVE  \E k \in DOMAIN result : result[k] = t
    <3>1. CASE \E i \in DOMAIN Default : Default[i] = t
      BY <3>1, <2>8, <2>9, ZenonT(60)
    <3>2. CASE \E i \in DOMAIN s : s[i] = t
      <4>1. PICK i \in DOMAIN s : s[i] = t
        BY <3>2
      <4>2. \/ i \in 1..(mark - 1)
            \/ i - mark - 1 \in 1..(Len(s) - mark - 1) /\ mark + 1 + (i - mark - 1) = i
            \/ i = mark \/ i = mark + 1
        BY <2>1, <2>2, <4>1
      <4>3. CASE i \in 1..(mark - 1)
        <5>1. i \in DOMAIN before /\ before[i] = t
          BY <2>3, <4>1, <4>3
        <5>2. PICK k \in DOMAIN first : first[k] = t
          BY <2>6, <5>1
        <5> QED
          BY <2>8, <2>9, <5>2, ZenonT(60)
      <4>4. CASE i - mark - 1 \in 1..(Len(s) - mark - 1) /\ mark + 1 + (i - mark - 1) = i
        <5>1. i - mark - 1 \in DOMAIN suffix /\ suffix[i - mark - 1] = t
          BY <2>4, <4>1, <4>4
        <5>2. PICK k \in DOMAIN last : last[k] = t
          BY <2>7, <5>1
        <5> QED
          BY <2>9, <5>2
      <4>5. CASE i = mark \/ i = mark + 1
        BY <2>2, <2>11, <4>1, <4>5
      <4> QED
        BY <4>2, <4>3, <4>4, <4>5
    <3> QED
      BY <2>11, <1>2, <3>1, <3>2 DEF Meant
  <2> QED
    BY <2>9, <2>10, <2>11
<1> QED
  BY <1>1, <1>2

-----------------------------------------------------------------------------
(* What is known of the kinds of activations.                              *)
LEMMA Kinds ==
  /\ \A u \in Names : Load(u) \in Level /\ Load(u).kind = "load" /\ Load(u).name = u
  /\ PcallLevel \in Level /\ PcallLevel.kind # "load" /\ File \in Level /\ File.kind # "load"
  /\ \A e \in Errors : After(e) \in Level /\ After(e).kind # "load"
  /\ \A l \in Level : l.kind = "load" => l.name \in Names
  /\ \A l \in Level : l.kind = "after" => l.error \in Errors
BY DEF Level, Load, PcallLevel, File, After

(* An error that is raised is one.                                         *)
LEMMA RaisedIsError ==
  ASSUME NEW why \in {"cyclic", "not found", "script"}, NEW u \in Names \union {None},
         RaiseError(why, u)
  PROVE  error' \in Errors
BY DEF RaiseError, Errors

(* Every step keeps the types, and the list is the one that was given.     *)
LEMMA StepKeepsLoaderTypes ==
  ASSUME LoaderTypeOK, path = RequireMakePath(given), [LoaderNext]_loaderVars
  PROVE  LoaderTypeOK' /\ (path = RequireMakePath(given))'
<1> USE DEF LoaderTypeOK
<1>1. levels # <<>> => Outside \in Seq(Level) /\ Inner \in Level
  BY Popped DEF Outside, Inner
<1>2. \A l \in Level : Append(levels, l) \in Seq(Level)
  BY Pushed
<1>3. ASSUME NEW u \in Names, RequireLoaded(u)
      PROVE  LoaderTypeOK' /\ (path = RequireMakePath(given))'
  BY <1>3 DEF RequireLoaded, loaderVars
<1>4. ASSUME NEW u \in Names, RequireCyclic(u) \/ RequireNotFound(u)
      PROVE  LoaderTypeOK' /\ (path = RequireMakePath(given))'
  <2>1. error' \in Errors
    BY <1>4, RaisedIsError DEF RequireCyclic, RequireNotFound
  <2> QED
    BY <1>4, <2>1 DEF RequireCyclic, RequireNotFound
<1>5. ASSUME NEW u \in Names, RequireBegin(u)
      PROVE  LoaderTypeOK' /\ (path = RequireMakePath(given))'
  BY <1>5, <1>2, Kinds DEF RequireBegin
<1>6. ASSUME NEW u \in Names, RequireClear(u)
      PROVE  LoaderTypeOK' /\ (path = RequireMakePath(given))'
  BY <1>6 DEF RequireClear
<1>7. CASE RequireEnd
  <2>1. Inner.name \in Names
    BY <1>1, <1>7, Kinds DEF RequireEnd
  <2> QED
    BY <1>1, <1>7, <2>1 DEF RequireEnd
<1>8. CASE RequireFails
  BY <1>1, <1>8 DEF RequireFails
<1>9. ASSUME NEW s \in Given, RequirePathSet(s)
      PROVE  LoaderTypeOK' /\ (path = RequireMakePath(given))'
  <2>1. s \in Seq(Elements)
    BY LoaderAssumption DEF Elements
  <2>2. RequireMakePath(s) \in Seq(Templates \union {Sep})
    BY <2>1, PathHoldsMeant DEF Elements
  <2> QED
    BY <1>9, <2>2 DEF RequirePathSet
<1>10. CASE LoadFile \/ PcallBegin
  BY <1>2, <1>10, Kinds DEF LoadFile, PcallBegin
<1>11. CASE FileEnds \/ PcallEnds
  BY <1>1, <1>11 DEF FileEnds, PcallEnds
<1>12. CASE AfterBegin
  <2>1. error \in Errors
    BY <1>12 DEF AfterBegin, Running
  <2> QED
    BY <1>2, <1>12, <2>1, Kinds DEF AfterBegin
<1>13. CASE AfterEnds
  BY <1>1, <1>13, Kinds DEF AfterEnds
<1>14. CASE ScriptRaises
  <2>1. error' \in Errors
    BY <1>14, RaisedIsError DEF ScriptRaises
  <2> QED
    BY <1>14, <2>1 DEF ScriptRaises
<1>15. CASE HostCatches
  BY <1>15 DEF HostCatches
<1>16. CASE UNCHANGED loaderVars
  BY <1>16 DEF loaderVars
<1> QED
  BY <1>3, <1>4, <1>5, <1>6, <1>7, <1>8, <1>9, <1>10, <1>11, <1>12, <1>13, <1>14, <1>15,
     <1>16 DEF LoaderNext

(* The activations of a load that is pushed: none of its name is below,    *)
(* unless the module was cleared.                                          *)
LEMMA PushKeepsOne ==
  ASSUME NEW ls \in Seq(Level), NEW l \in Level, NEW names, OneLoadEach(ls, names),
         l.kind = "load" => l.name \notin LoadingIn(ls) \/ l.name \notin names
  PROVE  OneLoadEach(Append(ls, l), names)
<1> DEFINE as == Append(ls, l)
<1>1. /\ Len(ls) \in Nat /\ DOMAIN ls = 1..Len(ls) /\ DOMAIN as = 1..(Len(ls) + 1)
      /\ \A i \in 1..Len(ls) : as[i] = ls[i]
      /\ as[Len(ls) + 1] = l
  BY AppendProperties, LenProperties
<1>2. \A i \in DOMAIN as : (i \in DOMAIN ls /\ as[i] = ls[i]) \/ (i = Len(ls) + 1 /\ as[i] = l)
  BY <1>1
<1>3. \A i \in DOMAIN ls : ls[i].kind = "load" => ls[i].name \in LoadingIn(ls)
  BY DEF LoadingIn
<1> HIDE DEF as
<1>4. ASSUME NEW i \in DOMAIN as, NEW j \in DOMAIN as,
             as[i].kind = "load", as[j].kind = "load", as[i].name = as[j].name,
             as[i].name \in names
      PROVE  i = j
  BY <1>2, <1>3, <1>4 DEF OneLoadEach
<1> QED
  BY <1>4 DEF OneLoadEach, as

(* The activations that are left hold no second load of the name that goes.*)
LEMMA PopKeepsOne ==
  ASSUME NEW ls \in Seq(Level), ls # <<>>, NEW names, OneLoadEach(ls, names)
  PROVE  /\ OneLoadEach(SubSeq(ls, 1, Len(ls) - 1), names)
         /\ ls[Len(ls)].kind = "load" /\ ls[Len(ls)].name \in names
              => ls[Len(ls)].name \notin LoadingIn(SubSeq(ls, 1, Len(ls) - 1))
<1> DEFINE below == SubSeq(ls, 1, Len(ls) - 1)
<1>1. /\ DOMAIN below = 1..(Len(ls) - 1) /\ DOMAIN ls = 1..Len(ls) /\ Len(ls) \in Nat \ {0}
      /\ \A i \in DOMAIN below : below[i] = ls[i]
  BY Popped
<1>2. /\ \A i \in DOMAIN below : i \in DOMAIN ls /\ i # Len(ls) /\ below[i] = ls[i]
      /\ Len(ls) \in DOMAIN ls
  BY <1>1
<1> HIDE DEF below
<1>3. OneLoadEach(below, names)
  BY <1>2 DEF OneLoadEach
<1>4. ASSUME ls[Len(ls)].kind = "load", ls[Len(ls)].name \in names,
             ls[Len(ls)].name \in LoadingIn(below)
      PROVE  FALSE
  <2>1. PICK i \in DOMAIN below : below[i].kind = "load" /\ below[i].name = ls[Len(ls)].name
    BY <1>4 DEF LoadingIn
  <2> QED
    BY <1>2, <1>4, <2>1 DEF OneLoadEach
<1> QED
  BY <1>3, <1>4 DEF below

(* Every step keeps the cache in agreement with the activations and with   *)
(* the history.                                                            *)
LEMMA StepKeepsTruth ==
  ASSUME LoaderIInv, [LoaderNext]_loaderVars
  PROVE  CacheTellsTruth' /\ LoadingIsUnderWay' /\ NotInsideItself'
<1> DEFINE names == Names \ cleared
<1>1. /\ LoaderTypeOK /\ LoaderTypeOK'
      /\ levels \in Seq(Level) /\ levels' \in Seq(Level)
  BY StepKeepsLoaderTypes DEF LoaderIInv, LoaderTypeOK
<1>2. Loading = LoadingIn(levels) /\ Loading' = LoadingIn(levels')
  BY DEF Loading, LoadingIn
<1>3. \A ls \in Seq(Level) : \A i \in DOMAIN ls : ls[i].kind = "load" => ls[i].name \in Names
  BY Kinds, ElementOfSeq, LenProperties
<1>4. NotInsideItself <=> OneLoadEach(levels, names)
  BY <1>1, <1>3 DEF NotInsideItself, OneLoadEach
<1>5. NotInsideItself' <=> OneLoadEach(levels', Names \ cleared')
  BY <1>1, <1>3 DEF NotInsideItself, OneLoadEach
<1>6. /\ \A u \in names : /\ cache[u] = "loading" <=> u \in LoadingIn(levels)
                          /\ cache[u] = "loaded" <=> u \in done
      /\ \A u \in Names : cache[u] = "loading" => u \in LoadingIn(levels)
      /\ OneLoadEach(levels, names)
  BY <1>2, <1>4 DEF LoaderIInv, CacheTellsTruth, LoadingIsUnderWay
<1> DEFINE Right ==
             /\ \A u \in Names \ cleared' :
                  /\ cache'[u] = "loading" <=> u \in LoadingIn(levels')
                  /\ cache'[u] = "loaded" <=> u \in done'
             /\ \A u \in Names : cache'[u] = "loading" => u \in LoadingIn(levels')
             /\ OneLoadEach(levels', Names \ cleared')
<1>7. ASSUME Right
      PROVE  CacheTellsTruth' /\ LoadingIsUnderWay' /\ NotInsideItself'
  BY <1>2, <1>5, <1>7 DEF CacheTellsTruth, LoadingIsUnderWay
<1>8. cache \in [Names -> {"absent", "loading", "loaded"}] /\ cleared \subseteq Names
  BY <1>1 DEF LoaderTypeOK
<1>9. ASSUME UNCHANGED <<cache, cleared, done>>, LoadingIn(levels') = LoadingIn(levels),
             OneLoadEach(levels', names)
      PROVE  Right
  BY <1>6, <1>9
<1>10. ASSUME UNCHANGED <<cache, levels, cleared, done>>
       PROVE  Right
  BY <1>6, <1>10
<1>11. ASSUME NEW l \in Level, l.kind # "load", levels' = Append(levels, l),
              UNCHANGED <<cache, cleared, done>>
       PROVE  Right
  BY <1>1, <1>6, <1>9, <1>11, Pushed, PushKeepsOne
<1>12. ASSUME levels # <<>>, Inner.kind # "load", levels' = Outside,
              UNCHANGED <<cache, cleared, done>>
       PROVE  Right
  BY <1>1, <1>6, <1>9, <1>12, Popped, PopKeepsOne DEF Inner, Outside
<1>13. ASSUME NEW u \in Names,
              \/ RequireLoaded(u) \/ RequireCyclic(u) \/ RequireNotFound(u)
       PROVE  Right
  BY <1>10, <1>13 DEF RequireLoaded, RequireCyclic, RequireNotFound, loaderVars
<1>14. ASSUME NEW u \in Names, RequireBegin(u)
       PROVE  Right
  <2>1. /\ cache[u] = "absent" /\ cache' = [cache EXCEPT ![u] = "loading"]
        /\ levels' = Append(levels, Load(u)) /\ UNCHANGED <<cleared, done>>
    BY <1>14 DEF RequireBegin
  <2>2. Load(u) \in Level /\ Load(u).kind = "load" /\ Load(u).name = u
    BY Kinds
  <2>3. LoadingIn(levels') = LoadingIn(levels) \union {u}
    BY <1>1, <2>1, <2>2, Pushed
  <2>4. u \notin LoadingIn(levels) \/ u \notin names
    BY <1>6, <2>1
  <2>5. OneLoadEach(levels', names)
    BY <1>1, <1>6, <2>1, <2>2, <2>4, PushKeepsOne
  <2> QED
    BY <1>6, <1>8, <2>1, <2>3, <2>5
<1>15. ASSUME NEW u \in Names, RequireClear(u)
       PROVE  Right
  <2>1. /\ cache' = [cache EXCEPT ![u] = "absent"] /\ UNCHANGED levels
        /\ cleared' = IF u \in LoadingIn(levels) THEN cleared \union {u} ELSE cleared
        /\ done' = done \ {u}
    BY <1>2, <1>15 DEF RequireClear
  <2>2. OneLoadEach(levels', Names \ cleared')
    BY <1>6, <2>1 DEF OneLoadEach
  <2> QED
    BY <1>6, <1>8, <2>1, <2>2
<1>16. ASSUME NEW v, levels # <<>>, Inner.kind = "load", levels' = Outside, v # "loading",
              cache' = [cache EXCEPT ![Inner.name] = v], UNCHANGED cleared,
              done' = IF v = "loaded" THEN done \union {Inner.name} ELSE done
       PROVE  Right
  <2>1. Inner.name \in Names
    BY <1>1, <1>16, Popped, Kinds DEF Inner
  <2>2. LoadingIn(levels) = LoadingIn(levels') \union {Inner.name}
    BY <1>1, <1>16, Popped DEF Inner, Outside
  <2>3. OneLoadEach(levels', names) /\ (Inner.name \in names => Inner.name \notin LoadingIn(levels'))
    BY <1>1, <1>6, <1>16, PopKeepsOne DEF Inner, Outside
  <2> QED
    BY <1>6, <1>8, <1>16, <2>1, <2>2, <2>3
<1>17. ASSUME RequireEnd
       PROVE  Right
  BY <1>16, <1>17 DEF RequireEnd
<1>18. ASSUME RequireFails
       PROVE  Right
  BY <1>16, <1>18 DEF RequireFails
<1>19. ASSUME NEW s \in Given, RequirePathSet(s)
       PROVE  Right
  BY <1>10, <1>19 DEF RequirePathSet
<1>20. ASSUME LoadFile \/ PcallBegin
       PROVE  Right
  BY <1>11, <1>20, Kinds DEF LoadFile, PcallBegin
<1>21. ASSUME FileEnds \/ PcallEnds \/ AfterEnds
       PROVE  Right
  BY <1>12, <1>21 DEF FileEnds, PcallEnds, AfterEnds
<1>22. ASSUME AfterBegin
       PROVE  Right
  <2>1. error \in Errors
    BY <1>1, <1>22 DEF AfterBegin, Running, LoaderTypeOK
  <2> QED
    BY <1>11, <1>22, <2>1, Kinds DEF AfterBegin
<1>23. ASSUME ScriptRaises \/ HostCatches \/ UNCHANGED loaderVars
       PROVE  Right
  BY <1>10, <1>23 DEF ScriptRaises, HostCatches, loaderVars
<1> HIDE DEF Right
<1> QED
  BY <1>7, <1>13, <1>14, <1>15, <1>17, <1>18, <1>19, <1>20, <1>21, <1>22, <1>23 DEF LoaderNext

-----------------------------------------------------------------------------
(* The invariant holds from the start and is kept.                         *)
LEMMA LoaderInvariant == LoaderSpec => []LoaderIInv
<1>1. LoaderInit => LoaderIInv
  <2> SUFFICES ASSUME LoaderInit PROVE LoaderIInv
    OBVIOUS
  <2>1. given \in Seq(Elements) /\ path = RequireMakePath(given)
    BY LoaderAssumption DEF LoaderInit, Elements
  <2>2. path \in Seq(Templates \union {Sep})
    BY <2>1, PathHoldsMeant DEF Elements
  <2>3. levels = <<>> /\ levels \in Seq(Level) /\ DOMAIN levels = {}
    BY DEF LoaderInit
  <2> QED
    BY <2>1, <2>2, <2>3
    DEF LoaderInit, LoaderIInv, LoaderTypeOK, CacheTellsTruth, LoadingIsUnderWay,
        NotInsideItself, Loading
<1>2. LoaderIInv /\ [LoaderNext]_loaderVars => LoaderIInv'
  <2> SUFFICES ASSUME LoaderIInv, [LoaderNext]_loaderVars PROVE LoaderIInv'
    OBVIOUS
  <2>1. LoaderTypeOK' /\ (path = RequireMakePath(given))'
    BY StepKeepsLoaderTypes DEF LoaderIInv
  <2> QED
    BY <2>1, StepKeepsTruth DEF LoaderIInv
<1> QED
  BY <1>1, <1>2, PTL DEF LoaderSpec

(* The cache, the activations and the error have their types, whatever is  *)
(* loaded, raised and caught (require, loadfile, teardownstack).           *)
THEOREM LoaderTypes == LoaderSpec => []LoaderTypeOK
<1>1. LoaderIInv => LoaderTypeOK
  BY DEF LoaderIInv
<1> QED
  BY <1>1, LoaderInvariant, PTL

(* The cache says which modules are being loaded and which were loaded to  *)
(* the end, "cyclic" is raised for cycles only, no module is loaded inside *)
(* of itself, and what is reported as not found is nowhere (require,       *)
(* require_make_path, require_searchpath).                                 *)
THEOREM RequireKeepsItsPromise == LoaderSpec => []RequireIsRight
<1>1. ASSUME LoaderIInv
      PROVE  NothingOverlooked
  <2>1. given \in Seq(Elements) /\ path = RequireMakePath(given)
    BY <1>1, LoaderAssumption DEF LoaderIInv, LoaderTypeOK, Elements
  <2>2. ASSUME NEW u \in Names, Places(u) = {}, NEW t \in Meant(given),
               <<t, DirOf[u]>> \in Files
        PROVE  FALSE
    <3>1. t # Sep
      BY <2>2, LoaderAssumption
    <3>2. PICK k \in DOMAIN path : path[k] = t
      BY <2>1, <2>2, <3>1, PathHoldsMeant
    <3> QED
      BY <2>2, <3>2 DEF Places
  <2> QED
    BY <2>2 DEF NothingOverlooked
<1>2. LoaderIInv => RequireIsRight
  BY <1>1 DEF LoaderIInv, RequireIsRight
<1> QED
  BY <1>2, LoaderInvariant, PTL

-----------------------------------------------------------------------------
(* Input ports.                                                            *)

(* The characters taken by read-char and by a lexer.                       *)
Consumed == fetched - Left

(* What is known of the buffer.                                            *)
BuffOK ==
  /\ fetched \in 0..Len(Text) /\ n \in 0..BuffSize
  /\ Len(buff) <= fetched /\ Len(buff) <= BuffSize
  /\ buff = SubSeq(Text, fetched - Len(buff) + 1, fetched)
  /\ buff \in Seq(Chars)
  /\ eof \in BOOLEAN
  /\ eof => buff = <<>>

(* The invariant that every step keeps.                                    *)
PortIInv ==
  /\ PortTypeOK /\ BuffOK
  /\ ~open => eof
  /\ curchar = End => eof

(* The next character of the text behind those taken.                      *)
AheadOf == IF eof \/ Consumed = Len(Text) THEN End ELSE Text[Consumed + 1]

-----------------------------------------------------------------------------
(* The text is a list of characters, none of which is the end.             *)
LEMMA TextFacts ==
  /\ Text \in Seq(Chars) /\ Len(Text) \in Nat /\ DOMAIN Text = 1..Len(Text)
  /\ \A i \in 1..Len(Text) : Text[i] \in Chars
  /\ End \notin Chars /\ NoLexer \notin Chars /\ NoLexer # End
  /\ BuffSize \in Nat \ {0}
<1>1. Text \in Seq(Chars) /\ End \notin Chars /\ NoLexer \notin Chars
  BY PortAssumption DEF Chars
<1>2. Len(Text) \in Nat /\ DOMAIN Text = 1..Len(Text)
  BY <1>1, LenProperties
<1> QED
  BY <1>1, <1>2, PortAssumption DEF Chars

(* fread gives at least one character when there are any, and no more than *)
(* the buffer holds.                                                       *)
LEMMA WantFacts ==
  ASSUME fetched \in 0..Len(Text), fetched < Len(Text)
  PROVE  Want \in 1..BuffSize /\ fetched + Want \in 1..Len(Text)
<1>1. Len(Text) \in Nat /\ BuffSize \in Nat \ {0}
  BY TextFacts
<1> DEFINE ahead == Len(Text) - fetched
<1>2. ahead \in Nat \ {0}
  BY <1>1
<1> HIDE DEF ahead
<1>3. Min({BuffSize, ahead}) = IF BuffSize <= ahead THEN BuffSize ELSE ahead
  BY <1>1, <1>2 DEF Min
<1>4. Want = 1 \/ (Want = BuffSize /\ BuffSize <= ahead) \/ (Want = ahead /\ ahead <= BuffSize)
  BY <1>1, <1>2, <1>3 DEF Want, ahead
<1>5. Want \in 1..BuffSize /\ Want <= ahead
  BY <1>1, <1>2, <1>4
<1> QED
  BY <1>1, <1>5 DEF ahead

(* What lies in the buffer is what follows in the text.                    *)
LEMMA TakenFacts ==
  ASSUME BuffOK
  PROVE  /\ Consumed \in 0..Len(Text)
         /\ Buffered => Consumed = fetched - Len(buff) + n /\ Consumed < Len(Text)
                        /\ ~eof /\ buff[n + 1] = Text[Consumed + 1]
         /\ ~Buffered => Consumed = fetched
<1>1. Len(Text) \in Nat /\ BuffSize \in Nat \ {0} /\ Len(buff) \in Nat
  BY TextFacts, LenProperties DEF BuffOK
<1>2. ASSUME Buffered
      PROVE  /\ Consumed = fetched - Len(buff) + n /\ Consumed \in 0..Len(Text) /\ Consumed < Len(Text)
             /\ ~eof /\ buff[n + 1] = Text[Consumed + 1]
  <2>1. Consumed = fetched - Len(buff) + n /\ Consumed \in 0..Len(Text) /\ Consumed < Len(Text)
    BY <1>1, <1>2 DEF Consumed, Left, Buffered, BuffOK
  <2>2. buff # <<>>
    <3>1. CASE buff = <<>>
      <4>1. Len(buff) = 0
        BY <3>1
      <4> QED
        BY <1>1, <1>2, <4>1 DEF Buffered, BuffOK
    <3> QED
      BY <3>1
  <2>3. \A i \in (fetched - Len(buff) + 1)..fetched : Text[i] \in Chars
    BY <1>1, TextFacts DEF BuffOK
  <2>4. n + 1 \in 1..(fetched - (fetched - Len(buff) + 1) + 1)
        /\ (fetched - Len(buff) + 1) + (n + 1) - 1 = Consumed + 1
        /\ fetched - Len(buff) + 1 \in Int /\ fetched \in Int
    BY <1>1, <1>2, <2>1 DEF Buffered, BuffOK
  <2>5. SubSeq(Text, fetched - Len(buff) + 1, fetched)[n + 1] = Text[Consumed + 1]
    BY <2>3, <2>4, SubSeqProperties
  <2> QED
    BY <2>1, <2>2, <2>5 DEF BuffOK
<1>3. ASSUME ~Buffered
      PROVE  Consumed = fetched
  BY <1>1, <1>3 DEF Consumed, Left, BuffOK
<1> QED
  BY <1>1, <1>2, <1>3 DEF BuffOK

(* Filling the buffer.                                                     *)
LEMMA FillKeeps ==
  ASSUME BuffOK, ~Buffered, ~open => eof, NEW k \in {0, 1}, FillBuff(k), UNCHANGED open
  PROVE  /\ BuffOK'
         /\ CanFill => /\ Consumed' = Consumed + k /\ ~eof' /\ Consumed < Len(Text)
                       /\ k = 1 => n' \in 1..Len(buff') /\ buff'[n'] = Text[Consumed + 1]
         /\ ~CanFill => Consumed' = Consumed /\ eof' /\ (eof \/ Consumed = Len(Text))
<1>1. Len(Text) \in Nat /\ BuffSize \in Nat \ {0} /\ Len(buff) \in Nat
  BY TextFacts, LenProperties DEF BuffOK
<1>2. Consumed = fetched
  BY TakenFacts
<1>3. CASE CanFill
  <2>1. Want \in 1..BuffSize /\ fetched + Want \in 1..Len(Text) /\ fetched \in 0..Len(Text)
        /\ fetched < Len(Text)
    BY <1>3, WantFacts DEF CanFill, BuffOK
  <2>2. buff' = SubSeq(Text, fetched + 1, fetched + Want) /\ fetched' = fetched + Want
        /\ n' = k /\ eof' = eof /\ ~eof
    BY <1>3 DEF FillBuff, CanFill
  <2>3. \A i \in (fetched + 1)..(fetched + Want) : Text[i] \in Chars
    BY <1>1, <2>1, TextFacts
  <2>4. /\ SubSeq(Text, fetched + 1, fetched + Want) \in Seq(Chars)
        /\ Len(SubSeq(Text, fetched + 1, fetched + Want))
             = IF fetched + 1 <= fetched + Want THEN (fetched + Want) - (fetched + 1) + 1 ELSE 0
        /\ \A i \in 1..((fetched + Want) - (fetched + 1) + 1) :
             SubSeq(Text, fetched + 1, fetched + Want)[i] = Text[(fetched + 1) + i - 1]
    BY <1>1, <2>1, <2>3, SubSeqProperties
  <2>5. buff' \in Seq(Chars) /\ Len(buff') = Want /\ buff'[1] = Text[fetched + 1]
    <3>1. fetched \in Nat /\ Want \in Nat /\ 1 <= Want
      BY <1>1, <2>1
    <3>2. /\ (fetched + Want) - (fetched + 1) + 1 = Want /\ fetched + 1 <= fetched + Want
          /\ (fetched + 1) + 1 - 1 = fetched + 1 /\ 1 \in 1..Want
      BY <3>1
    <3> QED
      BY <2>2, <2>4, <3>2
  <2>6. fetched' - Len(buff') + 1 = fetched + 1
    BY <1>1, <2>1, <2>2, <2>5
  <2>7. BuffOK'
    BY <1>1, <2>1, <2>2, <2>5, <2>6 DEF BuffOK
  <2>8. Consumed' = fetched + k
    <3>1. Left' = IF k < Want THEN Want - k ELSE 0
      BY <2>2, <2>5 DEF Left, Buffered
    <3>2. fetched \in Nat /\ Want \in Nat /\ k \in Nat /\ k <= Want
      BY <1>1, <2>1
    <3>3. Left' = Want - k
      BY <3>1, <3>2
    <3>4. Consumed' = (fetched + Want) - (Want - k)
      BY <2>2, <3>3 DEF Consumed
    <3> QED
      BY <3>2, <3>4
  <2>9. k = 1 => n' \in 1..Len(buff') /\ buff'[n'] = Text[Consumed + 1]
    BY <1>1, <1>2, <2>1, <2>2, <2>5
  <2> QED
    BY <1>2, <1>3, <2>1, <2>2, <2>7, <2>8, <2>9
<1>4. CASE ~CanFill
  <2>1. /\ fetched' = fetched /\ n' = n /\ eof' = (eof \/ open)
        /\ buff' = IF open /\ ~eof THEN <<>> ELSE buff
    BY <1>4 DEF FillBuff
  <2>2. eof' = TRUE
    BY <2>1
  <2>3. buff' = <<>>
    BY <2>1 DEF BuffOK
  <2>4. Len(buff') = 0 /\ buff' \in Seq(Chars)
    BY <2>3
  <2>5. SubSeq(Text, fetched + 1, fetched) = <<>>
    BY <1>1, SubSeqEmpty DEF BuffOK
  <2>6. fetched \in 0..Len(Text) /\ n \in 0..BuffSize
    BY DEF BuffOK
  <2>10. fetched' - Len(buff') + 1 = fetched + 1
    <3>1. \A k1 \in Nat, l \in Nat : l = 0 => k1 - l + 1 = k1 + 1
      OBVIOUS
    <3>2. fetched \in Nat /\ Len(buff') \in Nat
      BY <1>1, <2>4, <2>6
    <3> QED
      BY <2>1, <2>4, <3>1, <3>2
  <2>11. buff' = SubSeq(Text, fetched' - Len(buff') + 1, fetched')
    BY <2>1, <2>3, <2>5, <2>10
  <2>12. Len(buff') <= fetched' /\ Len(buff') <= BuffSize
    BY <1>1, <2>1, <2>4, <2>6
  <2>7. BuffOK'
    BY <2>1, <2>2, <2>3, <2>4, <2>6, <2>11, <2>12 DEF BuffOK
  <2>8. Consumed' = fetched
    BY <1>1, <2>1, <2>4 DEF Consumed, Left, Buffered, BuffOK
  <2>9. eof \/ fetched = Len(Text)
    BY <1>1, <1>4 DEF CanFill, BuffOK
  <2> QED
    BY <1>2, <1>4, <2>2, <2>7, <2>8, <2>9
<1> QED
  BY <1>3, <1>4

-----------------------------------------------------------------------------
(* What a port answers is what comes next in the text.                     *)
LEMMA NextIsAhead ==
  ASSUME BuffOK, ~open => eof
  PROVE  /\ NextChar = AheadOf /\ NextChar \in Chars \union {End}
         /\ NextChar # End <=> Buffered \/ CanFill
         /\ NextChar = End <=> eof \/ Consumed = Len(Text)
<1>1. Len(Text) \in Nat /\ Consumed \in 0..Len(Text) /\ fetched \in 0..Len(Text)
  BY TextFacts, TakenFacts DEF BuffOK
<1>2. CASE Buffered
  <2>1. NextChar = Text[Consumed + 1] /\ ~eof /\ Consumed < Len(Text)
    BY <1>2, TakenFacts DEF NextChar
  <2>2. Text[Consumed + 1] \in Chars /\ Consumed # Len(Text)
    <3>1. Consumed + 1 \in 1..Len(Text) /\ Consumed # Len(Text)
      BY <1>1, <2>1
    <3> QED
      BY <3>1, TextFacts
  <2> QED
    BY <1>2, <2>1, <2>2, TextFacts DEF AheadOf
<1>3. CASE ~Buffered /\ CanFill
  <2>1. NextChar = Text[Consumed + 1] /\ ~eof /\ Consumed < Len(Text)
    BY <1>3, TakenFacts DEF NextChar, CanFill
  <2>2. Text[Consumed + 1] \in Chars /\ Consumed # Len(Text)
    <3>1. Consumed + 1 \in 1..Len(Text) /\ Consumed # Len(Text)
      BY <1>1, <2>1
    <3> QED
      BY <3>1, TextFacts
  <2> QED
    BY <1>3, <2>1, <2>2, TextFacts DEF AheadOf
<1>4. CASE ~Buffered /\ ~CanFill
  <2>1. NextChar = End /\ Consumed = fetched
    BY <1>4, TakenFacts DEF NextChar
  <2>2. eof \/ Consumed = Len(Text)
    BY <1>1, <1>4, <2>1 DEF CanFill
  <2> QED
    BY <1>4, <2>1, <2>2 DEF AheadOf
<1> QED
  BY <1>2, <1>3, <1>4

(* readchar takes the character it answers, and keeps it in the buffer.    *)
LEMMA ReadCharKeeps ==
  ASSUME BuffOK, ~open => eof, ReadChar, UNCHANGED open
  PROVE  /\ BuffOK'
         /\ NextChar # End => /\ Consumed' = Consumed + 1 /\ ~eof'
                              /\ n' \in 1..Len(buff') /\ buff'[n'] = NextChar
         /\ NextChar = End => Consumed' = Consumed /\ eof'
<1>1. Len(Text) \in Nat /\ BuffSize \in Nat \ {0} /\ Len(buff) \in Nat
  BY TextFacts, LenProperties DEF BuffOK
<1>2. CASE Buffered
  <2>1. n' = n + 1 /\ UNCHANGED <<fetched, buff, eof>>
    BY <1>2 DEF ReadChar
  <2>2. n \in Nat /\ n + 1 \in 1..Len(buff) /\ n + 1 \in 0..BuffSize /\ fetched \in Nat
    BY <1>1, <1>2 DEF Buffered, BuffOK
  <2>3. BuffOK'
    BY <2>1, <2>2 DEF BuffOK
  <2>4. Consumed = fetched - Len(buff) + n /\ ~eof /\ buff[n + 1] = Text[Consumed + 1]
    BY <1>2, TakenFacts
  <2>5. Consumed' = fetched - Len(buff) + (n + 1)
    <3>1. Consumed' = fetched - (IF n + 1 < Len(buff) THEN Len(buff) - (n + 1) ELSE 0)
      BY <2>1 DEF Consumed, Left, Buffered
    <3>2. CASE n + 1 < Len(buff)
      BY <1>1, <2>2, <3>1, <3>2
    <3>3. CASE n + 1 = Len(buff)
      <4>1. \A k \in Nat, l \in Nat : k - l + l = k /\ k - 0 = k /\ ~(l < l)
        OBVIOUS
      <4>2. Consumed' = fetched - 0
        BY <1>1, <3>1, <3>3, <4>1
      <4> QED
        BY <1>1, <2>2, <3>3, <4>1, <4>2
    <3> QED
      BY <1>1, <2>2, <3>2, <3>3
  <2>6. NextChar = buff[n + 1] /\ NextChar # End
    BY <1>2, NextIsAhead DEF NextChar
  <2> QED
    BY <1>1, <2>1, <2>2, <2>3, <2>4, <2>5, <2>6
<1>3. CASE ~Buffered
  <2>1. FillBuff(1)
    BY <1>3 DEF ReadChar
  <2>2. CanFill => NextChar = Text[Consumed + 1]
    BY <1>3, TakenFacts DEF NextChar
  <2> QED
    BY <1>3, <2>1, <2>2, FillKeeps, NextIsAhead
<1> QED
  BY <1>2, <1>3

(* peekchar takes nothing.                                                 *)
LEMMA PeekCharKeeps ==
  ASSUME BuffOK, ~open => eof, PeekChar, UNCHANGED open
  PROVE  BuffOK' /\ Consumed' = Consumed /\ (eof' <=> NextChar = End)
<1>1. CASE Buffered
  <2>1. UNCHANGED <<fetched, buff, n, eof>>
    BY <1>1 DEF PeekChar
  <2>2. BuffOK' /\ Consumed' = Consumed
    BY <2>1 DEF BuffOK, Consumed, Left, Buffered
  <2> QED
    BY <1>1, <2>1, <2>2, TakenFacts, NextIsAhead
<1>2. CASE ~Buffered
  <2>1. FillBuff(0)
    BY <1>2 DEF PeekChar
  <2>2. /\ BuffOK'
        /\ CanFill => Consumed' = Consumed + 0 /\ ~eof'
        /\ ~CanFill => Consumed' = Consumed /\ eof'
    BY <1>2, <2>1, FillKeeps
  <2>3. Consumed + 0 = Consumed
    BY TakenFacts, TextFacts
  <2> QED
    BY <1>2, <2>2, <2>3, NextIsAhead
<1> QED
  BY <1>1, <1>2

-----------------------------------------------------------------------------
Pos == Consumed - Ahead

(* A step of a lexer, and of read-char, keeps the invariant.               *)
LEMMA NextCKeeps ==
  ASSUME PortIInv, NextC
  PROVE  PortIInv'
<1>1. /\ BuffOK' /\ NextChar \in Chars \union {End}
      /\ NextChar # End => ~eof' /\ n' \in 1..Len(buff') /\ buff'[n'] = NextChar
      /\ NextChar = End => eof'
  BY ReadCharKeeps, NextIsAhead DEF PortIInv, NextC
<1>2. curchar' = NextChar /\ UNCHANGED <<open, terminal, said>>
  BY DEF NextC
<1>3. ~open => eof'
  BY <1>1, NextIsAhead DEF PortIInv
<1> QED
  BY <1>1, <1>2, <1>3, TextFacts DEF PortIInv, PortTypeOK, BuffOK

(* Every step keeps the invariant and is a step of the stream, or none.    *)
LEMMA StepKeepsPort ==
  ASSUME PortIInv, [PortNext]_portVars
  PROVE  PortIInv'
<1>1. CASE Peek \/ Read
  <2>1. /\ BuffOK' /\ NextChar \in Chars \union {End} /\ (NextChar = End => eof')
        /\ ~open => NextChar = End
    BY <1>1, PeekCharKeeps, ReadCharKeeps, NextIsAhead DEF PortIInv, Peek, Read
  <2>2. curchar = NoLexer /\ said' = NextChar /\ UNCHANGED <<open, terminal, curchar>>
    BY <1>1 DEF Peek, Read, Idle
  <2> QED
    BY <2>1, <2>2, TextFacts DEF PortIInv, PortTypeOK, BuffOK
<1>2. CASE Close
  <2>1. /\ curchar = NoLexer /\ open' = FALSE /\ eof' = TRUE
        /\ buff' = IF open THEN <<>> ELSE buff
        /\ UNCHANGED <<fetched, n, terminal, curchar, said>>
    BY <1>2 DEF Close, Idle
  <2>2. buff' = <<>>
    BY <2>1 DEF PortIInv, BuffOK
  <2>3. fetched \in 0..Len(Text) /\ n \in 0..BuffSize /\ Len(Text) \in Nat /\ BuffSize \in Nat
    BY TextFacts DEF PortIInv, BuffOK
  <2>4. Len(buff') = 0 /\ buff' \in Seq(Chars)
    BY <2>2
  <2>5. SubSeq(Text, fetched + 1, fetched) = <<>>
    BY <2>3, SubSeqEmpty
  <2>6. \A k1 \in Nat, l \in Nat : l = 0 => k1 - l + 1 = k1 + 1
    OBVIOUS
  <2>9. fetched \in Nat /\ Len(buff') \in Nat /\ fetched' = fetched
    BY <2>1, <2>3, <2>4
  <2>7. fetched' - Len(buff') + 1 = fetched + 1 /\ Len(buff') <= fetched' /\ Len(buff') <= BuffSize
    BY <2>3, <2>4, <2>6, <2>9
  <2>8. BuffOK'
    BY <2>1, <2>2, <2>3, <2>4, <2>5, <2>7 DEF BuffOK
  <2> QED
    BY <2>1, <2>8, TextFacts DEF PortIInv, PortTypeOK, BuffOK
<1>3. CASE BeginDatum \/ GoOn
  BY <1>3, NextCKeeps DEF BeginDatum, GoOn
<1>4. CASE EndDatum
  <2>1. /\ n' = IF curchar # End /\ n > 0 THEN n - 1 ELSE n
        /\ curchar' = NoLexer
        /\ UNCHANGED <<fetched, buff, eof, open, terminal, said>>
    BY <1>4 DEF EndDatum
  <2>2. n' \in 0..BuffSize
    BY <2>1, TextFacts DEF PortIInv, BuffOK
  <2>3. BuffOK'
    BY <2>1, <2>2 DEF PortIInv, BuffOK
  <2> QED
    BY <2>1, <2>3, TextFacts DEF PortIInv, PortTypeOK, BuffOK
<1>5. CASE UNCHANGED portVars
  BY <1>5 DEF portVars, PortIInv, PortTypeOK, BuffOK, Chars
<1> QED
  BY <1>1, <1>2, <1>3, <1>4, <1>5 DEF PortNext

-----------------------------------------------------------------------------
(* Where the stream is, in terms of the port.                              *)
PlaceOK ==
  /\ Idle => Pos = Consumed /\ AheadOf = Stream!Ahead
  /\ curchar = End => Pos = Consumed
  /\ curchar \in Chars => /\ Pos = Consumed - 1 /\ Pos \in 0..Len(Text)
                          /\ Pos < Len(Text) /\ ~eof
  /\ Consumed \in 0..Len(Text) /\ Len(Text) \in Nat
  /\ ~Buffered => Consumed = fetched
  /\ fetched - Left - Ahead = Pos

(* It is where the invariant says.                                         *)
LEMMA PlaceFacts == PortIInv => PlaceOK
<1> SUFFICES ASSUME PortIInv PROVE PlaceOK
  OBVIOUS
<1>1. Consumed \in 0..Len(Text) /\ Len(Text) \in Nat
  BY TextFacts, TakenFacts DEF PortIInv
<1>2. \A k \in Nat : k - 0 = k
  OBVIOUS
<1>3. curchar \notin Chars => Pos = Consumed
  BY <1>1, <1>2 DEF Pos, Ahead
<1>4. fetched - Left - Ahead = Pos
  BY DEF Pos, Consumed
<1>5. ASSUME curchar \in Chars
      PROVE  Pos = Consumed - 1 /\ Pos \in 0..Len(Text) /\ Pos < Len(Text) /\ ~eof
  <2>1. n \in 1..Len(buff)
    BY <1>5 DEF PortIInv, PortTypeOK
  <2>2. ~eof
    <3>1. CASE eof
      <4>1. Len(buff) = 0
        BY <3>1 DEF PortIInv, BuffOK
      <4> QED
        BY <2>1, <4>1
    <3> QED
      BY <3>1
  <2>3. Consumed >= 1
    <3>1. /\ fetched \in Nat /\ Len(buff) \in Nat /\ Len(buff) <= fetched /\ n \in Nat
          /\ 1 <= n /\ n <= Len(buff)
      BY <2>1, TextFacts, LenProperties DEF PortIInv, BuffOK
    <3>2. CASE Buffered
      <4>1. Consumed = fetched - Len(buff) + n
        BY <3>2, TakenFacts DEF PortIInv
      <4> QED
        BY <3>1, <4>1
    <3>3. CASE ~Buffered
      <4>1. Consumed = fetched
        BY <3>3, TakenFacts DEF PortIInv
      <4> QED
        BY <3>1, <4>1
    <3> QED
      BY <3>2, <3>3
  <2>4. Pos = Consumed - 1
    BY <1>5 DEF Pos, Ahead
  <2> QED
    BY <1>1, <2>2, <2>3, <2>4
<1>6. Idle => AheadOf = Stream!Ahead
  BY <1>3, <1>4, TextFacts DEF Idle, AheadOf, Stream!Ahead
<1> QED
  BY <1>1, <1>3, <1>4, <1>5, <1>6, TakenFacts, TextFacts DEF Idle, PlaceOK, PortIInv

(* The same after a step.                                                  *)
LEMMA PlaceFactsAfter == PortIInv' => PlaceOK'
BY PlaceFacts, PTL

(* A step of the port is the step of the stream it stands for, or none.    *)
LEMMA StepRefinesStream ==
  ASSUME PortIInv, PortIInv', [PortNext]_portVars
  PROVE  CallsMatch /\ [Stream!StreamNext]_(Stream!streamVars)
<1>1. /\ BuffOK /\ (~open => eof) /\ Len(Text) \in Nat /\ Consumed \in 0..Len(Text)
      /\ fetched - Left - Ahead = Pos /\ (fetched - Left - Ahead)' = Pos'
  BY PlaceFacts DEF PlaceOK, PortIInv, Pos, Consumed
<1>9. PlaceOK /\ PlaceOK'
  BY PlaceFacts, PlaceFactsAfter
<1>10. eof \in BOOLEAN /\ eof' \in BOOLEAN
  BY DEF PortIInv, BuffOK
<1>2. ASSUME Peek PROVE Stream!Look
  <2>1. /\ Idle /\ PeekChar /\ said' = NextChar /\ UNCHANGED <<open, terminal, curchar>> /\ Idle'
    BY <1>2 DEF Peek, Idle
  <2>2. Consumed' = Consumed /\ (eof' <=> NextChar = End)
    BY <1>1, <2>1, PeekCharKeeps
  <2>3. NextChar = Stream!Ahead /\ Pos = Consumed
    BY <1>1, <2>1, NextIsAhead, <1>9 DEF PlaceOK
  <2>4. Ahead' = Ahead
    BY <2>1 DEF Ahead, Chars
  <2>5. Pos' = Pos
    BY <2>2, <2>4 DEF Pos
  <2>6. eof' = (Stream!Ahead = End)
    BY <2>2, <2>3 DEF PortIInv, BuffOK
  <2> QED
    BY <1>1, <2>1, <2>3, <2>5, <2>6 DEF Stream!Look
<1>3. ASSUME Read PROVE Stream!Take
  <2>1. /\ Idle /\ ReadChar /\ said' = NextChar /\ UNCHANGED <<open, terminal, curchar>> /\ Idle'
    BY <1>3 DEF Read, Idle
  <2>2. /\ NextChar # End => Consumed' = Consumed + 1 /\ ~eof'
        /\ NextChar = End => Consumed' = Consumed /\ eof'
    BY <1>1, <2>1, ReadCharKeeps
  <2>3. NextChar = Stream!Ahead /\ Pos = Consumed /\ Pos' = Consumed'
    BY <1>1, <2>1, NextIsAhead, <1>9 DEF PlaceOK
  <2>4. /\ eof' = (Stream!Ahead = End)
        /\ Pos' = IF Stream!Ahead = End THEN Pos ELSE Pos + 1
    BY <1>10, <2>2, <2>3
  <2> QED
    BY <1>1, <2>1, <2>3, <2>4 DEF Stream!Take
<1>4. ASSUME Close PROVE Stream!Close
  <2>1. /\ Idle /\ Idle' /\ open' = FALSE /\ eof' = TRUE /\ UNCHANGED said
        /\ buff' = IF open THEN <<>> ELSE buff
        /\ fetched' = fetched
    BY <1>4 DEF Close, Idle
  <2>2. buff' = <<>>
    BY <1>1, <2>1 DEF BuffOK
  <2>3. ~Buffered'
    <3>1. Len(buff') = 0
      BY <2>2
    <3>2. n' \in 0..BuffSize /\ BuffSize \in Nat
      BY TextFacts DEF PortIInv, BuffOK
    <3> QED
      BY <3>1, <3>2 DEF Buffered
  <2>4. Consumed' = fetched'
    BY <2>3, <1>9 DEF PlaceOK
  <2>5. Pos = Consumed /\ Pos' = Consumed'
    BY <2>1, <1>9 DEF PlaceOK
  <2>6. Consumed <= fetched
    <3>1. Left \in Nat /\ fetched \in Nat
      BY <1>1, TextFacts, LenProperties DEF Left, Buffered, BuffOK
    <3> QED
      BY <3>1 DEF Consumed
  <2>7. Pos' \in Pos..Len(Text)
    BY <1>1, <2>1, <2>4, <2>5, <2>6 DEF BuffOK
  <2> QED
    BY <1>1, <2>1, <2>7 DEF Stream!Close
<1>5. ASSUME BeginDatum PROVE Stream!Start
  <2>1. /\ Idle /\ ReadChar /\ curchar' = NextChar /\ UNCHANGED <<open, terminal, said>>
    BY <1>5 DEF BeginDatum, NextC
  <2>2. /\ NextChar # End => Consumed' = Consumed + 1 /\ ~eof'
        /\ NextChar = End => Consumed' = Consumed /\ eof'
    BY <1>1, <2>1, ReadCharKeeps
  <2>3. NextChar = Stream!Ahead /\ Pos = Consumed /\ NextChar \in Chars \union {End}
    BY <1>1, <2>1, NextIsAhead, <1>9 DEF PlaceOK
  <2>4. /\ curchar' \in Chars => Pos' = Consumed' - 1
        /\ curchar' = End => Pos' = Consumed'
    BY <1>9 DEF PlaceOK
  <2>5. Pos' = Pos
    BY <1>1, <2>1, <2>2, <2>3, <2>4, TextFacts
  <2>6. eof' = (Stream!Ahead = End) /\ ~Idle'
    BY <1>10, <2>1, <2>2, <2>3, TextFacts DEF Idle
  <2> QED
    BY <1>1, <2>1, <2>5, <2>6 DEF Stream!Start
<1>6. ASSUME GoOn PROVE Stream!Pass
  <2>1. /\ ~Idle /\ curchar # End /\ ReadChar /\ curchar' = NextChar
        /\ UNCHANGED <<open, terminal, said>>
    BY <1>6 DEF GoOn, NextC
  <2>2. curchar \in Chars
    BY <2>1 DEF PortIInv, PortTypeOK, Idle
  <2>3. /\ Pos = Consumed - 1 /\ Pos \in 0..Len(Text) /\ Pos < Len(Text) /\ ~eof
    BY <2>2, <1>9 DEF PlaceOK
  <2>4. /\ NextChar # End => Consumed' = Consumed + 1 /\ ~eof'
        /\ NextChar = End => Consumed' = Consumed /\ eof'
    BY <1>1, <2>1, ReadCharKeeps
  <2>5. NextChar \in Chars \union {End} /\ (NextChar = End <=> Consumed = Len(Text))
    BY <1>1, <2>3, NextIsAhead
  <2>6. /\ curchar' \in Chars => Pos' = Consumed' - 1
        /\ curchar' = End => Pos' = Consumed'
    BY <1>9 DEF PlaceOK
  <2>7. Pos' = Consumed /\ Consumed = Pos + 1
    <3>1. Consumed = Pos + 1
      BY <1>1, <2>3
    <3>2. CASE NextChar = End
      BY <2>1, <2>4, <2>6, <3>1, <3>2
    <3>3. CASE NextChar # End
      <4>1. Pos' = Consumed' - 1 /\ Consumed' = Consumed + 1
        BY <2>1, <2>4, <2>5, <2>6, <3>3
      <4> QED
        BY <1>1, <3>1, <4>1
    <3> QED
      BY <3>2, <3>3
  <2>8. eof' = (Pos' = Len(Text))
    BY <1>10, <2>4, <2>5, <2>7
  <2>9. Stream!Ahead # End /\ ~Idle'
    <3>1. Pos + 1 \in 1..Len(Text)
      BY <1>1, <2>3
    <3>2. Pos # Len(Text)
      BY <1>1, <2>3
    <3>3. Stream!Ahead = Text[Pos + 1]
      BY <1>1, <2>3, <3>2 DEF Stream!Ahead
    <3> QED
      BY <2>1, <2>5, <3>1, <3>3, TextFacts DEF Idle
  <2> QED
    BY <1>1, <2>1, <2>7, <2>8, <2>9 DEF Stream!Pass
<1>7. ASSUME EndDatum PROVE Stream!Leave
  <2>1. /\ ~Idle /\ Idle'
        /\ n' = IF curchar # End /\ n > 0 THEN n - 1 ELSE n
        /\ curchar' = NoLexer
        /\ UNCHANGED <<fetched, buff, eof, open, terminal, said>>
    BY <1>7 DEF EndDatum, Idle
  <2>2. Pos' = Consumed'
    BY <2>1, <1>9 DEF PlaceOK
  <2>3. CASE curchar = End
    <3>1. Consumed' = Consumed
      BY <2>1, <2>3 DEF Consumed, Left, Buffered
    <3> QED
      BY <1>1, <2>1, <2>2, <2>3, <3>1, <1>9 DEF PlaceOK, Stream!Leave
  <2>4. CASE curchar # End
    <3>1. curchar \in Chars
      BY <2>1, <2>4 DEF PortIInv, PortTypeOK, Idle
    <3>2. n \in 1..Len(buff) /\ Len(buff) \in Nat /\ fetched \in Nat
      BY <1>1, <3>1, TextFacts, LenProperties DEF PortIInv, PortTypeOK, BuffOK
    <3>3. n' = n - 1 /\ n - 1 < Len(buff)
      BY <2>1, <2>4, <3>2
    <3>4. Consumed' = fetched - (Len(buff) - (n - 1))
      BY <2>1, <3>3 DEF Consumed, Left, Buffered
    <3>5. Consumed = fetched - (IF n < Len(buff) THEN Len(buff) - n ELSE 0)
      BY DEF Consumed, Left, Buffered
    <3>6. \A f \in Nat, l \in Nat : \A k \in 1..l :
            f - (l - (k - 1)) = f - (IF k < l THEN l - k ELSE 0) - 1
      OBVIOUS
    <3>7. Consumed' = Consumed - 1
      BY <3>2, <3>4, <3>5, <3>6
    <3>8. Pos' = Pos
      BY <2>2, <3>1, <3>7, <1>9 DEF PlaceOK
    <3> QED
      BY <1>1, <2>1, <3>8 DEF Stream!Leave
  <2> QED
    BY <2>3, <2>4
<1>8. ASSUME UNCHANGED portVars PROVE UNCHANGED Stream!streamVars
  <2>1. Pos' = Pos /\ UNCHANGED <<said, eof, open, curchar>>
    BY <1>8 DEF portVars, Pos, Consumed, Left, Buffered, Ahead, Chars
  <2> QED
    BY <1>1, <2>1 DEF Stream!streamVars, Idle
<1>11. CallsMatch
  BY <1>2, <1>3, <1>4, <1>5, <1>6, <1>7 DEF CallsMatch
<1>12. ASSUME PortNext PROVE Stream!StreamNext
  BY <1>2, <1>3, <1>4, <1>5, <1>6, <1>7, <1>12 DEF PortNext, Stream!StreamNext
<1> QED
  BY <1>8, <1>11, <1>12

-----------------------------------------------------------------------------
(* The invariant holds from the start and is kept.                         *)
LEMMA PortInvariant == InputPortSpec => []PortIInv
<1>1. PortInit => PortIInv
  <2> SUFFICES ASSUME PortInit PROVE PortIInv
    OBVIOUS
  <2>1. fetched = 0 /\ buff = <<>> /\ n = 0 /\ Len(buff) = 0 /\ buff \in Seq(Chars)
    BY DEF PortInit
  <2>2. SubSeq(Text, 1, 0) = <<>>
    BY SubSeqEmpty
  <2>3. 0 - 0 + 1 = 1
    OBVIOUS
  <2>4. buff = SubSeq(Text, fetched - Len(buff) + 1, fetched)
    BY <2>1, <2>2, <2>3
  <2>5. fetched \in 0..Len(Text) /\ n \in 0..BuffSize /\ Len(buff) <= fetched /\ Len(buff) <= BuffSize
    BY <2>1, TextFacts
  <2>6. BuffOK
    BY <2>1, <2>4, <2>5 DEF PortInit, BuffOK
  <2>7. PortTypeOK
    BY <2>1, <2>4, <2>5, TextFacts DEF PortInit, PortTypeOK
  <2> QED
    BY <2>6, <2>7, TextFacts DEF PortInit, PortIInv
<1>2. PortIInv /\ [PortNext]_portVars => PortIInv'
  BY StepKeepsPort
<1> QED
  BY <1>1, <1>2, PTL DEF InputPortSpec

(* The buffer, the place in it and the lexer's character fit together, for *)
(* any size of the buffer (fillbuff, readchar, unreadchar).                *)
THEOREM PortTypes == InputPortSpec => []PortTypeOK
<1>1. PortIInv => PortTypeOK
  BY DEF PortIInv
<1> QED
  BY <1>1, PortInvariant, PTL

(* An input port is the text of its file, and each call of it is that of   *)
(* the stream: peek-char does not move and read-char moves by one, so no   *)
(* mixture of read-char, peek-char, read and close-input-port loses a      *)
(* character or gives one twice, wherever the buffer ends (readchar,       *)
(* peekchar, unreadchar).                                                  *)
THEOREM PortIsStream == InputPortSpec => PortSpec
<1>1. PortInit => Stream!StreamInit
  <2> SUFFICES ASSUME PortInit PROVE Stream!StreamInit
    OBVIOUS
  <2>1. fetched = 0 /\ buff = <<>> /\ n = 0 /\ Len(buff) = 0 /\ curchar = NoLexer
    BY DEF PortInit
  <2>2. Left = 0 /\ Ahead = 0
    BY <2>1, TextFacts DEF Left, Buffered, Ahead
  <2>3. fetched - Left - Ahead = 0
    BY <2>1, <2>2
  <2> QED
    BY <2>3 DEF PortInit, Stream!StreamInit, Idle
<1>2. PortIInv /\ PortIInv' /\ [PortNext]_portVars
        => CallsMatch /\ [Stream!StreamNext]_(Stream!streamVars)
  BY StepRefinesStream
<1> QED
  BY <1>1, <1>2, PortInvariant, PTL
  DEF InputPortSpec, PortSpec, Stream!StreamSpec

-----------------------------------------------------------------------------
(* The line table.                                                         *)

(* A difference that fits is kept by the signed byte.                      *)
LEMMA BytesKeepDifferences ==
  /\ \A num \in Int : Abs(num) < MLINEDIFF => SignedByte(num) = num /\ num # ABSLINE
  /\ SignedByte(ABSLINE) = ABSLINE
  /\ \A num \in Int : SignedByte(num) \in -128 .. 127
<1>1. ASSUME NEW num \in Int, Abs(num) < MLINEDIFF
      PROVE  SignedByte(num) = num /\ num # ABSLINE
  <2>1. num \in -127 .. 127
    BY <1>1 DEF Abs, MLINEDIFF
  <2>2. \A m \in 0 .. 255 : m % 256 = m
    OBVIOUS
  <2>3. num + 128 \in 0 .. 255
    BY <2>1
  <2> QED
    BY <2>1, <2>2, <2>3 DEF SignedByte, ABSLINE
<1>2. SignedByte(ABSLINE) = ABSLINE
  BY DEF SignedByte, ABSLINE
<1>3. ASSUME NEW num \in Int PROVE SignedByte(num) \in -128 .. 127
  <2>1. (num + 128) % 256 \in 0 .. 255
    OBVIOUS
  <2> QED
    BY <2>1 DEF SignedByte
<1> QED
  BY <1>1, <1>2, <1>3

(* The line after i instructions.                                          *)
LineAfter(i) == IF i = 0 THEN defline ELSE emitted[i]

(* The table says how to come from one line to the next.                   *)
Written ==
  \A i \in 1 .. Len(lines) :
    IF lines[i] = ABSLINE
    THEN \E j \in 1 .. Len(abslines) : abslines[j].pc = i - 1 /\ abslines[j].line = emitted[i]
    ELSE emitted[i] = LineAfter(i - 1) + lines[i]

(* The entries of their own are in the order of their instructions.        *)
Ordered ==
  /\ \A j \in 1 .. Len(abslines) : abslines[j].pc < Len(lines)
  /\ \A j, k \in 1 .. Len(abslines) : j < k => abslines[j].pc < abslines[k].pc

LineShape ==
  /\ defline \in SourceLines
  /\ lines \in Seq(-128 .. 127)
  /\ abslines \in Seq([pc : Nat, line : SourceLines])
  /\ emitted \in Seq(SourceLines) /\ Len(emitted) = Len(lines)
  /\ prevline = LineAfter(Len(emitted))

LineInv == LineShape /\ Written /\ Ordered

LEMMA LineInitInv == LineInit => LineInv
<1> SUFFICES ASSUME LineInit PROVE LineInv
  OBVIOUS
<1>1. lines = <<>> /\ abslines = <<>> /\ emitted = <<>> /\ defline \in SourceLines /\ prevline = defline
  BY DEF LineInit
<1>2. Len(lines) = 0 /\ Len(abslines) = 0 /\ Len(emitted) = 0 /\ \A i : i \notin 1 .. 0
  BY <1>1
<1> QED
  BY <1>1, <1>2 DEF LineInv, LineShape, Written, Ordered, LineAfter

LEMMA PutCodeKeepsInv ==
  ASSUME LineTableAssumption, LineInv, NEW line \in SourceLines, PutCode(line)
  PROVE  LineInv'
<1> DEFINE num == Len(lines)
           diff == line - prevline
           far == Abs(diff) >= MLINEDIFF
           b == SignedByte(IF far THEN ABSLINE ELSE diff)
           e == [pc |-> num, line |-> line]
<1>1. /\ lines' = Append(lines, b)
      /\ abslines' = IF far THEN Append(abslines, e) ELSE abslines
      /\ prevline' = line /\ emitted' = Append(emitted, line) /\ defline' = defline
  BY DEF PutCode, SaveLine
<1>2. /\ lines \in Seq(-128 .. 127) /\ abslines \in Seq([pc : Nat, line : SourceLines])
      /\ emitted \in Seq(SourceLines) /\ Len(emitted) = num /\ num \in Nat
      /\ SourceLines \subseteq Nat /\ defline \in SourceLines
  BY DEF LineInv, LineShape, LineTableAssumption
<1>3. prevline \in Nat /\ diff \in Int /\ prevline = LineAfter(num)
  BY <1>2 DEF LineInv, LineShape, LineAfter
<1>4. b \in -128 .. 127 /\ (far => b = ABSLINE) /\ (~far => b = diff /\ b # ABSLINE)
  <2>1. CASE far
    <3>1. b = SignedByte(ABSLINE)
      BY <2>1
    <3> QED
      BY <2>1, <3>1, BytesKeepDifferences DEF ABSLINE
  <2>2. CASE ~far
    <3>1. b = SignedByte(diff) /\ Abs(diff) < MLINEDIFF
      BY <1>3, <2>2 DEF Abs, MLINEDIFF
    <3> HIDE DEF diff, far
    <3> QED
      BY <1>3, <2>2, <3>1, BytesKeepDifferences
  <2> QED
    BY <2>1, <2>2
<1>5. e \in [pc : Nat, line : SourceLines] /\ e.pc = num /\ e.line = line
  BY <1>2
<1> HIDE DEF b, e, far
<1>6. /\ lines' \in Seq(-128 .. 127) /\ Len(lines') = num + 1 /\ lines'[num + 1] = b
      /\ \A i \in 1 .. num : lines'[i] = lines[i]
  BY <1>1, <1>2, <1>4
<1>7. /\ emitted' \in Seq(SourceLines) /\ Len(emitted') = num + 1 /\ emitted'[num + 1] = line
      /\ \A i \in 1 .. num : emitted'[i] = emitted[i]
  BY <1>1, <1>2
<1>8. /\ abslines' \in Seq([pc : Nat, line : SourceLines]) /\ Len(abslines) \in Nat
      /\ Len(abslines') = (IF far THEN Len(abslines) + 1 ELSE Len(abslines))
      /\ far => abslines'[Len(abslines) + 1] = e
      /\ \A i \in 1 .. Len(abslines) : abslines'[i] = abslines[i]
  <2> DEFINE Ents == [pc : Nat, line : SourceLines]
  <2>1. abslines \in Seq(Ents) /\ e \in Ents
    BY <1>2, <1>5
  <2> HIDE DEF Ents
  <2>2. /\ abslines' \in Seq(Ents) /\ Len(abslines) \in Nat
        /\ Len(abslines') = (IF far THEN Len(abslines) + 1 ELSE Len(abslines))
        /\ far => abslines'[Len(abslines) + 1] = e
        /\ \A i \in 1 .. Len(abslines) : abslines'[i] = abslines[i]
    BY <1>1, <2>1
  <2> QED
    BY <2>2 DEF Ents
<1>9. \A i \in 0 .. num : LineAfter(i)' = LineAfter(i)
  BY <1>1, <1>2, <1>7 DEF LineAfter
<1>10. LineShape'
  <2>1. prevline' = LineAfter(Len(emitted))'
    BY <1>1, <1>2, <1>7 DEF LineAfter
  <2> QED
    BY <1>1, <1>2, <1>6, <1>7, <1>8, <2>1 DEF LineShape
<1>11. Written'
  <2>1. SUFFICES ASSUME NEW i \in 1 .. num + 1
                 PROVE  IF lines'[i] = ABSLINE
                        THEN \E j \in 1 .. Len(abslines') :
                               abslines'[j].pc = i - 1 /\ abslines'[j].line = emitted'[i]
                        ELSE emitted'[i] = LineAfter(i - 1)' + lines'[i]
    BY <1>6 DEF Written
  <2>2. i - 1 \in 0 .. num /\ LineAfter(i - 1)' = LineAfter(i - 1)
    BY <1>2, <1>9
  <2>3. CASE i \in 1 .. num
    <3>1. \A j \in 1 .. Len(abslines) : j \in 1 .. Len(abslines')
      BY <1>8
    <3>2. lines'[i] = lines[i] /\ emitted'[i] = emitted[i]
      BY <1>6, <1>7, <2>3
    <3> QED
      BY <1>8, <2>2, <2>3, <3>1, <3>2 DEF LineInv, Written
  <2>4. CASE i = num + 1
    <3>1. i - 1 = num /\ lines'[i] = b /\ emitted'[i] = line
      BY <1>2, <1>6, <1>7, <2>4
    <3>2. CASE far
      <4>1. Len(abslines) + 1 \in 1 .. Len(abslines')
        BY <1>8, <3>2
      <4> QED
        BY <1>4, <1>5, <1>8, <3>1, <3>2, <4>1
    <3>3. CASE ~far
      <4>1. line = prevline + b
        BY <1>2, <1>3, <1>4, <3>3
      <4>2. LineAfter(i - 1) = prevline
        BY <1>3, <3>1
      <4> QED
        BY <1>4, <2>2, <3>1, <3>3, <4>1, <4>2
    <3> QED
      BY <3>2, <3>3
  <2> QED
    BY <1>2, <2>3, <2>4
<1>12. Ordered'
  <2>1. \A j \in 1 .. Len(abslines) : abslines[j].pc \in Nat /\ abslines[j].pc < num
    <3>1. \A j \in 1 .. Len(abslines) : abslines[j] \in [pc : Nat, line : SourceLines]
      <4> DEFINE Ents == [pc : Nat, line : SourceLines]
      <4>1. abslines \in Seq(Ents)
        BY <1>2
      <4> HIDE DEF Ents
      <4>2. \A j \in 1 .. Len(abslines) : abslines[j] \in Ents
        BY <4>1
      <4> QED
        BY <4>2 DEF Ents
    <3> QED
      BY <3>1 DEF LineInv, Ordered
  <2>2. \A j, k \in 1 .. Len(abslines) : j < k => abslines[j].pc < abslines[k].pc
    BY DEF LineInv, Ordered
  <2> HIDE DEF num
  <2>3. CASE far
    <3>1. \A j \in 1 .. Len(abslines') : j \in 1 .. Len(abslines) \/ j = Len(abslines) + 1
      BY <1>8, <2>3
    <3>2. abslines'[Len(abslines) + 1].pc = num
      BY <1>5, <1>8, <2>3
    <3>3. \A j \in 1 .. Len(abslines') : abslines'[j].pc < Len(lines')
      <4>1. num \in Nat /\ Len(lines') = num + 1
        BY <1>2, <1>6
      <4>2. \A j \in 1 .. Len(abslines) : abslines'[j].pc \in Nat /\ abslines'[j].pc < num
        BY <1>8, <2>1
      <4>3. \A j \in 1 .. Len(abslines) : abslines'[j].pc < num + 1
        BY <4>1, <4>2
      <4>4. abslines'[Len(abslines) + 1].pc < num + 1
        BY <3>2, <4>1
      <4> QED
        BY <3>1, <4>1, <4>3, <4>4
    <3>4. ASSUME NEW j \in 1 .. Len(abslines'), NEW k \in 1 .. Len(abslines'), j < k
          PROVE  abslines'[j].pc < abslines'[k].pc
      <4>1. j \in 1 .. Len(abslines) /\ abslines'[j] = abslines[j]
        BY <1>8, <2>3, <3>4
      <4>2. CASE k \in 1 .. Len(abslines)
        BY <1>8, <2>2, <3>4, <4>1, <4>2
      <4>3. CASE k = Len(abslines) + 1
        BY <2>1, <3>2, <4>1, <4>3
      <4> QED
        BY <3>1, <4>2, <4>3
    <3> QED
      BY <3>3, <3>4 DEF Ordered
  <2>4. CASE ~far
    <3>1. abslines' = abslines
      BY <1>1, <2>4
    <3>2. Len(abslines') = Len(abslines)
      BY <3>1
    <3>3. \A j \in 1 .. Len(abslines') : abslines'[j].pc < Len(lines')
      BY <1>2, <1>6, <2>1, <3>1, <3>2
    <3>4. \A j, k \in 1 .. Len(abslines') : j < k => abslines'[j].pc < abslines'[k].pc
      BY <2>2, <3>1, <3>2
    <3> QED
      BY <3>3, <3>4 DEF Ordered
  <2> QED
    BY <2>3, <2>4
<1> QED
  BY <1>10, <1>11, <1>12 DEF LineInv
(* The decoder's function does what its loop does, step by step.           *)
LEMMA DecodedUnfolds ==
  ASSUME Len(lines) \in Nat
  PROVE  Decoded = [i \in 0 .. Len(lines) |->
                      IF i = 0 THEN [line |-> defline, absi |-> 1] ELSE NextLine(i - 1, Decoded[i - 1])]
<1> DEFINE Base == [line |-> defline, absi |-> 1]
           F(f, num) == [i \in 0 .. num |-> IF i = 0 THEN Base ELSE NextLine(i - 1, f[i - 1])]
           T == {num \in Nat : \E f : f = F(f, num)}
<1>1. 0 \in T
  <2> DEFINE f == [i \in 0 .. 0 |-> Base]
  <2>1. \A i \in 0 .. 0 : i = 0
    OBVIOUS
  <2> HIDE DEF Base
  <2>2. f = F(f, 0)
    BY <2>1
  <2> QED
    BY <2>2
<1>2. ASSUME NEW num \in Nat, num \in T PROVE num + 1 \in T
  <2>1. PICK f : f = F(f, num)
    BY <1>2
  <2> DEFINE g == [i \in 0 .. num + 1 |-> IF i <= num THEN f[i] ELSE NextLine(num, f[num])]
  <2> HIDE DEF Base
  <2>2. ASSUME NEW i \in 0 .. num + 1
        PROVE  g[i] = IF i = 0 THEN Base ELSE NextLine(i - 1, g[i - 1])
    <3>1. CASE i = 0
      BY <2>1, <3>1
    <3>2. CASE i # 0 /\ i <= num
      <4>1. i \in 0 .. num /\ i - 1 \in 0 .. num + 1 /\ i - 1 <= num
        BY <3>2
      <4>2. g[i] = f[i] /\ g[i - 1] = f[i - 1]
        BY <3>2, <4>1
      <4>3. f[i] = NextLine(i - 1, f[i - 1])
        BY <2>1, <3>2, <4>1
      <4> QED
        BY <3>2, <4>2, <4>3
    <3>3. CASE i = num + 1
      <4>1. i # 0 /\ i - 1 = num /\ num \in 0 .. num + 1 /\ num <= num /\ ~(i <= num)
        BY <3>3
      <4>2. g[i] = NextLine(num, f[num]) /\ g[i - 1] = f[num]
        BY <4>1
      <4> QED
        BY <4>1, <4>2
    <3> QED
      BY <3>1, <3>2, <3>3
  <2>3. g = F(g, num + 1)
    <3>1. g = [i \in 0 .. num + 1 |-> g[i]]
      OBVIOUS
    <3> HIDE DEF g
    <3> QED
      BY <2>2, <3>1
  <2> HIDE DEF g, F
  <2> QED
    BY <2>3
<1> HIDE DEF T
<1>3. Len(lines) \in T
  BY <1>1, <1>2, SetInduction
<1>4. \E f : f = F(f, Len(lines))
  BY <1>3 DEF T
<1>5. Decoded = CHOOSE f : f = F(f, Len(lines))
  BY DEF Decoded
<1> QED
  BY <1>4, <1>5

LEMMA EntryPcs ==
  ASSUME LineInv
  PROVE  Len(abslines) \in Nat /\ \A m \in 1 .. Len(abslines) : abslines[m].pc \in Nat
<1> DEFINE Ents == [pc : Nat, line : SourceLines]
<1>1. abslines \in Seq(Ents)
  BY DEF LineInv, LineShape
<1> HIDE DEF Ents
<1>2. Len(abslines) \in Nat /\ \A m \in 1 .. Len(abslines) : abslines[m] \in Ents
  BY <1>1
<1> QED
  BY <1>2 DEF Ents

(* Advance finds the entry of an instruction, if none before it was passed *)
(* over.                                                                   *)
LEMMA AdvanceFinds ==
  ASSUME LineInv, NEW absi \in 1 .. Len(abslines) + 1, NEW j \in 1 .. Len(abslines),
         \A m \in 1 .. Len(abslines) : m < absi => abslines[m].pc < abslines[j].pc
  PROVE  Advance(absi, abslines[j].pc) = j
<1>1. Len(abslines) \in Nat /\ \A m \in 1 .. Len(abslines) : abslines[m].pc \in Nat
  BY EntryPcs
<1>2. \A m, k \in 1 .. Len(abslines) : m < k => abslines[m].pc < abslines[k].pc
  BY DEF LineInv, Ordered
<1> DEFINE p == abslines[j].pc
           P(i) == /\ \A m \in absi .. i - 1 : abslines[m].pc < p
                   /\ i <= Len(abslines) => abslines[i].pc >= p
<1>3. p \in Nat
  BY <1>1
<1>4. absi <= j
  BY <1>1
<1>5. j \in absi .. Len(abslines) + 1 /\ P(j)
  <2>1. \A m \in absi .. j - 1 : m \in 1 .. Len(abslines) /\ m < j
    BY <1>1
  <2> QED
    BY <1>1, <1>2, <1>3, <1>4, <2>1
<1>6. ASSUME NEW i \in absi .. Len(abslines) + 1, P(i) PROVE i = j
  <2>1. CASE i < j
    <3>1. i \in 1 .. Len(abslines)
      BY <1>1, <2>1
    <3> QED
      BY <1>1, <1>2, <1>6, <2>1, <3>1
  <2>2. CASE i > j
    <3>1. j \in absi .. i - 1
      BY <1>1, <1>4, <2>2
    <3> QED
      BY <1>1, <1>6, <3>1
  <2> QED
    BY <1>1, <2>1, <2>2
<1>7. Advance(absi, p) = CHOOSE i \in absi .. Len(abslines) + 1 : P(i)
  BY DEF Advance
<1> HIDE DEF P
<1> QED
  BY <1>5, <1>6, <1>7

(* The decoder is on the right line after each instruction, and has passed *)
(* over no entry of a later one.                                           *)
LEMMA DecoderIsRight ==
  ASSUME LineTableAssumption, LineInv
  PROVE  \A i \in 0 .. Len(lines) : Decoded[i].line = LineAfter(i)
<1>1. Len(lines) \in Nat /\ SourceLines \subseteq Nat /\ Len(abslines) \in Nat
  BY DEF LineInv, LineShape, LineTableAssumption
<1> DEFINE On(num) == /\ Decoded[num] \in [line : Int, absi : 1 .. Len(abslines) + 1]
                    /\ Decoded[num].line = LineAfter(num)
                    /\ \A m \in 1 .. Len(abslines) : m < Decoded[num].absi => abslines[m].pc < num
           T == {num \in Nat : num <= Len(lines) => On(num)}
<1>2. 0 \in T
  <2>1. Decoded[0] = [line |-> defline, absi |-> 1]
    BY <1>1, DecodedUnfolds
  <2>2. defline \in Int
    BY <1>1 DEF LineInv, LineShape
  <2> QED
    BY <1>1, <2>1, <2>2 DEF LineAfter
<1>3. ASSUME NEW num \in Nat, num \in T PROVE num + 1 \in T
  <2>1. SUFFICES ASSUME num + 1 <= Len(lines) PROVE On(num + 1)
    OBVIOUS
  <2>2. On(num) /\ num + 1 \in 1 .. Len(lines) /\ num + 1 \in 0 .. Len(lines) /\ (num + 1) - 1 = num /\ num + 1 # 0
    BY <1>1, <1>3, <2>1
  <2> HIDE DEF T
  <2>3. Decoded[num + 1] = NextLine(num, Decoded[num])
    BY <1>1, <2>2, DecodedUnfolds
  <2>4. CASE lines[num + 1] # ABSLINE
    <3>1. Decoded[num + 1] = [Decoded[num] EXCEPT !.line = @ + lines[num + 1]]
      BY <2>3, <2>4 DEF NextLine
    <3>2. emitted[num + 1] = LineAfter(num) + lines[num + 1]
      BY <2>2, <2>4 DEF LineInv, Written
    <3>3. lines[num + 1] \in Int /\ LineAfter(num + 1) = emitted[num + 1]
      <4> DEFINE LineBytes == -128 .. 127
      <4>1. lines \in Seq(LineBytes)
        BY DEF LineInv, LineShape
      <4>2. \A i \in LineBytes : i \in Int
        OBVIOUS
      <4> HIDE DEF LineBytes
      <4>3. \A i \in 1 .. Len(lines) : lines[i] \in LineBytes
        BY <4>1
      <4>4. num + 1 # 0 /\ num + 1 \in 1 .. Len(lines)
        BY <2>2
      <4> QED
        BY <4>2, <4>3, <4>4 DEF LineAfter
    <3>4. /\ Decoded[num + 1] \in [line : Int, absi : 1 .. Len(abslines) + 1]
          /\ Decoded[num + 1].line = Decoded[num].line + lines[num + 1]
          /\ Decoded[num + 1].absi = Decoded[num].absi
      BY <2>2, <3>1, <3>3
    <3>5. \A m \in 1 .. Len(abslines) : abslines[m].pc < num => abslines[m].pc < num + 1
      BY EntryPcs
    <3> QED
      BY <2>2, <3>2, <3>3, <3>4, <3>5
  <2>5. CASE lines[num + 1] = ABSLINE
    <3>1. PICK j \in 1 .. Len(abslines) : abslines[j].pc = num /\ abslines[j].line = emitted[num + 1]
      BY <2>2, <2>5 DEF LineInv, Written
    <3>2. Advance(Decoded[num].absi, num) = j
      BY <2>2, <3>1, AdvanceFinds
    <3>3. Decoded[num + 1] = [line |-> abslines[j].line, absi |-> j]
      BY <2>3, <2>5, <3>1, <3>2 DEF NextLine, Anchored
    <3>4. \A m \in 1 .. Len(abslines) : m < j => abslines[m].pc < num
      BY <3>1 DEF LineInv, Ordered
    <3>5. \A m \in 1 .. Len(abslines) : abslines[m].pc < num => abslines[m].pc < num + 1
      BY EntryPcs
    <3>6. abslines[j].line \in Int /\ LineAfter(num + 1) = emitted[num + 1]
      <4>1. emitted \in Seq(SourceLines) /\ Len(emitted) = Len(lines)
        BY DEF LineInv, LineShape
      <4>2. \A i \in 1 .. Len(lines) : emitted[i] \in SourceLines
        BY <4>1
      <4>3. num + 1 # 0 /\ num + 1 \in 1 .. Len(lines)
        BY <2>2
      <4>4. LineAfter(num + 1) = emitted[num + 1]
        BY <4>3 DEF LineAfter
      <4>5. emitted[num + 1] \in Nat
        BY <1>1, <4>2, <4>3
      <4> QED
        BY <3>1, <4>4, <4>5
    <3>7. num < num + 1
      OBVIOUS
    <3> QED
      BY <1>1, <2>2, <3>1, <3>3, <3>4, <3>5, <3>6, <3>7
  <2> QED
    BY <2>4, <2>5
<1> HIDE DEF T, On
<1>4. Nat \subseteq T
  BY <1>2, <1>3, SetInduction
<1> QED
  BY <1>1, <1>4 DEF T, On

LEMMA InvMeansLines ==
  ASSUME LineTableAssumption, LineInv
  PROVE  LinesComeBack
<1>1. Len(lines) \in Nat /\ emitted \in Seq(SourceLines) /\ Len(emitted) = Len(lines)
  BY DEF LineInv, LineShape
<1>2. DOMAIN emitted = 1 .. Len(lines)
  BY <1>1
<1>3. DOMAIN Decoded = 0 .. Len(lines)
  BY <1>1, DecodedUnfolds
<1>4. \A i \in 1 .. Len(lines) : i # 0 /\ Decoded[i].line = emitted[i]
  BY <1>1, DecoderIsRight DEF LineAfter
<1>5. ASSUME NEW i \in DOMAIN emitted PROVE GetLine(i - 1) = emitted[i]
  <2>1. ~(i - 1 < 0) /\ ~(i - 1 >= Len(lines)) /\ (i - 1) + 1 = i
    BY <1>1, <1>2
  <2> QED
    BY <1>2, <1>4, <2>1 DEF GetLine
<1>6. DOMAIN Decoded \ {0} = 1 .. Len(lines)
  BY <1>1, <1>3
<1>7. ActiveLines = {emitted[i] : i \in DOMAIN emitted}
  BY <1>2, <1>4, <1>6 DEF ActiveLines
<1> QED
  BY <1>5, <1>7 DEF LinesComeBack

LEMMA LineInvHolds ==
  ASSUME LineTableAssumption
  PROVE  LineSpec => []LineInv
<1>1. LineInv /\ [LineNext]_lineVars => LineInv'
  <2> SUFFICES ASSUME LineInv, [LineNext]_lineVars PROVE LineInv'
    OBVIOUS
  <2>1. ASSUME NEW line \in SourceLines, PutCode(line) PROVE LineInv'
    BY <2>1, PutCodeKeepsInv
  <2>2. CASE UNCHANGED lineVars
    BY <2>2 DEF lineVars, LineInv, LineShape, Written, Ordered, LineAfter
  <2> QED
    BY <2>1, <2>2 DEF LineNext
<1> QED
  BY <1>1, LineInitInv, PTL DEF LineSpec

(* getline and activelines give every instruction the line it was compiled *)
(* with, however far apart the lines of neighbouring instructions are.     *)
THEOREM EveryLineComesBack ==
  ASSUME LineTableAssumption
  PROVE  LineSpec => []LinesComeBack
<1>1. LineInv => LinesComeBack
  BY InvMeansLines
<1> QED
  BY <1>1, LineInvHolds, PTL

(* The table holds signed bytes, the anchors instructions and lines.       *)
THEOREM LineTypeCorrect ==
  ASSUME LineTableAssumption
  PROVE  LineSpec => []LineTypeOK
<1>1. ASSUME LineInv PROVE LineTypeOK
  <2> DEFINE LineBytes == -128 .. 127
             Ents == [pc : Nat, line : SourceLines]
  <2>1. lines \in Seq(LineBytes) /\ abslines \in Seq(Ents)
    BY <1>1 DEF LineInv, LineShape
  <2> HIDE DEF LineBytes, Ents
  <2>2. /\ \A i \in DOMAIN lines : lines[i] \in LineBytes
        /\ \A i \in DOMAIN abslines : abslines[i] \in Ents
    BY <2>1
  <2> QED
    BY <2>2 DEF LineTypeOK, LineBytes, Ents
<1> QED
  BY <1>1, LineInvHolds, PTL


-----------------------------------------------------------------------------
(* The hook engine: its inductive invariant.                               *)
HookFrame ==
  {f \in [proc : Procs, pc : Nat, oldpc : Int, told : Nat \union {NoValue}] :
     /\ f.pc < Len(Lines[f.proc])
     /\ -1 <= f.oldpc /\ f.oldpc < Len(Lines[f.proc])}

HookChainSet ==
  [kind : {"main", "pcall", "hook", "C hook"}, frames : Seq(HookFrame),
   phase : {"fetch", "counted", "exec", "leave"},
   savedac : Vals \union {NoValue}, savedfrm : Nat, value : Vals \union {NoValue}]

(* Every frame but the last waits for a call to return.                    *)
Called(callers) == \A j \in 1 .. Len(callers) - 1 : callers[j].pc > 0

(* What a hook was told last is the line of the pc that was traced last.   *)
Seen(frm) == frm.oldpc >= 0 => frm.told = Line(frm, frm.oldpc)
AllSeen(callers) == \A j \in DOMAIN callers : Seen(callers[j])
IsTold(frm) == frm.told = Line(frm, frm.pc)

(* Chain c has become d.  Lines pass untold while a hook runs.             *)
Follows(c, d) ==
  /\ d \in HookChainSet
  /\ d.kind = c.kind /\ d.savedac = c.savedac /\ d.savedfrm = c.savedfrm
  /\ Called(d.frames)
  /\ allowhook /\ AllSeen(c.frames) => AllSeen(d.frames)

EngineTypes ==
  /\ hook \in BOOLEAN /\ hookfn \in BOOLEAN /\ raising \in BOOLEAN
  /\ mask \in Masks \union {{}} /\ count \in Nat /\ basecount \in Nat /\ since \in Nat
  /\ ac0 \in Vals \union {NoValue}

KeptFrames ==
  /\ kept \in Seq(HookFrame)
  /\ \A j \in DOMAIN kept : kept[j].pc > 0
  /\ AllSeen(kept)

(* The activations: all but the last wait in a frame, under pcall for the  *)
(* instruction that called it.                                             *)
Activations ==
  /\ chains \in Seq(HookChainSet) /\ chains # <<>>
  /\ \A i \in DOMAIN chains : Called(chains[i].frames)
  /\ chains[1].kind = "main"
  /\ \A i \in 2 .. Len(chains) :
       /\ chains[i].kind # "main"
       /\ chains[i - 1].frames # <<>>
       /\ chains[i].kind = "pcall" => TopOf(chains[i - 1]).pc > 0

(* One hook at most, on top of the chain that is under inspection.         *)
Alone ==
  \/ allowhook = TRUE /\ pausedfrm = 0 /\ HookChains = {}
  \/ /\ allowhook = FALSE /\ pausedfrm \in Nat \ {0}
     /\ HookChains = {pausedfrm + 1}
     /\ chains[pausedfrm + 1].savedfrm = 0

(* The program's frames, those beneath a hook included.                    *)
ProgramSeen ==
  \A i \in DOMAIN chains : (allowhook \/ i <= pausedfrm) => AllSeen(chains[i].frames)

(* What the interrupted chain finds again when the hook is through.        *)
Interrupted ==
  ~allowhook =>
    /\ chains[pausedfrm].phase = "leave" =>
         chains[pausedfrm + 1].savedac = chains[pausedfrm].value
    /\ chains[pausedfrm].phase = "exec" => IsTold(TopOf(chains[pausedfrm]))

ChainsInv == KeptFrames /\ Activations /\ Alone /\ ProgramSeen /\ Interrupted

(* The instructions since the last event and those until the next one.     *)
Counted ==
  /\ mask # {} => hook \/ hookfn
  /\ mask = {"count"} =>
       /\ count >= 1 /\ since + count <= basecount
       /\ ~allowhook => since = 0

LiveValue == Live.phase = "leave" => ac0 = Live.value

LiveLine ==
  (allowhook /\ Live.phase = "exec" /\ Live.frames # <<>> /\ "line" \in mask) =>
    IsTold(TopOf(Live))

HooksInv == EngineTypes /\ ChainsInv /\ Counted /\ LiveValue /\ LiveLine

-----------------------------------------------------------------------------
(* Frames and chains.                                                      *)
LEMMA NewFrames ==
  ASSUME HooksAssumption, NEW p \in Procs
  PROVE  NewFrame(p) \in HookFrame /\ Seen(NewFrame(p))
<1>1. Lines[p] \in Seq(Nat) /\ Lines[p] # <<>>
  BY DEF HooksAssumption
<1>2. Len(Lines[p]) \in Nat /\ Len(Lines[p]) >= 1
  BY <1>1
<1> QED
  BY <1>2 DEF NewFrame, HookFrame, Seen

LEMMA PcSet ==
  ASSUME NEW frm \in HookFrame, NEW num \in Nat, num < Len(Lines[frm.proc])
  PROVE  [frm EXCEPT !.pc = num] \in HookFrame /\ (Seen(frm) => Seen([frm EXCEPT !.pc = num]))
BY DEF HookFrame, Seen, Line

LEMMA TopIsSet ==
  ASSUME NEW c \in HookChainSet, c.frames # <<>>, NEW frm \in HookFrame, Called(c.frames),
         allowhook /\ AllSeen(c.frames) => Seen(frm)
  PROVE  /\ Follows(c, WithTop(c, frm))
         /\ WithTop(c, frm).frames # <<>> /\ TopOf(WithTop(c, frm)) = frm
         /\ WithTop(c, frm).phase = c.phase /\ WithTop(c, frm).value = c.value
         /\ Len(WithTop(c, frm).frames) = Len(c.frames)
<1> DEFINE num == Len(c.frames)
           fs == [c.frames EXCEPT ![num] = frm]
           F == HookFrame
<1>1. c.frames \in Seq(F) /\ num \in Nat \ {0}
  <2>1. c.frames \in Seq(F)
    BY DEF HookChainSet
  <2> HIDE DEF F
  <2> QED BY <2>1
<1>2. /\ fs \in Seq(F) /\ Len(fs) = num /\ fs # <<>> /\ DOMAIN fs = 1 .. num /\ fs[num] = frm
      /\ \A j \in 1 .. num - 1 : fs[j] = c.frames[j]
  <2>1. frm \in F
    OBVIOUS
  <2>2. DOMAIN c.frames = 1 .. num /\ num \in 1 .. num
    <3> HIDE DEF F
    <3> QED BY <1>1
  <2>3. /\ fs \in Seq(F) /\ Len(fs) = num
    <3> HIDE DEF F
    <3> QED BY <1>1, <2>1
  <2>4. DOMAIN fs = 1 .. num /\ fs[num] = frm /\ \A j \in 1 .. num - 1 : fs[j] = c.frames[j]
    <3> HIDE DEF F
    <3> QED BY <1>1, <2>2
  <2>5. fs # <<>>
    <3> HIDE DEF F
    <3> QED BY <1>1, <2>3
  <2> QED BY <2>3, <2>4, <2>5
<1>3. WithTop(c, frm) = [c EXCEPT !.frames = fs]
  BY DEF WithTop
<1>4. /\ WithTop(c, frm).frames = fs /\ WithTop(c, frm).phase = c.phase
      /\ WithTop(c, frm).value = c.value /\ WithTop(c, frm).kind = c.kind
      /\ WithTop(c, frm).savedac = c.savedac /\ WithTop(c, frm).savedfrm = c.savedfrm
      /\ WithTop(c, frm) \in HookChainSet
  <2> HIDE DEF fs
  <2> QED BY <1>2, <1>3 DEF HookChainSet
<1>5. Called(fs)
  BY <1>2 DEF Called
<1>6. allowhook /\ AllSeen(c.frames) => AllSeen(fs)
  <2> SUFFICES ASSUME allowhook, AllSeen(c.frames), NEW j \in 1 .. num PROVE Seen(fs[j])
    BY <1>2 DEF AllSeen
  <2>1. CASE j = num
    BY <1>2, <2>1
  <2>2. CASE j # num
    <3>1. fs[j] = c.frames[j]
      BY <1>1, <1>2, <2>2
    <3> QED BY <1>1, <3>1 DEF AllSeen
  <2> QED BY <2>1, <2>2
<1> HIDE DEF fs
<1> QED
  BY <1>1, <1>2, <1>4, <1>5, <1>6 DEF Follows, TopOf

(* Only the phase of a chain changes, or the value it returns too.         *)
LEMMA PhaseSet ==
  ASSUME NEW c \in HookChainSet, Called(c.frames),
         NEW ph \in {"fetch", "counted", "exec", "leave"}
  PROVE  /\ Follows(c, [c EXCEPT !.phase = ph])
         /\ [c EXCEPT !.phase = ph].frames = c.frames
         /\ [c EXCEPT !.phase = ph].phase = ph
         /\ [c EXCEPT !.phase = ph].value = c.value
BY DEF Follows, HookChainSet

LEMMA FollowsOn ==
  ASSUME NEW c, NEW d, NEW e, Follows(c, d), Follows(d, e)
  PROVE  Follows(c, e)
BY DEF Follows

LEMMA TopIsFrame ==
  ASSUME NEW c \in HookChainSet, c.frames # <<>>
  PROVE  TopOf(c) \in HookFrame /\ (AllSeen(c.frames) => Seen(TopOf(c)))
<1> DEFINE F == HookFrame
<1>1. c.frames \in Seq(F)
  BY DEF HookChainSet
<1>2. Len(c.frames) \in DOMAIN c.frames /\ c.frames[Len(c.frames)] \in F
  <2> HIDE DEF F
  <2> QED BY <1>1
<1> QED
  BY <1>2 DEF TopOf, AllSeen

-----------------------------------------------------------------------------
(* The last activation, and where it is.                                   *)
LEMMA LiveChain ==
  ASSUME ChainsInv
  PROVE  /\ Depth \in Nat \ {0} /\ DOMAIN chains = 1 .. Depth
         /\ Live \in HookChainSet /\ Called(Live.frames)
         /\ \A i \in 1 .. Depth : chains[i] \in HookChainSet
         /\ allowhook \in BOOLEAN
         /\ allowhook => AllSeen(Live.frames)
         /\ ~allowhook => /\ pausedfrm \in Nat /\ 1 <= pausedfrm /\ pausedfrm < Depth
                          /\ chains[pausedfrm].frames # <<>>
         /\ allowhook <=> ~InHook
<1> DEFINE C == HookChainSet
<1>1. chains \in Seq(C) /\ chains # <<>>
  BY DEF ChainsInv, Activations
<1>2. Depth \in Nat \ {0} /\ DOMAIN chains = 1 .. Depth /\ \A i \in 1 .. Depth : chains[i] \in C
  <2> HIDE DEF C
  <2> QED BY <1>1 DEF Depth
<1>3. Live = chains[Depth]
  BY DEF Live
<1>4. Called(Live.frames)
  BY <1>2, <1>3 DEF ChainsInv, Activations
<1>5. allowhook \in BOOLEAN /\ (allowhook <=> ~InHook)
  BY DEF ChainsInv, Alone, InHook
<1>6. allowhook => AllSeen(Live.frames)
  BY <1>2, <1>3 DEF ChainsInv, ProgramSeen
<1>7. ASSUME ~allowhook
      PROVE  /\ pausedfrm \in Nat /\ 1 <= pausedfrm /\ pausedfrm < Depth
             /\ chains[pausedfrm].frames # <<>>
  <2>1. pausedfrm \in Nat \ {0} /\ pausedfrm + 1 \in DOMAIN chains
    BY <1>7 DEF ChainsInv, Alone, HookChains
  <2>2. pausedfrm + 1 \in 2 .. Len(chains) /\ pausedfrm + 1 - 1 = pausedfrm
    BY <1>2, <2>1 DEF Depth
  <2>3. \A i \in 2 .. Len(chains) : chains[i - 1].frames # <<>>
    BY DEF ChainsInv, Activations
  <2>4. ASSUME NEW i \in 2 .. Len(chains), i - 1 = pausedfrm
        PROVE  chains[pausedfrm].frames # <<>>
    BY <2>3, <2>4
  <2>5. chains[pausedfrm].frames # <<>>
    BY <2>1, <2>2, <2>4
  <2> QED BY <1>2, <2>1, <2>2, <2>5
<1> HIDE DEF C
<1> QED BY <1>2, <1>3, <1>4, <1>5, <1>6, <1>7 DEF C

(* What the activations owe to each other survives a step of the last one. *)
LEMMA Replacing ==
  ASSUME ChainsInv, NEW d, Follows(Live, d), KeptFrames',
         chains' = Replace(d), UNCHANGED guarded
  PROVE  ChainsInv' /\ Live' = d /\ Depth' = Depth
<1> DEFINE num == Depth
           C == HookChainSet
           K(i) == chains[i].kind
<1>1. /\ num \in Nat \ {0} /\ DOMAIN chains = 1 .. num /\ Live \in C /\ allowhook \in BOOLEAN
      /\ \A i \in 1 .. num : chains[i] \in C
      /\ ~allowhook => pausedfrm \in Nat /\ 1 <= pausedfrm /\ pausedfrm < num
  BY LiveChain
<1>2. chains' = [chains EXCEPT ![num] = d] /\ Live = chains[num] /\ num = Len(chains)
  BY DEF Replace, Live, Depth
<1>3. allowhook' = allowhook /\ pausedfrm' = pausedfrm
  BY DEF guarded
<1>4. d \in C /\ d.kind = Live.kind /\ d.savedac = Live.savedac /\ d.savedfrm = Live.savedfrm
      /\ Called(d.frames) /\ (allowhook /\ AllSeen(Live.frames) => AllSeen(d.frames))
  BY DEF Follows
<1>5. chains \in Seq(C)
  BY DEF ChainsInv, Activations
<1> HIDE DEF C
<1>6. /\ chains' \in Seq(C) /\ chains' # <<>> /\ Len(chains') = num /\ DOMAIN chains' = 1 .. num
      /\ chains'[num] = d /\ \A i \in 1 .. num - 1 : chains'[i] = chains[i]
  BY <1>1, <1>2, <1>4, <1>5
<1>7. Live' = d /\ Depth' = Depth
  BY <1>6, <1>2 DEF Live, Depth
<1>8. \A i \in 1 .. num : chains'[i].kind = chains[i].kind
  <2> TAKE i \in 1 .. num
  <2> QED BY <1>1, <1>2, <1>4, <1>6
<1>9. Activations'
  <2>1. \A i \in DOMAIN chains' : Called(chains'[i].frames)
    <3> TAKE i \in DOMAIN chains'
    <3>1. CASE i = num
      BY <1>4, <1>6, <3>1
    <3>2. CASE i # num
      BY <1>1, <1>6, <3>2 DEF ChainsInv, Activations
    <3> QED BY <3>1, <3>2
  <2>2. chains'[1].kind = "main"
    BY <1>1, <1>8 DEF ChainsInv, Activations
  <2>3. ASSUME NEW i \in 2 .. num
        PROVE  /\ chains'[i].kind # "main"
               /\ chains'[i - 1].frames # <<>>
               /\ chains'[i].kind = "pcall" => TopOf(chains'[i - 1]).pc > 0
    <3>1. i \in 1 .. num /\ i - 1 \in 1 .. num - 1 /\ i \in 2 .. Len(chains)
      BY <1>1, <1>2
    <3>2. chains'[i].kind = chains[i].kind /\ chains'[i - 1] = chains[i - 1]
      BY <1>6, <1>8, <3>1
    <3> QED BY <3>1, <3>2 DEF ChainsInv, Activations
  <2> QED BY <1>6, <2>1, <2>2, <2>3 DEF Activations, C
<1>10. HookChains' = HookChains
  BY <1>1, <1>6, <1>8 DEF HookChains
<1>11. ~allowhook => chains'[pausedfrm] = chains[pausedfrm]
                     /\ chains'[pausedfrm + 1].savedac = chains[pausedfrm + 1].savedac
                     /\ chains'[pausedfrm + 1].savedfrm = chains[pausedfrm + 1].savedfrm
  <2> SUFFICES ASSUME ~allowhook
               PROVE  chains'[pausedfrm] = chains[pausedfrm]
                     /\ chains'[pausedfrm + 1].savedac = chains[pausedfrm + 1].savedac
                     /\ chains'[pausedfrm + 1].savedfrm = chains[pausedfrm + 1].savedfrm
    OBVIOUS
  <2>1. chains'[pausedfrm] = chains[pausedfrm]
    BY <1>1, <1>6
  <2>2. CASE pausedfrm + 1 = num
    BY <1>2, <1>4, <1>6, <2>1, <2>2
  <2>3. CASE pausedfrm + 1 # num
    BY <1>1, <1>6, <2>1, <2>3
  <2> QED BY <2>2, <2>3
<1>12. Alone'
  BY <1>3, <1>10, <1>11 DEF ChainsInv, Alone
<1>13. ProgramSeen'
  <2> SUFFICES ASSUME NEW i \in 1 .. num, allowhook \/ i <= pausedfrm
               PROVE  AllSeen(chains'[i].frames)
    BY <1>3, <1>6 DEF ProgramSeen
  <2>1. AllSeen(chains[i].frames)
    BY <1>1 DEF ChainsInv, ProgramSeen
  <2>2. CASE i = num
    <3>1. allowhook
      BY <1>1, <2>2
    <3> QED BY <1>2, <1>4, <1>6, <2>1, <2>2, <3>1
  <2>3. CASE i # num
    BY <1>1, <1>6, <2>1, <2>3
  <2> QED BY <2>2, <2>3
<1>14. Interrupted'
  BY <1>3, <1>11 DEF ChainsInv, Interrupted
<1> QED
  BY <1>7, <1>9, <1>12, <1>13, <1>14 DEF ChainsInv

(* A chain of its own on top of the last activation, which goes on as d:   *)
(* that of a hook, and that of a thunk under pcall.                        *)
LEMMA Pushing ==
  ASSUME ChainsInv, NEW d, Follows(Live, d), d.frames # <<>>, UNCHANGED kept,
         NEW c \in HookChainSet, Called(c.frames), c.kind # "main",
         chains' = Append(Replace(d), c),
         \/ /\ c.kind = "pcall" /\ TopOf(d).pc > 0 /\ AllSeen(c.frames)
            /\ UNCHANGED guarded
         \/ /\ c.kind # "pcall" /\ allowhook = TRUE /\ c.savedfrm = pausedfrm
            /\ allowhook' = FALSE /\ pausedfrm' = Depth
            /\ d.phase = "leave" => c.savedac = d.value
            /\ d.phase = "exec" => IsTold(TopOf(d))
  PROVE  ChainsInv' /\ Live' = c
<1> DEFINE num == Depth
           m == Depth + 1
           C == HookChainSet
<1>1. /\ num \in Nat \ {0} /\ DOMAIN chains = 1 .. num /\ Live \in C /\ allowhook \in BOOLEAN
      /\ \A i \in 1 .. num : chains[i] \in C
      /\ ~allowhook => pausedfrm \in Nat /\ 1 <= pausedfrm /\ pausedfrm < num
  BY LiveChain
<1>2. Live = chains[num] /\ num = Len(chains) /\ Replace(d) = [chains EXCEPT ![num] = d]
  BY DEF Replace, Live, Depth
<1>3. d \in C /\ d.kind = Live.kind /\ d.savedac = Live.savedac /\ d.savedfrm = Live.savedfrm
      /\ Called(d.frames) /\ (allowhook /\ AllSeen(Live.frames) => AllSeen(d.frames))
  BY DEF Follows
<1>4. chains \in Seq(C)
  BY DEF ChainsInv, Activations
<1>5. c \in C
  OBVIOUS
<1> HIDE DEF C
<1>6. m \in Nat /\ m > num /\ m - 1 = num
  BY <1>1
<1> HIDE DEF m
<1>7. /\ chains' \in Seq(C) /\ chains' # <<>> /\ Len(chains') = m /\ DOMAIN chains' = 1 .. m
      /\ chains'[m] = c /\ chains'[num] = d /\ \A i \in 1 .. num - 1 : chains'[i] = chains[i]
  <2>1. Replace(d) \in Seq(C) /\ Len(Replace(d)) = num /\ Replace(d)[num] = d
        /\ \A i \in 1 .. num - 1 : Replace(d)[i] = chains[i]
    BY <1>1, <1>2, <1>3, <1>4
  <2> DEFINE r == Replace(d)
  <2> HIDE DEF r
  <2>2. chains' = Append(r, c) /\ m = Len(r) + 1 /\ r \in Seq(C) /\ num = Len(r)
    BY <2>1 DEF r, m
  <2>3. /\ Append(r, c) \in Seq(C) /\ Len(Append(r, c)) = Len(r) + 1
        /\ Append(r, c)[Len(r) + 1] = c
        /\ \A i \in 1 .. Len(r) : Append(r, c)[i] = r[i]
    BY <1>5, <2>2
  <2> QED BY <1>1, <1>6, <2>1, <2>2, <2>3 DEF r
<1>8. Live' = c
  BY <1>7 DEF Live, Depth
<1>9. \A i \in 1 .. num : chains'[i].kind = chains[i].kind
  <2> TAKE i \in 1 .. num
  <2> QED BY <1>1, <1>2, <1>3, <1>7
<1>10. \A i \in 1 .. m : i = m \/ i \in 1 .. num
  BY <1>1, <1>6
<1>11. Activations'
  <2>1. \A i \in DOMAIN chains' : Called(chains'[i].frames)
    <3> TAKE i \in DOMAIN chains'
    <3>1. CASE i = num
      BY <1>3, <1>7, <3>1
    <3>2. CASE i = m
      BY <1>7, <3>2
    <3>3. CASE i # num /\ i # m
      <4>1. i \in 1 .. num - 1 /\ i \in DOMAIN chains
        BY <1>1, <1>7, <1>10, <3>3
      <4> QED BY <1>7, <4>1 DEF ChainsInv, Activations
    <3> QED BY <3>1, <3>2, <3>3
  <2>2. chains'[1].kind = "main"
    BY <1>1, <1>9 DEF ChainsInv, Activations
  <2>3. ASSUME NEW i \in 2 .. m
        PROVE  /\ chains'[i].kind # "main"
               /\ chains'[i - 1].frames # <<>>
               /\ chains'[i].kind = "pcall" => TopOf(chains'[i - 1]).pc > 0
    <3>1. CASE i = m
      BY <1>6, <1>7, <3>1
    <3>2. CASE i # m
      <4>1. i \in 1 .. num /\ i - 1 \in 1 .. num - 1 /\ i \in 2 .. Len(chains)
        BY <1>1, <1>2, <1>10, <3>2
      <4>2. chains'[i].kind = chains[i].kind /\ chains'[i - 1] = chains[i - 1]
        BY <1>7, <1>9, <4>1
      <4> QED BY <4>1, <4>2 DEF ChainsInv, Activations
    <3> QED BY <3>1, <3>2
  <2> QED BY <1>7, <2>1, <2>2, <2>3 DEF Activations, C
<1>12. HookChains' = HookChains \union (IF c.kind = "pcall" THEN {} ELSE {m})
  <2>1. HookChains' = {i \in 1 .. m : chains'[i].kind \in {"hook", "C hook"}}
    BY <1>7 DEF HookChains
  <2>2. HookChains = {i \in 1 .. num : chains[i].kind \in {"hook", "C hook"}}
    BY <1>1 DEF HookChains
  <2>3. c.kind \in {"pcall", "hook", "C hook"}
    BY DEF HookChainSet
  <2>4. m \in 1 .. m /\ \A i \in 1 .. num : i \in 1 .. m
    BY <1>1, <1>6
  <2> QED BY <1>7, <1>9, <1>10, <2>1, <2>2, <2>3, <2>4, ZenonT(60)
<1>13. KeptFrames'
  BY DEF ChainsInv, KeptFrames
<1>14. CASE c.kind = "pcall"
  <2>1. allowhook' = allowhook /\ pausedfrm' = pausedfrm /\ AllSeen(c.frames)
    BY <1>14 DEF guarded
  <2>2. HookChains' = HookChains
    BY <1>12, <1>14
  <2>3. ~allowhook => chains'[pausedfrm] = chains[pausedfrm]
                     /\ chains'[pausedfrm + 1].savedac = chains[pausedfrm + 1].savedac
                     /\ chains'[pausedfrm + 1].savedfrm = chains[pausedfrm + 1].savedfrm
    <3> SUFFICES ASSUME ~allowhook
               PROVE  chains'[pausedfrm] = chains[pausedfrm]
                     /\ chains'[pausedfrm + 1].savedac = chains[pausedfrm + 1].savedac
                     /\ chains'[pausedfrm + 1].savedfrm = chains[pausedfrm + 1].savedfrm
      OBVIOUS
    <3>0. pausedfrm \in 1 .. num - 1
      BY <1>1
    <3>1. chains'[pausedfrm] = chains[pausedfrm]
      BY <1>7, <3>0
    <3>2. CASE pausedfrm + 1 = num
      BY <1>2, <1>3, <1>7, <3>1, <3>2
    <3>3. CASE pausedfrm + 1 # num
      <4>1. pausedfrm + 1 \in 1 .. num - 1
        BY <1>1, <3>3
      <4> QED BY <1>7, <3>1, <4>1
    <3> QED BY <3>2, <3>3
  <2>4. Alone'
    BY <2>1, <2>2, <2>3 DEF ChainsInv, Alone
  <2>5. ProgramSeen'
    <3> SUFFICES ASSUME NEW i \in 1 .. m, allowhook \/ i <= pausedfrm
               PROVE  AllSeen(chains'[i].frames)
      BY <1>7, <2>1 DEF ProgramSeen
    <3>1. CASE i = m
      BY <1>7, <2>1, <3>1
    <3>2. CASE i = num
      <4>1. AllSeen(chains[i].frames)
        BY <1>1, <3>2 DEF ChainsInv, ProgramSeen
      <4>2. allowhook
        BY <1>1, <3>2
      <4> QED BY <1>2, <1>3, <1>7, <3>2, <4>1, <4>2
    <3>3. CASE i # m /\ i # num
      <4>1. i \in 1 .. num - 1 /\ i \in DOMAIN chains
        BY <1>1, <1>10, <3>3
      <4> QED BY <1>7, <4>1 DEF ChainsInv, ProgramSeen
    <3> QED BY <3>1, <3>2, <3>3
  <2>6. Interrupted'
    BY <2>1, <2>3 DEF ChainsInv, Interrupted
  <2> QED
    BY <1>8, <1>11, <1>13, <2>4, <2>5, <2>6 DEF ChainsInv
<1>15. CASE c.kind # "pcall"
  <2>1. /\ allowhook = TRUE /\ c.savedfrm = pausedfrm /\ allowhook' = FALSE /\ pausedfrm' = num
        /\ d.phase = "leave" => c.savedac = d.value
        /\ d.phase = "exec" => IsTold(TopOf(d))
    BY <1>15
  <2>2. pausedfrm = 0 /\ HookChains = {}
    BY <2>1 DEF ChainsInv, Alone
  <2>3. HookChains' = {m}
    BY <1>12, <1>15, <2>2
  <2>4. Alone'
    BY <1>1, <1>7, <2>1, <2>2, <2>3 DEF Alone, m
  <2>5. ProgramSeen'
    <3> SUFFICES ASSUME NEW i \in 1 .. m, i <= num
               PROVE  AllSeen(chains'[i].frames)
      BY <1>7, <2>1 DEF ProgramSeen
    <3>1. i \in 1 .. num
      BY <1>1, <1>6
    <3>2. AllSeen(chains[i].frames)
      BY <1>1, <2>1, <3>1 DEF ChainsInv, ProgramSeen
    <3>3. CASE i = num
      BY <1>2, <1>3, <1>7, <2>1, <3>2, <3>3
    <3>4. CASE i # num
      <4>1. i \in 1 .. num - 1
        BY <1>1, <3>1, <3>4
      <4> QED BY <1>7, <3>2, <4>1
    <3> QED BY <3>3, <3>4
  <2>6. Interrupted'
    BY <1>7, <2>1 DEF Interrupted, m
  <2> QED
    BY <1>8, <1>11, <1>13, <2>4, <2>5, <2>6 DEF ChainsInv
<1> QED
  BY <1>14, <1>15

(* An event of the last activation, which goes on as c.                    *)
HookOn(fs, v) == [HookChain EXCEPT !.savedac = v, !.frames = fs]

IsHookChain(c, fs, v) ==
  /\ c \in HookChainSet /\ c.kind \in {"hook", "C hook"}
  /\ c.frames = fs /\ c.phase = "fetch" /\ c.savedac = v /\ c.savedfrm = pausedfrm

LEMMA HookChainIs ==
  ASSUME ChainsInv, NEW fs \in Seq(HookFrame), NEW v \in Vals \union {NoValue},
         ac0 \in Vals \union {NoValue}
  PROVE  /\ IsHookChain(HookOn(fs, v), fs, v)
         /\ [HookChain EXCEPT !.frames = fs] = HookOn(fs, ac0)
<1> DEFINE kd == IF hook THEN "C hook" ELSE "hook"
<1>1. pausedfrm \in Nat
  BY DEF ChainsInv, Alone
<1>2. HookChain = [Chain(kd, <<>>) EXCEPT !.savedac = ac0, !.savedfrm = pausedfrm]
  BY Zenon DEF HookChain, kd
<1>3. kd \in {"hook", "C hook"} /\ kd \in {"main", "pcall", "hook", "C hook"}
  BY Zenon DEF kd
<1> HIDE DEF kd
<1> DEFINE h == [kind |-> kd, frames |-> <<>>, phase |-> "fetch", savedac |-> ac0,
                 savedfrm |-> pausedfrm, value |-> NoValue]
           none == <<>>
           F == HookFrame
           R == [kind : {"main", "pcall", "hook", "C hook"}, frames : Seq(F),
                 phase : {"fetch", "counted", "exec", "leave"},
                 savedac : Vals \union {NoValue}, savedfrm : Nat, value : Vals \union {NoValue}]
<1>4. none \in Seq(F) /\ fs \in Seq(F)
  <2> HIDE DEF F
  <2>1. none \in Seq(F)
    OBVIOUS
  <2> QED BY <2>1 DEF F
<1>5. HookChain = h
  BY <1>2 DEF Chain
<1>6. h = [kind |-> kd, frames |-> none, phase |-> "fetch", savedac |-> ac0,
           savedfrm |-> pausedfrm, value |-> NoValue]
  OBVIOUS
<1> HIDE DEF h, none, F
<1>7. h \in R /\ h.kind = kd /\ h.phase = "fetch" /\ h.savedac = ac0 /\ h.savedfrm = pausedfrm
  BY <1>1, <1>3, <1>4, <1>6
<1> DEFINE x == [h EXCEPT !.frames = fs]
           y == [h EXCEPT !.savedac = v, !.frames = fs]
           z == [h EXCEPT !.savedac = ac0, !.frames = fs]
<1>8. x \in R /\ z \in R /\ x = z
  BY <1>4, <1>7
<1>9. y \in R /\ y.kind = kd /\ y.phase = "fetch" /\ y.savedac = v /\ y.savedfrm = pausedfrm
      /\ y.frames = fs
  BY <1>4, <1>7
<1> QED
  BY <1>3, <1>5, <1>8, <1>9 DEF HookChainSet, HookOn, F, IsHookChain

LEMMA HookFrames ==
  ASSUME HooksAssumption, NEW p, p \in IF hook THEN {NoValue} ELSE Procs
  PROVE  LET fs == IF hook THEN <<>> ELSE <<NewFrame(p)>>
         IN fs \in Seq(HookFrame) /\ Called(fs)
<1> DEFINE F == HookFrame
<1>1. CASE hook
  <2> HIDE DEF F
  <2>1. <<>> \in Seq(F) /\ Len(<<>>) = 0
    OBVIOUS
  <2> QED BY <1>1, <2>1 DEF Called, F
<1>2. CASE ~hook
  <2> DEFINE e == NewFrame(p)
  <2>1. e \in F
    BY <1>2, NewFrames
  <2> HIDE DEF F, e
  <2>2. <<e>> \in Seq(F) /\ Len(<<e>>) = 1
    BY <2>1
  <2>3. Called(<<e>>)
    BY <2>2 DEF Called
  <2> QED BY <1>2, <2>2, <2>3 DEF F, e
<1> QED BY <1>1, <1>2

LEMMA Firing ==
  ASSUME HooksAssumption, ChainsInv, ac0 \in Vals \union {NoValue},
         NEW event, NEW c, Follows(Live, c), c.frames # <<>>, c.phase # "leave",
         (Heard(event) /\ c.phase = "exec") => IsTold(TopOf(c)),
         Fire(event, c), UNCHANGED kept
  PROVE  /\ ChainsInv'
         /\ Heard(event) => ~allowhook' /\ Live'.phase = "fetch"
         /\ ~Heard(event) => Live' = c /\ allowhook' = allowhook
<1>1. CASE Heard(event)
  <2>1. PICK p \in IF hook THEN {NoValue} ELSE Procs :
         /\ chains' = Append(Replace(c), [HookChain EXCEPT
              !.frames = IF hook THEN <<>> ELSE <<NewFrame(p)>>])
         /\ allowhook' = FALSE /\ pausedfrm' = Depth
    BY <1>1 DEF Fire
  <2> DEFINE fs == IF hook THEN <<>> ELSE <<NewFrame(p)>>
             k == HookOn(fs, ac0)
  <2>2. fs \in Seq(HookFrame) /\ Called(fs)
    BY HookFrames
  <2>4. allowhook = TRUE
    BY <1>1, LiveChain DEF Heard
  <2> HIDE DEF fs
  <2>5. /\ k \in HookChainSet /\ k.frames = fs /\ k.phase = "fetch"
        /\ k.kind \in {"hook", "C hook"} /\ k.savedfrm = pausedfrm
        /\ [HookChain EXCEPT !.frames = fs] = k
    <3>1. fs \in Seq(HookFrame)
      BY <2>2
    <3>2. IsHookChain(HookOn(fs, ac0), fs, ac0) /\ [HookChain EXCEPT !.frames = fs] = k
      BY <3>1, HookChainIs
    <3> QED BY <3>2 DEF IsHookChain
  <2>6. chains' = Append(Replace(c), k)
    BY <2>1, <2>5 DEF fs
  <2> HIDE DEF k
  <2>7. c.phase = "exec" => IsTold(TopOf(c))
    BY <1>1
  <2>8. k.kind # "main" /\ k.kind # "pcall" /\ Called(k.frames)
    BY <2>2, <2>5
  <2>9. ChainsInv' /\ Live' = k
    BY <2>1, <2>4, <2>5, <2>6, <2>7, <2>8, Pushing
  <2> QED
    BY <1>1, <2>1, <2>5, <2>9
<1>2. CASE ~Heard(event)
  <2>1. chains' = Replace(c) /\ UNCHANGED guarded
    BY <1>2 DEF Fire
  <2>2. KeptFrames'
    BY DEF ChainsInv, KeptFrames
  <2>3. ChainsInv' /\ Live' = c
    BY <2>1, <2>2, Replacing
  <2> QED
    BY <1>2, <2>1, <2>3 DEF guarded
<1> QED
  BY <1>1, <1>2

(* The program counter of the last frame moves.                            *)
LEMMA Moving ==
  ASSUME NEW c \in HookChainSet, c.frames # <<>>, Called(c.frames),
         NEW num \in Nat, num < Len(Lines[TopOf(c).proc])
  PROVE  LET d == [WithTop(c, [TopOf(c) EXCEPT !.pc = num]) EXCEPT !.phase = "fetch"]
         IN Follows(c, d) /\ d.frames # <<>> /\ d.phase = "fetch"
<1> DEFINE f == [TopOf(c) EXCEPT !.pc = num]
           e == WithTop(c, f)
           d == [e EXCEPT !.phase = "fetch"]
<1>1. f \in HookFrame /\ (AllSeen(c.frames) => Seen(f))
  BY TopIsFrame, PcSet
<1> HIDE DEF f
<1>2. Follows(c, e) /\ e.frames # <<>>
  BY <1>1, TopIsSet
<1> HIDE DEF e
<1>3. e \in HookChainSet /\ Called(e.frames)
  BY <1>2 DEF Follows
<1>4. Follows(e, d) /\ d.frames = e.frames /\ d.phase = "fetch"
  BY <1>3, PhaseSet
<1> HIDE DEF d
<1>5. Follows(c, d) /\ d.frames # <<>> /\ d.phase = "fetch"
  BY <1>2, <1>4, FollowsOn
<1> QED
  BY <1>5 DEF d, e, f

LEMMA Stepping ==
  ASSUME NEW c \in HookChainSet, c.frames # <<>>, Called(c.frames), TopOf(c).pc > 0
  PROVE  LET d == [WithTop(c, Next1(TopOf(c))) EXCEPT !.phase = "fetch"]
         IN Follows(c, d) /\ d.frames # <<>> /\ d.phase = "fetch"
<1>1. TopOf(c).pc - 1 \in Nat /\ TopOf(c).pc - 1 < Len(Lines[TopOf(c).proc])
  <2>1. TopOf(c).pc \in Nat /\ TopOf(c).pc < Len(Lines[TopOf(c).proc])
    BY TopIsFrame DEF HookFrame
  <2>2. Len(Lines[TopOf(c).proc]) \in Int \/ TRUE
    OBVIOUS
  <2> QED BY <2>1
<1> QED
  BY <1>1, Moving DEF Next1

-----------------------------------------------------------------------------
(* The steps of the last activation.                                       *)
LEMMA Continuing ==
  ASSUME HooksInv, EngineTypes', Counted', KeptFrames',
         NEW d, Follows(Live, d), d.phase # "leave", d.phase # "exec",
         chains' = Replace(d), UNCHANGED guarded
  PROVE  HooksInv'
<1>1. ChainsInv' /\ Live' = d
  BY Replacing DEF HooksInv
<1>2. LiveValue' /\ LiveLine'
  BY <1>1 DEF LiveValue, LiveLine
<1> QED BY <1>1, <1>2 DEF HooksInv

(* Nothing but the chains changes.                                         *)
LEMMA Quiet ==
  ASSUME HooksInv, UNCHANGED <<engine, count, ac0, raising, since, allowhook>>
  PROVE  EngineTypes' /\ Counted'
BY DEF HooksInv, EngineTypes, Counted, engine

LEMMA KeptStays ==
  ASSUME HooksInv, UNCHANGED kept
  PROVE  KeptFrames'
BY DEF HooksInv, ChainsInv, KeptFrames

LEMMA LiveFacts ==
  ASSUME HooksInv
  PROVE  Live \in HookChainSet /\ Called(Live.frames)
BY LiveChain DEF HooksInv

LEMMA CountDownKeepsInv ==
  ASSUME HooksAssumption, HooksInv, CountDown
  PROVE  HooksInv'
<1>1. /\ Live \in HookChainSet /\ Called(Live.frames) /\ Live.frames # <<>>
      /\ UNCHANGED <<engine, ac0, raising, kept>>
  BY LiveFacts DEF CountDown, Ready
<1>2. KeptFrames'
  BY <1>1, KeptStays
<1>3. /\ count \in Nat /\ basecount \in Nat /\ since \in Nat
      /\ since' = IF ~InHook /\ Counting /\ mask = {"count"}
                  THEN IF count <= 1 /\ Heard("count") THEN 0 ELSE since + 1
                  ELSE since
      /\ allowhook \in BOOLEAN /\ (allowhook <=> ~InHook)
      /\ mask = {"count"} => Counting
  BY LiveChain DEF HooksInv, EngineTypes, CountDown, Counted, Counting
<1>4. hook' = hook /\ hookfn' = hookfn /\ mask' = mask /\ basecount' = basecount
  BY <1>1 DEF engine
<1>5. (mask = {"count"} /\ allowhook) => Heard("count")
  BY DEF HooksInv, Counted, Heard, Bit
<1>6. CASE Counting /\ count <= 1
  <2> DEFINE c == [Live EXCEPT !.phase = "counted"]
  <2>1. count' = basecount /\ Fire("count", c)
    BY <1>6 DEF CountDown
  <2>2. Follows(Live, c) /\ c.frames = Live.frames /\ c.phase = "counted"
    BY <1>1, PhaseSet
  <2> HIDE DEF c
  <2>3. /\ ChainsInv'
        /\ Heard("count") => ~allowhook' /\ Live'.phase = "fetch"
        /\ ~Heard("count") => Live' = c /\ allowhook' = allowhook
    BY <1>1, <2>1, <2>2, Firing DEF HooksInv, EngineTypes
  <2>4. LiveValue' /\ LiveLine'
    BY <2>2, <2>3 DEF LiveValue, LiveLine
  <2>5. EngineTypes'
    BY <1>1, <1>3, <1>4, <2>1 DEF HooksInv, EngineTypes
  <2>6. Counted'
    <3>1. basecount > 0
      BY <1>6 DEF Counting
    <3>2. ASSUME mask = {"count"}
          PROVE  since' = 0
      <4>1. CASE allowhook
        BY <1>3, <1>5, <1>6, <3>2, <4>1
      <4>2. CASE ~allowhook
        BY <1>3, <3>2, <4>2 DEF HooksInv, Counted
      <4> QED BY <4>1, <4>2
    <3>3. (mask' = {"count"}) => count' >= 1 /\ since' + count' <= basecount' /\ since' = 0
      BY <1>3, <1>4, <2>1, <3>1, <3>2
    <3> QED BY <1>4, <3>3 DEF HooksInv, Counted
  <2> QED BY <2>3, <2>4, <2>5, <2>6 DEF HooksInv
<1>7. CASE ~(Counting /\ count <= 1)
  <2> DEFINE ph == IF mask \intersect {"line", "count"} = {} THEN "exec" ELSE "counted"
             c == [Live EXCEPT !.phase = ph]
  <2>1. /\ count' = IF Counting THEN count - 1 ELSE count
        /\ chains' = Replace(c) /\ UNCHANGED guarded
    BY <1>7 DEF CountDown
  <2>2. ph \in {"exec", "counted"} /\ ph \in {"fetch", "counted", "exec", "leave"}
    OBVIOUS
  <2>3. ph = "exec" => "line" \notin mask
    OBVIOUS
  <2> HIDE DEF ph
  <2>4. Follows(Live, c) /\ c.frames = Live.frames /\ c.phase = ph
    BY <1>1, <2>2, PhaseSet
  <2> HIDE DEF c
  <2>5. ChainsInv' /\ Live' = c
    BY <1>2, <2>1, <2>4, Replacing DEF HooksInv
  <2>6. LiveValue' /\ LiveLine'
    BY <1>4, <2>2, <2>3, <2>4, <2>5 DEF LiveValue, LiveLine
  <2>7. Counting => count >= 2
    BY <1>3, <1>7
  <2>8. EngineTypes'
    BY <1>1, <1>3, <1>4, <2>1, <2>7 DEF HooksInv, EngineTypes
  <2>9. Counted'
    <3>1. allowhook' = allowhook
      BY <2>1 DEF guarded
    <3>2. mask = {"count"} => /\ count' = count - 1 /\ count >= 2
                              /\ since' = IF allowhook THEN since + 1 ELSE since
      BY <1>3, <2>1, <2>7
    <3>3. mask = {"count"} => since + count <= basecount /\ (~allowhook => since = 0)
      BY DEF HooksInv, Counted
    <3>4. (mask' = {"count"}) => count' >= 1 /\ since' + count' <= basecount'
                                 /\ (~allowhook' => since' = 0)
      BY <1>3, <1>4, <3>1, <3>2, <3>3
    <3> QED BY <1>4, <3>4 DEF HooksInv, Counted
  <2> QED BY <2>5, <2>6, <2>8, <2>9 DEF HooksInv
<1> QED
  BY <1>6, <1>7

LEMMA LineCheckKeepsInv ==
  ASSUME HooksAssumption, HooksInv, LineCheck
  PROVE  HooksInv'
<1> DEFINE frm == TopOf(Live)
           seen == [frm EXCEPT !.oldpc = frm.pc]
           told == [seen EXCEPT !.told = Line(frm, frm.pc)]
           on(f) == [WithTop(Live, f) EXCEPT !.phase = "exec"]
           heard == IF Heard("line") THEN told ELSE seen
           last == IF "line" \in mask THEN seen ELSE frm
<1>1. /\ Live \in HookChainSet /\ Called(Live.frames) /\ Live.frames # <<>>
      /\ UNCHANGED <<engine, count, ac0, raising, kept, since>>
  BY LiveFacts DEF LineCheck, Ready
<1>2. KeptFrames'
  BY <1>1, KeptStays
<1>3. frm \in HookFrame /\ (AllSeen(Live.frames) => Seen(frm))
  BY <1>1, TopIsFrame
<1>4. hook' = hook /\ hookfn' = hookfn /\ mask' = mask /\ basecount' = basecount
  BY <1>1 DEF engine
<1>5. EngineTypes'
  BY <1>1, <1>4 DEF HooksInv, EngineTypes
<1>6. allowhook \in BOOLEAN /\ (allowhook => AllSeen(Live.frames))
  BY LiveChain DEF HooksInv
<1>7. Line(frm, frm.pc) \in Nat
  <2>1. frm.pc + 1 \in 1 .. Len(Lines[frm.proc]) /\ Lines[frm.proc] \in Seq(Nat)
    <3>1. frm.proc \in Procs /\ frm.pc \in Nat /\ frm.pc < Len(Lines[frm.proc])
      BY <1>3 DEF HookFrame
    <3>2. Lines[frm.proc] \in Seq(Nat)
      BY <3>1 DEF HooksAssumption
    <3> QED BY <3>1, <3>2
  <2> QED BY <2>1 DEF Line
<1>8. /\ seen \in HookFrame /\ seen.pc = frm.pc /\ seen.proc = frm.proc /\ seen.oldpc = frm.pc
      /\ seen.told = frm.told
  BY <1>3 DEF HookFrame
<1>9. /\ told \in HookFrame /\ told.pc = frm.pc /\ told.proc = frm.proc /\ told.oldpc = frm.pc
      /\ told.told = Line(frm, frm.pc)
  <2> HIDE DEF seen
  <2> QED BY <1>7, <1>8 DEF HookFrame
<1>10. Seen(told) /\ IsTold(told)
  BY <1>9 DEF Seen, IsTold, Line
<1>11. ASSUME NEW f \in HookFrame, allowhook => Seen(f)
       PROVE  /\ Follows(Live, on(f)) /\ on(f).frames # <<>> /\ TopOf(on(f)) = f
              /\ on(f).phase = "exec"
  <2> DEFINE e == WithTop(Live, f)
  <2>1. Follows(Live, e) /\ e.frames # <<>> /\ TopOf(e) = f
    BY <1>1, <1>11, TopIsSet
  <2> HIDE DEF e
  <2>2. e \in HookChainSet /\ Called(e.frames)
    BY <2>1 DEF Follows
  <2> DEFINE d == [e EXCEPT !.phase = "exec"]
  <2>3. Follows(e, d) /\ d.frames = e.frames /\ d.phase = "exec"
    BY <2>2, PhaseSet
  <2> HIDE DEF d
  <2>4. Follows(Live, d) /\ d.frames # <<>> /\ TopOf(d) = f
    BY <2>1, <2>3, FollowsOn DEF TopOf
  <2> QED BY <2>3, <2>4 DEF d, e
<1>12. ASSUME ~("line" \in mask /\ NewLine(frm)), allowhook
       PROVE  Seen(last) /\ ("line" \in mask => IsTold(last))
  <2>1. CASE "line" \notin mask
    BY <1>3, <1>6, <1>12, <2>1
  <2>2. CASE "line" \in mask
    <3>1. ~NewLine(frm) /\ last = seen
      BY <1>12, <2>2
    <3>2. ~(frm.oldpc < 0) /\ frm.oldpc \in Int /\ Line(frm, frm.pc) = Line(frm, frm.oldpc)
      BY <1>3, <3>1 DEF NewLine, HookFrame
    <3>3. frm.told = Line(frm, frm.pc)
      BY <1>3, <1>6, <1>12, <3>2 DEF Seen
    <3> HIDE DEF last, seen
    <3> QED BY <1>8, <3>1, <3>3 DEF Seen, IsTold, Line
  <2> QED BY <2>1, <2>2
<1>13. Counted /\ (mask # {} => hook \/ hookfn)
  BY DEF HooksInv, Counted
<1>14. \/ /\ "line" \in mask /\ NewLine(frm) /\ Fire("line", on(heard))
      \/ /\ ~("line" \in mask /\ NewLine(frm))
         /\ chains' = Replace(on(last)) /\ UNCHANGED guarded
  BY DEF LineCheck
<1>15. heard \in HookFrame /\ last \in HookFrame
  BY <1>3, <1>8, <1>9
<1>16. Heard("line") => heard = told
  OBVIOUS
<1> HIDE DEF frm, seen, told, on, last, heard
<1>17. CASE "line" \in mask /\ NewLine(frm) /\ Fire("line", on(heard))
  <2>1. allowhook => Heard("line")
    BY <1>13, <1>17 DEF Heard, Bit
  <2>2. allowhook => Seen(heard) /\ IsTold(heard)
    BY <1>10, <1>16, <2>1
  <2> DEFINE d == on(heard)
  <2>3. /\ Follows(Live, d) /\ d.frames # <<>> /\ TopOf(d) = heard
        /\ d.phase = "exec"
    BY <1>11, <1>15, <2>2
  <2>4. Fire("line", d) /\ (Heard("line") => IsTold(TopOf(d)))
    BY <1>17, <2>2, <2>3 DEF Heard
  <2> HIDE DEF d
  <2>5. /\ ChainsInv'
        /\ Heard("line") => ~allowhook' /\ Live'.phase = "fetch"
        /\ ~Heard("line") => Live' = d /\ allowhook' = allowhook
    BY <1>1, <2>3, <2>4, Firing DEF HooksInv, EngineTypes
  <2>6. LiveValue'
    BY <2>3, <2>5 DEF LiveValue
  <2>7. ~allowhook'
    BY <1>6, <2>1, <2>5
  <2>8. LiveLine'
    BY <2>7 DEF LiveLine
  <2>9. Counted'
    <3>1. "line" \in mask
      BY <1>17
    <3>2. mask' # {"count"}
      BY <1>4, <3>1
    <3> QED BY <1>4, <1>13, <3>2 DEF Counted
  <2> QED BY <1>5, <2>5, <2>6, <2>8, <2>9 DEF HooksInv
<1>18. CASE /\ ~("line" \in mask /\ NewLine(frm))
            /\ chains' = Replace(on(last)) /\ UNCHANGED guarded
  <2> DEFINE d == on(last)
  <2>1. allowhook => Seen(last)
    BY <1>12, <1>18
  <2>2. /\ Follows(Live, d) /\ d.frames # <<>> /\ TopOf(d) = last
        /\ d.phase = "exec"
    BY <1>11, <1>15, <2>1
  <2>3. chains' = Replace(d) /\ UNCHANGED guarded
    BY <1>18
  <2> HIDE DEF d
  <2>4. ChainsInv' /\ Live' = d
    BY <1>2, <2>2, <2>3, Replacing DEF HooksInv
  <2>5. LiveValue'
    BY <2>2, <2>4 DEF LiveValue
  <2>6. allowhook' = allowhook
    BY <2>3 DEF guarded
  <2>7. LiveLine'
    BY <1>4, <1>12, <1>18, <2>2, <2>4, <2>6 DEF LiveLine
  <2>8. Counted'
    BY <1>1, <1>4, <1>13, <2>6 DEF Counted
  <2> QED BY <1>5, <2>4, <2>5, <2>7, <2>8 DEF HooksInv
<1> QED
  BY <1>14, <1>17, <1>18

(* The instructions that stay in their frame.                              *)
LEMMA StepFacts ==
  ASSUME HooksInv, MayStep
  PROVE  /\ Live \in HookChainSet /\ Called(Live.frames) /\ Live.frames # <<>>
         /\ TopOf(Live) \in HookFrame /\ TopOf(Live).pc > 0
         /\ allowhook \in BOOLEAN
         /\ Follows(Live, Stepped) /\ Stepped.frames # <<>> /\ Stepped.phase = "fetch"
<1>1. /\ Live \in HookChainSet /\ Called(Live.frames) /\ Live.frames # <<>>
      /\ TopOf(Live).pc > 0 /\ allowhook \in BOOLEAN
  BY LiveChain DEF MayStep, Ready, HooksInv
<1>2. TopOf(Live) \in HookFrame
  BY <1>1, TopIsFrame
<1>3. Follows(Live, Stepped) /\ Stepped.frames # <<>> /\ Stepped.phase = "fetch"
  BY <1>1, Stepping DEF Stepped
<1> QED BY <1>1, <1>2, <1>3

LEMMA PlainKeepsInv ==
  ASSUME HooksAssumption, HooksInv, Plain
  PROVE  HooksInv'
<1>1. MayStep /\ chains' = Replace(Stepped) /\ UNCHANGED guarded
      /\ UNCHANGED <<engine, count, ac0, raising, kept, since, allowhook>>
  BY DEF Plain, guarded
<1>2. Follows(Live, Stepped) /\ Stepped.phase = "fetch"
  BY <1>1, StepFacts
<1> QED
  BY <1>1, <1>2, Quiet, KeptStays, Continuing

LEMMA JumpKeepsInv ==
  ASSUME HooksAssumption, HooksInv, Jump
  PROVE  HooksInv'
<1>1. /\ MayStep /\ UNCHANGED guarded
      /\ UNCHANGED <<engine, count, ac0, raising, kept, since, allowhook>>
  BY DEF Jump, guarded
<1>2. PICK pc \in 0 .. Len(Lines[TopOf(Live).proc]) - 1 :
        chains' = Replace([WithTop(Live, [TopOf(Live) EXCEPT !.pc = pc])
                            EXCEPT !.phase = "fetch"])
  BY DEF Jump
<1> DEFINE d == [WithTop(Live, [TopOf(Live) EXCEPT !.pc = pc]) EXCEPT !.phase = "fetch"]
<1>3. Live \in HookChainSet /\ Called(Live.frames) /\ Live.frames # <<>>
      /\ TopOf(Live) \in HookFrame
  BY <1>1, StepFacts
<1>4. pc \in Nat /\ pc < Len(Lines[TopOf(Live).proc])
  <2>1. Lines[TopOf(Live).proc] \in Seq(Nat)
    BY <1>3 DEF HookFrame, HooksAssumption
  <2>2. Len(Lines[TopOf(Live).proc]) \in Nat
    BY <2>1
  <2> QED BY <2>2
<1>5. Follows(Live, d) /\ d.phase = "fetch"
  BY <1>3, <1>4, Moving
<1>6. chains' = Replace(d)
  BY <1>2
<1> HIDE DEF d
<1> QED
  BY <1>1, <1>5, <1>6, Quiet, KeptStays, Continuing

-----------------------------------------------------------------------------
(* Calls and returns.                                                      *)
LEMMA CallingKeepsInv ==
  ASSUME HooksAssumption, HooksInv, NEW event, NEW d, Follows(Live, d), d.frames # <<>>,
         d.phase = "fetch", Fire(event, d),
         UNCHANGED <<engine, count, ac0, raising, kept, since>>,
         mask = {"count"} => ~Heard(event)
  PROVE  HooksInv'
<1>1. /\ ChainsInv'
      /\ Heard(event) => ~allowhook' /\ Live'.phase = "fetch"
      /\ ~Heard(event) => Live' = d /\ allowhook' = allowhook
  BY Firing DEF HooksInv, EngineTypes
<1>2. LiveValue' /\ LiveLine'
  BY <1>1 DEF LiveValue, LiveLine
<1>3. EngineTypes'
  BY DEF HooksInv, EngineTypes, engine
<1>4. Counted'
  BY <1>1 DEF HooksInv, Counted, engine
<1> QED BY <1>1, <1>2, <1>3, <1>4 DEF HooksInv

LEMMA CallKeepsInv ==
  ASSUME HooksAssumption, HooksInv, NEW p \in Procs, Call(p)
  PROVE  HooksInv'
<1> DEFINE F == HookFrame
           fs == Append(Live.frames, NewFrame(p))
           d == [Live EXCEPT !.frames = Append(@, NewFrame(p)), !.phase = "fetch"]
           num == Len(Live.frames)
<1>1. /\ MayStep /\ Fire("call", d)
      /\ UNCHANGED <<engine, count, ac0, raising, kept, since>>
  BY DEF Call
<1>2. Live \in HookChainSet /\ Called(Live.frames) /\ Live.frames # <<>>
      /\ TopOf(Live).pc > 0
  BY <1>1, StepFacts
<1>3. NewFrame(p) \in F /\ Seen(NewFrame(p))
  BY NewFrames
<1>4. Live.frames \in Seq(F)
  BY <1>2 DEF HookChainSet
<1> HIDE DEF F
<1>5. /\ num \in Nat \ {0} /\ fs \in Seq(F) /\ Len(fs) = num + 1 /\ fs # <<>>
      /\ DOMAIN fs = 1 .. num + 1 /\ DOMAIN Live.frames = 1 .. num
      /\ fs[num + 1] = NewFrame(p) /\ \A j \in 1 .. num : fs[j] = Live.frames[j]
  BY <1>2, <1>3, <1>4
<1>6. Called(fs)
  <2> SUFFICES ASSUME NEW j \in 1 .. num PROVE fs[j].pc > 0
    BY <1>5 DEF Called
  <2>1. CASE j = num
    BY <1>2, <1>5, <2>1 DEF TopOf
  <2>2. CASE j # num
    BY <1>2, <1>5, <2>2 DEF Called
  <2> QED BY <2>1, <2>2
<1>7. AllSeen(Live.frames) => AllSeen(fs)
  BY <1>3, <1>5 DEF AllSeen
<1>8. /\ d \in HookChainSet /\ d.frames = fs /\ d.phase = "fetch"
      /\ d.kind = Live.kind /\ d.savedac = Live.savedac /\ d.savedfrm = Live.savedfrm
  BY <1>2, <1>5 DEF HookChainSet, F
<1>9. mask = {"count"} => ~Heard("call")
  BY DEF Heard, Bit
<1> HIDE DEF d, fs
<1>10. Follows(Live, d)
  BY <1>6, <1>7, <1>8 DEF Follows
<1> QED
  BY <1>1, <1>5, <1>8, <1>9, <1>10, CallingKeepsInv

LEMMA TailCallKeepsInv ==
  ASSUME HooksAssumption, HooksInv, NEW p \in Procs, TailCall(p)
  PROVE  HooksInv'
<1> DEFINE e == WithTop(Live, NewFrame(p))
           d == [e EXCEPT !.phase = "fetch"]
<1>1. /\ MayStep /\ Fire("tail-call", d)
      /\ UNCHANGED <<engine, count, ac0, raising, kept, since>>
  BY DEF TailCall
<1>2. Live \in HookChainSet /\ Called(Live.frames) /\ Live.frames # <<>>
  BY <1>1, StepFacts
<1>3. Follows(Live, e) /\ e.frames # <<>>
  BY <1>2, NewFrames, TopIsSet
<1> HIDE DEF e
<1>4. e \in HookChainSet /\ Called(e.frames)
  BY <1>3 DEF Follows
<1>5. Follows(e, d) /\ d.frames = e.frames /\ d.phase = "fetch"
  BY <1>4, PhaseSet
<1>6. mask = {"count"} => ~Heard("tail-call")
  BY DEF Heard, Bit
<1> HIDE DEF d
<1>7. Follows(Live, d) /\ d.frames # <<>>
  BY <1>3, <1>5, FollowsOn
<1> QED
  BY <1>1, <1>5, <1>6, <1>7, CallingKeepsInv

LEMMA ReturnKeepsInv ==
  ASSUME HooksAssumption, HooksInv, NEW v \in Vals, Return(v)
  PROVE  HooksInv'
<1> DEFINE d == [Live EXCEPT !.phase = "leave", !.value = v]
<1>1. /\ Ready("exec") /\ ac0' = v /\ UNCHANGED <<engine, count, raising, kept, since>>
  BY DEF Return
<1>2. Live \in HookChainSet /\ Called(Live.frames) /\ Live.frames # <<>>
  BY <1>1, LiveFacts DEF Ready
<1>3. /\ Follows(Live, d) /\ d.frames # <<>> /\ d.phase = "leave" /\ d.value = v
  BY <1>2 DEF Follows, HookChainSet
<1>4. EngineTypes'
  BY <1>1 DEF HooksInv, EngineTypes, engine
<1>5. CASE Heard("ret")
  <2>1. PICK p \in IF hook THEN {NoValue} ELSE Procs :
            /\ chains' = Append(Replace(d),
                 [HookChain EXCEPT !.savedac = v,
                    !.frames = IF hook THEN <<>> ELSE <<NewFrame(p)>>])
            /\ allowhook' = FALSE /\ pausedfrm' = Depth
    BY <1>5 DEF Return
  <2> DEFINE fs == IF hook THEN <<>> ELSE <<NewFrame(p)>>
             k == HookOn(fs, v)
  <2>2. fs \in Seq(HookFrame) /\ Called(fs)
    BY HookFrames
  <2>3. allowhook = TRUE
    BY <1>5, LiveChain DEF Heard, HooksInv
  <2>4. chains' = Append(Replace(d), k)
    BY <2>1 DEF HookOn
  <2> HIDE DEF fs, d
  <2>5. /\ k \in HookChainSet /\ k.frames = fs /\ k.phase = "fetch" /\ k.savedac = v
        /\ k.kind \in {"hook", "C hook"} /\ k.savedfrm = pausedfrm
    <3>1. ChainsInv /\ v \in Vals \union {NoValue} /\ ac0 \in Vals \union {NoValue}
      BY DEF HooksInv, EngineTypes
    <3>2. fs \in Seq(HookFrame)
      BY <2>2
    <3>3. IsHookChain(HookOn(fs, v), fs, v)
      BY <3>1, <3>2, HookChainIs
    <3> QED BY <3>3 DEF IsHookChain
  <2> HIDE DEF k
  <2>6. k.kind # "main" /\ k.kind # "pcall" /\ Called(k.frames)
    BY <2>2, <2>5
  <2>7. ChainsInv' /\ Live' = k
    BY <1>1, <1>3, <2>1, <2>3, <2>4, <2>5, <2>6, Pushing DEF HooksInv
  <2>8. LiveValue' /\ LiveLine'
    BY <2>1, <2>5, <2>7 DEF LiveValue, LiveLine
  <2>9. mask' = mask /\ mask # {"count"} /\ hook' = hook /\ hookfn' = hookfn
    BY <1>1, <1>5 DEF Heard, Bit, engine
  <2>10. Counted'
    BY <2>9 DEF HooksInv, Counted
  <2> QED BY <1>4, <2>7, <2>8, <2>10 DEF HooksInv
<1>6. CASE ~Heard("ret")
  <2>1. chains' = Replace(d) /\ UNCHANGED guarded /\ UNCHANGED allowhook
    BY <1>6 DEF Return, guarded
  <2> HIDE DEF d
  <2>2. ChainsInv' /\ Live' = d
    BY <1>1, <1>3, <2>1, KeptStays, Replacing DEF HooksInv
  <2>3. LiveValue' /\ LiveLine'
    BY <1>1, <1>3, <2>2 DEF LiveValue, LiveLine
  <2>4. Counted'
    BY <1>1, <2>1 DEF HooksInv, Counted, engine
  <2> QED BY <1>4, <2>2, <2>3, <2>4 DEF HooksInv
<1> QED
  BY <1>5, <1>6

LEMMA LeaveKeepsInv ==
  ASSUME HooksAssumption, HooksInv, Leave
  PROVE  HooksInv'
<1> DEFINE F == HookFrame
           num == Len(Live.frames)
           outer == SubSeq(Live.frames, 1, num - 1)
           left == [Live EXCEPT !.frames = outer, !.phase = "fetch", !.value = NoValue]
           d == IF outer = <<>> THEN left ELSE WithTop(left, Next1(TopOf(left)))
<1>1. /\ Ready("leave") /\ chains' = Replace(d) /\ UNCHANGED guarded
      /\ UNCHANGED <<engine, count, ac0, raising, kept, since, allowhook>>
  BY DEF Leave, guarded
<1>2. Live \in HookChainSet /\ Called(Live.frames) /\ Live.frames # <<>>
  BY <1>1, LiveFacts DEF Ready
<1>3. Live.frames \in Seq(F)
  BY <1>2 DEF HookChainSet
<1> HIDE DEF F
<1>4. /\ num \in Nat \ {0} /\ outer \in Seq(F) /\ Len(outer) = num - 1
      /\ DOMAIN outer = 1 .. num - 1 /\ DOMAIN Live.frames = 1 .. num
      /\ \A j \in 1 .. num - 1 : outer[j] = Live.frames[j]
  BY <1>2, <1>3
<1>5. Called(outer) /\ (AllSeen(Live.frames) => AllSeen(outer))
  <2> HIDE DEF outer, num
  <2>1. Len(Live.frames) = num
    BY DEF num
  <2>2. Called(outer)
    BY <1>2, <1>4, <2>1 DEF Called
  <2>3. AllSeen(Live.frames) => AllSeen(outer)
    BY <1>4 DEF AllSeen
  <2> QED BY <2>2, <2>3
<1>6. /\ left \in HookChainSet /\ left.frames = outer /\ left.phase = "fetch"
      /\ left.kind = Live.kind /\ left.savedac = Live.savedac /\ left.savedfrm = Live.savedfrm
  BY <1>2, <1>4 DEF HookChainSet, F
<1> HIDE DEF left
<1>7. Follows(Live, left)
  BY <1>5, <1>6 DEF Follows
<1>8. CASE outer = <<>>
  <2>1. d = left
    BY <1>8
  <2> QED
    BY <1>1, <1>6, <1>7, <2>1, Quiet, KeptStays, Continuing
<1>9. CASE outer # <<>>
  <2>1. TopOf(left).pc > 0
    <3>1. num - 1 \in 1 .. num - 1 /\ num - 1 \in 1 .. Len(Live.frames) - 1
      BY <1>4, <1>9
    <3>2. Live.frames[num - 1].pc > 0 /\ outer[num - 1] = Live.frames[num - 1]
      BY <1>2, <1>4, <3>1 DEF Called
    <3> QED BY <1>4, <1>6, <3>2 DEF TopOf
  <2>2. TopOf(left) \in HookFrame /\ (AllSeen(left.frames) => Seen(TopOf(left)))
    BY <1>6, <1>9, TopIsFrame
  <2>3. TopOf(left).pc - 1 \in Nat /\ TopOf(left).pc - 1 < Len(Lines[TopOf(left).proc])
    <3>1. TopOf(left).pc \in Nat /\ TopOf(left).pc < Len(Lines[TopOf(left).proc])
      BY <2>2 DEF HookFrame
    <3> QED BY <2>1, <3>1
  <2> DEFINE f == Next1(TopOf(left))
             e == WithTop(left, f)
  <2>4. f \in HookFrame /\ (AllSeen(left.frames) => Seen(f))
    BY <2>2, <2>3, PcSet DEF Next1
  <2> HIDE DEF f
  <2>5. Follows(left, e) /\ e.phase = left.phase
    BY <1>5, <1>6, <1>9, <2>4, TopIsSet
  <2>6. d = e
    BY <1>9 DEF f
  <2> HIDE DEF e, d
  <2>7. Follows(Live, d) /\ d.phase = "fetch"
    BY <1>6, <1>7, <2>5, <2>6, FollowsOn
  <2> QED
    BY <1>1, <2>7, Quiet, KeptStays, Continuing
<1> QED
  BY <1>8, <1>9

-----------------------------------------------------------------------------
(* Nested activations.                                                     *)
LEMMA PcallKeepsInv ==
  ASSUME HooksAssumption, HooksInv, NEW p \in Procs, Pcall(p)
  PROVE  HooksInv'
<1> DEFINE F == HookFrame
           fs == <<NewFrame(p)>>
           c == Chain("pcall", fs)
<1>1. /\ MayStep /\ chains' = Append(chains, c) /\ UNCHANGED guarded
      /\ UNCHANGED <<engine, count, ac0, raising, kept, since, allowhook>>
  BY DEF Pcall, guarded
<1>2. /\ Live \in HookChainSet /\ Called(Live.frames) /\ Live.frames # <<>>
      /\ TopOf(Live).pc > 0
  BY <1>1, StepFacts
<1>3. NewFrame(p) \in F /\ Seen(NewFrame(p))
  BY NewFrames
<1>4. fs \in Seq(F) /\ Called(fs) /\ AllSeen(fs)
  <2> DEFINE e == NewFrame(p)
  <2> HIDE DEF F, e
  <2>1. <<e>> \in Seq(F) /\ Len(<<e>>) = 1 /\ DOMAIN <<e>> = 1 .. 1 /\ <<e>>[1] = e
    BY <1>3 DEF e
  <2>2. Called(<<e>>)
    BY <2>1 DEF Called
  <2>3. AllSeen(<<e>>)
    BY <1>3, <2>1 DEF AllSeen, e
  <2> QED BY <2>1, <2>2, <2>3 DEF e
<1>5. c \in HookChainSet /\ c.frames = fs /\ c.kind = "pcall" /\ c.phase = "fetch"
  <2> HIDE DEF fs
  <2> QED BY <1>4 DEF HookChainSet, Chain, F
<1>6. Follows(Live, Live)
  BY <1>2 DEF Follows
<1>7. Replace(Live) = chains
  <2>1. chains \in Seq(HookChainSet)
    BY DEF HooksInv, ChainsInv, Activations
  <2> DEFINE C == HookChainSet
  <2>2. chains \in Seq(C)
    BY <2>1
  <2> HIDE DEF C
  <2> QED BY <2>2 DEF Replace, Live
<1> HIDE DEF fs, c
<1>8. ChainsInv' /\ Live' = c
  BY <1>1, <1>2, <1>4, <1>5, <1>6, <1>7, Pushing DEF HooksInv
<1>9. LiveValue' /\ LiveLine'
  BY <1>5, <1>8 DEF LiveValue, LiveLine
<1> QED
  BY <1>1, <1>8, <1>9, Quiet DEF HooksInv

(* The last activation is left, the one beneath it goes on as d.           *)
LEMMA Popping ==
  ASSUME ChainsInv, Depth > 1, NEW d, Follows(chains[Depth - 1], d), KeptFrames',
         chains' = [Beneath EXCEPT ![Depth - 1] = d],
         \/ Live.kind = "pcall" /\ UNCHANGED guarded
         \/ /\ Live.kind # "pcall" /\ d = chains[Depth - 1]
            /\ allowhook' = TRUE /\ pausedfrm' = Live.savedfrm
  PROVE  ChainsInv' /\ Live' = d
<1> DEFINE num == Depth
           m == Depth - 1
           C == HookChainSet
<1>1. /\ num \in Nat \ {0} /\ DOMAIN chains = 1 .. num /\ Live \in C /\ allowhook \in BOOLEAN
      /\ \A i \in 1 .. num : chains[i] \in C
      /\ ~allowhook => pausedfrm \in Nat /\ 1 <= pausedfrm /\ pausedfrm < num
  BY LiveChain
<1>2. m \in Nat \ {0} /\ m < num /\ m + 1 = num
  BY <1>1
<1>3. Live = chains[num] /\ num = Len(chains) /\ chains \in Seq(C)
  BY DEF Live, Depth, ChainsInv, Activations
<1>4. d \in C /\ d.kind = chains[m].kind /\ d.savedac = chains[m].savedac
      /\ d.savedfrm = chains[m].savedfrm
      /\ Called(d.frames) /\ (allowhook /\ AllSeen(chains[m].frames) => AllSeen(d.frames))
  BY DEF Follows
<1>5. chains' = [SubSeq(chains, 1, m) EXCEPT ![m] = d]
  BY DEF Beneath
<1> HIDE DEF C, m
<1>6. /\ chains' \in Seq(C) /\ chains' # <<>> /\ Len(chains') = m /\ DOMAIN chains' = 1 .. m
      /\ chains'[m] = d /\ \A i \in 1 .. m - 1 : chains'[i] = chains[i]
  <2> DEFINE b == SubSeq(chains, 1, m)
  <2>1. b \in Seq(C) /\ Len(b) = m /\ \A i \in 1 .. m : b[i] = chains[i]
    BY <1>1, <1>2, <1>3
  <2> HIDE DEF b
  <2>2. chains' = [b EXCEPT ![m] = d]
    BY <1>5 DEF b
  <2>3. DOMAIN b = 1 .. m /\ m \in 1 .. m
    BY <1>2, <2>1
  <2>4. chains' \in Seq(C) /\ DOMAIN chains' = 1 .. m
    <3> DEFINE x == [b EXCEPT ![m] = d]
    <3>1. b \in [1 .. m -> C]
      BY <2>1, <2>3
    <3>2. x \in [1 .. m -> C]
      BY <1>4, <2>3, <3>1
    <3>3. chains' = x
      BY <2>2
    <3> HIDE DEF x, m
    <3>4. x \in Seq(C) /\ DOMAIN x = 1 .. m
      BY <1>2, <3>2
    <3> QED BY <3>3, <3>4
  <2>5. chains'[m] = d /\ \A i \in 1 .. m - 1 : chains'[i] = chains[i]
    BY <1>2, <2>1, <2>2, <2>3
  <2>6. Len(chains') = m /\ chains' # <<>>
    BY <1>2, <2>4
  <2> QED BY <2>4, <2>5, <2>6
<1>7. Live' = d
  BY <1>6 DEF Live, Depth
<1>8. \A i \in 1 .. m : chains'[i].kind = chains[i].kind
  <2> TAKE i \in 1 .. m
  <2> QED BY <1>2, <1>4, <1>6
<1>9. Activations'
  <2>1. \A i \in DOMAIN chains' : Called(chains'[i].frames)
    <3> TAKE i \in DOMAIN chains'
    <3>1. CASE i = m
      BY <1>4, <1>6, <3>1
    <3>2. CASE i # m
      <4>1. i \in 1 .. m - 1 /\ i \in DOMAIN chains
        BY <1>1, <1>2, <1>6, <3>2
      <4> QED BY <1>6, <4>1 DEF ChainsInv, Activations
    <3> QED BY <3>1, <3>2
  <2>2. chains'[1].kind = "main"
    BY <1>2, <1>8 DEF ChainsInv, Activations
  <2>3. ASSUME NEW i \in 2 .. m
        PROVE  /\ chains'[i].kind # "main"
               /\ chains'[i - 1].frames # <<>>
               /\ chains'[i].kind = "pcall" => TopOf(chains'[i - 1]).pc > 0
    <3>1. i \in 1 .. m /\ i - 1 \in 1 .. m - 1 /\ i \in 2 .. Len(chains)
      BY <1>2, <1>3
    <3>2. chains'[i].kind = chains[i].kind /\ chains'[i - 1] = chains[i - 1]
      BY <1>6, <1>8, <3>1
    <3> QED BY <3>1, <3>2 DEF ChainsInv, Activations
  <2> QED BY <1>6, <2>1, <2>2, <2>3 DEF Activations, C
<1>10. HookChains' = HookChains \ {num}
  <2>1. HookChains' = {i \in 1 .. m : chains'[i].kind \in {"hook", "C hook"}}
    BY <1>6 DEF HookChains
  <2>2. HookChains = {i \in 1 .. num : chains[i].kind \in {"hook", "C hook"}}
    BY <1>1 DEF HookChains
  <2>3. (1 .. m) = (1 .. num) \ {num}
    BY <1>2
  <2> QED BY <1>8, <2>1, <2>2, <2>3
<1>11. CASE Live.kind = "pcall" /\ UNCHANGED guarded
  <2>1. allowhook' = allowhook /\ pausedfrm' = pausedfrm
    BY <1>11 DEF guarded
  <2>2. num \notin HookChains /\ HookChains' = HookChains
    BY <1>3, <1>10, <1>11 DEF HookChains
  <2>3. ~allowhook => /\ chains'[pausedfrm] = chains[pausedfrm]
                      /\ chains'[pausedfrm + 1].savedac = chains[pausedfrm + 1].savedac
                      /\ chains'[pausedfrm + 1].savedfrm = chains[pausedfrm + 1].savedfrm
                      /\ pausedfrm < m
    <3> SUFFICES ASSUME ~allowhook
                 PROVE  /\ chains'[pausedfrm] = chains[pausedfrm]
                        /\ chains'[pausedfrm + 1].savedac = chains[pausedfrm + 1].savedac
                        /\ chains'[pausedfrm + 1].savedfrm = chains[pausedfrm + 1].savedfrm
                        /\ pausedfrm < m
      OBVIOUS
    <3>1. pausedfrm + 1 \in HookChains
      BY DEF ChainsInv, Alone
    <3>2. pausedfrm + 1 # num /\ pausedfrm < m /\ pausedfrm \in 1 .. m - 1
      BY <1>1, <1>2, <2>2, <3>1
    <3>3. chains'[pausedfrm] = chains[pausedfrm]
      BY <1>6, <3>2
    <3>4. CASE pausedfrm + 1 = m
      BY <1>4, <1>6, <3>2, <3>3, <3>4
    <3>5. CASE pausedfrm + 1 # m
      <4>1. pausedfrm + 1 \in 1 .. m - 1
        BY <1>2, <3>2, <3>5
      <4> QED BY <1>6, <3>2, <3>3, <4>1
    <3> QED BY <3>4, <3>5
  <2>4. Alone'
    BY <2>1, <2>2, <2>3 DEF ChainsInv, Alone
  <2>5. ProgramSeen'
    <3> SUFFICES ASSUME NEW i \in 1 .. m, allowhook \/ i <= pausedfrm
                 PROVE  AllSeen(chains'[i].frames)
      BY <1>6, <2>1 DEF ProgramSeen
    <3>1. i \in DOMAIN chains /\ AllSeen(chains[i].frames)
      BY <1>1, <1>2 DEF ChainsInv, ProgramSeen
    <3>2. CASE i = m
      <4>1. allowhook
        BY <1>1, <1>2, <2>3, <3>2
      <4> QED BY <1>4, <1>6, <3>1, <3>2, <4>1
    <3>3. CASE i # m
      <4>1. i \in 1 .. m - 1
        BY <1>2, <3>3
      <4> QED BY <1>6, <3>1, <4>1
    <3> QED BY <3>2, <3>3
  <2>6. Interrupted'
    BY <2>1, <2>3 DEF ChainsInv, Interrupted
  <2> QED BY <1>7, <1>9, <2>4, <2>5, <2>6 DEF ChainsInv
<1>12. CASE /\ Live.kind # "pcall" /\ d = chains[Depth - 1]
            /\ allowhook' = TRUE /\ pausedfrm' = Live.savedfrm
  <2>1. Live.kind \in {"hook", "C hook"}
    <3>1. num \in 2 .. Len(chains)
      BY <1>1, <1>2, <1>3
    <3>2. Live.kind # "main"
      BY <1>3, <3>1 DEF ChainsInv, Activations
    <3> QED BY <1>1, <1>12, <3>2 DEF C, HookChainSet
  <2>2. num \in HookChains
    <3>1. num \in DOMAIN chains
      BY <1>1
    <3>2. chains[num].kind \in {"hook", "C hook"}
      BY <1>3, <2>1
    <3> QED BY <3>1, <3>2, Zenon DEF HookChains
  <2>3. ~allowhook /\ pausedfrm + 1 = num /\ HookChains = {num} /\ Live.savedfrm = 0
    BY <1>3, <2>2 DEF ChainsInv, Alone
  <2>4. HookChains' = {} /\ allowhook' = TRUE /\ pausedfrm' = 0
    BY <1>10, <1>12, <2>3
  <2>5. Alone' /\ Interrupted'
    BY <2>4 DEF Alone, Interrupted
  <2>6. ProgramSeen'
    <3> SUFFICES ASSUME NEW i \in 1 .. m
                 PROVE  AllSeen(chains'[i].frames)
      BY <1>6 DEF ProgramSeen
    <3>1. i \in DOMAIN chains /\ i <= pausedfrm
      BY <1>1, <1>2, <2>3
    <3>2. AllSeen(chains[i].frames)
      BY <3>1 DEF ChainsInv, ProgramSeen
    <3>3. chains'[i] = chains[i]
      <4>1. CASE i = m
        BY <1>6, <1>12, <4>1 DEF m
      <4>2. CASE i # m
        BY <1>2, <1>6, <4>2
      <4> QED BY <4>1, <4>2
    <3> QED BY <3>2, <3>3
  <2> QED BY <1>7, <1>9, <2>5, <2>6 DEF ChainsInv
<1> QED
  BY <1>11, <1>12

LEMMA CallerFacts ==
  ASSUME ChainsInv, Live.kind # "main"
  PROVE  /\ Depth \in Nat /\ Depth > 1
         /\ chains[Depth - 1] \in HookChainSet /\ Called(chains[Depth - 1].frames)
         /\ chains[Depth - 1].frames # <<>>
         /\ Live.kind = "pcall" => TopOf(chains[Depth - 1]).pc > 0
         /\ Beneath[Depth - 1] = chains[Depth - 1]
         /\ Beneath = [Beneath EXCEPT ![Depth - 1] = chains[Depth - 1]]
<1> DEFINE num == Depth
           C == HookChainSet
<1>1. num \in Nat \ {0} /\ DOMAIN chains = 1 .. num /\ \A i \in 1 .. num : chains[i] \in C
  BY LiveChain
<1>2. Live = chains[num] /\ num = Len(chains) /\ chains \in Seq(C) /\ chains[1].kind = "main"
  BY DEF Live, Depth, ChainsInv, Activations
<1>3. num > 1 /\ num \in 2 .. Len(chains) /\ num - 1 \in DOMAIN chains /\ num - 1 \in 1 .. num
  <2>1. num # 1
    BY <1>2
  <2> QED BY <1>1, <1>2, <2>1
<1>4. /\ Called(chains[num - 1].frames) /\ chains[num - 1].frames # <<>>
      /\ chains[num].kind = "pcall" => TopOf(chains[num - 1]).pc > 0
  BY <1>3 DEF ChainsInv, Activations
<1> HIDE DEF C, num
<1>5. Beneath[num - 1] = chains[num - 1] /\ Beneath = [Beneath EXCEPT ![num - 1] = chains[num - 1]]
  <2> DEFINE b == SubSeq(chains, 1, num - 1)
  <2>1. b \in Seq(C) /\ b[num - 1] = chains[num - 1]
    BY <1>1, <1>2, <1>3
  <2> HIDE DEF b
  <2>2. b = [b EXCEPT ![num - 1] = chains[num - 1]]
    BY <2>1
  <2> QED BY <2>1, <2>2 DEF b, Beneath, num
<1> QED
  BY <1>1, <1>2, <1>3, <1>4, <1>5 DEF C, num

LEMMA PcallDoneKeepsInv ==
  ASSUME HooksAssumption, HooksInv, PcallDone
  PROVE  HooksInv'
<1> DEFINE c == chains[Depth - 1]
           d == [WithTop(c, Next1(TopOf(c))) EXCEPT !.phase = "fetch"]
<1>1. /\ Live.kind = "pcall" /\ raising' = FALSE
      /\ chains' = [Beneath EXCEPT ![Depth - 1] =
           [WithTop(Beneath[Depth - 1], Next1(TopOf(Beneath[Depth - 1])))
              EXCEPT !.phase = "fetch"]]
      /\ UNCHANGED <<engine, count, guarded, ac0, kept, since>>
  BY DEF PcallDone
<1>2. /\ Depth > 1 /\ c \in HookChainSet /\ Called(c.frames) /\ c.frames # <<>>
      /\ TopOf(c).pc > 0 /\ Beneath[Depth - 1] = c
  BY <1>1, CallerFacts DEF HooksInv
<1> HIDE DEF c
<1>3. Follows(c, d) /\ d.phase = "fetch"
  BY <1>2, Stepping
<1>4. chains' = [Beneath EXCEPT ![Depth - 1] = d]
  BY <1>1, <1>2
<1> HIDE DEF d
<1>5. ChainsInv' /\ Live' = d
  BY <1>1, <1>2, <1>3, <1>4, KeptStays, Popping DEF HooksInv, c
<1>6. LiveValue' /\ LiveLine'
  BY <1>3, <1>5 DEF LiveValue, LiveLine
<1>7. EngineTypes' /\ Counted'
  BY <1>1 DEF HooksInv, EngineTypes, Counted, engine, guarded
<1> QED
  BY <1>5, <1>6, <1>7 DEF HooksInv

LEMMA HookKinds ==
  ASSUME Live.kind \in {"hook", "C hook"}
  PROVE  Live.kind # "main" /\ Live.kind # "pcall"
OBVIOUS

(* A hook that is running was not there before its event.                  *)
IsHook(c) == c.kind \in {"hook", "C hook"}

LEMMA HookIsLive ==
  ASSUME ChainsInv, IsHook(Live)
  PROVE  ~allowhook /\ pausedfrm + 1 = Depth /\ pausedfrm = Depth - 1 /\ pausedfrm \in Nat
<1>0. Depth \in Nat \ {0} /\ DOMAIN chains = 1 .. Depth
  BY LiveChain
<1>1. Depth \in DOMAIN chains /\ Depth \in Nat
  BY <1>0
<1>3. Depth \in HookChains
  BY <1>1, Zenon DEF HookChains, Live, IsHook
<1>4. ~allowhook /\ pausedfrm \in Nat /\ HookChains = {pausedfrm + 1}
  BY <1>3 DEF ChainsInv, Alone
<1>5. pausedfrm + 1 = Depth
  BY <1>3, <1>4
<1> QED BY <1>1, <1>4, <1>5

LEMMA HookDoneKeepsInv ==
  ASSUME HooksAssumption, HooksInv, HookDone
  PROVE  HooksInv'
<1> DEFINE d == chains[Depth - 1]
<1>1. /\ Live.kind \in {"hook", "C hook"} /\ ac0' = Live.savedac /\ allowhook' = TRUE
      /\ chains' = Beneath /\ pausedfrm' = Live.savedfrm
      /\ UNCHANGED <<engine, count, raising, kept, since>>
  BY DEF HookDone
<1>2. Live.kind # "main" /\ Live.kind # "pcall"
  BY <1>1, HookKinds
<1>3. /\ Depth > 1 /\ d \in HookChainSet /\ Called(d.frames) /\ d.frames # <<>>
      /\ chains' = [Beneath EXCEPT ![Depth - 1] = d]
  BY <1>1, <1>2, CallerFacts DEF HooksInv
<1>4. Follows(d, d)
  BY <1>3 DEF Follows
<1>5. ChainsInv' /\ Live' = d
  BY <1>1, <1>2, <1>3, <1>4, KeptStays, Popping DEF HooksInv
<1>6. ~allowhook /\ pausedfrm + 1 = Depth /\ pausedfrm = Depth - 1
  <2>1. IsHook(Live)
    BY <1>1, Zenon DEF IsHook
  <2> QED BY <2>1, HookIsLive DEF HooksInv
<1>7. /\ d.phase = "leave" => Live.savedac = d.value
      /\ d.phase = "exec" => IsTold(TopOf(d))
  BY <1>6 DEF HooksInv, ChainsInv, Interrupted, Live
<1>8. LiveValue' /\ LiveLine'
  BY <1>1, <1>5, <1>7 DEF LiveValue, LiveLine
<1>9. Live.savedac \in Vals \union {NoValue}
  BY LiveFacts DEF HookChainSet
<1>10. EngineTypes'
  BY <1>1, <1>9 DEF HooksInv, EngineTypes, engine
<1>11. Counted'
  BY <1>1 DEF HooksInv, Counted, engine
<1> QED
  BY <1>5, <1>8, <1>10, <1>11 DEF HooksInv

LEMMA RaiseKeepsInv ==
  ASSUME HooksAssumption, HooksInv, Raise
  PROVE  HooksInv'
<1>1. raising' = TRUE /\ UNCHANGED <<engine, count, guarded, ac0, chains, kept, since>>
  BY DEF Raise
<1>2. EngineTypes' /\ Counted'
  BY <1>1 DEF HooksInv, EngineTypes, Counted, engine, guarded
<1>3. Live' = Live /\ HookChains' = HookChains
  BY <1>1 DEF Live, Depth, HookChains
<1>4. LiveValue' /\ LiveLine'
  BY <1>1, <1>3 DEF HooksInv, LiveValue, LiveLine, engine, guarded
<1>5. ChainsInv'
  BY <1>1, <1>3, KeptStays
     DEF HooksInv, ChainsInv, Activations, Alone, ProgramSeen, Interrupted, guarded
<1> QED
  BY <1>2, <1>4, <1>5 DEF HooksInv

(* The only activation: the program's, outside of any hook.                *)
LEMMA OneChain ==
  ASSUME HooksAssumption, KeptFrames, NEW p \in Procs,
         chains = <<Chain("main", <<NewFrame(p)>>)>>, allowhook = TRUE, pausedfrm = 0
  PROVE  ChainsInv /\ LiveValue /\ LiveLine
<1> DEFINE F == HookFrame
           C == HookChainSet
           fs == <<NewFrame(p)>>
           c == Chain("main", fs)
<1>1. fs \in Seq(F) /\ Called(fs) /\ AllSeen(fs)
  <2> DEFINE e == NewFrame(p)
  <2>1. e \in F /\ Seen(e)
    BY NewFrames
  <2> HIDE DEF F, e
  <2>2. <<e>> \in Seq(F) /\ Len(<<e>>) = 1 /\ DOMAIN <<e>> = 1 .. 1 /\ <<e>>[1] = e
    BY <2>1
  <2>3. Called(<<e>>)
    BY <2>2 DEF Called
  <2>4. AllSeen(<<e>>)
    BY <2>1, <2>2 DEF AllSeen
  <2> QED BY <2>2, <2>3, <2>4 DEF e
<1> HIDE DEF fs
<1>2. c \in C /\ c.kind = "main" /\ c.phase = "fetch" /\ c.frames = fs
  BY <1>1 DEF HookChainSet, Chain
<1> HIDE DEF c, C
<1>3. /\ chains \in Seq(C) /\ Len(chains) = 1 /\ DOMAIN chains = 1 .. 1 /\ chains[1] = c
      /\ chains # <<>>
  <2>1. chains = <<c>>
    BY DEF c, fs
  <2> QED BY <1>2, <2>1
<1>4. Live = c
  BY <1>3 DEF Live, Depth
<1>5. Activations
  BY <1>1, <1>2, <1>3 DEF Activations, C
<1>6. \A i \in DOMAIN chains : chains[i].kind \notin {"hook", "C hook"}
  <2>1. \A i \in DOMAIN chains : chains[i].kind = "main"
    BY <1>2, <1>3
  <2>2. "main" \notin {"hook", "C hook"}
    OBVIOUS
  <2> QED BY <2>1, <2>2, Zenon
<1>7. HookChains = {}
  BY <1>6, Zenon DEF HookChains
<1>8. Alone /\ Interrupted
  BY <1>7 DEF Alone, Interrupted
<1>9. ProgramSeen
  BY <1>1, <1>2, <1>3 DEF ProgramSeen
<1> QED
  BY <1>2, <1>4, <1>5, <1>8, <1>9 DEF ChainsInv, LiveValue, LiveLine

Fresh ==
  /\ HooksAssumption /\ KeptFrames /\ allowhook = TRUE /\ pausedfrm = 0
  /\ \E p \in Procs : chains = <<Chain("main", <<NewFrame(p)>>)>>
FreshInv == ChainsInv /\ LiveValue /\ LiveLine

LEMMA FreshChain == Fresh => FreshInv
BY OneChain DEF Fresh, FreshInv

LEMMA HostEvalKeepsInv ==
  ASSUME HooksAssumption, HooksInv, NEW p \in Procs, HostEval(p)
  PROVE  HooksInv'
<1>1. /\ Depth = 1 /\ chains' = <<Chain("main", <<NewFrame(p)>>)>> /\ raising' = FALSE
      /\ UNCHANGED <<engine, count, guarded, ac0, kept, since>>
  BY DEF HostEval
<1>2. allowhook = TRUE
  BY <1>1, LiveChain DEF HooksInv
<1>3. pausedfrm = 0
  BY <1>2 DEF HooksInv, ChainsInv, Alone
<1>4. KeptFrames'
  BY <1>1, KeptStays
<1>5. HooksAssumption'
  BY DEF HooksAssumption
<1>6. Fresh'
  BY <1>1, <1>2, <1>3, <1>4, <1>5 DEF Fresh, guarded, Chain, NewFrame
<1>7. FreshInv'
  BY <1>6, FreshChain, PTL
<1>8. EngineTypes' /\ Counted'
  BY <1>1 DEF HooksInv, EngineTypes, Counted, engine, guarded
<1> QED
  BY <1>7, <1>8 DEF HooksInv, FreshInv

-----------------------------------------------------------------------------
(* Continuations.                                                          *)
LEMMA CaptureKeepsInv ==
  ASSUME HooksAssumption, HooksInv, Capture
  PROVE  HooksInv'
<1>1. /\ MayStep /\ ~InHook /\ kept' = Live.frames /\ chains' = Replace(Stepped)
      /\ UNCHANGED guarded /\ UNCHANGED <<engine, count, ac0, raising, since, allowhook>>
  BY DEF Capture, guarded
<1>2. /\ Follows(Live, Stepped) /\ Stepped.phase = "fetch"
      /\ Live \in HookChainSet /\ Called(Live.frames) /\ Live.frames # <<>>
      /\ TopOf(Live).pc > 0
  BY <1>1, StepFacts
<1>3. AllSeen(Live.frames)
  BY <1>1, LiveChain DEF HooksInv
<1>4. KeptFrames'
  <2> DEFINE F == HookFrame
             num == Len(Live.frames)
  <2>1. Live.frames \in Seq(F)
    BY <1>2 DEF HookChainSet
  <2> HIDE DEF F
  <2>2. num \in Nat /\ DOMAIN Live.frames = 1 .. num
    BY <2>1
  <2>3. ASSUME NEW j \in 1 .. num PROVE Live.frames[j].pc > 0
    <3>1. CASE j = num
      BY <1>2, <3>1 DEF TopOf
    <3>2. CASE j # num
      BY <1>2, <2>2, <3>2 DEF Called
    <3> QED BY <3>1, <3>2
  <2>4. kept' \in Seq(HookFrame)
    BY <1>1, <2>1 DEF F
  <2>5. \A j \in DOMAIN kept' : kept'[j].pc > 0
    BY <1>1, <2>2, <2>3
  <2>6. AllSeen(kept')
    BY <1>1, <1>3
  <2> QED BY <2>4, <2>5, <2>6 DEF KeptFrames
<1> QED
  BY <1>1, <1>2, <1>4, Quiet, Continuing

LEMMA InvokeKeepsInv ==
  ASSUME HooksAssumption, HooksInv, Invoke
  PROVE  HooksInv'
<1> DEFINE e == [Live EXCEPT !.frames = kept, !.phase = "fetch"]
           f == Next1(TopOf(e))
           d == WithTop(e, f)
           F == HookFrame
<1>1. /\ MayStep /\ kept # <<>> /\ kept' = <<>> /\ chains' = Replace(d)
      /\ UNCHANGED guarded /\ UNCHANGED <<engine, count, ac0, raising, since, allowhook>>
  BY DEF Invoke, guarded
<1>2. Live \in HookChainSet
  BY <1>1, StepFacts
<1>3. kept \in Seq(HookFrame) /\ AllSeen(kept) /\ \A j \in DOMAIN kept : kept[j].pc > 0
  BY DEF HooksInv, ChainsInv, KeptFrames
<1>4. Len(kept) \in Nat \ {0} /\ DOMAIN kept = 1 .. Len(kept) /\ kept \in Seq(F)
  <2> HIDE DEF F
  <2>1. kept \in Seq(F)
    BY <1>3 DEF F
  <2> QED BY <1>1, <2>1
<1>5. Called(kept) /\ kept[Len(kept)].pc > 0
  BY <1>3, <1>4 DEF Called
<1>6. /\ e \in HookChainSet /\ e.frames = kept /\ e.phase = "fetch" /\ e.kind = Live.kind
      /\ e.savedac = Live.savedac /\ e.savedfrm = Live.savedfrm
  BY <1>2, <1>3 DEF HookChainSet
<1> HIDE DEF e
<1>7. Follows(Live, e)
  BY <1>3, <1>5, <1>6 DEF Follows
<1>8. TopOf(e) \in HookFrame /\ (AllSeen(e.frames) => Seen(TopOf(e))) /\ TopOf(e).pc > 0
  BY <1>1, <1>5, <1>6, TopIsFrame DEF TopOf
<1>9. f \in HookFrame /\ (AllSeen(e.frames) => Seen(f))
  <2>1. TopOf(e).pc \in Nat /\ TopOf(e).pc < Len(Lines[TopOf(e).proc])
    BY <1>8 DEF HookFrame
  <2>2. TopOf(e).pc - 1 \in Nat /\ TopOf(e).pc - 1 < Len(Lines[TopOf(e).proc])
    BY <1>8, <2>1
  <2> QED BY <1>8, <2>2, PcSet DEF Next1
<1> HIDE DEF f
<1>10. Follows(e, d) /\ d.phase = e.phase
  BY <1>1, <1>5, <1>6, <1>9, TopIsSet
<1> HIDE DEF d
<1>11. Follows(Live, d) /\ d.phase = "fetch"
  BY <1>6, <1>7, <1>10, FollowsOn
<1>12. KeptFrames'
  <2> HIDE DEF F
  <2>1. <<>> \in Seq(F) /\ DOMAIN <<>> = {}
    OBVIOUS
  <2>2. kept' \in Seq(HookFrame) /\ DOMAIN kept' = {}
    BY <1>1, <2>1 DEF F
  <2> QED BY <2>2 DEF KeptFrames, AllSeen
<1> QED
  BY <1>1, <1>11, <1>12, Quiet, Continuing

-----------------------------------------------------------------------------
(* Hooks are installed and cleared.                                        *)
LEMMA Seeding ==
  ASSUME HooksAssumption, NEW c \in HookChainSet, Called(c.frames)
  PROVE  /\ Follows(c, Seeded(c)) /\ AllSeen(Seeded(c).frames)
         /\ Seeded(c).phase = c.phase /\ Seeded(c).value = c.value
         /\ c.frames # <<>> => /\ Seeded(c).frames # <<>> /\ IsTold(TopOf(Seeded(c)))
                               /\ TopOf(Seeded(c)).pc = TopOf(c).pc
<1> DEFINE F == HookFrame
           num == Len(c.frames)
           g(i) == [c.frames[i] EXCEPT !.oldpc = c.frames[i].pc,
                                       !.told = Line(c.frames[i], c.frames[i].pc)]
           fs == [i \in DOMAIN c.frames |-> g(i)]
<1>1. c.frames \in Seq(F)
  BY DEF HookChainSet
<1>2. num \in Nat /\ DOMAIN c.frames = 1 .. num /\ \A i \in 1 .. num : c.frames[i] \in F
  <2> HIDE DEF F
  <2> QED BY <1>1
<1>3. ASSUME NEW i \in 1 .. num
      PROVE  /\ g(i) \in F /\ g(i).pc = c.frames[i].pc /\ Seen(g(i)) /\ IsTold(g(i))
  <2> DEFINE f == c.frames[i]
             l == Line(f, f.pc)
  <2>1. f \in HookFrame
    BY <1>2
  <2>2. l \in Nat
    <3>1. f.proc \in Procs /\ f.pc \in Nat /\ f.pc < Len(Lines[f.proc])
      BY <2>1 DEF HookFrame
    <3>2. Lines[f.proc] \in Seq(Nat)
      BY <3>1 DEF HooksAssumption
    <3>3. f.pc + 1 \in 1 .. Len(Lines[f.proc])
      BY <3>1, <3>2
    <3> QED BY <3>2, <3>3 DEF Line
  <2>3. g(i) = [f EXCEPT !.oldpc = f.pc, !.told = l]
    OBVIOUS
  <2>4. l = Lines[f.proc][f.pc + 1]
    BY DEF Line
  <2> HIDE DEF l, f
  <2> DEFINE h == [f EXCEPT !.oldpc = f.pc, !.told = l]
  <2>5. /\ h \in HookFrame /\ h.pc = f.pc /\ h.proc = f.proc /\ h.oldpc = f.pc /\ h.told = l
    <3> DEFINE R == [proc : Procs, pc : Nat, oldpc : Int, told : Nat \union {NoValue}]
    <3>1. f \in R /\ f.pc < Len(Lines[f.proc]) /\ f.pc \in Nat
      BY <2>1 DEF HookFrame
    <3>2. h \in R /\ h.pc = f.pc /\ h.proc = f.proc /\ h.oldpc = f.pc /\ h.told = l
      <4> DEFINE q == f.pc
                 u == [f EXCEPT !.oldpc = q]
                 w == [u EXCEPT !.told = l]
      <4>1. q \in Int /\ q = f.pc
        BY <3>1
      <4> HIDE DEF q
      <4>2. u \in R /\ u.pc = f.pc /\ u.proc = f.proc /\ u.oldpc = q
        BY <3>1, <4>1
      <4> HIDE DEF u
      <4>3. w \in R /\ w.pc = u.pc /\ w.proc = u.proc /\ w.oldpc = u.oldpc /\ w.told = l
        BY <2>2, <4>2
      <4>4. h = w
        BY DEF u, q
      <4> QED BY <4>1, <4>2, <4>3, <4>4
    <3>3. -1 <= f.pc
      BY <3>1
    <3> HIDE DEF R, h
    <3> QED BY <3>1, <3>2, <3>3 DEF HookFrame, R
  <2> HIDE DEF h
  <2>6. Seen(h) /\ IsTold(h)
    BY <2>4, <2>5 DEF Seen, IsTold, Line
  <2> QED BY <2>3, <2>5, <2>6 DEF h, f
<1> HIDE DEF g
<1>4. fs \in Seq(F) /\ DOMAIN fs = 1 .. num /\ Len(fs) = num /\ \A i \in 1 .. num : fs[i] = g(i)
  <2> HIDE DEF F
  <2>1. fs \in [1 .. num -> F] /\ \A i \in 1 .. num : fs[i] = g(i)
    BY <1>2, <1>3
  <2> HIDE DEF fs, num
  <2> QED BY <1>2, <2>1
<1>5. Seeded(c) = [c EXCEPT !.frames = fs]
  BY DEF Seeded, g
<1> HIDE DEF fs
<1>6. /\ Seeded(c) \in HookChainSet /\ Seeded(c).frames = fs /\ Seeded(c).phase = c.phase
      /\ Seeded(c).value = c.value /\ Seeded(c).kind = c.kind
      /\ Seeded(c).savedac = c.savedac /\ Seeded(c).savedfrm = c.savedfrm
  BY <1>4, <1>5 DEF HookChainSet, F
<1>7. AllSeen(fs)
  BY <1>3, <1>4 DEF AllSeen
<1>8. Called(fs)
  BY <1>2, <1>3, <1>4 DEF Called
<1>9. ASSUME c.frames # <<>>
      PROVE  /\ fs # <<>> /\ IsTold(TopOf(Seeded(c))) /\ TopOf(Seeded(c)).pc = TopOf(c).pc
  <2>1. num \in 1 .. num
    <3> HIDE DEF F
    <3> QED BY <1>1, <1>2, <1>9
  <2>2. TopOf(Seeded(c)) = g(num) /\ TopOf(c) = c.frames[num]
    BY <1>4, <1>6, <2>1 DEF TopOf
  <2>3. fs # <<>>
    BY <1>4, <2>1
  <2> QED BY <1>3, <2>1, <2>2, <2>3
<1> QED
  BY <1>6, <1>7, <1>8, <1>9 DEF Follows

LEMMA NewHook ==
  ASSUME HooksAssumption, HooksInv, NEW byC \in BOOLEAN, NEW m \in Masks, NEW num \in Counts,
         "count" \in m => num > 0, SetHook(byC, m, num), UNCHANGED <<ac0, raising>>
  PROVE  EngineTypes' /\ Counted'
<1>1. num \in Nat
  BY DEF HooksAssumption
<1>2. /\ hook' = byC /\ hookfn' = ~byC /\ mask' = m /\ basecount' = num /\ count' = num
      /\ since' = 0
  BY DEF SetHook
<1>3. EngineTypes'
  BY <1>1, <1>2 DEF HooksInv, EngineTypes
<1>4. Counted'
  <2>1. hook' \/ hookfn'
    BY <1>2
  <2>2. (mask' = {"count"}) => count' >= 1 /\ since' + count' <= basecount' /\ since' = 0
    BY <1>1, <1>2
  <2> QED BY <2>1, <2>2 DEF Counted
<1> QED BY <1>3, <1>4

LEMMA InstallKeepsInv ==
  ASSUME HooksAssumption, HooksInv, NEW byC \in BOOLEAN, NEW m \in Masks, NEW num \in Counts,
         "count" \in m => num > 0, Install(byC, m, num)
  PROVE  HooksInv'
<1> DEFINE at == IF "line" \in m THEN Seeded(Live) ELSE Live
           d == [WithTop(at, Next1(TopOf(at))) EXCEPT !.phase = "fetch"]
<1>1. /\ MayStep /\ SetHook(byC, m, num) /\ chains' = Replace(d)
      /\ UNCHANGED guarded /\ UNCHANGED <<ac0, raising>> /\ UNCHANGED kept
  BY DEF Install
<1>2. /\ Live \in HookChainSet /\ Called(Live.frames) /\ Live.frames # <<>>
      /\ TopOf(Live).pc > 0
  BY <1>1, StepFacts
<1>3. Follows(Live, Live)
  BY <1>2 DEF Follows
<1>4. Follows(Live, at) /\ at.frames # <<>> /\ TopOf(at).pc > 0
  BY <1>2, <1>3, Seeding
<1> HIDE DEF at
<1>5. at \in HookChainSet /\ Called(at.frames)
  BY <1>4 DEF Follows
<1>6. Follows(at, d) /\ d.phase = "fetch"
  BY <1>4, <1>5, Stepping
<1> HIDE DEF d
<1>7. Follows(Live, d)
  BY <1>4, <1>6, FollowsOn
<1> QED
  BY <1>1, <1>6, <1>7, NewHook, KeptStays, Continuing

LEMMA ClearKeepsInv ==
  ASSUME HooksAssumption, HooksInv, Clear
  PROVE  HooksInv'
<1>1. /\ MayStep /\ chains' = Replace(Stepped) /\ hook' = FALSE /\ hookfn' = FALSE
      /\ mask' = {} /\ basecount' = 0 /\ count' = 0 /\ since' = 0
      /\ UNCHANGED guarded /\ UNCHANGED <<ac0, raising>> /\ UNCHANGED kept
  BY DEF Clear
<1>2. Follows(Live, Stepped) /\ Stepped.phase = "fetch"
  BY <1>1, StepFacts
<1>3. EngineTypes' /\ Counted'
  BY <1>1 DEF HooksInv, EngineTypes, Counted
<1> QED
  BY <1>1, <1>2, <1>3, KeptStays, Continuing

LEMMA Reseeding ==
  ASSUME HooksAssumption, ChainsInv, IsHook(Live), Live.kind # "main", UNCHANGED kept,
         chains' = [chains EXCEPT ![Depth - 1] = Seeded(chains[Depth - 1])],
         UNCHANGED guarded
  PROVE  ChainsInv' /\ Live' = Live
<1> DEFINE num == Depth
           m == Depth - 1
           C == HookChainSet
           c == chains[m]
           d == Seeded(c)
<1>1. num \in Nat \ {0} /\ DOMAIN chains = 1 .. num /\ \A i \in 1 .. num : chains[i] \in C
  BY LiveChain
<1>2. ~allowhook /\ pausedfrm = m
  BY HookIsLive
<1>3. num > 1 /\ c \in C /\ Called(c.frames) /\ c.frames # <<>>
  BY CallerFacts
<1>4. /\ Follows(c, d) /\ AllSeen(d.frames) /\ d.phase = c.phase /\ d.value = c.value
      /\ d.frames # <<>> /\ IsTold(TopOf(d)) /\ TopOf(d).pc = TopOf(c).pc
  BY <1>3, Seeding
<1>5. num = Len(chains) /\ chains \in Seq(C) /\ m \in 1 .. num - 1 /\ m + 1 = num /\ Live = chains[num]
  BY <1>1, <1>3 DEF Depth, Live, ChainsInv, Activations
<1>6. chains' = [chains EXCEPT ![m] = d] /\ allowhook' = allowhook /\ pausedfrm' = pausedfrm
  BY DEF guarded
<1>7. d \in C /\ d.kind = c.kind /\ Called(d.frames)
  BY <1>4 DEF Follows
<1>20. num \in 1 .. num /\ m \in 1 .. num /\ num # m
  BY <1>1, <1>3
<1> HIDE DEF C, m, d, c, num
<1>8. /\ chains' \in Seq(C) /\ chains' # <<>> /\ Len(chains') = num /\ DOMAIN chains' = 1 .. num
      /\ chains'[m] = d /\ chains[m] = c /\ \A i \in 1 .. num : i # m => chains'[i] = chains[i]
  <2>1. chains' \in Seq(C) /\ Len(chains') = num /\ DOMAIN chains' = 1 .. num
    <3> DEFINE x == [chains EXCEPT ![m] = d]
    <3>1. chains \in [1 .. num -> C]
      BY <1>1, <1>5
    <3>2. x \in [1 .. num -> C] /\ chains' = x
      BY <1>6, <1>7, <1>20, <3>1
    <3> HIDE DEF x
    <3>3. x \in Seq(C) /\ Len(x) = num /\ DOMAIN x = 1 .. num
      BY <1>1, <3>2
    <3> QED BY <3>2, <3>3
  <2>2. chains'[m] = d /\ chains[m] = c /\ \A i \in 1 .. num : i # m => chains'[i] = chains[i]
    BY <1>1, <1>6, <1>20 DEF c
  <2>3. chains' # <<>>
    BY <1>20, <2>1
  <2> QED BY <2>1, <2>2, <2>3
<1>9. Live' = Live
  BY <1>5, <1>8, <1>20 DEF Live, Depth, num
<1>10. \A i \in 1 .. num : chains'[i].kind = chains[i].kind
  BY <1>7, <1>8
<1>11. \A i \in 1 .. num : chains'[i].frames # <<>> <=> chains[i].frames # <<>>
  BY <1>3, <1>4, <1>8
<1>12. \A i \in 1 .. num : TopOf(chains'[i]).pc = TopOf(chains[i]).pc
  BY <1>4, <1>8
<1>13. Activations'
  <2>1. \A i \in DOMAIN chains' : Called(chains'[i].frames)
    BY <1>1, <1>7, <1>8 DEF ChainsInv, Activations
  <2>2. chains'[1].kind = "main"
    BY <1>1, <1>10 DEF ChainsInv, Activations
  <2>3. ASSUME NEW i \in 2 .. num
        PROVE  /\ chains'[i].kind # "main"
               /\ chains'[i - 1].frames # <<>>
               /\ chains'[i].kind = "pcall" => TopOf(chains'[i - 1]).pc > 0
    <3>1. i \in 1 .. num /\ i - 1 \in 1 .. num /\ i \in 2 .. Len(chains)
      BY <1>1, <1>5
    <3>2. /\ chains[i].kind # "main"
          /\ chains[i - 1].frames # <<>>
          /\ chains[i].kind = "pcall" => TopOf(chains[i - 1]).pc > 0
      BY <3>1 DEF ChainsInv, Activations
    <3> QED BY <1>10, <1>11, <1>12, <3>1, <3>2
  <2> QED BY <1>8, <2>1, <2>2, <2>3 DEF Activations, C
<1>14. HookChains' = HookChains
  BY <1>1, <1>8, <1>10 DEF HookChains
<1>15. Alone'
  <2>1. HookChains = {num} /\ chains[num].savedfrm = 0 /\ pausedfrm \in Nat \ {0}
    BY <1>2, <1>5 DEF ChainsInv, Alone
  <2>2. chains'[num] = chains[num]
    BY <1>8, <1>20
  <2> QED BY <1>2, <1>5, <1>6, <1>14, <2>1, <2>2 DEF ChainsInv, Alone
<1>16. ProgramSeen'
  <2> SUFFICES ASSUME NEW i \in 1 .. num, i <= m
               PROVE  AllSeen(chains'[i].frames)
    BY <1>2, <1>6, <1>8 DEF ProgramSeen
  <2>1. CASE i = m
    BY <1>4, <1>8, <2>1
  <2>2. CASE i # m
    BY <1>1, <1>2, <1>8, <2>2 DEF ChainsInv, ProgramSeen
  <2> QED BY <2>1, <2>2
<1>17. Interrupted'
  <2>1. c.phase = "leave" => chains[num].savedac = c.value
    BY <1>2, <1>5, <1>8 DEF ChainsInv, Interrupted
  <2>2. chains'[num] = chains[num]
    BY <1>8, <1>20
  <2> QED BY <1>2, <1>4, <1>5, <1>6, <1>8, <2>1, <2>2 DEF Interrupted
<1>18. KeptFrames'
  BY DEF ChainsInv, KeptFrames
<1> QED
  BY <1>9, <1>13, <1>15, <1>16, <1>17, <1>18 DEF ChainsInv

LEMMA CHookInstallsKeepsInv ==
  ASSUME HooksAssumption, HooksInv, NEW byC \in BOOLEAN, NEW m \in Masks, NEW num \in Counts,
         "count" \in m => num > 0, CHookInstalls(byC, m, num)
  PROVE  HooksInv'
<1>1. /\ SetHook(byC, m, num) /\ UNCHANGED guarded /\ UNCHANGED <<ac0, raising>>
      /\ UNCHANGED kept
      /\ chains' = IF "line" \in m
                   THEN [chains EXCEPT ![Depth - 1] = Seeded(chains[Depth - 1])]
                   ELSE chains
  BY DEF CHookInstalls
<1>2. IsHook(Live) /\ Live.kind # "main"
  BY Zenon DEF CHookInstalls, IsHook
<1>3. EngineTypes' /\ Counted'
  BY <1>1, NewHook
<1>4. ~allowhook /\ allowhook' = allowhook /\ pausedfrm' = pausedfrm
  BY <1>1, <1>2, HookIsLive DEF HooksInv, guarded
<1>5. ChainsInv' /\ Live' = Live
  <2>1. CASE "line" \in m
    BY <1>1, <1>2, <2>1, Reseeding DEF HooksInv
  <2>2. CASE "line" \notin m
    <3>1. chains' = chains
      BY <1>1, <2>2
    <3>2. Live' = Live /\ HookChains' = HookChains
      BY <3>1 DEF Live, Depth, HookChains
    <3>3. ChainsInv'
      BY <1>1, <1>4, <3>1, <3>2, KeptStays
         DEF HooksInv, ChainsInv, Activations, Alone, ProgramSeen, Interrupted
    <3> QED BY <3>2, <3>3
  <2> QED BY <2>1, <2>2
<1>6. LiveValue' /\ LiveLine'
  BY <1>1, <1>4, <1>5 DEF HooksInv, LiveValue, LiveLine
<1> QED
  BY <1>3, <1>5, <1>6 DEF HooksInv

-----------------------------------------------------------------------------
LEMMA HooksInitInv ==
  ASSUME HooksAssumption, HooksInit
  PROVE  HooksInv
<1>1. PICK p \in Procs : chains = <<Chain("main", <<NewFrame(p)>>)>>
  BY DEF HooksInit
<1>2. /\ hook = FALSE /\ hookfn = FALSE /\ mask = {} /\ count = 0 /\ basecount = 0
      /\ allowhook = TRUE /\ pausedfrm = 0 /\ ac0 = NoValue /\ raising = FALSE
      /\ kept = <<>> /\ since = 0
  BY DEF HooksInit
<1>3. EngineTypes /\ Counted
  BY <1>2 DEF EngineTypes, Counted
<1>4. KeptFrames
  <2> DEFINE F == HookFrame
  <2> HIDE DEF F
  <2>1. <<>> \in Seq(F) /\ DOMAIN <<>> = {}
    OBVIOUS
  <2>2. kept \in Seq(HookFrame) /\ DOMAIN kept = {}
    BY <1>2, <2>1 DEF F
  <2> QED BY <2>2 DEF KeptFrames, AllSeen
<1>5. ChainsInv /\ LiveValue /\ LiveLine
  BY <1>1, <1>2, <1>4, OneChain
<1> QED
  BY <1>3, <1>5 DEF HooksInv

LEMMA HooksStepKeepsInv ==
  ASSUME HooksAssumption, HooksInv, [HooksNext]_hookVars
  PROVE  HooksInv'
<1>1. CASE UNCHANGED hookVars
  <2>1. /\ UNCHANGED <<hook, hookfn, mask, count, basecount, allowhook, pausedfrm>>
        /\ UNCHANGED <<ac0, chains, raising, kept, since>>
    BY <1>1 DEF hookVars
  <2>2. EngineTypes' /\ Counted' /\ KeptFrames'
    BY <2>1, KeptStays DEF HooksInv, EngineTypes, Counted
  <2>3. Live' = Live /\ HookChains' = HookChains
    BY <2>1 DEF Live, Depth, HookChains
  <2>4. ChainsInv' /\ LiveValue' /\ LiveLine'
    BY <2>1, <2>2, <2>3
       DEF HooksInv, ChainsInv, Activations, Alone, ProgramSeen, Interrupted,
           LiveValue, LiveLine
  <2> QED BY <2>2, <2>4 DEF HooksInv
<1>2. CASE CountDown \/ LineCheck
  BY <1>2, CountDownKeepsInv, LineCheckKeepsInv
<1>3. CASE Plain \/ Jump \/ Leave
  BY <1>3, PlainKeepsInv, JumpKeepsInv, LeaveKeepsInv
<1>4. CASE PcallDone \/ HookDone \/ Raise
  BY <1>4, PcallDoneKeepsInv, HookDoneKeepsInv, RaiseKeepsInv
<1>5. CASE Capture \/ Invoke \/ Clear
  BY <1>5, CaptureKeepsInv, InvokeKeepsInv, ClearKeepsInv
<1>6. ASSUME NEW p \in Procs, Call(p) \/ TailCall(p) \/ Pcall(p) \/ HostEval(p)
      PROVE  HooksInv'
  BY <1>6, CallKeepsInv, TailCallKeepsInv, PcallKeepsInv, HostEvalKeepsInv
<1>7. ASSUME NEW v \in Vals, Return(v)
      PROVE  HooksInv'
  BY <1>7, ReturnKeepsInv
<1>8. ASSUME NEW byC \in BOOLEAN, NEW m \in Masks, NEW num \in Counts, "count" \in m => num > 0,
             Install(byC, m, num) \/ CHookInstalls(byC, m, num)
      PROVE  HooksInv'
  BY <1>8, InstallKeepsInv, CHookInstallsKeepsInv
<1> QED
  BY <1>1, <1>2, <1>3, <1>4, <1>5, <1>6, <1>7, <1>8 DEF HooksNext

LEMMA HooksInvHolds ==
  ASSUME HooksAssumption
  PROVE  HooksSpec => []HooksInv
<1>1. HooksInit => HooksInv
  BY HooksInitInv
<1>2. HooksInv /\ [HooksNext]_hookVars => HooksInv'
  BY HooksStepKeepsInv
<1> QED
  BY <1>1, <1>2, PTL DEF HooksSpec

(* The types of the hook engine's state and of all frames.                 *)
LEMMA InvMeansHookTypes == HooksInv => HooksTypeOK
<1> SUFFICES ASSUME HooksInv PROVE HooksTypeOK
  OBVIOUS
<1>1. /\ {hook, hookfn, allowhook, raising} \subseteq BOOLEAN
      /\ mask \in Masks \union {{}} /\ {count, basecount, since} \subseteq Nat
      /\ ac0 \in Vals \union {NoValue}
  BY LiveChain DEF HooksInv, EngineTypes
<1>2. ASSUME NEW i \in DOMAIN chains, NEW j \in DOMAIN chains[i].frames
      PROVE  LET frm == chains[i].frames[j]
             IN /\ frm.proc \in Procs /\ frm.pc \in 0 .. Len(Lines[frm.proc]) - 1
                /\ frm.oldpc \in -1 .. Len(Lines[frm.proc]) - 1
  <2> DEFINE F == HookFrame
             frm == chains[i].frames[j]
  <2>1. chains[i] \in HookChainSet
    BY LiveChain DEF HooksInv
  <2>2. chains[i].frames \in Seq(F)
    BY <2>1 DEF HookChainSet
  <2>3. frm \in F
    <3> HIDE DEF F
    <3> QED BY <2>2
  <2> QED BY <2>3 DEF HookFrame
<1> QED
  BY <1>1, <1>2 DEF HooksTypeOK

LEMMA InvMeansExact == HooksInv => HooksAreExact
<1> SUFFICES ASSUME HooksInv PROVE HooksAreExact
  OBVIOUS
<1>1. allowhook \in BOOLEAN /\ (allowhook <=> ~InHook)
  BY LiveChain DEF HooksInv
<1>2. HooksRunAlone
  <2>1. CASE allowhook
    <3>1. pausedfrm = 0 /\ HookChains = {}
      BY <2>1 DEF HooksInv, ChainsInv, Alone
    <3> QED BY <1>1, <2>1, <3>1, FS_EmptySet DEF HooksRunAlone
  <2>2. CASE ~allowhook
    <3>1. HookChains = {pausedfrm + 1}
      BY <2>2 DEF HooksInv, ChainsInv, Alone
    <3>2. Cardinality(HookChains) = 1
      BY <3>1, FS_Singleton
    <3> QED BY <1>1, <2>2, <3>1, <3>2 DEF HooksRunAlone
  <2> QED BY <2>1, <2>2
<1>3. ReturnValueKept
  BY DEF HooksInv, LiveValue, ReturnValueKept, Ready
<1>4. CountIsDue
  BY DEF HooksInv, EngineTypes, Counted, CountIsDue
<1>5. LineIsTold
  BY <1>1 DEF HooksInv, LiveLine, LineIsTold, Ready, IsTold
<1> QED
  BY <1>2, <1>3, <1>4, <1>5 DEF HooksAreExact

(* The fields of DebugState, the accumulator and the program counters of   *)
(* all frames keep their types, whatever procedures and hooks do.          *)
THEOREM HooksTypeCorrect ==
  ASSUME HooksAssumption
  PROVE  HooksSpec => []HooksTypeOK
BY HooksInvHolds, InvMeansHookTypes, PTL

(* For any number of procedures, hooks, masks, counts, frames and nested   *)
(* activations: no hook is called inside of a hook and hooks are on again  *)
(* when it is left (HookGuard); the value being returned survives the ret  *)
(* hook; a count-only hook comes within its count (traceexec); and no      *)
(* instruction of the program runs on a line no hook was told of.          *)
THEOREM HooksKeepExact ==
  ASSUME HooksAssumption
  PROVE  HooksSpec => []HooksAreExact
BY HooksInvHolds, InvMeansExact, PTL
-----------------------------------------------------------------------------
(* The reader and the printer of data.                                     *)

(* The calls of the reader that may be under way.                          *)
FrameKinds == {"list", "dot", "last", "vector", "form"}
FrameOK(f) == "f" \in DOMAIN f /\ f.f \in FrameKinds
FramesOK(fs) == \E S : fs \in Seq(S) /\ \A f \in S : FrameOK(f)

(* The invariant of the reader and the printer.                            *)
DatumInv == D!DatumTypeOK /\ FramesOK(frames)

(* A call is pushed, a call returns.                                       *)
LEMMA FramesPushed ==
  ASSUME NEW fs, FramesOK(fs), NEW f, FrameOK(f)
  PROVE  FramesOK(Append(fs, f))
<1>1. PICK S : fs \in Seq(S) /\ \A g \in S : FrameOK(g)
  BY DEF FramesOK
<1>2. fs \in Seq(S \cup {f}) /\ \A g \in S \cup {f} : FrameOK(g)
  BY <1>1
<1>3. Append(fs, f) \in Seq(S \cup {f})
  BY <1>2
<1> QED
  BY <1>2, <1>3 DEF FramesOK

LEMMA FramesPopped ==
  ASSUME NEW fs, FramesOK(fs), fs # <<>>
  PROVE  FramesOK(D!Front(fs)) /\ FrameOK(D!Last(fs))
<1>1. PICK S : fs \in Seq(S) /\ \A g \in S : FrameOK(g)
  BY DEF FramesOK
<1>2. Len(fs) \in Nat \ {0} /\ Len(fs) \in 1..Len(fs)
  BY <1>1
<1>3. fs[Len(fs)] \in S
  BY <1>1, <1>2
<1>4. D!Front(fs) \in Seq(S)
  BY <1>1, <1>2 DEF D!Front
<1> QED
  BY <1>1, <1>3, <1>4 DEF FramesOK, D!Last

LEMMA FramesTyped ==
  ASSUME NEW fs, FramesOK(fs)
  PROVE  \A i \in 1..Len(fs) : fs[i].f \in FrameKinds
BY DEF FramesOK, FrameOK

(* The frames that readListT, readVector and tokwform begin with.          *)
LEMMA FirstFrames ==
  /\ FramesOK(<<>>)
  /\ \A f \in FrameKinds : \A x : FrameOK([f |-> f, items |-> x]) /\ FrameOK([f |-> f, kw |-> x])
  /\ \A f \in FrameKinds : \A x, y : FrameOK([f |-> f, items |-> x, tail |-> y])
  /\ \A f, x : FrameOK(f) => FrameOK([f EXCEPT !.items = x])
<1>1. PICK S : S = {}
  OBVIOUS
<1>2. FramesOK(<<>>)
  <2>1. <<>> \in Seq(S) /\ \A f \in S : FrameOK(f)
    BY <1>1
  <2> QED
    BY <2>1 DEF FramesOK
<1>3. ASSUME NEW f, NEW x, FrameOK(f)
      PROVE  FrameOK([f EXCEPT !.items = x])
  <2>1. DOMAIN [f EXCEPT !.items = x] = DOMAIN f
    OBVIOUS
  <2>2. [f EXCEPT !.items = x].f = f.f
    BY <1>3 DEF FrameOK
  <2> QED
    BY <1>3, <2>1, <2>2 DEF FrameOK
<1> QED
  BY <1>2, <1>3 DEF FrameOK

(* Each step of the reader and of the printer keeps the invariant.         *)
LEMMA DatumStep == DatumInv /\ [D!DatumNext]_dVars => DatumInv'
<1> SUFFICES ASSUME DatumInv, [D!DatumNext]_dVars
             PROVE  DatumInv'
  OBVIOUS
<1> USE FirstFrames
<1>0. /\ frames # <<>> => FramesOK(D!Front(frames)) /\ FrameOK(D!Top)
      /\ \A f : FrameOK(f) => FramesOK(Append(frames, f))
      /\ \A f : FrameOK(f) /\ frames # <<>> => FramesOK(Append(D!Front(frames), f))
  BY FramesPushed, FramesPopped DEF DatumInv, D!Top
<1>1. FramesOK(frames') => \A i \in 1..Len(frames') : frames'[i].f \in FrameKinds
  BY FramesTyped
<1>2. ASSUME D!Refuse, D!Reading
      PROVE  DatumInv'
  BY <1>1, <1>2 DEF DatumInv, D!DatumTypeOK, D!Refuse, D!Reading, D!Over, FrameKinds
<1>3. CASE D!SkipBlank
  <2>1. UNCHANGED <<phase, frames, literal, got, todo>>
    BY <1>3, Zenon DEF D!SkipBlank, D!Enters
  <2> QED
    BY <1>1, <2>1 DEF DatumInv, D!DatumTypeOK, FrameKinds
<1>4. CASE D!TakeToken
  <2>1. PICK t : t = D!NextToken(rest)
    OBVIOUS
  <2>2. /\ D!Reading /\ got = D!NoDatum /\ literal = D!NoString /\ todo = <<>>
    <3>1. D!Lexing
      BY <1>4, Zenon DEF D!TakeToken, D!AtToken
    <3> QED
      BY <3>1 DEF D!Lexing, DatumInv, D!DatumTypeOK, D!Reading
  <2>3. CASE D!Wrong(t)
    BY <1>2, <1>4, <2>1, <2>2, <2>3 DEF D!TakeToken
  <2>4. CASE ~D!Wrong(t)
    <3>1. D!ReadAtom(t) \/ D!Open(t) \/ D!Close(t)
      BY <1>4, <2>1, <2>4 DEF D!TakeToken
    <3>2. ASSUME FramesOK(frames'), phase' = phase, todo' = todo,
                 literal' = literal \/ got' = D!NoDatum
          PROVE  DatumInv'
      BY <1>1, <2>2, <3>2 DEF DatumInv, D!DatumTypeOK, D!Reading, FrameKinds
    <3>3. CASE D!ReadAtom(t)
      BY <3>2, <3>3 DEF D!ReadAtom, D!Returns, DatumInv
    <3>4. CASE D!Open(t)
      <4>1. CASE t.type = "string"
        BY <2>2, <3>2, <3>4, <4>1 DEF D!Open, D!Enters, DatumInv
      <4>2. CASE t.type # "string"
        <5>1. /\ phase' = phase /\ todo' = todo /\ literal' = literal
              /\ \/ t.type = "(" /\ D!Push([f |-> "list", items |-> <<>>])
                 \/ t.type = "vector" /\ D!Push([f |-> "vector", items |-> <<>>])
                 \/ t.type = "form" /\ D!Push([f |-> "form", kw |-> D!LongFor(t.cs)])
                 \/ t.type = "dot" /\ D!Replace([f |-> "dot", items |-> D!Top.items])
          BY <3>4, <4>2 DEF D!Open, D!Enters
        <5>2. CASE t.type = "dot"
          <6>1. D!InFrame({"list"})
            BY <2>4, <5>2 DEF D!Wrong
          <6> QED
            BY <1>0, <3>2, <5>1, <5>2, <6>1 DEF D!InFrame, D!Replace, FrameKinds
        <5> QED
          BY <1>0, <3>2, <5>1, <5>2 DEF D!Push, FrameKinds
      <4> QED
        BY <4>1, <4>2
    <3>5. CASE D!Close(t)
      <4>1. frames # <<>>
        BY <2>4, <3>5 DEF D!Wrong, D!Close, D!InFrame
      <4> QED
        BY <1>0, <3>2, <3>5, <4>1 DEF D!Close, D!Pop, D!Returns
    <3> QED
      BY <3>1, <3>3, <3>4, <3>5
  <2> QED
    BY <2>3, <2>4
<1>5. CASE D!StringChar
  <2>1. D!Reading /\ literal # D!NoString /\ got = D!NoDatum /\ todo = <<>>
    <3>1. D!Reading /\ literal # D!NoString
      BY <1>5, Zenon DEF D!StringChar
    <3> QED
      BY <3>1 DEF DatumInv, D!DatumTypeOK, D!Reading
  <2>2. \/ D!Refuse
        \/ /\ UNCHANGED <<phase, frames, todo>>
           /\ literal' = D!NoString \/ got' = got
    BY <1>5, Zenon DEF D!StringChar
  <2> QED
    BY <1>1, <1>2, <2>1, <2>2 DEF DatumInv, D!DatumTypeOK, D!Reading, FrameKinds
<1>6. CASE D!StringEnds
  BY <1>2, <1>6 DEF D!StringEnds
<1>7. CASE D!GiveBack
  <2>1. /\ D!Reading /\ frames # <<>> /\ literal = D!NoString /\ todo = <<>>
        /\ UNCHANGED <<phase, literal, todo>>
    BY <1>7 DEF D!GiveBack, DatumInv, D!DatumTypeOK, D!Reading
  <2>2. FramesOK(frames')
    <3>1. CASE D!Top.f = "form"
      BY <1>0, <1>7, <2>1, <3>1 DEF D!GiveBack, D!Pop
    <3>2. CASE D!Top.f = "dot"
      BY <1>0, <1>7, <2>1, <3>2 DEF D!GiveBack, D!Replace, FrameKinds
    <3>3. CASE D!Top.f # "form" /\ D!Top.f # "dot"
      BY <1>0, <1>7, <2>1, <3>3 DEF D!GiveBack, D!Replace
    <3> QED
      BY <3>1, <3>2, <3>3
  <2> QED
    BY <1>1, <2>1, <2>2 DEF DatumInv, D!DatumTypeOK, D!Reading, FrameKinds
<1>8. CASE D!Finish
  BY <1>1, <1>8 DEF D!Finish, DatumInv, D!DatumTypeOK, D!Reading, D!Over, FrameKinds
<1>9. CASE D!WriteItem
  <2>1. /\ phase = "writing" /\ UNCHANGED <<frames, literal, got>>
        /\ (phase' = "unwritable" /\ todo' = <<>>) \/ phase' = phase
    BY <1>9, Zenon DEF D!WriteItem
  <2> QED
    BY <1>1, <2>1 DEF DatumInv, D!DatumTypeOK, D!Over, FrameKinds
<1>10. CASE D!ReadBack
  <2>1. phase = "writing" /\ phase' = "rereading" /\ UNCHANGED <<frames, literal, got, todo>>
    BY <1>10, Zenon DEF D!ReadBack
  <2>2. todo = <<>>
    BY <1>10, Zenon DEF D!ReadBack
  <2> QED
    BY <1>1, <2>1, <2>2 DEF DatumInv, D!DatumTypeOK, D!Over, FrameKinds
<1>11. CASE UNCHANGED dVars
  BY <1>1, <1>11 DEF dVars, DatumInv, D!DatumTypeOK, FrameKinds
<1> QED
  BY <1>3, <1>4, <1>5, <1>6, <1>7, <1>8, <1>9, <1>10, <1>11 DEF D!DatumNext

LEMMA DatumStart == D!DatumInit => DatumInv
BY FirstFrames DEF D!DatumInit, DatumInv, D!DatumTypeOK, D!Over

-----------------------------------------------------------------------------
(* The runtime: one of the parts runs, the others stay as they are.        *)

runtimeVars == <<part, loaderVars, portVars, hookVars, lineVars, packVars, dVars>>

LEMMA PartsStart ==
  RuntimeInit => /\ LoaderInit /\ PortInit /\ HooksInit
                 /\ LineInit /\ PackInit /\ D!DatumInit
BY DEF RuntimeInit

LEMMA PartsStep ==
  [RuntimeNext]_runtimeVars =>
    /\ [LoaderNext]_loaderVars /\ [PortNext]_portVars /\ [HooksNext]_hookVars
    /\ [LineNext]_lineVars /\ [PackNext]_packVars /\ [D!DatumNext]_dVars
BY DEF RuntimeNext, runtimeVars

(* Every part keeps, in the runtime, to the specification of its own.      *)
LEMMA PartsKeepTheirSpecs ==
  RuntimeSpec => /\ LoaderSpec /\ InputPortSpec /\ HooksSpec /\ LineSpec /\ PackSpec
                 /\ D!DatumInit /\ [][D!DatumNext]_dVars
BY PartsStart, PartsStep, PTL
DEF RuntimeSpec, runtimeVars, LoaderSpec, InputPortSpec, HooksSpec, LineSpec, PackSpec

(* The reader and the printer keep their invariant.                        *)
LEMMA DatumTypes == D!DatumInit /\ [][D!DatumNext]_dVars => []D!DatumTypeOK
<1>1. DatumInv => D!DatumTypeOK
  BY DEF DatumInv
<1> QED
  BY <1>1, DatumStart, DatumStep, PTL

(* What holds of every part alone holds of the runtime: the variables of   *)
(* all of them keep their types, and with them the lexer's place in the    *)
(* buffer of a port and the empty stacks of a reader that was refused      *)
(* (Lexer::unreadchar, VM::throwScmError's unwinding).                     *)
THEOREM RuntimeTypesCorrect == RuntimeSpec => []RuntimeTypeOK
<1>1. /\ LoaderSpec => []LoaderTypeOK
      /\ InputPortSpec => []PortTypeOK
      /\ HooksSpec => []HooksTypeOK
      /\ LineSpec => []LineTypeOK
      /\ PackSpec => []PackTypeOK
  BY LoaderTypes, PortTypes, HooksTypeCorrect, LineTypeCorrect, PackTypesCorrect, PartsAssumption
<1> QED
  BY <1>1, PartsKeepTheirSpecs, DatumTypes, PTL DEF RuntimeTypeOK

(* No part disturbs what another one promises: in the runtime a module is  *)
(* loaded once, no hook changes the program it watches, every instruction  *)
(* has its line, what is packed is unpacked, and an input port is the      *)
(* stream of its file's characters.                                        *)
THEOREM PromisesCompose ==
  ASSUME Unambiguous
  PROVE  RuntimeSpec => /\ []RequireIsRight /\ []HooksAreExact /\ []LinesComeBack
                        /\ []RoundTrip /\ PortSpec
<1>1. /\ LoaderSpec => []RequireIsRight
      /\ HooksSpec => []HooksAreExact
      /\ LineSpec => []LinesComeBack
      /\ PackSpec => []RoundTrip
      /\ InputPortSpec => PortSpec
  BY RequireKeepsItsPromise, HooksKeepExact, EveryLineComesBack, RoundTripHolds, PortIsStream,
     PartsAssumption
<1> QED
  BY <1>1, PartsKeepTheirSpecs, PTL

=============================================================================
