-------------------------- MODULE DynamicWindProofs --------------------------
(***************************************************************************)
(* Theorems about dynamic-wind, for any number of winds, frames and        *)
(* levels.                                                                 *)
(***************************************************************************)
EXTENDS DynamicWind, WellFoundedInduction, TLAPS

-----------------------------------------------------------------------------
(* Numbers and sequences.                                                  *)

(* Induction over the natural numbers.                                     *)
LEMMA SetInduction ==
  ASSUME NEW T, 0 \in T, \A n \in Nat : n \in T => n + 1 \in T
  PROVE  Nat \subseteq T
<1> DEFINE U == Nat \ T
<1>1. PICK R : R = OpToRel(<, Nat) /\ IsWellFoundedOn(R, Nat)
  BY NatLessThanWellFounded
<1>2. \A x, y \in Nat : <<x, y>> \in R <=> x < y
  BY <1>1 DEF OpToRel
<1>3. U # {} => \E x \in U : \A y \in U : ~(<<y, x>> \in R)
  BY <1>1, WFMin
<1>4. ASSUME NEW x \in U, \A y \in U : ~(<<y, x>> \in R)
      PROVE  FALSE
  <2>1. x \in Nat /\ x \notin T /\ x # 0 /\ x - 1 \in Nat /\ (x - 1) + 1 = x /\ x - 1 < x
    OBVIOUS
  <2>2. x - 1 \notin U
    BY <1>2, <1>4, <2>1
  <2> QED
    BY <2>1, <2>2
<1> QED
  BY <1>3, <1>4

(* A set of numbers up to n has a greatest one.                            *)
LEMMA HasGreatest ==
  ASSUME NEW n \in Nat, NEW S, S \subseteq 1 .. n, S # {}
  PROVE  \E x \in S : \A y \in S : y <= x
<1> DEFINE P(m) == \A V : V \subseteq 1 .. m /\ V # {} => \E x \in V : \A y \in V : y <= x
           T == {m \in Nat : P(m)}
<1>1. 0 \in T
  <2>1. \A i : i \notin 1 .. 0
    OBVIOUS
  <2> QED
    BY <2>1
<1>2. ASSUME NEW m \in Nat, m \in T
      PROVE  m + 1 \in T
  <2>1. ASSUME NEW V, V \subseteq 1 .. m + 1, V # {}
        PROVE  \E x \in V : \A y \in V : y <= x
    <3>1. CASE m + 1 \in V
      <4>1. \A y \in V : y <= m + 1
        BY <2>1
      <4> QED
        BY <3>1, <4>1
    <3>2. CASE m + 1 \notin V
      <4>1. V \subseteq 1 .. m
        <5>1. \A y : y \in 1 .. m + 1 /\ y # m + 1 => y \in 1 .. m
          OBVIOUS
        <5> QED
          BY <2>1, <3>2, <5>1
      <4>2. P(m)
        BY <1>2
      <4> QED
        BY <2>1, <4>1, <4>2
    <3> QED
      BY <3>1, <3>2
  <2>2. P(m + 1)
    BY <2>1
  <2> QED
    BY <2>2
<1> HIDE DEF T
<1>3. Nat \subseteq T
  BY <1>1, <1>2, SetInduction
<1>4. P(n)
  BY <1>3 DEF T
<1> QED
  BY <1>4

(* The last element of a sequence, and the others.                         *)
LEMMA LastAndFront ==
  ASSUME NEW S, NEW s \in Seq(S), s # <<>>
  PROVE  /\ Len(s) \in Nat \ {0}
         /\ Front(s) \in Seq(S) /\ Len(Front(s)) = Len(s) - 1
         /\ \A i \in 1 .. Len(s) - 1 : Front(s)[i] = s[i]
         /\ Top(s) = s[Len(s)] /\ Top(s) \in S
         /\ Len(s) \in 1 .. Len(s)
<1>1. Len(s) \in Nat \ {0}
  OBVIOUS
<1>2. Len(s) - 1 \in Nat /\ Len(s) \in 1 .. Len(s) /\ \A i \in 1 .. Len(s) - 1 : i \in 1 .. Len(s)
  BY <1>1
<1>3. \A i \in 1 .. Len(s) : s[i] \in S
  OBVIOUS
<1>4. Front(s) = [i \in 1 .. Len(s) - 1 |-> s[i]]
  BY <1>1, <1>2 DEF Front
<1>5. Front(s) \in Seq(S) /\ Len(Front(s)) = Len(s) - 1
      /\ \A i \in 1 .. Len(s) - 1 : Front(s)[i] = s[i]
  BY <1>2, <1>3, <1>4
<1> QED
  BY <1>1, <1>2, <1>3, <1>5 DEF Top

(* One more element at the end.                                            *)
LEMMA OneMore ==
  ASSUME NEW S, NEW s \in Seq(S), NEW e \in S
  PROVE  /\ Append(s, e) \in Seq(S)
         /\ Len(Append(s, e)) = Len(s) + 1
         /\ Append(s, e) # <<>>
         /\ Append(s, e)[Len(s) + 1] = e
         /\ \A i \in 1 .. Len(s) : Append(s, e)[i] = s[i]
         /\ \A i : i \in 1 .. Len(s) + 1 <=> i \in 1 .. Len(s) \/ i = Len(s) + 1
         /\ Len(s) \in Nat
<1>1. /\ Append(s, e) \in Seq(S)
      /\ Len(s) \in Nat
      /\ Len(Append(s, e)) = Len(s) + 1
      /\ \A i \in 1 .. Len(s) : Append(s, e)[i] = s[i]
      /\ Append(s, e)[Len(s) + 1] = e
  OBVIOUS
<1>2. Append(s, e) # <<>>
  BY <1>1
<1>3. \A i : i \in 1 .. Len(s) + 1 <=> i \in 1 .. Len(s) \/ i = Len(s) + 1
  BY <1>1
<1> QED
  BY <1>1, <1>2, <1>3

-----------------------------------------------------------------------------
(* Chains of winds.                                                        *)

(* f gives the chain of each of the first m winds.                         *)
Climbs(f, m) ==
  f = [x \in 0 .. m |-> IF x = NoWind THEN {} ELSE {x} \union f[parent[x]]]

(* The parent of a wind was made before it.                                *)
ParentsFirst == parent \in [Winds -> 0 .. MaxWinds] /\ \A w \in Winds : parent[w] < w

LEMMA ChainIsComputed ==
  ASSUME ParentsFirst
  PROVE  \E f : Climbs(f, MaxWinds)
<1> DEFINE T == {m \in Nat : m <= MaxWinds => \E f : Climbs(f, m)}
<1>0. MaxWinds \in Nat
  BY ConstantsAssumption
<1>1. 0 \in T
  <2> DEFINE f == [x \in 0 .. 0 |-> {}]
  <2>1. \A x \in 0 .. 0 : x = 0
    OBVIOUS
  <2>2. Climbs(f, 0)
    BY <2>1 DEF Climbs, NoWind
  <2> HIDE DEF f
  <2> QED
    BY <2>2
<1>2. ASSUME NEW m \in Nat, m \in T, m + 1 <= MaxWinds
      PROVE  \E f : Climbs(f, m + 1)
  <2>1. PICK f : Climbs(f, m)
    BY <1>0, <1>2
  <2>2. \A x \in 0 .. m : f[x] = IF x = NoWind THEN {} ELSE {x} \union f[parent[x]]
    BY <2>1 DEF Climbs
  <2>3. \A x \in 1 .. m + 1 : x \in Winds /\ parent[x] \in 0 .. m /\ parent[x] # m + 1
                              /\ parent[x] \in 0 .. m + 1
    BY <1>0, <1>2 DEF ParentsFirst, Winds
  <2> DEFINE g == [x \in 0 .. m + 1 |-> IF x = m + 1 THEN {x} \union f[parent[x]] ELSE f[x]]
  <2>4. ASSUME NEW x \in 0 .. m + 1
        PROVE  g[x] = IF x = NoWind THEN {} ELSE {x} \union g[parent[x]]
    <3>1. x # NoWind => x \in 1 .. m + 1
      BY DEF NoWind
    <3>2. x # NoWind => g[parent[x]] = f[parent[x]]
      BY <2>3, <3>1
    <3>3. CASE x = m + 1
      <4>1. x # NoWind /\ g[x] = {x} \union f[parent[x]]
        BY <3>3 DEF NoWind
      <4> QED
        BY <3>2, <4>1
    <3>4. CASE x # m + 1
      <4>1. x \in 0 .. m /\ g[x] = f[x]
        BY <3>4
      <4> HIDE DEF g
      <4> QED
        BY <2>2, <3>2, <4>1
    <3> QED
      BY <3>3, <3>4
  <2>5. g = [x \in 0 .. m + 1 |-> g[x]]
    OBVIOUS
  <2>6. Climbs(g, m + 1)
    <3> HIDE DEF g
    <3> QED
      BY <2>4, <2>5 DEF Climbs
  <2> QED
    BY <2>6
<1>3. \A m \in Nat : m \in T => m + 1 \in T
  BY <1>2
<1> HIDE DEF T
<1>4. Nat \subseteq T
  BY <1>1, <1>3, SetInduction
<1> QED
  BY <1>0, <1>4 DEF T

(* A wind and the winds around it.                                         *)
LEMMA ChainUnfolds ==
  ASSUME ParentsFirst
  PROVE  /\ Chain(NoWind) = {}
         /\ \A w \in Winds : Chain(w) = {w} \union Chain(parent[w])
<1> DEFINE up == CHOOSE f : Climbs(f, MaxWinds)
<1>1. Climbs(up, MaxWinds)
  BY ChainIsComputed
<1>2. \A w : Chain(w) = up[w]
  BY DEF Chain, Climbs
<1>3. MaxWinds \in Nat
  BY ConstantsAssumption
<1> HIDE DEF up
<1>4. up[NoWind] = {}
  BY <1>1, <1>3 DEF Climbs, NoWind
<1>5. ASSUME NEW w \in Winds
      PROVE  up[w] = {w} \union up[parent[w]]
  <2>1. w \in 0 .. MaxWinds /\ w # NoWind
    BY <1>3 DEF Winds, NoWind
  <2> QED
    BY <1>1, <2>1 DEF Climbs
<1> QED
  BY <1>2, <1>4, <1>5

-----------------------------------------------------------------------------
(* The frames of a level and its chain of winds.                           *)

Parts == {"before", "body", "after"}

(* The winds that the first n frames are thunks of, and all of them.       *)
WindsUpTo(fs, n) == {fs[i].wind : i \in 1 .. n} \ {NoWind}
WindsOf(fs) == WindsUpTo(fs, Len(fs))

(* w is the wind of the innermost thunk among the first n frames.          *)
Inner(fs, n, w) ==
  \/ w = NoWind /\ \A j \in 1 .. n : fs[j].wind = NoWind
  \/ /\ w # NoWind
     /\ \E j \in 1 .. n : fs[j].wind = w /\ \A k \in j + 1 .. n : fs[k].wind = NoWind

(* The thunks of the frames fs run inside each other, as the parents pr of *)
(* their winds say, with d the innermost; st are the stages of the winds.  *)
Formed(fs, d, pr, st) ==
  /\ Inner(fs, Len(fs), d)
  /\ \A i \in 1 .. Len(fs) :
       /\ fs[i].wind = NoWind => fs[i].part = "code"
       /\ fs[i].wind # NoWind =>
            /\ fs[i].part \in Parts /\ st[fs[i].wind] # "unused"
            /\ Inner(fs, i - 1, pr[fs[i].wind])
            /\ \A j \in 1 .. i - 1 : fs[j].wind < fs[i].wind

(* Each frame runs the thunk that its wind is at.                          *)
Fits(fs, st) == \A i \in 1 .. Len(fs) : fs[i].wind # NoWind => fs[i].part = st[fs[i].wind]

FrameSeq == Seq(Frames)

(* The frames up to an innermost one run the winds of its chain.           *)
LEMMA ChainOfFrames ==
  ASSUME ParentsFirst, NEW fs \in FrameSeq, NEW d, NEW st, Formed(fs, d, parent, st)
  PROVE  \A n \in 0 .. Len(fs) : \A w : Inner(fs, n, w) => Chain(w) = WindsUpTo(fs, n)
<1> DEFINE P(n) == \A w : Inner(fs, n, w) => Chain(w) = WindsUpTo(fs, n)
           T == {n \in Nat : \A m \in 0 .. n : m <= Len(fs) => P(m)}
<1>1. /\ Chain(NoWind) = {}
      /\ \A w \in Winds : Chain(w) = {w} \union Chain(parent[w])
  BY ChainUnfolds
<1>2. Len(fs) \in Nat /\ \A i \in 1 .. Len(fs) : fs[i] \in Frames
  BY DEF FrameSeq
<1>3. \A i \in 1 .. Len(fs) : fs[i].wind # NoWind => fs[i].wind \in Winds
  <2>1. MaxWinds \in Nat
    BY ConstantsAssumption
  <2>2. \A i \in 1 .. Len(fs) : fs[i].wind \in 0 .. MaxWinds
    BY <1>2 DEF Frames
  <2> QED
    BY <2>1, <2>2 DEF NoWind, Winds
<1>4. ASSUME NEW n \in Nat, n <= Len(fs), \A m \in 0 .. n - 1 : P(m)
      PROVE  P(n)
  <2>1. ASSUME NEW w, Inner(fs, n, w)
        PROVE  Chain(w) = WindsUpTo(fs, n)
    <3>1. CASE w = NoWind /\ \A j \in 1 .. n : fs[j].wind = NoWind
      <4>1. WindsUpTo(fs, n) = {}
        BY <3>1 DEF WindsUpTo
      <4> QED
        BY <1>1, <3>1, <4>1
    <3>2. CASE w # NoWind /\ \E j \in 1 .. n : fs[j].wind = w /\ \A k \in j + 1 .. n : fs[k].wind = NoWind
      <4>1. PICK j \in 1 .. n : fs[j].wind = w /\ \A k \in j + 1 .. n : fs[k].wind = NoWind
        BY <3>2
      <4>2. /\ j \in 1 .. Len(fs) /\ j - 1 \in 0 .. n - 1
            /\ \A i : i \in 1 .. n <=> i \in 1 .. j - 1 \/ i = j \/ i \in j + 1 .. n
        BY <1>2, <1>4
      <4>3. w \in Winds
        BY <1>3, <3>2, <4>1, <4>2
      <4>4. Inner(fs, j - 1, parent[w])
        BY <3>2, <4>1, <4>2 DEF Formed
      <4>5. Chain(parent[w]) = WindsUpTo(fs, j - 1)
        BY <1>4, <4>2, <4>4
      <4>6. WindsUpTo(fs, n) = {w} \union WindsUpTo(fs, j - 1)
        BY <3>2, <4>1, <4>2 DEF WindsUpTo
      <4> QED
        BY <1>1, <4>3, <4>5, <4>6
    <3> QED
      BY <2>1, <3>1, <3>2 DEF Inner
  <2> QED
    BY <2>1
<1> HIDE DEF P
<1>5. 0 \in T
  <2>1. \A m \in 0 .. 0 : m = 0
    OBVIOUS
  <2>2. \A m : m \notin 0 .. 0 - 1
    OBVIOUS
  <2>3. 0 \in Nat /\ 0 <= Len(fs)
    BY <1>2
  <2>4. P(0)
    BY <1>4, <2>2, <2>3
  <2> QED
    BY <2>1, <2>4
<1>6. ASSUME NEW n \in Nat, n \in T
      PROVE  n + 1 \in T
  <2>1. ASSUME n + 1 <= Len(fs)
        PROVE  P(n + 1)
    <3>1. \A m \in 0 .. (n + 1) - 1 : m \in 0 .. n /\ m <= Len(fs)
      BY <1>2, <2>1
    <3>2. \A m \in 0 .. (n + 1) - 1 : P(m)
      BY <1>6, <3>1
    <3>3. n + 1 \in Nat
      OBVIOUS
    <3> QED
      BY <1>4, <2>1, <3>2, <3>3
  <2>2. \A m \in 0 .. n + 1 : m = n + 1 \/ m \in 0 .. n
    OBVIOUS
  <2>3. \A m \in 0 .. n + 1 : m <= Len(fs) => P(m)
    BY <1>6, <2>1, <2>2
  <2> QED
    BY <2>3
<1>7. Nat \subseteq T
  <2> HIDE DEF T
  <2> QED
    BY <1>5, <1>6, SetInduction
<1>8. ASSUME NEW n \in 0 .. Len(fs)
      PROVE  P(n)
  <2>1. n \in Nat /\ n \in 0 .. n /\ n <= Len(fs)
    BY <1>2
  <2>2. n \in T
    BY <1>7, <2>1
  <2> QED
    BY <2>1, <2>2
<1> QED
  BY <1>8 DEF P

(* So vm->dywind and its parents are the winds of the frames.              *)
LEMMA ChainIsFrames ==
  ASSUME ParentsFirst, NEW fs \in FrameSeq, NEW d, NEW st, Formed(fs, d, parent, st)
  PROVE  Chain(d) = WindsOf(fs)
<1>1. Len(fs) \in 0 .. Len(fs)
  BY DEF FrameSeq
<1> QED
  BY <1>1, ChainOfFrames DEF Formed, WindsOf

(* The innermost of the winds that two levels have in common, and its      *)
(* chain: what they have in common.                                        *)
LEMMA CommonChain ==
  ASSUME ParentsFirst, NEW fs \in FrameSeq, NEW d, NEW gs \in FrameSeq, NEW e, NEW st,
         Formed(fs, d, parent, st), Formed(gs, e, parent, st)
  PROVE  Chain(Innermost(WindsOf(fs) \intersect WindsOf(gs))) = WindsOf(fs) \intersect WindsOf(gs)
<1> DEFINE S == WindsOf(fs) \intersect WindsOf(gs)
           c == Innermost(S)
<1>0. Len(fs) \in Nat /\ Len(gs) \in Nat /\ MaxWinds \in Nat
  BY ConstantsAssumption DEF FrameSeq
<1>1. CASE S = {}
  BY <1>1, ChainUnfolds DEF Innermost
<1>2. CASE S # {}
  <2>1. S \subseteq 1 .. MaxWinds
    <3>1. \A i \in 1 .. Len(fs) : fs[i].wind \in 0 .. MaxWinds
      <4>1. \A i \in 1 .. Len(fs) : fs[i] \in Frames
        BY DEF FrameSeq
      <4> QED
        BY <4>1 DEF Frames
    <3>2. \A x \in 0 .. MaxWinds : x # NoWind => x \in 1 .. MaxWinds
      BY <1>0 DEF NoWind
    <3> QED
      BY <3>1, <3>2 DEF WindsOf, WindsUpTo
  <2>2. \E x \in S : \A y \in S : y <= x
    BY <1>0, <1>2, <2>1, HasGreatest
  <2>3. c \in S /\ \A y \in S : y <= c
    BY <1>2, <2>2 DEF Innermost
  <2>4. PICK i \in 1 .. Len(fs) : fs[i].wind = c
    BY <2>3 DEF WindsOf, WindsUpTo
  <2>5. PICK j \in 1 .. Len(gs) : gs[j].wind = c
    BY <2>3 DEF WindsOf, WindsUpTo
  <2>6. c # NoWind /\ c \in 1 .. MaxWinds
    BY <2>1, <2>3 DEF NoWind
  <2> HIDE DEF c
  <2>7. i \in 0 .. Len(fs) /\ j \in 0 .. Len(gs) /\ i \in 1 .. i /\ j \in 1 .. j
        /\ (\A k : k \notin i + 1 .. i) /\ (\A k : k \notin j + 1 .. j)
    BY <1>0
  <2>8. Inner(fs, i, c) /\ Inner(gs, j, c)
    BY <2>4, <2>5, <2>6, <2>7 DEF Inner
  <2>9. Chain(c) = WindsUpTo(fs, i)
    BY <2>7, <2>8, ChainOfFrames
  <2>10. Chain(c) = WindsUpTo(gs, j)
    BY <2>7, <2>8, ChainOfFrames
  <2>11. Chain(c) \subseteq S
    <3>1. /\ \A k \in 1 .. i : k \in 1 .. Len(fs)
          /\ \A k \in 1 .. j : k \in 1 .. Len(gs)
      BY <1>0
    <3>2. Chain(c) \subseteq WindsOf(fs)
      BY <2>9, <3>1 DEF WindsOf, WindsUpTo
    <3>3. Chain(c) \subseteq WindsOf(gs)
      BY <2>10, <3>1 DEF WindsOf, WindsUpTo
    <3> QED
      BY <3>2, <3>3
  <2>12. ASSUME NEW x \in S
         PROVE  x \in Chain(c)
    <3>1. PICK k \in 1 .. Len(fs) : fs[k].wind = x /\ x # NoWind
      BY DEF WindsOf, WindsUpTo
    <3>2. ~(i \in 1 .. k - 1)
      <4>1. i \in 1 .. k - 1 => fs[i].wind < fs[k].wind
        BY <3>1 DEF Formed
      <4>2. x <= c /\ x \in 1 .. MaxWinds
        BY <2>1, <2>3
      <4> QED
        BY <1>0, <2>4, <2>6, <3>1, <4>1, <4>2
    <3>3. k \in 1 .. i
      BY <1>0, <3>2
    <3> QED
      BY <2>9, <3>1, <3>3 DEF WindsUpTo
  <2> QED
    BY <2>11, <2>12 DEF c
<1> QED
  BY <1>1, <1>2

(* A frame of a level.                                                     *)
LEMMA FrameFacts ==
  ASSUME NEW fs \in FrameSeq
  PROVE  /\ Len(fs) \in Nat
         /\ \A i \in 1 .. Len(fs) : /\ fs[i] \in Frames /\ fs[i] = Frame(fs[i].wind, fs[i].part)
                                    /\ fs[i].wind # NoWind => fs[i].wind \in Winds
         /\ WindsOf(fs) \subseteq Winds
<1>1. Len(fs) \in Nat /\ \A i \in 1 .. Len(fs) : fs[i] \in Frames
  BY DEF FrameSeq
<1>2. \A x \in 0 .. MaxWinds : x # NoWind => x \in Winds
  BY ConstantsAssumption DEF NoWind, Winds
<1>3. \A i \in 1 .. Len(fs) : fs[i] = Frame(fs[i].wind, fs[i].part) /\ fs[i].wind \in 0 .. MaxWinds
  BY <1>1 DEF Frames, Frame
<1>4. WindsOf(fs) \subseteq Winds
  BY <1>2, <1>3 DEF WindsOf, WindsUpTo
<1> QED
  BY <1>1, <1>2, <1>3, <1>4

(* No frames.                                                              *)
LEMMA NoFrames ==
  ASSUME NEW pr, NEW st
  PROVE  /\ <<>> \in FrameSeq /\ WindsOf(<<>>) = {} /\ Fits(<<>>, st)
         /\ Formed(<<>>, NoWind, pr, st)
         /\ \A d : Formed(<<>>, d, pr, st) => d = NoWind
<1>1. Len(<<>>) = 0 /\ \A i : i \notin 1 .. 0
  OBVIOUS
<1>2. <<>> \in FrameSeq
  BY DEF FrameSeq
<1>3. WindsOf(<<>>) = {} /\ Fits(<<>>, st)
  BY <1>1 DEF WindsOf, WindsUpTo, Fits
<1>4. \A d : Inner(<<>>, 0, d) <=> d = NoWind
  BY <1>1 DEF Inner
<1>5. \A d : Formed(<<>>, d, pr, st) <=> d = NoWind
  BY <1>1, <1>4 DEF Formed
<1> QED
  BY <1>2, <1>3, <1>5

(* One more frame, not of a wind or of a wind made after the others.       *)
LEMMA FrameAdded ==
  ASSUME NEW fs \in FrameSeq, NEW d, NEW pr, NEW st, NEW f \in Frames
  PROVE  /\ Append(fs, f) \in FrameSeq
         /\ WindsOf(Append(fs, f)) = WindsOf(fs) \union ({f.wind} \ {NoWind})
         /\ f = Code /\ Formed(fs, d, pr, st) => Formed(Append(fs, f), d, pr, st)
         /\ /\ f.wind # NoWind /\ f.part \in Parts /\ st[f.wind] # "unused"
            /\ Formed(fs, pr[f.wind], pr, st) /\ \A w \in WindsOf(fs) : w < f.wind
            => Formed(Append(fs, f), f.wind, pr, st)
         /\ Fits(fs, st) /\ (f.wind # NoWind => f.part = st[f.wind]) => Fits(Append(fs, f), st)
<1> DEFINE gs == Append(fs, f)
           n == Len(fs)
<1>1. /\ gs \in FrameSeq /\ Len(gs) = n + 1 /\ gs[n + 1] = f /\ n \in Nat
      /\ \A i \in 1 .. n : gs[i] = fs[i]
      /\ \A i : i \in 1 .. n + 1 <=> i \in 1 .. n \/ i = n + 1
  BY OneMore DEF FrameSeq
<1> HIDE DEF gs
<1>2. WindsOf(gs) = WindsOf(fs) \union ({f.wind} \ {NoWind})
  <2>1. {gs[i].wind : i \in 1 .. n + 1} = {fs[i].wind : i \in 1 .. n} \union {f.wind}
    BY <1>1
  <2> QED
    BY <1>1, <2>1 DEF WindsOf, WindsUpTo
<1>3. Fits(fs, st) /\ (f.wind # NoWind => f.part = st[f.wind]) => Fits(gs, st)
  BY <1>1 DEF Fits
<1>4. ASSUME NEW m \in 0 .. n, NEW w, Inner(fs, m, w)
      PROVE  Inner(gs, m, w)
  <2>1. \A j \in 1 .. m : j \in 1 .. n /\ \A k \in j + 1 .. m : k \in 1 .. n
    BY <1>1
  <2>2. \A j \in 1 .. m : gs[j] = fs[j] /\ \A k \in j + 1 .. m : gs[k] = fs[k]
    BY <1>1, <2>1
  <2> QED
    BY <1>4, <2>2 DEF Inner
<1>5. ASSUME NEW e, Formed(fs, e, pr, st), NEW i \in 1 .. n
      PROVE  /\ gs[i].wind = NoWind => gs[i].part = "code"
             /\ gs[i].wind # NoWind =>
                  /\ gs[i].part \in Parts /\ st[gs[i].wind] # "unused"
                  /\ Inner(gs, i - 1, pr[gs[i].wind])
                  /\ \A j \in 1 .. i - 1 : gs[j].wind < gs[i].wind
  <2>1. i - 1 \in 0 .. n /\ \A j \in 1 .. i - 1 : j \in 1 .. n
    BY <1>1
  <2>2. gs[i] = fs[i] /\ \A j \in 1 .. i - 1 : gs[j] = fs[j]
    BY <1>1, <2>1
  <2>3. Inner(fs, i - 1, pr[fs[i].wind]) => Inner(gs, i - 1, pr[fs[i].wind])
    BY <1>4, <2>1
  <2> QED
    BY <1>5, <2>2, <2>3 DEF Formed
<1>6. ASSUME f = Code, Formed(fs, d, pr, st)
      PROVE  Formed(gs, d, pr, st)
  <2>1. f.wind = NoWind /\ f.part = "code"
    BY <1>6 DEF Code, Frame
  <2>2. Inner(gs, n + 1, d)
    <3>1. CASE d = NoWind /\ \A j \in 1 .. n : fs[j].wind = NoWind
      BY <1>1, <2>1, <3>1 DEF Inner
    <3>2. CASE d # NoWind /\ \E j \in 1 .. n : fs[j].wind = d /\ \A k \in j + 1 .. n : fs[k].wind = NoWind
      <4>1. PICK j \in 1 .. n : fs[j].wind = d /\ \A k \in j + 1 .. n : fs[k].wind = NoWind
        BY <3>2
      <4>2. \A k \in j + 1 .. n + 1 : k = n + 1 \/ (k \in j + 1 .. n /\ k \in 1 .. n)
        BY <1>1
      <4>3. j \in 1 .. n + 1 /\ gs[j].wind = d /\ \A k \in j + 1 .. n + 1 : gs[k].wind = NoWind
        BY <1>1, <2>1, <4>1, <4>2
      <4> QED
        BY <3>2, <4>3 DEF Inner
    <3> QED
      BY <1>6, <3>1, <3>2 DEF Formed, Inner
  <2> QED
    BY <1>1, <1>5, <1>6, <2>1, <2>2 DEF Formed
<1>7. ASSUME f.wind # NoWind, f.part \in Parts, st[f.wind] # "unused",
             Formed(fs, pr[f.wind], pr, st), \A w \in WindsOf(fs) : w < f.wind
      PROVE  Formed(gs, f.wind, pr, st)
  <2>1. Inner(gs, n + 1, f.wind)
    <3>1. n + 1 \in 1 .. n + 1 /\ \A k : k \notin (n + 1) + 1 .. n + 1
      BY <1>1
    <3> QED
      BY <1>1, <1>7, <3>1 DEF Inner
  <2>2. Inner(gs, (n + 1) - 1, pr[f.wind])
    <3>1. n \in 0 .. n /\ (n + 1) - 1 = n
      BY <1>1
    <3> QED
      BY <1>4, <1>7, <3>1 DEF Formed
  <2>3. ASSUME NEW j \in 1 .. (n + 1) - 1
        PROVE  gs[j].wind < f.wind
    <3>1. j \in 1 .. n /\ gs[j] = fs[j]
      BY <1>1
    <3>2. CASE fs[j].wind = NoWind
      <4>1. f.wind \in Winds
        BY <1>7, ConstantsAssumption DEF Frames, Winds, NoWind
      <4>2. 0 < f.wind
        BY <4>1, ConstantsAssumption DEF Winds
      <4> QED
        BY <3>1, <3>2, <4>2 DEF NoWind
    <3>3. CASE fs[j].wind # NoWind
      <4>1. fs[j].wind \in WindsOf(fs)
        BY <3>1, <3>3 DEF WindsOf, WindsUpTo
      <4> QED
        BY <1>7, <3>1, <4>1
    <3> QED
      BY <3>2, <3>3
  <2> QED
    BY <1>1, <1>5, <1>7, <2>1, <2>2, <2>3 DEF Formed
<1> QED
  BY <1>1, <1>2, <1>3, <1>6, <1>7 DEF gs

(* The last frame taken away: its wind was the innermost.                  *)
LEMMA FrameTaken ==
  ASSUME NEW fs \in FrameSeq, fs # <<>>, NEW d, NEW pr, NEW st, Formed(fs, d, pr, st)
  PROVE  LET f == Top(fs) IN
         /\ f \in Frames /\ Front(fs) \in FrameSeq
         /\ WindsOf(fs) = WindsOf(Front(fs)) \union ({f.wind} \ {NoWind})
         /\ Formed(Front(fs), IF f.wind = NoWind THEN d ELSE pr[f.wind], pr, st)
         /\ f.wind # NoWind =>
              /\ f.part \in Parts /\ f.wind = d /\ f.wind \in Winds /\ f.wind \in WindsOf(fs)
              /\ \A w \in WindsOf(Front(fs)) : w < f.wind
         /\ Fits(fs, st) => /\ Fits(Front(fs), st)
                            /\ f.wind # NoWind => f.part = st[f.wind]
<1> DEFINE gs == Front(fs)
           n == Len(fs)
           f == Top(fs)
           e == IF f.wind = NoWind THEN d ELSE pr[f.wind]
<1>1. /\ gs \in FrameSeq /\ Len(gs) = n - 1 /\ n \in Nat \ {0} /\ f = fs[n] /\ n \in 1 .. n
      /\ \A i \in 1 .. n - 1 : gs[i] = fs[i]
  BY LastAndFront DEF FrameSeq
<1>2. f \in Frames /\ (f.wind # NoWind => f.wind \in Winds)
  BY <1>1, FrameFacts
<1>3. \A i : i \in 1 .. n <=> i \in 1 .. n - 1 \/ i = n
  BY <1>1
<1> HIDE DEF gs, f
<1>4. WindsOf(fs) = WindsOf(gs) \union ({f.wind} \ {NoWind})
  <2>1. {fs[i].wind : i \in 1 .. n} = {gs[i].wind : i \in 1 .. n - 1} \union {f.wind}
    BY <1>1, <1>3
  <2> QED
    BY <1>1, <2>1 DEF WindsOf, WindsUpTo
<1>5. Fits(fs, st) => Fits(gs, st) /\ (f.wind # NoWind => f.part = st[f.wind])
  BY <1>1, <1>3 DEF Fits
<1>6. ASSUME NEW m \in 0 .. n - 1, NEW w, Inner(fs, m, w)
      PROVE  Inner(gs, m, w)
  <2>1. \A j \in 1 .. m : j \in 1 .. n - 1 /\ \A k \in j + 1 .. m : k \in 1 .. n - 1
    BY <1>1
  <2>2. \A j \in 1 .. m : gs[j] = fs[j] /\ \A k \in j + 1 .. m : gs[k] = fs[k]
    BY <1>1, <2>1
  <2> QED
    BY <1>6, <2>2 DEF Inner
<1>7. ASSUME NEW i \in 1 .. n - 1
      PROVE  /\ gs[i].wind = NoWind => gs[i].part = "code"
             /\ gs[i].wind # NoWind =>
                  /\ gs[i].part \in Parts /\ st[gs[i].wind] # "unused"
                  /\ Inner(gs, i - 1, pr[gs[i].wind])
                  /\ \A j \in 1 .. i - 1 : gs[j].wind < gs[i].wind
  <2>1. i - 1 \in 0 .. n - 1 /\ i \in 1 .. n /\ \A j \in 1 .. i - 1 : j \in 1 .. n - 1
    BY <1>1
  <2>2. gs[i] = fs[i] /\ \A j \in 1 .. i - 1 : gs[j] = fs[j]
    BY <1>1, <2>1
  <2>3. Inner(fs, i - 1, pr[fs[i].wind]) => Inner(gs, i - 1, pr[fs[i].wind])
    BY <1>6, <2>1
  <2> QED
    BY <2>1, <2>2, <2>3 DEF Formed
<1>8. /\ f.wind # NoWind => /\ f.part \in Parts /\ Inner(fs, n - 1, pr[f.wind])
                            /\ \A j \in 1 .. n - 1 : fs[j].wind < f.wind
      /\ Inner(fs, n, d)
  BY <1>1 DEF Formed
<1>9. f.wind # NoWind => f.wind = d
  <2>1. ASSUME f.wind # NoWind
        PROVE  f.wind = d
    <3>1. ~(d = NoWind /\ \A j \in 1 .. n : fs[j].wind = NoWind)
      BY <1>1, <2>1
    <3>2. PICK j \in 1 .. n : fs[j].wind = d /\ \A k \in j + 1 .. n : fs[k].wind = NoWind
      BY <1>8, <3>1 DEF Inner
    <3>3. j # n => n \in j + 1 .. n
      BY <1>1
    <3> QED
      BY <1>1, <2>1, <3>2, <3>3
  <2> QED
    BY <2>1
<1>10. \A w \in WindsOf(gs) : f.wind # NoWind => w < f.wind
  BY <1>1, <1>8 DEF WindsOf, WindsUpTo
<1>11. Inner(fs, n - 1, e)
  <2>1. CASE f.wind # NoWind
    BY <1>8, <2>1
  <2>2. CASE f.wind = NoWind
    <3>1. CASE d = NoWind /\ \A j \in 1 .. n : fs[j].wind = NoWind
      BY <1>3, <2>2, <3>1 DEF Inner
    <3>2. CASE d # NoWind /\ \E j \in 1 .. n : fs[j].wind = d /\ \A k \in j + 1 .. n : fs[k].wind = NoWind
      <4>1. PICK j \in 1 .. n : fs[j].wind = d /\ \A k \in j + 1 .. n : fs[k].wind = NoWind
        BY <3>2
      <4>2. j # n
        BY <1>1, <2>2, <3>2, <4>1
      <4>3. j \in 1 .. n - 1 /\ \A k \in j + 1 .. n - 1 : k \in j + 1 .. n
        BY <1>1, <4>2
      <4> QED
        BY <2>2, <3>2, <4>1, <4>3 DEF Inner
    <3> QED
      BY <1>8, <3>1, <3>2 DEF Inner
  <2> QED
    BY <2>1, <2>2
<1>12. Formed(gs, e, pr, st)
  <2>1. n - 1 \in 0 .. n - 1
    BY <1>1
  <2>2. Inner(gs, n - 1, e)
    BY <1>6, <1>11, <2>1
  <2> HIDE DEF e
  <2> QED
    BY <1>1, <1>7, <2>2 DEF Formed
<1>13. f.wind # NoWind => f.wind \in WindsOf(fs)
  BY <1>4
<1> QED
  BY <1>1, <1>2, <1>4, <1>5, <1>8, <1>9, <1>10, <1>12, <1>13 DEF gs, f

(* What happens to other winds does not matter.                            *)
LEMMA FormedStays ==
  ASSUME NEW fs \in FrameSeq, NEW d, NEW pr, NEW st, NEW qr, NEW tt, Formed(fs, d, pr, st),
         \A w \in WindsOf(fs) : qr[w] = pr[w] /\ tt[w] # "unused"
  PROVE  Formed(fs, d, qr, tt)
<1>1. \A i \in 1 .. Len(fs) : fs[i].wind # NoWind => fs[i].wind \in WindsOf(fs)
  BY DEF WindsOf, WindsUpTo
<1> QED
  BY <1>1 DEF Formed

LEMMA FitsStays ==
  ASSUME NEW fs \in FrameSeq, NEW st, NEW tt, Fits(fs, st),
         \A w \in WindsOf(fs) : tt[w] = st[w]
  PROVE  Fits(fs, tt)
BY DEF Fits, WindsOf, WindsUpTo

LEMMA WindsAreUsed ==
  ASSUME NEW fs \in FrameSeq, NEW d, NEW pr, NEW st, Formed(fs, d, pr, st)
  PROVE  /\ \A w \in WindsOf(fs) : st[w] # "unused"
         /\ d = NoWind \/ d \in WindsOf(fs)
<1>1. \A w \in WindsOf(fs) : st[w] # "unused"
  BY DEF Formed, WindsOf, WindsUpTo
<1>2. d = NoWind \/ d \in WindsOf(fs)
  BY DEF Formed, Inner, WindsOf, WindsUpTo
<1> QED
  BY <1>1, <1>2

-----------------------------------------------------------------------------
(* The invariant behind the properties, for programs whose jumps do not go *)
(* back into thunks that returned, do not leave a thunk for the extent of  *)
(* its own dynamic-wind, and stay in their level.                          *)

PlainJumps == Uses \intersect {"thunk reentry", "thunk jumps in", "level jump"} = {}

LevelType == [frames : FrameSeq, dywind : 0 .. MaxWinds, name : Nat]
SavedType ==
  [frames : FrameSeq, dywind : 0 .. MaxWinds, home : Nat, dystage : Stages \union {"none"}]

(* Winds are made in order.                                                *)
UsedFirst == \A x, y \in Winds : x < y /\ stage[x] = "unused" => stage[y] = "unused"

LevelsWound ==
  \A l \in 1 .. Len(level) : /\ Formed(level[l].frames, level[l].dywind, parent, stage)
                             /\ Fits(level[l].frames, stage)

(* A wind is on the stack of one level only.                               *)
LevelsApart ==
  \A l, m \in 1 .. Len(level) : l # m =>
    /\ level[l].name # level[m].name
    /\ WindsOf(level[l].frames) \intersect WindsOf(level[m].frames) = {}

(* The frames of the continuation nest, and share no wind with a level     *)
(* that it does not belong to.  Its frames need not fit the stages.        *)
SavedWound ==
  \A s \in 1 .. Len(saved) :
    /\ Formed(saved[s].frames, saved[s].dywind, parent, stage)
    /\ \A l \in 1 .. Len(level) : level[l].name # saved[s].home =>
         WindsOf(level[l].frames) \intersect WindsOf(saved[s].frames) = {}

OnStack(w) == \E l \in 1 .. Len(level) : w \in WindsOf(level[l].frames)
Balanced == \A w \in Winds : owed[w] = IF OnStack(w) /\ stage[w] = "body" THEN 1 ELSE 0

Wound ==
  /\ TypeOK /\ level # <<>> /\ Len(saved) \in 0 .. 1 /\ ~fault
  /\ UsedFirst /\ LevelsWound /\ LevelsApart /\ SavedWound /\ Balanced

(* What is known of the level that runs, and of the others.                *)
LEMMA LevelFacts ==
  ASSUME Wound
  PROVE  /\ ParentsFirst /\ MaxWinds \in Nat
         /\ Len(level) \in Nat \ {0} /\ Len(level) \in 1 .. Len(level)
         /\ level \in Seq(LevelType) /\ Top(level) = level[Len(level)] /\ Top(level) \in LevelType
         /\ \A l \in 1 .. Len(level) : level[l] \in LevelType /\ level[l].frames \in FrameSeq
         /\ frames = level[Len(level)].frames /\ frames \in FrameSeq
         /\ dywind = level[Len(level)].dywind /\ dywind \in 0 .. MaxWinds
         /\ WindsOf(frames) \subseteq Winds
         /\ Formed(frames, dywind, parent, stage) /\ Fits(frames, stage)
         /\ saved \in Seq(SavedType)
         /\ \A s \in 1 .. Len(saved) : saved[s] \in SavedType /\ saved[s].frames \in FrameSeq
         /\ Chain(dywind) = WindsOf(frames)
<1>1. level \in Seq(LevelType) /\ level # <<>> /\ saved \in Seq(SavedType)
  BY DEF Wound, TypeOK, LevelType, SavedType, FrameSeq
<1>2. /\ Len(level) \in Nat \ {0} /\ Len(level) \in 1 .. Len(level)
      /\ Top(level) = level[Len(level)] /\ Top(level) \in LevelType
  BY <1>1, LastAndFront
<1>3. /\ \A l \in 1 .. Len(level) : level[l] \in LevelType
      /\ \A s \in 1 .. Len(saved) : saved[s] \in SavedType
  BY <1>1
<1>4. /\ \A l \in 1 .. Len(level) : level[l].frames \in FrameSeq /\ level[l].dywind \in 0 .. MaxWinds
      /\ \A s \in 1 .. Len(saved) : saved[s].frames \in FrameSeq
  BY <1>3 DEF LevelType, SavedType
<1>5. /\ frames = level[Len(level)].frames /\ frames \in FrameSeq
      /\ dywind = level[Len(level)].dywind /\ dywind \in 0 .. MaxWinds
  BY <1>2, <1>4 DEF frames, dywind
<1>6. Formed(frames, dywind, parent, stage) /\ Fits(frames, stage)
  BY <1>2, <1>5 DEF Wound, LevelsWound
<1>7. ParentsFirst /\ MaxWinds \in Nat
  BY ConstantsAssumption DEF Wound, TypeOK, ParentsFirst
<1>8. Chain(dywind) = WindsOf(frames) /\ WindsOf(frames) \subseteq Winds
  BY <1>5, <1>6, <1>7, ChainIsFrames, FrameFacts
<1> QED
  BY <1>1, <1>2, <1>3, <1>4, <1>5, <1>6, <1>7, <1>8

(* The level that runs goes on with other frames.                          *)
LEMMA GoingOn ==
  ASSUME Wound, NEW fs \in FrameSeq, NEW d \in 0 .. MaxWinds, GoOn(fs, d),
         saved' = saved, fault' = fault,
         ParentsFirst', stage' \in [Winds -> Stages], owed' \in [Winds -> Int], UsedFirst',
         \A w \in Winds : stage[w] # "unused" => parent'[w] = parent[w] /\ stage'[w] # "unused",
         \A w \in Winds : w \notin WindsOf(frames) \union WindsOf(fs)
                            => stage'[w] = stage[w] /\ owed'[w] = owed[w],
         \A w \in WindsOf(frames) \union WindsOf(fs) :
           owed'[w] = IF w \in WindsOf(fs) /\ stage'[w] = "body" THEN 1 ELSE 0,
         Formed(fs, d, parent', stage'), Fits(fs, stage'),
         \A l \in 1 .. Len(level) - 1 : WindsOf(fs) \intersect WindsOf(level[l].frames) = {},
         \A s \in 1 .. Len(saved) : Top(level).name # saved[s].home =>
           WindsOf(fs) \intersect WindsOf(saved[s].frames) = {}
  PROVE  Wound'
<1> DEFINE n == Len(level)
           L == [Top(level) EXCEPT !.frames = fs, !.dywind = d]
<1>1. /\ n \in Nat \ {0} /\ level \in Seq(LevelType) /\ level # <<>>
      /\ Top(level) = level[n] /\ Top(level) \in LevelType /\ frames = level[n].frames
      /\ \A l \in 1 .. n : level[l].frames \in FrameSeq
      /\ \A s \in 1 .. Len(saved) : saved[s].frames \in FrameSeq
      /\ n \in 1 .. n
  BY LevelFacts DEF Wound
<1>2. L \in LevelType /\ L.frames = fs /\ L.dywind = d /\ L.name = level[n].name
  BY <1>1 DEF LevelType
<1> HIDE DEF L
<1>3. /\ level' \in Seq(LevelType) /\ Len(level') = n /\ level' # <<>> /\ level'[n] = L
      /\ \A l \in 1 .. n - 1 : level'[l] = level[l]
  <2>1. /\ Front(level) \in Seq(LevelType) /\ Len(Front(level)) = n - 1
        /\ \A l \in 1 .. n - 1 : Front(level)[l] = level[l]
    BY <1>1, LastAndFront
  <2>2. level' = Append(Front(level), L) /\ (n - 1) + 1 = n
    BY <1>1 DEF GoOn, L
  <2> QED
    BY <1>2, <2>1, <2>2, OneMore
<1>4. /\ \A l : l \in 1 .. n <=> l \in 1 .. n - 1 \/ l = n
      /\ n \notin 1 .. n - 1
  BY <1>1
<1>5. TypeOK'
  <2>1. saved' \in Seq(SavedType) /\ level' \in Seq(LevelType) /\ fault' \in BOOLEAN
    BY <1>3, LevelFacts DEF Wound, TypeOK
  <2> QED
    BY <2>1 DEF TypeOK, ParentsFirst, LevelType, SavedType, FrameSeq
<1>6. \A l \in 1 .. n - 1 : WindsOf(level[l].frames) \intersect WindsOf(frames) = {}
  BY <1>1, <1>4 DEF Wound, LevelsApart
<1>7. \A l \in 1 .. n - 1 : \A w \in WindsOf(level[l].frames) :
        /\ w \in Winds /\ stage[w] # "unused" /\ parent'[w] = parent[w]
        /\ stage'[w] = stage[w] /\ owed'[w] = owed[w]
  <2>1. ASSUME NEW l \in 1 .. n - 1, NEW w \in WindsOf(level[l].frames)
        PROVE  /\ w \in Winds /\ stage[w] # "unused" /\ parent'[w] = parent[w]
               /\ stage'[w] = stage[w] /\ owed'[w] = owed[w]
    <3>1. w \in Winds
      BY <1>1, <1>4, FrameFacts
    <3>2. stage[w] # "unused"
      <4>1. Formed(level[l].frames, level[l].dywind, parent, stage)
        BY <1>4 DEF Wound, LevelsWound
      <4> QED
        BY <1>1, <1>4, <4>1, WindsAreUsed
    <3>3. w \notin WindsOf(frames) \union WindsOf(fs)
      BY <1>6
    <3> QED
      BY <3>1, <3>2, <3>3
  <2> QED
    BY <2>1
<1>8. LevelsWound'
  <2>1. ASSUME NEW l \in 1 .. n - 1
        PROVE  /\ Formed(level[l].frames, level[l].dywind, parent', stage')
               /\ Fits(level[l].frames, stage')
    <3> DEFINE F == level[l].frames
               D == level[l].dywind
    <3>1. Formed(F, D, parent, stage) /\ Fits(F, stage) /\ F \in FrameSeq
      BY <1>1, <1>4 DEF Wound, LevelsWound
    <3>2. \A w \in WindsOf(F) : parent'[w] = parent[w] /\ stage'[w] # "unused" /\ stage'[w] = stage[w]
      BY <1>7
    <3> HIDE DEF F, D
    <3>3. Formed(F, D, parent', stage')
      BY <3>1, <3>2, FormedStays
    <3>4. Fits(F, stage')
      BY <3>1, <3>2, FitsStays
    <3> QED
      BY <3>3, <3>4 DEF F, D
  <2>2. ASSUME NEW l \in 1 .. n
        PROVE  /\ Formed(level'[l].frames, level'[l].dywind, parent', stage')
               /\ Fits(level'[l].frames, stage')
    BY <1>2, <1>3, <1>4, <2>1
  <2> QED
    BY <1>3, <2>2 DEF LevelsWound
<1>9. LevelsApart'
  <2>1. /\ level'[n].name = level[n].name /\ level'[n].frames = fs
        /\ \A l \in 1 .. n - 1 : /\ level'[l].name = level[l].name
                                  /\ level'[l].frames = level[l].frames
                                  /\ WindsOf(fs) \intersect WindsOf(level[l].frames) = {}
                                  /\ WindsOf(level[l].frames) \intersect WindsOf(fs) = {}
    BY <1>2, <1>3
  <2>2. \A l, m \in 1 .. n : l # m =>
          /\ level[l].name # level[m].name
          /\ WindsOf(level[l].frames) \intersect WindsOf(level[m].frames) = {}
    BY DEF Wound, LevelsApart
  <2>3. ASSUME NEW l \in 1 .. n, NEW m \in 1 .. n, l # m
        PROVE  /\ level'[l].name # level'[m].name
               /\ WindsOf(level'[l].frames) \intersect WindsOf(level'[m].frames) = {}
    <3>1. CASE l = n
      <4>1. m \in 1 .. n - 1
        BY <1>4, <2>3, <3>1
      <4> QED
        BY <2>1, <2>2, <2>3, <3>1, <4>1
    <3>2. CASE m = n
      <4>1. l \in 1 .. n - 1
        BY <1>4, <2>3, <3>2
      <4> QED
        BY <2>1, <2>2, <2>3, <3>2, <4>1
    <3>3. CASE l # n /\ m # n
      <4>1. l \in 1 .. n - 1 /\ m \in 1 .. n - 1
        BY <1>4, <3>3
      <4>2. level'[l] = level[l] /\ level'[m] = level[m]
        BY <1>3, <4>1
      <4> QED
        BY <2>2, <2>3, <4>2
    <3> QED
      BY <3>1, <3>2, <3>3
  <2> QED
    BY <1>3, <2>3 DEF LevelsApart
<1>10. SavedWound'
  <2>1. ASSUME NEW s \in 1 .. Len(saved)
        PROVE  /\ Formed(saved[s].frames, saved[s].dywind, parent', stage')
               /\ \A l \in 1 .. n : level'[l].name # saved[s].home =>
                    WindsOf(level'[l].frames) \intersect WindsOf(saved[s].frames) = {}
    <3>1. /\ Formed(saved[s].frames, saved[s].dywind, parent, stage)
          /\ \A l \in 1 .. n : level[l].name # saved[s].home =>
               WindsOf(level[l].frames) \intersect WindsOf(saved[s].frames) = {}
      BY DEF Wound, SavedWound
    <3> DEFINE F == saved[s].frames
               D == saved[s].dywind
    <3>2. \A w \in WindsOf(F) : w \in Winds /\ stage[w] # "unused"
      BY <1>1, <3>1, FrameFacts, WindsAreUsed
    <3>3. \A w \in WindsOf(F) : parent'[w] = parent[w] /\ stage'[w] # "unused"
      BY <3>2
    <3>4. Formed(F, D, parent', stage')
      <4>1. F \in FrameSeq /\ Formed(F, D, parent, stage)
        BY <1>1, <3>1
      <4> HIDE DEF F, D
      <4> QED
        BY <3>3, <4>1, FormedStays
    <3> QED
      BY <1>1, <1>2, <1>3, <1>4, <3>1, <3>4, ZenonT(60)
  <2> QED
    BY <1>3, <2>1 DEF SavedWound
<1>11. Balanced'
  <2>1. ASSUME NEW w \in Winds
        PROVE  owed'[w] = IF (\E l \in 1 .. n : w \in WindsOf(level'[l].frames)) /\ stage'[w] = "body"
                          THEN 1 ELSE 0
    <3>1. (\E l \in 1 .. n : w \in WindsOf(level'[l].frames))
            <=> w \in WindsOf(fs) \/ \E l \in 1 .. n - 1 : w \in WindsOf(level[l].frames)
      BY <1>2, <1>3, <1>4
    <3>2. (\E l \in 1 .. n : w \in WindsOf(level[l].frames))
            <=> w \in WindsOf(frames) \/ \E l \in 1 .. n - 1 : w \in WindsOf(level[l].frames)
      BY <1>1, <1>4
    <3>3. CASE w \in WindsOf(frames) \union WindsOf(fs)
      <4>1. \A l \in 1 .. n - 1 : w \notin WindsOf(level[l].frames)
        BY <1>6, <3>3
      <4> QED
        BY <3>1, <3>3, <4>1
    <3>4. CASE w \notin WindsOf(frames) \union WindsOf(fs)
      <4>1. owed[w] = IF (\E l \in 1 .. n : w \in WindsOf(level[l].frames)) /\ stage[w] = "body"
                      THEN 1 ELSE 0
        BY DEF Wound, Balanced, OnStack
      <4>2. stage'[w] = stage[w] /\ owed'[w] = owed[w]
        BY <3>4
      <4> QED
        BY <3>1, <3>2, <3>4, <4>1, <4>2
    <3> QED
      BY <3>3, <3>4
  <2> QED
    BY <1>3, <2>1 DEF Balanced, OnStack
<1> QED
  BY <1>3, <1>5, <1>8, <1>9, <1>10, <1>11 DEF Wound

(* The level that runs is left, and the after thunks of the bodies on its  *)
(* stack have run.                                                         *)
LEMMA Leaving ==
  ASSUME Wound, level' = IF Len(level) > 1 THEN Front(level) ELSE <<BaseLevel>>,
         UNCHANGED <<parent, stage, saved, fault>>, owed' \in [Winds -> Int],
         \A w \in Winds : w \notin WindsOf(frames) => owed'[w] = owed[w],
         \A w \in WindsOf(frames) : owed'[w] = 0
  PROVE  Wound'
<1> DEFINE n == Len(level)
<1>1. /\ n \in Nat \ {0} /\ level \in Seq(LevelType) /\ level # <<>>
      /\ frames = level[n].frames /\ saved \in Seq(SavedType)
      /\ WindsOf(frames) \subseteq Winds /\ MaxWinds \in Nat
  BY LevelFacts DEF Wound
<1>2. \A l \in 1 .. n : WindsOf(level[l].frames) \subseteq Winds
  BY LevelFacts, FrameFacts
<1>3. \A w \in Winds : owed[w] = IF (\E l \in 1 .. n : w \in WindsOf(level[l].frames)) /\ stage[w] = "body"
                                 THEN 1 ELSE 0
  BY DEF Wound, Balanced, OnStack
<1>4. \A l : l \in 1 .. n <=> l \in 1 .. n - 1 \/ l = n
  BY <1>1
<1>5. CASE n > 1
  <2>1. /\ level' \in Seq(LevelType) /\ Len(level') = n - 1 /\ level' # <<>>
        /\ \A l \in 1 .. n - 1 : level'[l] = level[l]
    <3>1. /\ Front(level) \in Seq(LevelType) /\ Len(Front(level)) = n - 1
          /\ \A l \in 1 .. n - 1 : Front(level)[l] = level[l]
      BY <1>1, LastAndFront
    <3>2. level' = Front(level)
      BY <1>5
    <3>3. Len(level') # 0
      <4>1. \A m \in Nat : m > 1 => m - 1 # 0
        OBVIOUS
      <4> QED
        BY <1>1, <1>5, <3>1, <3>2, <4>1
    <3>4. level' # <<>>
      BY <3>3
    <3> QED
      BY <3>1, <3>2, <3>4
  <2>2. TypeOK'
    BY <1>1, <2>1 DEF Wound, TypeOK, LevelType, SavedType, FrameSeq
  <2>3. LevelsWound' /\ UsedFirst'
    BY <1>4, <2>1 DEF Wound, LevelsWound, UsedFirst
  <2>4. LevelsApart'
    <3>1. \A l, m \in 1 .. n : l # m =>
            /\ level[l].name # level[m].name
            /\ WindsOf(level[l].frames) \intersect WindsOf(level[m].frames) = {}
      BY DEF Wound, LevelsApart
    <3>2. ASSUME NEW l \in 1 .. Len(level'), NEW m \in 1 .. Len(level'), l # m
          PROVE  /\ level'[l].name # level'[m].name
                 /\ WindsOf(level'[l].frames) \intersect WindsOf(level'[m].frames) = {}
      <4>1. l \in 1 .. n /\ m \in 1 .. n /\ level'[l] = level[l] /\ level'[m] = level[m]
        BY <1>4, <2>1
      <4> QED
        BY <3>1, <3>2, <4>1
    <3> QED
      BY <3>2 DEF LevelsApart
  <2>5. SavedWound'
    BY <1>4, <2>1, ZenonT(60) DEF Wound, SavedWound
  <2>6. Balanced'
    <3>1. ASSUME NEW w \in Winds
          PROVE  owed'[w] = IF (\E l \in 1 .. n - 1 : w \in WindsOf(level'[l].frames)) /\ stage[w] = "body"
                            THEN 1 ELSE 0
      <4>1. (\E l \in 1 .. n - 1 : w \in WindsOf(level'[l].frames))
              <=> \E l \in 1 .. n - 1 : w \in WindsOf(level[l].frames)
        BY <2>1
      <4>2. (\E l \in 1 .. n : w \in WindsOf(level[l].frames))
              <=> w \in WindsOf(frames) \/ \E l \in 1 .. n - 1 : w \in WindsOf(level[l].frames)
        BY <1>1, <1>4
      <4>3. CASE w \in WindsOf(frames)
        <5>1. \A l \in 1 .. n - 1 : w \notin WindsOf(level[l].frames)
          <6>1. \A l \in 1 .. n - 1 : l # n /\ l \in 1 .. n /\ n \in 1 .. n
            BY <1>1
          <6>2. \A l \in 1 .. n - 1 : WindsOf(level[l].frames) \intersect WindsOf(frames) = {}
            BY <1>1, <6>1 DEF Wound, LevelsApart
          <6> QED
            BY <4>3, <6>2
        <5> QED
          BY <4>1, <4>3, <5>1
      <4>4. CASE w \notin WindsOf(frames)
        BY <1>3, <4>1, <4>2, <4>4
      <4> QED
        BY <4>3, <4>4
    <3> QED
      BY <2>1, <3>1 DEF Balanced, OnStack
  <2> QED
    BY <2>1, <2>2, <2>3, <2>4, <2>5, <2>6 DEF Wound
<1>6. CASE ~(n > 1)
  <2>1. n = 1
    BY <1>1, <1>6
  <2>2. /\ level' = <<BaseLevel>> /\ Len(level') = 1 /\ level'[1] = BaseLevel /\ level' # <<>>
        /\ \A l \in 1 .. 1 : l = 1
    BY <1>6
  <2>3. BaseLevel \in LevelType /\ BaseLevel.frames = <<>> /\ BaseLevel.dywind = NoWind
    BY <1>1, NoFrames DEF BaseLevel, LevelType, NoWind
  <2>4. TypeOK'
    <3>1. level' \in Seq(LevelType)
      <4>1. \A b \in LevelType : <<b>> \in Seq(LevelType)
        OBVIOUS
      <4> QED
        BY <2>2, <2>3, <4>1
    <3> QED
      BY <1>1, <3>1 DEF Wound, TypeOK, LevelType, SavedType, FrameSeq
  <2>5. LevelsWound' /\ UsedFirst' /\ LevelsApart'
    <3>1. Formed(<<>>, NoWind, parent, stage) /\ Fits(<<>>, stage)
      BY NoFrames
    <3>2. LevelsWound'
      BY <2>2, <2>3, <3>1 DEF LevelsWound
    <3>3. \A l, m \in 1 .. 1 : l = m
      OBVIOUS
    <3>4. LevelsApart'
      BY <2>2, <3>3 DEF LevelsApart
    <3> QED
      BY <3>2, <3>4 DEF Wound, UsedFirst
  <2>6. WindsOf(<<>>) = {}
    BY NoFrames
  <2>7. SavedWound'
    <3>1. \A l \in 1 .. Len(level') : WindsOf(level'[l].frames) = {}
      BY <2>2, <2>3, <2>6
    <3> QED
      BY <3>1 DEF Wound, SavedWound
  <2>8. Balanced'
    <3>1. \A w : (\E l \in 1 .. Len(level') : w \in WindsOf(level'[l].frames)) <=> FALSE
      BY <2>2, <2>3, <2>6
    <3>2. \A w \in Winds : w \notin WindsOf(frames) => owed[w] = 0
      <4>1. \A l \in 1 .. n : l = n
        BY <2>1
      <4> QED
        BY <1>1, <1>3, <4>1
    <3>3. \A w \in Winds : owed'[w] = 0
      BY <3>2
    <3> QED
      BY <3>1, <3>3 DEF Balanced, OnStack
  <2> QED
    BY <2>2, <2>4, <2>5, <2>7, <2>8 DEF Wound
<1> QED
  BY <1>5, <1>6

(* An error leaves the level that runs, and runs the after thunks of the   *)
(* bodies on its stack.                                                    *)
LEMMA Raising ==
  ASSUME Wound, Raise(dywind), UNCHANGED <<parent, stage, saved, fault>>
  PROVE  Wound'
<1>1. Chain(dywind) = WindsOf(frames) /\ WindsOf(frames) \subseteq Winds
      /\ frames = level[Len(level)].frames /\ Len(level) \in 1 .. Len(level)
  BY LevelFacts
<1>2. owed \in [Winds -> Int]
  BY DEF Wound, TypeOK
<1>3. \A w \in Winds : owed'[w] = owed[w] - IF w \in Chain(dywind) /\ stage[w] = "body" THEN 1 ELSE 0
  BY <1>1, <1>2 DEF Raise, Owe
<1>4. \A w \in WindsOf(frames) : owed[w] = IF stage[w] = "body" THEN 1 ELSE 0
  BY <1>1 DEF Wound, Balanced, OnStack
<1>5. owed' \in [Winds -> Int]
  BY <1>2 DEF Raise, Owe
<1>6. /\ \A w \in Winds : w \notin WindsOf(frames) => owed'[w] = owed[w]
      /\ \A w \in WindsOf(frames) : owed'[w] = 0
  BY <1>1, <1>2, <1>3, <1>4
<1>7. level' = IF Len(level) > 1 THEN Front(level) ELSE <<BaseLevel>>
  BY DEF Raise
<1> QED
  BY <1>5, <1>6, <1>7, Leaving

-----------------------------------------------------------------------------
(* The steps.                                                              *)

(* Other frames with the same winds, or fewer at rest.                     *)
LEMMA SameWinds ==
  ASSUME Wound, NEW fs \in FrameSeq, NEW d \in 0 .. MaxWinds, GoOn(fs, d),
         UNCHANGED <<parent, stage, saved, owed, fault>>,
         Formed(fs, d, parent, stage), Fits(fs, stage), WindsOf(fs) = WindsOf(frames)
  PROVE  Wound'
<1> DEFINE n == Len(level)
<1>1. /\ ParentsFirst /\ n \in 1 .. n /\ frames = level[n].frames /\ Top(level) = level[n]
      /\ \A l \in 1 .. n - 1 : l \in 1 .. n /\ l # n
      /\ WindsOf(frames) \subseteq Winds
  <2>1. n \in Nat
    BY LevelFacts
  <2> QED
    BY <2>1, LevelFacts
<1>2. ParentsFirst' /\ stage' \in [Winds -> Stages] /\ owed' \in [Winds -> Int] /\ UsedFirst'
  BY <1>1 DEF Wound, TypeOK, ParentsFirst, UsedFirst
<1>3. \A l \in 1 .. n - 1 : WindsOf(fs) \intersect WindsOf(level[l].frames) = {}
  BY <1>1 DEF Wound, LevelsApart
<1>4. \A s \in 1 .. Len(saved) : Top(level).name # saved[s].home =>
        WindsOf(fs) \intersect WindsOf(saved[s].frames) = {}
  BY <1>1 DEF Wound, SavedWound
<1>5. \A w \in WindsOf(frames) : owed[w] = IF stage[w] = "body" THEN 1 ELSE 0
  BY <1>1 DEF Wound, Balanced, OnStack
<1>6. \A w \in WindsOf(frames) \union WindsOf(fs) :
        owed'[w] = IF w \in WindsOf(fs) /\ stage'[w] = "body" THEN 1 ELSE 0
  BY <1>5
<1>7. Formed(fs, d, parent', stage') /\ Fits(fs, stage')
  OBVIOUS
<1> QED
  BY <1>2, <1>3, <1>4, <1>6, <1>7, GoingOn

LEMMA PlainSteps ==
  ASSUME Wound, Form \/ Call \/ Return \/ Fail
  PROVE  Wound'
<1>1. /\ frames \in FrameSeq /\ dywind \in 0 .. MaxWinds /\ MaxWinds \in Nat
      /\ Formed(frames, dywind, parent, stage) /\ Fits(frames, stage)
      /\ owed \in [Winds -> Int] /\ Len(level) \in Nat
  BY LevelFacts DEF Wound, TypeOK
<1>2. Code \in Frames /\ Code.wind = NoWind
  BY <1>1 DEF Code, Frame, Frames, NoWind
<1>3. /\ Append(frames, Code) \in FrameSeq
      /\ Formed(Append(frames, Code), dywind, parent, stage)
      /\ Fits(Append(frames, Code), stage)
      /\ WindsOf(Append(frames, Code)) = WindsOf(frames)
  <2> DEFINE F == frames
             D == dywind
             C == Code
  <2>1. F \in FrameSeq /\ Formed(F, D, parent, stage) /\ Fits(F, stage)
    BY <1>1
  <2>2. C \in Frames /\ C.wind = NoWind /\ C = Code
    BY <1>2
  <2> HIDE DEF F, D, C
  <2>3. /\ Append(F, C) \in FrameSeq
        /\ WindsOf(Append(F, C)) = WindsOf(F) \union ({C.wind} \ {NoWind})
        /\ C = Code /\ Formed(F, D, parent, stage) => Formed(Append(F, C), D, parent, stage)
        /\ Fits(F, stage) /\ (C.wind # NoWind => C.part = stage[C.wind]) => Fits(Append(F, C), stage)
    BY <2>1, <2>2, FrameAdded
  <2>4. WindsOf(F) \union ({C.wind} \ {NoWind}) = WindsOf(F)
    BY <2>2
  <2>5. /\ Append(F, C) \in FrameSeq /\ Formed(Append(F, C), D, parent, stage)
        /\ Fits(Append(F, C), stage) /\ WindsOf(Append(F, C)) = WindsOf(F)
    BY <2>1, <2>2, <2>3, <2>4
  <2> QED
    BY <2>5 DEF F, D, C
<1>a. CASE Form
  <2>1. frames = <<>> /\ GoOn(<<Code>>, dywind) /\ UNCHANGED <<parent, stage, saved, owed, fault>>
    BY <1>a DEF Form, Running
  <2>2. Append(<<>>, Code) = <<Code>>
    OBVIOUS
  <2> QED
    BY <1>1, <1>3, <2>1, <2>2, SameWinds
<1>b. CASE Call
  <2>1. GoOn(Append(frames, Code), dywind) /\ UNCHANGED <<parent, stage, saved, owed, fault>>
    BY <1>b DEF Call
  <2> HIDE DEF Code
  <2> QED
    BY <1>1, <1>3, <2>1, SameWinds
<1>c. CASE Return
  <2>1. /\ frames # <<>> /\ Top(frames).wind = NoWind
        /\ UNCHANGED <<parent, stage, saved, owed, fault>>
    BY <1>c DEF Return, Running
  <2>2. /\ Front(frames) \in FrameSeq /\ WindsOf(frames) = WindsOf(Front(frames))
        /\ Formed(Front(frames), dywind, parent, stage) /\ Fits(Front(frames), stage)
    <3> DEFINE F == frames
               D == dywind
               f == Top(F)
    <3>1. /\ F \in FrameSeq /\ F # <<>> /\ Formed(F, D, parent, stage) /\ Fits(F, stage)
          /\ f.wind = NoWind
      BY <1>1, <2>1
    <3> HIDE DEF F, D
    <3>2. /\ Front(F) \in FrameSeq
          /\ WindsOf(F) = WindsOf(Front(F)) \union ({f.wind} \ {NoWind})
          /\ Formed(Front(F), IF f.wind = NoWind THEN D ELSE parent[f.wind], parent, stage)
          /\ Fits(F, stage) => Fits(Front(F), stage)
      BY <3>1, FrameTaken
    <3> HIDE DEF f
    <3>3. /\ WindsOf(Front(F)) \union ({f.wind} \ {NoWind}) = WindsOf(Front(F))
          /\ (IF f.wind = NoWind THEN D ELSE parent[f.wind]) = D
      BY <3>1
    <3>4. /\ Front(F) \in FrameSeq /\ WindsOf(F) = WindsOf(Front(F))
          /\ Formed(Front(F), D, parent, stage) /\ Fits(Front(F), stage)
      BY <3>1, <3>2, <3>3
    <3> QED
      BY <3>4 DEF F, D
  <2>3. CASE Len(frames) = 1 /\ Len(level) > 1
    <3>1. level' = Front(level)
      BY <1>c, <2>3 DEF Return
    <3>2. WindsOf(frames) = {}
      <4>1. \A i \in 1 .. 1 : i = 1
        OBVIOUS
      <4> QED
        BY <2>1, <2>3, <4>1 DEF WindsOf, WindsUpTo, Top
    <3> QED
      BY <1>1, <2>1, <2>3, <3>1, <3>2, Leaving
  <2>4. CASE ~(Len(frames) = 1 /\ Len(level) > 1)
    <3>1. GoOn(Front(frames), dywind)
      BY <1>c, <2>4 DEF Return
    <3> QED
      BY <1>1, <2>1, <2>2, <3>1, SameWinds
  <2> QED
    BY <2>3, <2>4
<1>d. CASE Fail
  BY <1>d, Raising DEF Fail
<1> QED
  BY <1>a, <1>b, <1>c, <1>d

LEMMA WindStep ==
  ASSUME Wound, NEW w \in Winds, Wind(w)
  PROVE  Wound'
<1> DEFINE n == Len(level)
           f == Frame(w, "before")
           fs == Append(frames, f)
<1>1. /\ frames \in FrameSeq /\ dywind \in 0 .. MaxWinds /\ MaxWinds \in Nat /\ ParentsFirst
      /\ Formed(frames, dywind, parent, stage) /\ Fits(frames, stage) /\ n \in Nat
      /\ frames = level[n].frames /\ Top(level) = level[n] /\ n \in 1 .. n
      /\ WindsOf(frames) \subseteq Winds
      /\ \A l \in 1 .. n : level[l].frames \in FrameSeq
      /\ \A s \in 1 .. Len(saved) : saved[s].frames \in FrameSeq
  BY LevelFacts
<1>2. /\ stage[w] = "unused" /\ \A x \in 1 .. w - 1 : stage[x] # "unused"
      /\ parent' = [parent EXCEPT ![w] = dywind]
      /\ stage' = [stage EXCEPT ![w] = "before"]
      /\ GoOn(fs, w) /\ UNCHANGED <<saved, owed, fault>>
  BY DEF Wind
<1>3. /\ stage \in [Winds -> Stages] /\ owed \in [Winds -> Int]
      /\ parent \in [Winds -> 0 .. MaxWinds] /\ \A x \in Winds : parent[x] < x
  BY DEF Wound, TypeOK
<1>4. \A x, y \in Winds : x < y /\ stage[x] = "unused" => stage[y] = "unused"
  BY DEF Wound, UsedFirst
<1>5. ASSUME NEW x \in Winds, stage[x] # "unused"
      PROVE  x < w
  <2>1. x # w /\ ~(w < x)
    BY <1>2, <1>4, <1>5
  <2>2. x \in Nat /\ w \in Nat
    BY <1>1 DEF Winds
  <2> QED
    BY <2>1, <2>2
<1>6. \A x \in WindsOf(frames) : stage[x] # "unused" /\ x < w
  BY <1>1, <1>5, WindsAreUsed
<1>7. dywind < w
  <2>1. 0 < w
    BY <1>1 DEF Winds
  <2> QED
    BY <1>1, <1>6, <2>1, WindsAreUsed DEF NoWind
<1>8. /\ ParentsFirst' /\ stage' \in [Winds -> Stages] /\ owed' \in [Winds -> Int]
      /\ parent'[w] = dywind /\ stage'[w] = "before"
      /\ \A x \in Winds : x # w => parent'[x] = parent[x] /\ stage'[x] = stage[x]
  <2>1. parent' \in [Winds -> 0 .. MaxWinds] /\ parent'[w] = dywind
        /\ \A x \in Winds : x # w => parent'[x] = parent[x]
    BY <1>1, <1>2, <1>3
  <2>2. \A x \in Winds : parent'[x] < x
    BY <1>3, <1>7, <2>1
  <2>3. stage' \in [Winds -> Stages] /\ stage'[w] = "before"
        /\ \A x \in Winds : x # w => stage'[x] = stage[x]
    BY <1>2, <1>3 DEF Stages
  <2> QED
    BY <1>2, <1>3, <2>1, <2>2, <2>3 DEF ParentsFirst
<1>9. UsedFirst'
  <2>1. ASSUME NEW x \in Winds, NEW y \in Winds, x < y, stage'[x] = "unused"
        PROVE  stage'[y] = "unused"
    <3>1. x # w /\ stage[x] = "unused"
      BY <1>8, <2>1
    <3>2. stage[y] = "unused"
      BY <1>4, <2>1, <3>1
    <3>3. y # w
      <4>1. w \in Nat /\ x \in Nat /\ 1 <= x
        BY <1>1 DEF Winds
      <4>2. y = w => x \in 1 .. w - 1
        BY <2>1, <4>1
      <4> QED
        BY <1>2, <3>1, <4>2
    <3> QED
      BY <1>8, <3>2, <3>3
  <2> QED
    BY <2>1 DEF UsedFirst
<1>10. f \in Frames /\ f.wind = w /\ f.part = "before" /\ w # NoWind
  BY <1>1 DEF Frame, Frames, Winds, NoWind
<1> HIDE DEF f
<1>11. Formed(frames, dywind, parent', stage') /\ Fits(frames, stage')
  <2>1. \A x \in WindsOf(frames) : /\ parent'[x] = parent[x] /\ stage'[x] = stage[x]
                                   /\ stage'[x] # "unused"
    <3>1. \A x \in WindsOf(frames) : x \in Winds /\ x # w
      BY <1>1, <1>2, <1>6
    <3> QED
      BY <1>6, <1>8, <3>1
  <2> QED
    BY <1>1, <2>1, FormedStays, FitsStays
<1>12. /\ fs \in FrameSeq /\ WindsOf(fs) = WindsOf(frames) \union {w}
       /\ Formed(fs, w, parent', stage') /\ Fits(fs, stage')
  <2>1. /\ fs \in FrameSeq /\ WindsOf(fs) = WindsOf(frames) \union ({w} \ {NoWind})
    BY <1>1, <1>10, FrameAdded
  <2>2. /\ f.part \in Parts /\ stage'[f.wind] # "unused" /\ f.wind # NoWind
        /\ Formed(frames, parent'[f.wind], parent', stage')
        /\ \A x \in WindsOf(frames) : x < f.wind
    BY <1>6, <1>8, <1>10, <1>11 DEF Parts
  <2>3. Formed(fs, f.wind, parent', stage')
    BY <1>1, <1>10, <2>2, FrameAdded
  <2>4. Fits(fs, stage')
    BY <1>1, <1>8, <1>10, <1>11, FrameAdded
  <2> QED
    BY <1>10, <2>1, <2>3, <2>4
<1> HIDE DEF fs
<1>13. \A x \in Winds : stage[x] # "unused" => parent'[x] = parent[x] /\ stage'[x] # "unused"
  BY <1>2, <1>8
<1>14. \A x \in Winds : x \notin WindsOf(frames) \union WindsOf(fs)
                          => stage'[x] = stage[x] /\ owed'[x] = owed[x]
  BY <1>2, <1>8, <1>12
<1>15. /\ \A x \in WindsOf(frames) : owed[x] = IF stage[x] = "body" THEN 1 ELSE 0
       /\ owed[w] = 0
  BY <1>1, <1>2 DEF Wound, Balanced, OnStack
<1>16. \A x \in WindsOf(frames) \union WindsOf(fs) :
         owed'[x] = IF x \in WindsOf(fs) /\ stage'[x] = "body" THEN 1 ELSE 0
  <2>1. \A x \in WindsOf(frames) : x \in Winds /\ x # w
    BY <1>1, <1>2, <1>6
  <2> QED
    BY <1>2, <1>8, <1>12, <1>15, <2>1
<1>17. \A l \in 1 .. n - 1 : WindsOf(fs) \intersect WindsOf(level[l].frames) = {}
  <2>1. ASSUME NEW l \in 1 .. n - 1
        PROVE  WindsOf(fs) \intersect WindsOf(level[l].frames) = {}
    <3>1. l \in 1 .. n /\ l # n
      BY <1>1
    <3>2. WindsOf(frames) \intersect WindsOf(level[l].frames) = {}
      BY <1>1, <3>1 DEF Wound, LevelsApart
    <3>3. Formed(level[l].frames, level[l].dywind, parent, stage)
      BY <3>1 DEF Wound, LevelsWound
    <3>4. w \notin WindsOf(level[l].frames)
      BY <1>1, <1>2, <3>1, <3>3, WindsAreUsed
    <3> QED
      BY <1>12, <3>2, <3>4
  <2> QED
    BY <2>1
<1>18. \A s \in 1 .. Len(saved) : Top(level).name # saved[s].home =>
         WindsOf(fs) \intersect WindsOf(saved[s].frames) = {}
  <2>1. ASSUME NEW s \in 1 .. Len(saved), Top(level).name # saved[s].home
        PROVE  WindsOf(fs) \intersect WindsOf(saved[s].frames) = {}
    <3>1. /\ Formed(saved[s].frames, saved[s].dywind, parent, stage)
          /\ WindsOf(frames) \intersect WindsOf(saved[s].frames) = {}
      BY <1>1, <2>1 DEF Wound, SavedWound
    <3>2. w \notin WindsOf(saved[s].frames)
      BY <1>1, <1>2, <3>1, WindsAreUsed
    <3> QED
      BY <1>12, <3>1, <3>2
  <2> QED
    BY <2>1
<1>19. w \in 0 .. MaxWinds
  BY <1>1 DEF Winds
<1> QED
  BY <1>2, <1>8, <1>9, <1>12, <1>13, <1>14, <1>16, <1>17, <1>18, <1>19, GoingOn

(* A thunk of w has returned: the next one runs, or w is left.             *)
LEMMA NextThunk ==
  ASSUME Wound, NEW w \in Winds, NEW fs \in FrameSeq, NEW d \in 0 .. MaxWinds, GoOn(fs, d),
         UNCHANGED <<parent, saved, fault>>,
         stage' \in [Winds -> Stages], owed' \in [Winds -> Int],
         w \in WindsOf(frames), stage'[w] # "unused",
         \A x \in Winds : x # w => stage'[x] = stage[x] /\ owed'[x] = owed[x],
         WindsOf(frames) = WindsOf(fs) \union {w},
         Formed(fs, d, parent, stage'), Fits(fs, stage'),
         owed'[w] = IF w \in WindsOf(fs) /\ stage'[w] = "body" THEN 1 ELSE 0
  PROVE  Wound'
<1> DEFINE n == Len(level)
<1>1. /\ ParentsFirst /\ n \in 1 .. n /\ frames = level[n].frames /\ Top(level) = level[n]
      /\ \A l \in 1 .. n - 1 : l \in 1 .. n /\ l # n
      /\ WindsOf(frames) \subseteq Winds /\ MaxWinds \in Nat /\ frames \in FrameSeq
      /\ Formed(frames, dywind, parent, stage)
  <2>1. n \in Nat
    BY LevelFacts
  <2> QED
    BY <2>1, LevelFacts
<1>2. ParentsFirst'
  BY <1>1 DEF ParentsFirst
<1>3. stage[w] # "unused"
  BY <1>1, WindsAreUsed
<1>4. UsedFirst'
  <2>1. \A x \in Winds : stage'[x] = "unused" <=> stage[x] = "unused"
    BY <1>3
  <2>2. \A x, y \in Winds : x < y /\ stage[x] = "unused" => stage[y] = "unused"
    BY DEF Wound, UsedFirst
  <2> QED
    BY <2>1, <2>2 DEF UsedFirst
<1>5. \A x \in Winds : stage[x] # "unused" => parent'[x] = parent[x] /\ stage'[x] # "unused"
  OBVIOUS
<1>6. \A x \in Winds : x \notin WindsOf(frames) \union WindsOf(fs)
                         => stage'[x] = stage[x] /\ owed'[x] = owed[x]
  OBVIOUS
<1>7. \A x \in WindsOf(frames) : owed[x] = IF stage[x] = "body" THEN 1 ELSE 0
  BY <1>1 DEF Wound, Balanced, OnStack
<1>8. \A x \in WindsOf(frames) \union WindsOf(fs) :
        owed'[x] = IF x \in WindsOf(fs) /\ stage'[x] = "body" THEN 1 ELSE 0
  <2>1. ASSUME NEW x \in WindsOf(frames)
        PROVE  owed'[x] = IF x \in WindsOf(fs) /\ stage'[x] = "body" THEN 1 ELSE 0
    <3>1. CASE x = w
      BY <3>1
    <3>2. CASE x # w
      <4>1. x \in Winds /\ x \in WindsOf(fs)
        BY <1>1, <2>1, <3>2
      <4> QED
        BY <1>7, <3>2, <4>1
    <3> QED
      BY <3>1, <3>2
  <2> QED
    BY <2>1
<1>9. \A l \in 1 .. n - 1 : WindsOf(fs) \intersect WindsOf(level[l].frames) = {}
  BY <1>1 DEF Wound, LevelsApart
<1>10. \A s \in 1 .. Len(saved) : Top(level).name # saved[s].home =>
         WindsOf(fs) \intersect WindsOf(saved[s].frames) = {}
  BY <1>1 DEF Wound, SavedWound
<1>11. Formed(fs, d, parent', stage') /\ saved' = saved /\ fault' = fault
  OBVIOUS
<1> QED
  BY <1>2, <1>4, <1>5, <1>6, <1>8, <1>9, <1>10, <1>11, GoingOn

LEMMA AdvanceStep ==
  ASSUME Wound, Advance
  PROVE  Wound'
<1> DEFINE f == Top(frames)
           w == f.wind
           F == Front(frames)
           next(p) == Append(F, Frame(w, p))
<1>1. /\ frames \in FrameSeq /\ dywind \in 0 .. MaxWinds /\ MaxWinds \in Nat
      /\ Formed(frames, dywind, parent, stage) /\ Fits(frames, stage)
      /\ stage \in [Winds -> Stages] /\ owed \in [Winds -> Int]
      /\ parent \in [Winds -> 0 .. MaxWinds]
      /\ WindsOf(frames) \subseteq Winds
  BY LevelFacts DEF Wound, TypeOK
<1>2. frames # <<>> /\ w # NoWind /\ UNCHANGED <<parent, saved>>
  BY DEF Advance, Running
<1>3. /\ f \in Frames /\ F \in FrameSeq
      /\ WindsOf(frames) = WindsOf(F) \union {w}
      /\ Formed(F, parent[w], parent, stage) /\ Fits(F, stage)
      /\ f.part \in Parts /\ w = dywind /\ w \in Winds
      /\ \A x \in WindsOf(F) : x < w
      /\ f.part = stage[w]
  <2> DEFINE fr == frames
             dy == dywind
  <2>1. fr \in FrameSeq /\ fr # <<>> /\ Formed(fr, dy, parent, stage) /\ Fits(fr, stage)
        /\ f = Top(fr) /\ F = Front(fr)
    BY <1>1, <1>2
  <2> HIDE DEF fr, dy, f, F
  <2>2. /\ f \in Frames /\ F \in FrameSeq
        /\ WindsOf(fr) = WindsOf(F) \union ({w} \ {NoWind})
        /\ Formed(F, IF w = NoWind THEN dy ELSE parent[w], parent, stage)
        /\ w # NoWind =>
              /\ f.part \in Parts /\ w = dy /\ w \in Winds /\ w \in WindsOf(fr)
              /\ \A x \in WindsOf(F) : x < w
        /\ Fits(fr, stage) => /\ Fits(F, stage)
                              /\ w # NoWind => f.part = stage[w]
    BY <2>1, FrameTaken
  <2>3. (IF w = NoWind THEN dy ELSE parent[w]) = parent[w] /\ {w} \ {NoWind} = {w}
    BY <1>2
  <2> QED
    BY <1>2, <2>1, <2>2, <2>3 DEF fr, dy
<1>4. w \in WindsOf(frames) /\ w \notin WindsOf(F)
  <2>1. ~(w < w)
    BY <1>1, <1>3 DEF Winds
  <2> QED
    BY <1>3, <2>1
<1>5. owed[w] = IF stage[w] = "body" THEN 1 ELSE 0
  <2>1. Len(level) \in 1 .. Len(level) /\ frames = level[Len(level)].frames
    BY LevelFacts
  <2>2. OnStack(w)
    BY <1>4, <2>1 DEF OnStack
  <2> QED
    BY <1>3, <2>2 DEF Wound, Balanced
<1> HIDE DEF f, F
<1>6. ASSUME NEW p \in {"body", "after"}, stage' = [stage EXCEPT ![w] = p],
             GoOn(next(p), dywind), UNCHANGED fault, owed' \in [Winds -> Int],
             \A x \in Winds : x # w => owed'[x] = owed[x],
             owed'[w] = IF p = "body" THEN 1 ELSE 0
      PROVE  Wound'
  <2> DEFINE g == Frame(w, p)
             fs == Append(F, g)
  <2>1. g \in Frames /\ g.wind = w /\ g.part = p /\ p \in Parts /\ p # "unused"
    BY <1>1, <1>3 DEF Frame, Frames, Winds, Parts
  <2> HIDE DEF g
  <2>2. /\ stage' \in [Winds -> Stages] /\ stage'[w] = p
        /\ \A x \in Winds : x # w => stage'[x] = stage[x]
    BY <1>1, <1>3, <1>6 DEF Stages
  <2>3. \A x \in WindsOf(F) : x \in Winds /\ x # w
    BY <1>1, <1>3, <1>4
  <2>4. \A x \in WindsOf(F) : stage[x] # "unused"
    BY <1>3, WindsAreUsed
  <2>5. \A x \in WindsOf(F) : stage'[x] = stage[x] /\ stage'[x] # "unused"
    BY <2>2, <2>3, <2>4
  <2>6. Formed(F, parent[w], parent, stage') /\ Fits(F, stage')
    <3> DEFINE d == parent[w]
    <3>1. Formed(F, d, parent, stage)
      BY <1>3
    <3> HIDE DEF d
    <3>2. Formed(F, d, parent, stage')
      BY <1>3, <2>5, <3>1, FormedStays
    <3> QED
      BY <1>3, <2>5, <3>2, FitsStays DEF d
  <2>7. fs \in FrameSeq /\ WindsOf(fs) = WindsOf(F) \union ({w} \ {NoWind})
    BY <1>3, <2>1, FrameAdded
  <2>8. Formed(fs, w, parent, stage')
    <3>1. /\ g.wind # NoWind /\ g.part \in Parts /\ stage'[g.wind] # "unused"
          /\ Formed(F, parent[g.wind], parent, stage') /\ \A x \in WindsOf(F) : x < g.wind
      BY <1>2, <1>3, <2>1, <2>2, <2>6
    <3>2. Formed(fs, g.wind, parent, stage')
      BY <1>3, <2>1, <3>1, FrameAdded
    <3> QED
      BY <2>1, <3>2
  <2>9. Fits(fs, stage')
    BY <1>3, <2>1, <2>2, <2>6, FrameAdded
  <2>10. GoOn(fs, dywind)
    BY <1>6 DEF g
  <2> HIDE DEF fs
  <2>11. w \in WindsOf(fs) /\ WindsOf(frames) = WindsOf(fs) \union {w}
    BY <1>2, <1>3, <2>7
  <2>12. stage'[w] # "unused" /\ owed'[w] = IF w \in WindsOf(fs) /\ stage'[w] = "body" THEN 1 ELSE 0
    BY <1>6, <2>1, <2>2, <2>11
  <2>13. \A x \in Winds : x # w => stage'[x] = stage[x] /\ owed'[x] = owed[x]
    BY <1>6, <2>2
  <2>14. Formed(fs, dywind, parent, stage')
    BY <1>3, <2>8
  <2>15. UNCHANGED <<parent, saved, fault>>
    BY <1>2, <1>6
  <2> HIDE DEF w
  <2> QED
    BY <1>1, <1>3, <1>4, <1>6, <2>2, <2>7, <2>9, <2>10, <2>11, <2>12, <2>13, <2>14, <2>15, NextThunk
<1>7. ASSUME stage[w] = "after", stage' = [stage EXCEPT ![w] = "done"],
             GoOn(F, parent[w]), UNCHANGED <<owed, fault>>
      PROVE  Wound'
  <2>1. /\ stage' \in [Winds -> Stages] /\ stage'[w] = "done"
        /\ \A x \in Winds : x # w => stage'[x] = stage[x]
    BY <1>1, <1>3, <1>7 DEF Stages
  <2>2. \A x \in WindsOf(F) : x \in Winds /\ x # w
    BY <1>1, <1>3, <1>4
  <2>3. \A x \in WindsOf(F) : stage[x] # "unused"
    BY <1>3, WindsAreUsed
  <2>4. \A x \in WindsOf(F) : stage'[x] = stage[x] /\ stage'[x] # "unused"
    BY <2>1, <2>2, <2>3
  <2> DEFINE d == parent[w]
  <2>5. Formed(F, d, parent, stage) /\ d \in 0 .. MaxWinds /\ GoOn(F, d)
    BY <1>1, <1>3, <1>7
  <2> HIDE DEF d
  <2>6. Formed(F, d, parent, stage')
    BY <1>3, <2>4, <2>5, FormedStays
  <2>7. Fits(F, stage')
    BY <1>3, <2>4, FitsStays
  <2>8. stage'[w] # "unused" /\ owed'[w] = IF w \in WindsOf(F) /\ stage'[w] = "body" THEN 1 ELSE 0
    BY <1>4, <1>5, <1>7, <2>1
  <2>9. \A x \in Winds : x # w => stage'[x] = stage[x] /\ owed'[x] = owed[x]
    BY <1>7, <2>1
  <2>10. UNCHANGED <<parent, saved, fault>> /\ owed' \in [Winds -> Int]
    BY <1>1, <1>2, <1>7
  <2> HIDE DEF w
  <2> QED
    BY <1>3, <1>4, <2>1, <2>5, <2>6, <2>7, <2>8, <2>9, <2>10, NextThunk
<1>8. stage[w] \in {"before", "body", "after"}
  BY <1>3 DEF Parts
<1>9. \/ /\ stage[w] = "before" /\ stage' = [stage EXCEPT ![w] = "body"]
         /\ Owe({w}, {}) /\ GoOn(next("body"), dywind) /\ UNCHANGED fault
      \/ /\ stage[w] = "body" /\ stage' = [stage EXCEPT ![w] = "after"]
         /\ Owe({}, {w}) /\ GoOn(next("after"), dywind) /\ UNCHANGED fault
      \/ /\ stage[w] = "after" /\ stage' = [stage EXCEPT ![w] = "done"]
         /\ GoOn(F, parent[w]) /\ UNCHANGED <<owed, fault>>
  BY <1>8 DEF Advance, f, F
<1>10. CASE stage[w] = "before" /\ stage' = [stage EXCEPT ![w] = "body"]
            /\ Owe({w}, {}) /\ GoOn(next("body"), dywind) /\ UNCHANGED fault
  <2>1. /\ owed' \in [Winds -> Int] /\ \A x \in Winds : x # w => owed'[x] = owed[x]
        /\ owed'[w] = 1
    BY <1>1, <1>3, <1>5, <1>10 DEF Owe
  <2> QED
    BY <1>6, <1>10, <2>1
<1>11. CASE stage[w] = "body" /\ stage' = [stage EXCEPT ![w] = "after"]
            /\ Owe({}, {w}) /\ GoOn(next("after"), dywind) /\ UNCHANGED fault
  <2>1. /\ owed' \in [Winds -> Int] /\ \A x \in Winds : x # w => owed'[x] = owed[x]
        /\ owed'[w] = 0
    BY <1>1, <1>3, <1>5, <1>11 DEF Owe
  <2> QED
    BY <1>6, <1>11, <2>1
<1>12. CASE stage[w] = "after" /\ stage' = [stage EXCEPT ![w] = "done"]
            /\ GoOn(F, parent[w]) /\ UNCHANGED <<owed, fault>>
  BY <1>7, <1>12
<1> HIDE DEF w
<1> QED
  BY <1>9, <1>10, <1>11, <1>12

(* A pcall runs its thunk on a level of its own.                           *)
LEMMA PCallStep ==
  ASSUME Wound, PCall
  PROVE  Wound'
<1> DEFINE n == Len(level)
<1>1. /\ n \in Nat \ {0} /\ level \in Seq(LevelType) /\ saved \in Seq(SavedType)
      /\ MaxWinds \in Nat /\ MaxLevels \in Nat
  BY LevelFacts, ConstantsAssumption
<1>2. PICK m \in 1 .. MaxLevels :
        /\ \A l \in 1 .. n : level[l].name # m
        /\ saved # <<>> => saved[1].home # m
        /\ level' = Append(level, [BaseLevel EXCEPT !.frames = <<Code>>, !.name = m])
  BY DEF PCall
<1>3. UNCHANGED <<parent, stage, saved, owed, fault>>
  BY DEF PCall
<1> DEFINE L == [BaseLevel EXCEPT !.frames = <<Code>>, !.name = m]
<1>4. /\ <<Code>> \in FrameSeq /\ WindsOf(<<Code>>) = {} /\ Fits(<<Code>>, stage)
      /\ Formed(<<Code>>, NoWind, parent, stage)
  <2>1. Code \in Frames /\ Code.wind = NoWind
    BY <1>1 DEF Code, Frame, Frames, NoWind
  <2>2. /\ <<>> \in FrameSeq /\ WindsOf(<<>>) = {} /\ Fits(<<>>, stage)
        /\ Formed(<<>>, NoWind, parent, stage)
    BY NoFrames
  <2>3. Append(<<>>, Code) = <<Code>>
    OBVIOUS
  <2> DEFINE e == <<>>
             C == Code
             o == NoWind
  <2>4. e \in FrameSeq /\ Formed(e, o, parent, stage) /\ Fits(e, stage) /\ WindsOf(e) = {}
        /\ C \in Frames /\ C.wind = NoWind /\ C = Code
    BY <2>1, <2>2
  <2> HIDE DEF e, C, o
  <2>5. /\ Append(e, C) \in FrameSeq
        /\ WindsOf(Append(e, C)) = WindsOf(e) \union ({C.wind} \ {NoWind})
        /\ C = Code /\ Formed(e, o, parent, stage) => Formed(Append(e, C), o, parent, stage)
        /\ Fits(e, stage) /\ (C.wind # NoWind => C.part = stage[C.wind]) => Fits(Append(e, C), stage)
    BY <2>4, FrameAdded
  <2>6. WindsOf(e) \union ({C.wind} \ {NoWind}) = {}
    BY <2>4
  <2>7. /\ Append(e, C) \in FrameSeq /\ Formed(Append(e, C), o, parent, stage)
        /\ Fits(Append(e, C), stage) /\ WindsOf(Append(e, C)) = {}
    BY <2>4, <2>5, <2>6
  <2> QED
    BY <2>3, <2>7 DEF e, C, o
<1>5. L \in LevelType /\ L.frames = <<Code>> /\ L.dywind = NoWind /\ L.name = m
  <2> DEFINE c == <<Code>>
  <2>1. c \in FrameSeq /\ m \in Nat
    BY <1>4
  <2>2. BaseLevel \in LevelType /\ BaseLevel.dywind = NoWind
    BY <1>1, NoFrames DEF BaseLevel, LevelType, NoWind
  <2> HIDE DEF c
  <2>3. LET K == [BaseLevel EXCEPT !.frames = c, !.name = m]
        IN  K \in LevelType /\ K.frames = c /\ K.dywind = NoWind /\ K.name = m
    BY <2>1, <2>2 DEF LevelType
  <2> QED
    BY <2>3 DEF c
<1> HIDE DEF L
<1>6. /\ level' \in Seq(LevelType) /\ Len(level') = n + 1 /\ level' # <<>>
      /\ level'[n + 1] = L /\ \A l \in 1 .. n : level'[l] = level[l]
      /\ \A l : l \in 1 .. n + 1 <=> l \in 1 .. n \/ l = n + 1
  <2>1. level' = Append(level, L)
    BY <1>2 DEF L
  <2> QED
    BY <1>1, <1>5, <2>1, OneMore
<1>7. TypeOK'
  BY <1>1, <1>3, <1>6 DEF Wound, TypeOK, LevelType, SavedType, FrameSeq
<1>8. LevelsWound' /\ UsedFirst'
  <2>1. ASSUME NEW l \in 1 .. n + 1
        PROVE  /\ Formed(level'[l].frames, level'[l].dywind, parent, stage)
               /\ Fits(level'[l].frames, stage)
    <3>1. CASE l = n + 1
      BY <1>4, <1>5, <1>6, <3>1
    <3>2. CASE l \in 1 .. n
      BY <1>6, <3>2 DEF Wound, LevelsWound
    <3> QED
      BY <1>6, <3>1, <3>2
  <2> QED
    BY <1>3, <1>6, <2>1 DEF Wound, LevelsWound, UsedFirst
<1>9. LevelsApart'
  <2>1. /\ \A l \in 1 .. n : level'[l].name # m /\ level'[l].name = level[l].name
                             /\ level'[l].frames = level[l].frames
        /\ level'[n + 1].name = m /\ WindsOf(level'[n + 1].frames) = {}
    BY <1>2, <1>4, <1>5, <1>6
  <2>2. \A k, l \in 1 .. n : k # l =>
          /\ level[k].name # level[l].name
          /\ WindsOf(level[k].frames) \intersect WindsOf(level[l].frames) = {}
    BY DEF Wound, LevelsApart
  <2>3. ASSUME NEW k \in 1 .. n + 1, NEW l \in 1 .. n + 1, k # l
        PROVE  /\ level'[k].name # level'[l].name
               /\ WindsOf(level'[k].frames) \intersect WindsOf(level'[l].frames) = {}
    <3>1. CASE k = n + 1
      BY <1>6, <2>1, <2>3, <3>1
    <3>2. CASE l = n + 1
      BY <1>6, <2>1, <2>3, <3>2
    <3>3. CASE k \in 1 .. n /\ l \in 1 .. n
      BY <2>1, <2>2, <2>3, <3>3
    <3> QED
      BY <1>6, <3>1, <3>2, <3>3
  <2> QED
    BY <1>6, <2>3 DEF LevelsApart
<1>10. SavedWound'
  <2>1. ASSUME NEW s \in 1 .. Len(saved), NEW l \in 1 .. n + 1, level'[l].name # saved[s].home
        PROVE  WindsOf(level'[l].frames) \intersect WindsOf(saved[s].frames) = {}
    <3>1. CASE l = n + 1
      BY <1>4, <1>5, <1>6, <3>1
    <3>2. CASE l \in 1 .. n
      BY <1>6, <2>1, <3>2 DEF Wound, SavedWound
    <3> QED
      BY <1>6, <3>1, <3>2
  <2> QED
    BY <1>3, <1>6, <2>1 DEF Wound, SavedWound
<1>11. Balanced'
  <2>1. ASSUME NEW w \in Winds
        PROVE  (\E l \in 1 .. n + 1 : w \in WindsOf(level'[l].frames))
                 <=> \E l \in 1 .. n : w \in WindsOf(level[l].frames)
    BY <1>4, <1>5, <1>6
  <2>2. \A w \in Winds : owed[w] = IF (\E l \in 1 .. n : w \in WindsOf(level[l].frames)) /\ stage[w] = "body"
                                   THEN 1 ELSE 0
    BY DEF Wound, Balanced, OnStack
  <2>3. \A w \in Winds : owed'[w] = IF (\E l \in 1 .. n + 1 : w \in WindsOf(level'[l].frames)) /\ stage'[w] = "body"
                                    THEN 1 ELSE 0
    BY <1>3, <2>1, <2>2
  <2> QED
    BY <1>6, <2>3 DEF Balanced, OnStack
<1> QED
  BY <1>3, <1>6, <1>7, <1>8, <1>9, <1>10, <1>11 DEF Wound

(* The continuation that is kept is one of the level that runs.            *)
LEMMA CallCCStep ==
  ASSUME Wound, CallCC
  PROVE  Wound'
<1> DEFINE n == Len(level)
           k == [frames |-> frames, dywind |-> dywind, home |-> Top(level).name,
                 dystage |-> IF dywind = NoWind THEN "none" ELSE stage[dywind]]
<1>1. saved' = <<k>> /\ UNCHANGED <<parent, stage, level, owed, fault>>
  BY ZenonT(30) DEF CallCC
<1>2. /\ frames \in FrameSeq /\ dywind \in 0 .. MaxWinds /\ MaxWinds \in Nat
      /\ Formed(frames, dywind, parent, stage) /\ level \in Seq(LevelType)
      /\ n \in 1 .. n /\ frames = level[n].frames /\ Top(level) = level[n]
      /\ Top(level) \in LevelType /\ Top(level).name \in Nat
      /\ stage \in [Winds -> Stages]
  BY LevelFacts DEF LevelType, Wound, TypeOK
<1>3. (IF dywind = NoWind THEN "none" ELSE stage[dywind]) \in Stages \union {"none"}
  <2>1. dywind # NoWind => dywind \in Winds
    BY <1>2 DEF Winds, NoWind
  <2> QED
    BY <1>2, <2>1
<1>4. k \in SavedType /\ k.frames = frames /\ k.dywind = dywind /\ k.home = level[n].name
  BY <1>2, <1>3 DEF SavedType
<1> HIDE DEF k
<1>5. saved' \in Seq(SavedType) /\ Len(saved') = 1 /\ saved'[1] = k
  BY <1>1, <1>4
<1>6. TypeOK'
  BY <1>1, <1>5 DEF Wound, TypeOK, SavedType, FrameSeq
<1>7. SavedWound'
  <2>1. Formed(k.frames, k.dywind, parent', stage')
    BY <1>1, <1>2, <1>4
  <2>2. \A l \in 1 .. n : level'[l].name # k.home =>
          WindsOf(level'[l].frames) \intersect WindsOf(k.frames) = {}
    BY <1>1, <1>2, <1>4 DEF Wound, LevelsApart
  <2>3. \A s \in 1 .. Len(saved') : s = 1 /\ saved'[s] = k
    BY <1>5
  <2> QED
    BY <1>1, <2>1, <2>2, <2>3 DEF SavedWound
<1>8. Len(saved') \in 0 .. 1
  BY <1>5
<1>9. UsedFirst' /\ LevelsWound' /\ LevelsApart' /\ Balanced' /\ level' # <<>> /\ ~fault'
  BY <1>1 DEF Wound, UsedFirst, LevelsWound, LevelsApart, Balanced, OnStack
<1> QED
  BY <1>6, <1>7, <1>8, <1>9 DEF Wound

(* What a plain jump does not do.                                          *)
LEMMA PlainMayJump ==
  ASSUME PlainJumps, NEW k, MayJump(k)
  PROVE  /\ ReentersThunk(k) => Illegal(k)
         /\ ~LeavesThunkInside(k)
         /\ k.home = Top(level).name
BY ZenonT(30) DEF PlainJumps, MayJump

(* A wind has one frame of a level at most.                                *)
LEMMA OneFrame ==
  ASSUME NEW fs \in FrameSeq, NEW d, NEW pr, NEW st, Formed(fs, d, pr, st),
         NEW i \in 1 .. Len(fs), NEW j \in 1 .. Len(fs),
         fs[i].wind = fs[j].wind, fs[i].wind # NoWind
  PROVE  i = j
<1>1. /\ i \in Nat /\ j \in Nat
      /\ fs[i].wind \in Winds /\ MaxWinds \in Nat
  BY FrameFacts, ConstantsAssumption
<1>2. ~(fs[i].wind < fs[i].wind)
  BY <1>1 DEF Winds
<1>3. ~(i \in 1 .. j - 1)
  BY <1>2 DEF Formed
<1>4. ~(j \in 1 .. i - 1)
  BY <1>2 DEF Formed
<1> QED
  BY <1>1, <1>3, <1>4

(* After a plain jump the frames of the continuation fit the stages: its   *)
(* thunks are those that run, and the winds that it enters are in bodies.  *)
LEMMA JumpFits ==
  ASSUME NEW fs \in FrameSeq, NEW d, NEW gs \in FrameSeq, NEW e, NEW tt,
         Formed(fs, d, parent, stage), Fits(fs, stage), Formed(gs, e, parent, stage),
         \A w \in WindsOf(gs) : tt[w] = IF w \in WindsOf(fs) THEN stage[w] ELSE "body",
         \A i \in 1 .. Len(gs) : IsThunk(gs[i]) => Runs(fs, i, gs[i]),
         \A i \in 1 .. Len(fs) :
           IsThunk(fs[i]) /\ fs[i].wind \in WindsOf(gs) => Runs(gs, i, fs[i])
  PROVE  Fits(gs, tt)
<1>1. ASSUME NEW i \in 1 .. Len(gs), gs[i].wind # NoWind
      PROVE  gs[i].part = tt[gs[i].wind]
  <2> DEFINE w == gs[i].wind
  <2>1. w \in WindsOf(gs) /\ gs[i].part \in Parts /\ Len(fs) \in Nat /\ Len(gs) \in Nat
    BY <1>1 DEF WindsOf, WindsUpTo, Formed, FrameSeq
  <2>2. CASE IsThunk(gs[i])
    <3>1. i \in 1 .. Len(fs) /\ fs[i] = gs[i]
      BY <2>1, <2>2 DEF Runs
    <3>2. w \in WindsOf(fs) /\ fs[i].part = stage[w]
      BY <1>1, <3>1 DEF WindsOf, WindsUpTo, Fits
    <3> QED
      BY <2>1, <3>1, <3>2
  <2>3. CASE ~IsThunk(gs[i])
    <3>1. gs[i].part = "body"
      BY <2>1, <2>3 DEF Parts, IsThunk
    <3>2. CASE w \in WindsOf(fs)
      <4>1. PICK j \in 1 .. Len(fs) : fs[j].wind = w
        BY <3>2 DEF WindsOf, WindsUpTo
      <4>2. fs[j].part \in Parts /\ fs[j].part = stage[w]
        BY <1>1, <4>1 DEF Formed, Fits
      <4>3. ~IsThunk(fs[j])
        <5>1. ASSUME IsThunk(fs[j])
              PROVE  FALSE
          <6>1. j \in 1 .. Len(gs) /\ gs[j] = fs[j]
            BY <2>1, <4>1, <5>1 DEF Runs
          <6>2. gs[i].wind = gs[j].wind
            BY <4>1, <6>1
          <6>3. i = j
            BY <1>1, <6>1, <6>2, OneFrame
          <6> QED
            BY <2>3, <5>1, <6>1, <6>3
        <5> QED
          BY <5>1
      <4> QED
        BY <2>1, <3>1, <3>2, <4>2, <4>3 DEF Parts, IsThunk
    <3>3. CASE w \notin WindsOf(fs)
      BY <2>1, <3>1, <3>3
    <3> QED
      BY <3>2, <3>3
  <2> QED
    BY <2>2, <2>3
<1> QED
  BY <1>1 DEF Fits

LEMMA ThrowStep ==
  ASSUME Wound, PlainJumps, Throw
  PROVE  Wound'
<1> DEFINE n == Len(level)
           k == saved[1]
           c == Innermost(Chain(dywind) \intersect Chain(k.dywind))
           left == Left(c)
           entered == Chain(k.dywind) \ Chain(c)
           F == frames
           D == dywind
           G == k.frames
           E == k.dywind
<1>1. /\ saved # <<>> /\ MayJump(k) /\ UNCHANGED <<parent, saved, fault>>
      /\ IF Illegal(k)
         THEN /\ Owe({}, left \union {x \in Chain(c) : stage[x] = "body"})
              /\ level' = IF n > 1 THEN Front(level) ELSE <<BaseLevel>>
              /\ UNCHANGED stage
         ELSE /\ Owe(entered, left)
              /\ stage' = Entered(entered)
              /\ GoOn(k.frames, k.dywind)
  BY DEF Throw
<1>2. Len(saved) = 1 /\ 1 \in 1 .. Len(saved) /\ \A s \in 1 .. Len(saved) : s = 1
  <2>1. Len(saved) # 0
    BY <1>1, LevelFacts
  <2>2. Len(saved) \in 0 .. 1
    BY DEF Wound
  <2>3. \A m \in 0 .. 1 : m # 0 => m = 1 /\ 1 \in 1 .. m /\ \A s \in 1 .. m : s = 1
    OBVIOUS
  <2> HIDE DEF k
  <2> QED
    BY <2>1, <2>2, <2>3
<1>3. /\ ParentsFirst /\ MaxWinds \in Nat /\ n \in Nat \ {0} /\ n \in 1 .. n
      /\ F = level[n].frames /\ F \in FrameSeq /\ Top(level) = level[n]
      /\ Formed(F, D, parent, stage) /\ Fits(F, stage)
      /\ Chain(D) = WindsOf(F) /\ WindsOf(F) \subseteq Winds
      /\ k \in SavedType /\ G \in FrameSeq
      /\ \A l \in 1 .. n : level[l].frames \in FrameSeq
  BY <1>2, LevelFacts
<1>4. /\ stage \in [Winds -> Stages] /\ owed \in [Winds -> Int]
      /\ parent \in [Winds -> 0 .. MaxWinds]
  BY DEF Wound, TypeOK
<1>5. Formed(G, E, parent, stage) /\ E \in 0 .. MaxWinds
  BY <1>2, <1>3 DEF Wound, SavedWound, SavedType
<1> HIDE DEF F, D, G, E
<1>6. Chain(E) = WindsOf(G) /\ WindsOf(G) \subseteq Winds
  BY <1>3, <1>5, ChainIsFrames, FrameFacts
<1>7. Chain(c) = WindsOf(F) \intersect WindsOf(G)
  <2>1. c = Innermost(WindsOf(F) \intersect WindsOf(G))
    BY <1>3, <1>6 DEF D, E
  <2> QED
    BY <1>3, <1>5, <2>1, CommonChain
<1>8. /\ left = {w \in WindsOf(F) \ WindsOf(G) : stage[w] = "body"}
      /\ entered = WindsOf(G) \ WindsOf(F)
  <2>1. Chain(dywind) = WindsOf(F) /\ Chain(k.dywind) = WindsOf(G)
    BY <1>3, <1>6 DEF D, E
  <2> HIDE DEF c, k
  <2> QED
    BY <1>7, <2>1 DEF Left
<1>9. \A w \in WindsOf(F) : owed[w] = IF stage[w] = "body" THEN 1 ELSE 0
  BY <1>3 DEF Wound, Balanced, OnStack
<1> HIDE DEF left, entered, c, k
<1>10. CASE Illegal(k)
  <2> DEFINE less == left \union {x \in Chain(c) : stage[x] = "body"}
  <2>1. /\ Owe({}, less) /\ UNCHANGED <<parent, stage, saved, fault>>
        /\ level' = IF n > 1 THEN Front(level) ELSE <<BaseLevel>>
    BY <1>1, <1>10
  <2>2. less = {w \in WindsOf(F) : stage[w] = "body"}
    BY <1>7, <1>8
  <2> HIDE DEF less
  <2>3. owed' \in [Winds -> Int]
        /\ \A w \in Winds : owed'[w] = owed[w] - IF w \in less THEN 1 ELSE 0
    BY <1>4, <2>1 DEF Owe
  <2>4. \A w \in Winds : w \notin WindsOf(F) => owed'[w] = owed[w]
    BY <1>4, <2>2, <2>3
  <2>5. \A w \in WindsOf(F) : owed'[w] = 0
    BY <1>3, <1>9, <2>2, <2>3
  <2> QED
    BY <2>1, <2>3, <2>4, <2>5, Leaving DEF F
<1>11. CASE ~Illegal(k)
  <2>1. /\ Owe(entered, left) /\ stage' = Entered(entered) /\ GoOn(G, E)
        /\ UNCHANGED <<parent, saved, fault>>
    BY <1>1, <1>11 DEF G, E
  <2>2. /\ ~ReentersThunk(k) /\ ~LeavesThunkInside(k) /\ k.home = level[n].name
    BY <1>1, <1>3, <1>11, PlainMayJump
  <2>3. /\ stage' \in [Winds -> Stages]
        /\ \A w \in Winds : stage'[w] = IF w \in entered THEN "body" ELSE stage[w]
    BY <1>4, <2>1 DEF Entered, Stages
  <2>4. /\ owed' \in [Winds -> Int]
        /\ \A w \in Winds : owed'[w] = (owed[w] + IF w \in entered THEN 1 ELSE 0)
                                        - IF w \in left THEN 1 ELSE 0
    BY <1>4, <2>1 DEF Owe
  <2>5. \A w \in WindsOf(G) : stage[w] # "unused"
    BY <1>3, <1>5, WindsAreUsed
  <2>6. \A w \in Winds : stage'[w] = "unused" <=> stage[w] = "unused"
    BY <1>8, <2>3, <2>5
  <2>7. UsedFirst' /\ ParentsFirst'
    BY <1>3, <2>1, <2>6 DEF Wound, UsedFirst, ParentsFirst
  <2>8. \A w \in Winds : stage[w] # "unused" => parent'[w] = parent[w] /\ stage'[w] # "unused"
    BY <2>1, <2>6
  <2>9. Formed(G, E, parent', stage')
    <3>1. \A w \in WindsOf(G) : parent'[w] = parent[w] /\ stage'[w] # "unused"
      BY <1>6, <2>5, <2>8
    <3> QED
      BY <1>3, <1>5, <3>1, FormedStays
  <2>10. Fits(G, stage')
    <3>1. \A w \in WindsOf(G) : stage'[w] = IF w \in WindsOf(F) THEN stage[w] ELSE "body"
      BY <1>6, <1>8, <2>3
    <3>2. \A i \in 1 .. Len(G) : IsThunk(G[i]) => Runs(F, i, G[i])
      BY <2>2 DEF ReentersThunk, F, G
    <3>3. \A i \in 1 .. Len(F) : IsThunk(F[i]) /\ F[i].wind \in WindsOf(G) => Runs(G, i, F[i])
      <4>1. \A i \in 1 .. Len(frames) :
              IsThunk(frames[i]) /\ frames[i].wind \in Chain(k.dywind) => Runs(k.frames, i, frames[i])
        BY <2>2 DEF LeavesThunkInside
      <4>2. Chain(k.dywind) = WindsOf(G)
        BY <1>6 DEF E
      <4> QED
        BY <4>1, <4>2 DEF F, G
    <3> QED
      BY <1>3, <1>5, <3>1, <3>2, <3>3, JumpFits
  <2>11. \A l \in 1 .. n - 1 : WindsOf(G) \intersect WindsOf(level[l].frames) = {}
    <3>1. ASSUME NEW l \in 1 .. n - 1
          PROVE  WindsOf(G) \intersect WindsOf(level[l].frames) = {}
      <4>1. l \in 1 .. n /\ l # n
        BY <1>3
      <4>2. level[l].name # k.home
        BY <1>3, <2>2, <4>1 DEF Wound, LevelsApart
      <4>3. WindsOf(level[l].frames) \intersect WindsOf(G) = {}
        BY <1>2, <4>1, <4>2 DEF Wound, SavedWound, G, k
      <4> QED
        BY <4>3
    <3> QED
      BY <3>1
  <2>12. \A s \in 1 .. Len(saved) : Top(level).name # saved[s].home =>
           WindsOf(G) \intersect WindsOf(saved[s].frames) = {}
    BY <1>2, <1>3, <2>2 DEF k
  <2>13. \A w \in Winds : w \notin WindsOf(F) \union WindsOf(G) => stage'[w] = stage[w] /\ owed'[w] = owed[w]
    BY <1>4, <1>8, <2>3, <2>4
  <2>14. \A w \in WindsOf(G) : w \notin WindsOf(F) => owed[w] = 0
    <3>1. ASSUME NEW w \in WindsOf(G), w \notin WindsOf(F)
          PROVE  ~OnStack(w)
      <4>1. \A l \in 1 .. n : l = n \/ l \in 1 .. n - 1
        BY <1>3
      <4> QED
        BY <1>3, <2>11, <3>1, <4>1 DEF OnStack
    <3> QED
      BY <1>6, <3>1 DEF Wound, Balanced
  <2>15. \A w \in WindsOf(F) \union WindsOf(G) :
           owed'[w] = IF w \in WindsOf(G) /\ stage'[w] = "body" THEN 1 ELSE 0
    <3>1. ASSUME NEW w \in WindsOf(F), w \notin WindsOf(G)
          PROVE  owed'[w] = 0
      BY <1>3, <1>8, <1>9, <2>4, <3>1
    <3>2. ASSUME NEW w \in WindsOf(F), w \in WindsOf(G)
          PROVE  owed'[w] = owed[w] /\ stage'[w] = stage[w]
      BY <1>3, <1>4, <1>8, <2>3, <2>4, <3>2
    <3>3. ASSUME NEW w \in WindsOf(G), w \notin WindsOf(F)
          PROVE  owed'[w] = 1 /\ stage'[w] = "body"
      BY <1>6, <1>8, <2>3, <2>4, <2>14, <3>3
    <3> QED
      BY <1>9, <3>1, <3>2, <3>3
  <2> QED
    <3>1. /\ saved' = saved /\ fault' = fault
          /\ \A w \in Winds : w \notin WindsOf(frames) \union WindsOf(G)
                                => stage'[w] = stage[w] /\ owed'[w] = owed[w]
          /\ \A w \in WindsOf(frames) \union WindsOf(G) :
               owed'[w] = IF w \in WindsOf(G) /\ stage'[w] = "body" THEN 1 ELSE 0
      BY <2>1, <2>13, <2>15 DEF F
    <3> QED
      BY <1>3, <1>5, <2>1, <2>3, <2>4, <2>7, <2>8, <2>9, <2>10, <2>11, <2>12, <3>1, GoingOn
<1> QED
  BY <1>10, <1>11

-----------------------------------------------------------------------------
(* The invariant holds from the start on.                                  *)

LEMMA InitIsWound == ASSUME Init PROVE Wound
<1>1. /\ parent = [w \in Winds |-> NoWind] /\ stage = [w \in Winds |-> "unused"]
      /\ level = <<BaseLevel>> /\ saved = <<>> /\ owed = [w \in Winds |-> 0] /\ fault = FALSE
      /\ MaxWinds \in Nat
  BY ConstantsAssumption DEF Init
<1>2. BaseLevel \in LevelType /\ BaseLevel.frames = <<>> /\ BaseLevel.dywind = NoWind
  BY <1>1, NoFrames DEF BaseLevel, LevelType, NoWind
<1>3. /\ level \in Seq(LevelType) /\ Len(level) = 1 /\ level[1] = BaseLevel /\ level # <<>>
      /\ \A l \in 1 .. 1 : l = 1
  <2>1. \A b \in LevelType : <<b>> \in Seq(LevelType)
    OBVIOUS
  <2> QED
    BY <1>1, <1>2, <2>1
<1>4. /\ saved \in Seq(SavedType) /\ Len(saved) = 0 /\ \A s : s \notin 1 .. 0
  BY <1>1
<1>5. TypeOK
  <2>1. parent \in [Winds -> 0 .. MaxWinds] /\ \A w \in Winds : parent[w] < w
    BY <1>1 DEF Winds, NoWind
  <2>2. stage \in [Winds -> Stages] /\ owed \in [Winds -> Int] /\ fault \in BOOLEAN
    <3>1. "unused" \in Stages /\ 0 \in Int
      BY DEF Stages
    <3> QED
      BY <1>1, <3>1
  <2> QED
    BY <1>3, <1>4, <2>1, <2>2 DEF TypeOK, LevelType, SavedType, FrameSeq
<1>6. UsedFirst /\ SavedWound
  BY <1>1, <1>4 DEF UsedFirst, SavedWound
<1>7. /\ Formed(<<>>, NoWind, parent, stage) /\ Fits(<<>>, stage) /\ WindsOf(<<>>) = {}
  BY NoFrames
<1>8. LevelsWound
  BY <1>2, <1>3, <1>7 DEF LevelsWound
<1>9. LevelsApart
  BY <1>3 DEF LevelsApart
<1>10. Balanced
  <2>1. \A w : ~OnStack(w)
    BY <1>2, <1>3, <1>7 DEF OnStack
  <2> QED
    BY <1>1, <2>1 DEF Balanced
<1> QED
  BY <1>1, <1>3, <1>4, <1>5, <1>6, <1>8, <1>9, <1>10 DEF Wound

LEMMA StepKeepsWound ==
  ASSUME PlainJumps, Wound, [Next]_vars
  PROVE  Wound'
<1>1. CASE Form \/ Call \/ Return \/ Fail
  BY <1>1, PlainSteps
<1>2. CASE Advance
  BY <1>2, AdvanceStep
<1>3. CASE PCall
  BY <1>3, PCallStep
<1>4. CASE \E w \in Winds : Wind(w)
  BY <1>4, WindStep
<1>5. CASE CallCC
  BY <1>5, CallCCStep
<1>6. CASE Throw
  BY <1>6, ThrowStep
<1>7. CASE UNCHANGED vars
  <2>1. UNCHANGED <<parent, stage, level, saved, owed, fault>>
    BY <1>7 DEF vars
  <2> QED
    BY <2>1 DEF Wound, TypeOK, UsedFirst, LevelsWound, LevelsApart, SavedWound, Balanced, OnStack
<1> QED
  BY <1>1, <1>2, <1>3, <1>4, <1>5, <1>6, <1>7 DEF Next

LEMMA AlwaysWound == ASSUME PlainJumps PROVE Spec => []Wound
<1>1. Init => Wound
  BY InitIsWound
<1>2. Wound /\ [Next]_vars => Wound'
  BY StepKeepsWound
<1> QED
  BY <1>1, <1>2, PTL DEF Spec

(* A wind is in its body when a frame runs its body: the frames fit.       *)
LEMMA WoundIsOwed == ASSUME Wound PROVE OwedInBody
<1>1. /\ \A l \in 1 .. Len(level) : level[l].frames \in FrameSeq
      /\ MaxWinds \in Nat
  BY LevelFacts
<1>2. ASSUME NEW w \in Winds, NEW l \in 1 .. Len(level)
      PROVE  w \in WindsOf(level[l].frames) /\ stage[w] = "body"
               <=> \E i \in 1 .. Len(level[l].frames) : level[l].frames[i] = Frame(w, "body")
  <2> DEFINE fs == level[l].frames
  <2>1. /\ fs \in FrameSeq /\ w # NoWind
        /\ Formed(fs, level[l].dywind, parent, stage) /\ Fits(fs, stage)
    BY <1>1 DEF Wound, LevelsWound, Winds, NoWind
  <2>2. \A i \in 1 .. Len(fs) : fs[i] = Frame(fs[i].wind, fs[i].part)
    BY <2>1, FrameFacts
  <2>3. /\ Frame(w, "body").wind = w /\ Frame(w, "body").part = "body"
    BY DEF Frame
  <2> HIDE DEF fs
  <2>4. ASSUME w \in WindsOf(fs), stage[w] = "body"
        PROVE  \E i \in 1 .. Len(fs) : fs[i] = Frame(w, "body")
    <3>1. PICK i \in 1 .. Len(fs) : fs[i].wind = w
      BY <2>4 DEF WindsOf, WindsUpTo
    <3>2. fs[i].part = "body"
      BY <2>1, <2>4, <3>1 DEF Fits
    <3> QED
      BY <2>2, <3>1, <3>2
  <2>5. ASSUME NEW i \in 1 .. Len(fs), fs[i] = Frame(w, "body")
        PROVE  w \in WindsOf(fs) /\ stage[w] = "body"
    <3>1. fs[i].wind = w /\ fs[i].part = "body"
      BY <2>3, <2>5
    <3>2. w \in WindsOf(fs)
      BY <2>1, <3>1 DEF WindsOf, WindsUpTo
    <3>3. stage[w] = "body"
      BY <2>1, <3>1 DEF Fits
    <3> QED
      BY <3>2, <3>3
  <2>6. w \in WindsOf(fs) /\ stage[w] = "body" <=> \E i \in 1 .. Len(fs) : fs[i] = Frame(w, "body")
    BY <2>4, <2>5
  <2> QED
    BY <2>6 DEF fs
<1>3. \A w \in Winds : OnStack(w) /\ stage[w] = "body" <=> InBody(w)
  BY <1>2 DEF OnStack, InBody
<1> QED
  BY <1>3 DEF Wound, Balanced, OwedInBody

(* However the body of a dynamic-wind is entered and left, by a return, an *)
(* error, a pcall or a jump: its before thunk has run once more than its   *)
(* after thunk while control is in the body, and as often at all other     *)
(* times (dywindadvance, unwinddywindchain, enterdywindchain).  The jumps  *)
(* are those that do not re-enter a thunk that returned, that do not leave *)
(* a thunk for the extent of its own dynamic-wind, and that stay in their  *)
(* pcall.                                                                  *)
THEOREM ThunksArePaired ==
  ASSUME "thunk reentry" \notin Uses, "thunk jumps in" \notin Uses, "level jump" \notin Uses
  PROVE  Spec => []OwedInBody
<1>1. PlainJumps
  BY Zenon DEF PlainJumps
<1> QED
  BY <1>1, AlwaysWound, WoundIsOwed, PTL

-----------------------------------------------------------------------------
(* What holds whatever the jumps: the frames of each level, and those of   *)
(* the continuation, nest.  Formed asks nothing of the stages but that the *)
(* winds are used, so no jump can break it.                                *)

Linked ==
  /\ TypeOK /\ level # <<>> /\ UsedFirst
  /\ \A l \in 1 .. Len(level) : Formed(level[l].frames, level[l].dywind, parent, stage)
  /\ \A s \in 1 .. Len(saved) : Formed(saved[s].frames, saved[s].dywind, parent, stage)

(* A step that leaves the winds in use where they are, and in use.         *)
WindsGoOn ==
  /\ ParentsFirst' /\ stage' \in [Winds -> Stages] /\ owed' \in [Winds -> Int]
  /\ fault' \in BOOLEAN /\ UsedFirst'
  /\ \A w \in Winds : stage[w] # "unused" => parent'[w] = parent[w] /\ stage'[w] # "unused"

LEMMA LinkFacts ==
  ASSUME Linked
  PROVE  /\ ParentsFirst /\ MaxWinds \in Nat
         /\ stage \in [Winds -> Stages] /\ owed \in [Winds -> Int] /\ fault \in BOOLEAN
         /\ Len(level) \in Nat \ {0} /\ Len(level) \in 1 .. Len(level)
         /\ level \in Seq(LevelType) /\ saved \in Seq(SavedType)
         /\ Top(level) = level[Len(level)] /\ Top(level) \in LevelType
         /\ \A l \in 1 .. Len(level) : level[l].frames \in FrameSeq /\ level[l].dywind \in 0 .. MaxWinds
         /\ \A s \in 1 .. Len(saved) : saved[s].frames \in FrameSeq /\ saved[s].dywind \in 0 .. MaxWinds
         /\ frames = Top(level).frames /\ dywind = Top(level).dywind
         /\ frames \in FrameSeq /\ dywind \in 0 .. MaxWinds
         /\ Formed(frames, dywind, parent, stage)
<1>1. level \in Seq(LevelType) /\ level # <<>> /\ saved \in Seq(SavedType)
  BY DEF Linked, TypeOK, LevelType, SavedType, FrameSeq
<1>2. /\ Len(level) \in Nat \ {0} /\ Len(level) \in 1 .. Len(level)
      /\ Top(level) = level[Len(level)] /\ Top(level) \in LevelType
  BY <1>1, LastAndFront
<1>3. /\ \A l \in 1 .. Len(level) : level[l] \in LevelType
      /\ \A s \in 1 .. Len(saved) : saved[s] \in SavedType
  BY <1>1
<1>4. /\ \A l \in 1 .. Len(level) : level[l].frames \in FrameSeq /\ level[l].dywind \in 0 .. MaxWinds
      /\ \A s \in 1 .. Len(saved) : saved[s].frames \in FrameSeq /\ saved[s].dywind \in 0 .. MaxWinds
  BY <1>3 DEF LevelType, SavedType
<1>5. frames = Top(level).frames /\ dywind = Top(level).dywind
  BY DEF frames, dywind
<1>6. Formed(frames, dywind, parent, stage)
  BY <1>2, <1>5 DEF Linked
<1>7. ParentsFirst /\ MaxWinds \in Nat
  BY ConstantsAssumption DEF Linked, TypeOK, ParentsFirst
<1>8. stage \in [Winds -> Stages] /\ owed \in [Winds -> Int] /\ fault \in BOOLEAN
  BY DEF Linked, TypeOK
<1> QED
  BY <1>1, <1>2, <1>4, <1>5, <1>6, <1>7, <1>8

(* The frames that stay are still formed.                                  *)
LEMMA LinkStays ==
  ASSUME Linked, WindsGoOn,
         level' \in Seq(LevelType), level' # <<>>, saved' \in Seq(SavedType),
         \A l \in 1 .. Len(level') : \/ \E m \in 1 .. Len(level) : level'[l] = level[m]
                                     \/ Formed(level'[l].frames, level'[l].dywind, parent', stage'),
         saved' = saved \/ \A s \in 1 .. Len(saved') :
                             Formed(saved'[s].frames, saved'[s].dywind, parent', stage')
  PROVE  Linked'
<1>1. ASSUME NEW fs \in FrameSeq, NEW d, Formed(fs, d, parent, stage)
      PROVE  Formed(fs, d, parent', stage')
  <2>1. \A w \in WindsOf(fs) : w \in Winds /\ stage[w] # "unused"
    BY <1>1, FrameFacts, WindsAreUsed
  <2>2. \A w \in WindsOf(fs) : parent'[w] = parent[w] /\ stage'[w] # "unused"
    BY <2>1 DEF WindsGoOn
  <2> QED
    BY <1>1, <2>2, FormedStays
<1>2. \A l \in 1 .. Len(level) : Formed(level[l].frames, level[l].dywind, parent', stage')
  BY <1>1, LinkFacts DEF Linked
<1>3. \A s \in 1 .. Len(saved) : Formed(saved[s].frames, saved[s].dywind, parent', stage')
  BY <1>1, LinkFacts DEF Linked
<1>4. \A l \in 1 .. Len(level') : Formed(level'[l].frames, level'[l].dywind, parent', stage')
  BY <1>2
<1>5. \A s \in 1 .. Len(saved') : Formed(saved'[s].frames, saved'[s].dywind, parent', stage')
  BY <1>3
<1>6. TypeOK'
  BY DEF WindsGoOn, TypeOK, ParentsFirst, LevelType, SavedType, FrameSeq
<1> QED
  BY <1>4, <1>5, <1>6 DEF Linked, WindsGoOn

(* The level that runs goes on, or it is left.                             *)
LEMMA LinkGoesOn ==
  ASSUME Linked, WindsGoOn, saved' = saved,
         NEW fs \in FrameSeq, NEW d \in 0 .. MaxWinds, GoOn(fs, d), Formed(fs, d, parent', stage')
  PROVE  Linked'
<1> DEFINE n == Len(level)
           L == [Top(level) EXCEPT !.frames = fs, !.dywind = d]
<1>1. /\ n \in Nat \ {0} /\ level \in Seq(LevelType) /\ level # <<>> /\ Top(level) \in LevelType
      /\ saved \in Seq(SavedType)
  BY LinkFacts DEF Linked
<1>2. L \in LevelType /\ L.frames = fs /\ L.dywind = d
  BY <1>1 DEF LevelType
<1>3. level' = Append(Front(level), L)
  BY DEF GoOn
<1> HIDE DEF L
<1>4. /\ Front(level) \in Seq(LevelType) /\ Len(Front(level)) = n - 1
      /\ \A l \in 1 .. n - 1 : Front(level)[l] = level[l]
  BY <1>1, LastAndFront
<1>5. /\ level' \in Seq(LevelType) /\ Len(level') = n /\ level' # <<>> /\ level'[n] = L
      /\ \A l \in 1 .. n - 1 : level'[l] = level[l]
  <2>1. (n - 1) + 1 = n
    BY <1>1
  <2> QED
    BY <1>2, <1>3, <1>4, <2>1, OneMore
<1>6. \A l \in 1 .. n : l = n \/ (l \in 1 .. n - 1 /\ l \in 1 .. n)
  BY <1>1
<1>7. \A l \in 1 .. Len(level') : \/ \E m \in 1 .. Len(level) : level'[l] = level[m]
                                  \/ Formed(level'[l].frames, level'[l].dywind, parent', stage')
  BY <1>2, <1>5, <1>6
<1> QED
  BY <1>1, <1>5, <1>7, LinkStays

LEMMA LinkLeaves ==
  ASSUME Linked, WindsGoOn, saved' = saved,
         level' = IF Len(level) > 1 THEN Front(level) ELSE <<BaseLevel>>
  PROVE  Linked'
<1> DEFINE n == Len(level)
<1>1. /\ n \in Nat \ {0} /\ level \in Seq(LevelType) /\ level # <<>>
      /\ saved \in Seq(SavedType) /\ MaxWinds \in Nat
  BY LinkFacts DEF Linked
<1>2. CASE n > 1
  <2>1. /\ level' \in Seq(LevelType) /\ Len(level') = n - 1
        /\ \A l \in 1 .. n - 1 : level'[l] = level[l]
    BY <1>1, <1>2, LastAndFront
  <2>2. n - 1 # 0 /\ \A l \in 1 .. n - 1 : l \in 1 .. n
    <3>1. \A m \in Nat : m > 1 => m - 1 # 0 /\ \A l \in 1 .. m - 1 : l \in 1 .. m
      OBVIOUS
    <3> QED
      BY <1>1, <1>2, <3>1
  <2>3. level' # <<>>
    BY <2>1, <2>2
  <2>4. \A l \in 1 .. Len(level') : \E m \in 1 .. Len(level) : level'[l] = level[m]
    BY <2>1, <2>2
  <2> QED
    BY <1>1, <2>1, <2>3, <2>4, LinkStays
<1>3. CASE ~(n > 1)
  <2>1. /\ level' = <<BaseLevel>> /\ Len(level') = 1 /\ level'[1] = BaseLevel /\ level' # <<>>
        /\ \A l \in 1 .. 1 : l = 1
    BY <1>3
  <2>2. BaseLevel \in LevelType /\ BaseLevel.frames = <<>> /\ BaseLevel.dywind = NoWind
    BY <1>1, NoFrames DEF BaseLevel, LevelType, NoWind
  <2>3. level' \in Seq(LevelType)
    <3>1. \A b \in LevelType : <<b>> \in Seq(LevelType)
      OBVIOUS
    <3> QED
      BY <2>1, <2>2, <3>1
  <2>4. Formed(<<>>, NoWind, parent', stage')
    BY NoFrames
  <2>5. \A l \in 1 .. Len(level') : Formed(level'[l].frames, level'[l].dywind, parent', stage')
    BY <2>1, <2>2, <2>4
  <2> QED
    BY <1>1, <2>1, <2>3, <2>5, LinkStays
<1> QED
  BY <1>2, <1>3

(* Winds that no step touches, or whose before and after thunks run.       *)
LEMMA SameWindsGoOn ==
  ASSUME Linked, UNCHANGED parent, stage' \in [Winds -> Stages], owed' \in [Winds -> Int],
         fault' \in BOOLEAN, \A w \in Winds : stage'[w] = "unused" <=> stage[w] = "unused"
  PROVE  WindsGoOn
<1>1. ParentsFirst /\ MaxWinds \in Nat
  BY LinkFacts
<1>2. \A x, y \in Winds : x < y /\ stage[x] = "unused" => stage[y] = "unused"
  BY DEF Linked, UsedFirst
<1>3. UsedFirst'
  BY <1>2 DEF UsedFirst
<1>4. ParentsFirst'
  BY <1>1 DEF ParentsFirst
<1> QED
  BY <1>3, <1>4 DEF WindsGoOn

LEMMA OweIsTyped ==
  ASSUME Linked, NEW more, NEW less, Owe(more, less)
  PROVE  owed' \in [Winds -> Int]
<1>1. owed \in [Winds -> Int]
  BY LinkFacts
<1> QED
  BY <1>1 DEF Owe

(* The frames with one more that is no thunk, or with the last taken away. *)
LEMMA FramesLinked ==
  ASSUME Linked
  PROVE  /\ Append(frames, Code) \in FrameSeq
         /\ Formed(Append(frames, Code), dywind, parent, stage)
         /\ frames # <<>> =>
              LET w == Top(frames).wind IN
              /\ Front(frames) \in FrameSeq
              /\ w = NoWind => Formed(Front(frames), dywind, parent, stage)
              /\ w # NoWind => /\ w = dywind /\ w \in Winds
                               /\ parent[w] \in 0 .. MaxWinds /\ stage[w] # "unused"
                               /\ Formed(Front(frames), parent[w], parent, stage)
                               /\ \A x \in WindsOf(Front(frames)) : x < w
<1> DEFINE F == frames
           D == dywind
           C == Code
           P == parent
           st == stage
<1>1. /\ F \in FrameSeq /\ Formed(F, D, P, st) /\ MaxWinds \in Nat
      /\ P \in [Winds -> 0 .. MaxWinds]
  BY LinkFacts DEF ParentsFirst
<1>2. C \in Frames /\ C = Code
  BY <1>1 DEF Code, Frame, Frames, NoWind
<1> HIDE DEF F, D, C, P, st
<1>3. Append(F, C) \in FrameSeq /\ Formed(Append(F, C), D, P, st)
  BY <1>1, <1>2, FrameAdded
<1>4. ASSUME F # <<>>
      PROVE  LET w == Top(F).wind IN
             /\ Front(F) \in FrameSeq
             /\ w = NoWind => Formed(Front(F), D, P, st)
             /\ w # NoWind => /\ w = D /\ w \in Winds
                              /\ P[w] \in 0 .. MaxWinds /\ st[w] # "unused"
                              /\ Formed(Front(F), P[w], P, st)
                              /\ \A x \in WindsOf(Front(F)) : x < w
  <2> DEFINE f == Top(F)
             w == f.wind
  <2>1. /\ Front(F) \in FrameSeq
        /\ Formed(Front(F), IF w = NoWind THEN D ELSE P[w], P, st)
        /\ w # NoWind => /\ w = D /\ w \in Winds /\ w \in WindsOf(F)
                         /\ \A x \in WindsOf(Front(F)) : x < w
    BY <1>1, <1>4, FrameTaken
  <2> HIDE DEF f
  <2>2. CASE w = NoWind
    <3>1. (IF w = NoWind THEN D ELSE P[w]) = D
      BY <2>2
    <3> QED
      BY <2>1, <2>2, <3>1 DEF f
  <2>3. CASE w # NoWind
    <3>1. (IF w = NoWind THEN D ELSE P[w]) = P[w]
      BY <2>3
    <3>2. st[w] # "unused"
      BY <1>1, <2>1, <2>3, WindsAreUsed
    <3>3. P[w] \in 0 .. MaxWinds
      BY <1>1, <2>1, <2>3
    <3> QED
      BY <2>1, <2>3, <3>1, <3>2, <3>3 DEF f
  <2> QED
    BY <2>2, <2>3
<1> QED
  BY <1>3, <1>4 DEF F, D, C, P, st

LEMMA PlainStepsLink ==
  ASSUME Linked, Form \/ Call \/ Return \/ Fail
  PROVE  Linked'
<1>1. /\ frames \in FrameSeq /\ dywind \in 0 .. MaxWinds /\ stage \in [Winds -> Stages]
      /\ owed \in [Winds -> Int] /\ fault \in BOOLEAN
  BY LinkFacts
<1>2. ASSUME UNCHANGED <<parent, stage, owed, fault>>
      PROVE  WindsGoOn
  BY <1>1, <1>2, SameWindsGoOn
<1>3. /\ Append(frames, Code) \in FrameSeq
      /\ Formed(Append(frames, Code), dywind, parent, stage)
  BY FramesLinked
<1>a. CASE Form \/ Call
  <2>1. /\ GoOn(Append(frames, Code), dywind)
        /\ UNCHANGED <<parent, stage, saved, owed, fault>>
    <3>1. Append(<<>>, Code) = <<Code>>
      OBVIOUS
    <3>2. CASE Form
      BY <3>1, <3>2 DEF Form, Running
    <3>3. CASE Call
      BY <3>3 DEF Call
    <3> QED
      BY <1>a, <3>2, <3>3
  <2>2. Formed(Append(frames, Code), dywind, parent', stage')
    BY <1>3, <2>1
  <2> QED
    BY <1>1, <1>2, <1>3, <2>1, <2>2, LinkGoesOn
<1>b. CASE Return
  <2>1. /\ frames # <<>> /\ Top(frames).wind = NoWind
        /\ UNCHANGED <<parent, stage, saved, owed, fault>>
    BY <1>b DEF Return, Running
  <2>2. CASE Len(frames) = 1 /\ Len(level) > 1
    <3>1. level' = IF Len(level) > 1 THEN Front(level) ELSE <<BaseLevel>>
      BY <1>b, <2>2 DEF Return
    <3> QED
      BY <1>2, <2>1, <3>1, LinkLeaves
  <2>3. CASE ~(Len(frames) = 1 /\ Len(level) > 1)
    <3>1. GoOn(Front(frames), dywind)
      BY <1>b, <2>3 DEF Return
    <3>2. Front(frames) \in FrameSeq /\ Formed(Front(frames), dywind, parent', stage')
      BY <2>1, FramesLinked
    <3> QED
      BY <1>1, <1>2, <2>1, <3>1, <3>2, LinkGoesOn
  <2> QED
    BY <2>2, <2>3
<1>d. CASE Fail
  <2>1. /\ UNCHANGED <<parent, stage, saved, fault>>
        /\ level' = IF Len(level) > 1 THEN Front(level) ELSE <<BaseLevel>>
        /\ Owe({}, {x \in Chain(dywind) : stage[x] = "body"})
    BY <1>d DEF Fail, Raise
  <2>2. owed' \in [Winds -> Int]
    BY <2>1, OweIsTyped
  <2>3. WindsGoOn
    BY <1>1, <2>1, <2>2, SameWindsGoOn
  <2> QED
    BY <2>1, <2>3, LinkLeaves
<1> QED
  BY <1>a, <1>b, <1>d

(* A wind that is made is linked to the one that was innermost.            *)
LEMMA WindLinks ==
  ASSUME Linked, NEW w \in Winds, Wind(w)
  PROVE  Linked'
<1> DEFINE f == Frame(w, "before")
           fs == Append(frames, f)
<1>1. /\ frames \in FrameSeq /\ dywind \in 0 .. MaxWinds /\ MaxWinds \in Nat
      /\ Formed(frames, dywind, parent, stage) /\ WindsOf(frames) \subseteq Winds
      /\ stage \in [Winds -> Stages] /\ owed \in [Winds -> Int] /\ fault \in BOOLEAN
      /\ parent \in [Winds -> 0 .. MaxWinds] /\ \A x \in Winds : parent[x] < x
  BY LinkFacts, FrameFacts DEF ParentsFirst
<1>2. /\ stage[w] = "unused" /\ \A x \in 1 .. w - 1 : stage[x] # "unused"
      /\ parent' = [parent EXCEPT ![w] = dywind]
      /\ stage' = [stage EXCEPT ![w] = "before"]
      /\ GoOn(fs, w) /\ UNCHANGED <<saved, owed, fault>>
  BY DEF Wind
<1>3. \A x, y \in Winds : x < y /\ stage[x] = "unused" => stage[y] = "unused"
  BY DEF Linked, UsedFirst
<1>4. ASSUME NEW x \in Winds, stage[x] # "unused"
      PROVE  x < w
  <2>1. x # w /\ ~(w < x)
    BY <1>2, <1>3, <1>4
  <2>2. x \in Nat /\ w \in Nat
    BY <1>1 DEF Winds
  <2> QED
    BY <2>1, <2>2
<1>5. \A x \in WindsOf(frames) : x \in Winds /\ stage[x] # "unused" /\ x < w /\ x # w
  BY <1>1, <1>2, <1>4, WindsAreUsed
<1>6. dywind < w
  <2>1. 0 < w
    BY <1>1 DEF Winds
  <2> QED
    BY <1>1, <1>5, <2>1, WindsAreUsed DEF NoWind
<1>7. /\ ParentsFirst' /\ parent'[w] = dywind
      /\ \A x \in Winds : x # w => parent'[x] = parent[x]
  <2>1. parent' \in [Winds -> 0 .. MaxWinds] /\ parent'[w] = dywind
        /\ \A x \in Winds : x # w => parent'[x] = parent[x]
    BY <1>1, <1>2
  <2>2. \A x \in Winds : parent'[x] < x
    BY <1>1, <1>6, <2>1
  <2> QED
    BY <2>1, <2>2 DEF ParentsFirst
<1>8. /\ stage' \in [Winds -> Stages] /\ stage'[w] = "before"
      /\ \A x \in Winds : x # w => stage'[x] = stage[x]
  BY <1>1, <1>2 DEF Stages
<1>9. UsedFirst'
  <2>1. ASSUME NEW x \in Winds, NEW y \in Winds, x < y, stage'[x] = "unused"
        PROVE  stage'[y] = "unused"
    <3>1. x # w /\ stage[x] = "unused"
      BY <1>8, <2>1
    <3>2. stage[y] = "unused"
      BY <1>3, <2>1, <3>1
    <3>3. y # w
      <4>1. x \in Nat /\ w \in Nat /\ ~(x \in 1 .. w - 1)
        BY <1>1, <1>2, <3>1 DEF Winds
      <4>2. ~(x < w)
        BY <1>1, <4>1 DEF Winds
      <4> QED
        BY <2>1, <4>2
    <3> QED
      BY <1>8, <3>2, <3>3
  <2> QED
    BY <2>1 DEF UsedFirst
<1>10. WindsGoOn
  <2>1. \A x \in Winds : stage[x] # "unused" => parent'[x] = parent[x] /\ stage'[x] # "unused"
    BY <1>2, <1>7, <1>8
  <2> QED
    BY <1>1, <1>2, <1>7, <1>8, <1>9, <2>1 DEF WindsGoOn
<1>11. f \in Frames /\ f.wind = w /\ f.part = "before" /\ w # NoWind
  BY <1>1 DEF Frame, Frames, Winds, NoWind
<1> HIDE DEF f
<1>12. Formed(frames, dywind, parent', stage')
  <2>1. \A x \in WindsOf(frames) : parent'[x] = parent[x] /\ stage'[x] # "unused"
    BY <1>5, <1>7, <1>8
  <2> QED
    BY <1>1, <2>1, FormedStays
<1>13. fs \in FrameSeq
  BY <1>1, <1>11, FrameAdded
<1>14. Formed(fs, w, parent', stage')
  <2>1. /\ f.part \in Parts /\ stage'[f.wind] # "unused" /\ f.wind # NoWind
        /\ Formed(frames, parent'[f.wind], parent', stage')
        /\ \A x \in WindsOf(frames) : x < f.wind
    BY <1>5, <1>7, <1>8, <1>11, <1>12 DEF Parts
  <2>2. Formed(fs, f.wind, parent', stage')
    BY <1>1, <1>11, <2>1, FrameAdded
  <2> QED
    BY <1>11, <2>2
<1> HIDE DEF fs
<1>15. w \in 0 .. MaxWinds
  BY <1>1 DEF Winds
<1> QED
  BY <1>2, <1>10, <1>13, <1>14, <1>15, LinkGoesOn

LEMMA AdvanceLinks ==
  ASSUME Linked, Advance
  PROVE  Linked'
<1> DEFINE w == Top(frames).wind
           F == Front(frames)
           next(p) == Append(F, Frame(w, p))
<1>1. /\ frames \in FrameSeq /\ dywind \in 0 .. MaxWinds /\ MaxWinds \in Nat
      /\ stage \in [Winds -> Stages] /\ owed \in [Winds -> Int] /\ fault \in BOOLEAN
  BY LinkFacts
<1>2. frames # <<>> /\ w # NoWind /\ UNCHANGED <<parent, saved>>
  BY DEF Advance, Running
<1>3. /\ F \in FrameSeq /\ w = dywind /\ w \in Winds
      /\ parent[w] \in 0 .. MaxWinds /\ stage[w] # "unused"
      /\ Formed(F, parent[w], parent, stage)
      /\ \A x \in WindsOf(F) : x < w
  BY <1>2, FramesLinked
<1>4. \/ \E p \in {"body", "after"} :
           /\ stage' = [stage EXCEPT ![w] = p]
           /\ \E more, less : Owe(more, less)
           /\ GoOn(next(p), dywind) /\ UNCHANGED fault
      \/ /\ stage' = [stage EXCEPT ![w] = "done"]
         /\ GoOn(F, parent[w]) /\ UNCHANGED <<owed, fault>>
      \/ Raise(dywind) /\ fault' = TRUE /\ UNCHANGED stage
  BY DEF Advance
<1> HIDE DEF w, F
<1>5. ASSUME NEW p \in {"body", "after", "done"}, stage' = [stage EXCEPT ![w] = p],
             owed' \in [Winds -> Int], UNCHANGED fault
      PROVE  /\ WindsGoOn
             /\ stage'[w] = p
             /\ Formed(F, parent[w], parent', stage')
  <2>1. /\ stage' \in [Winds -> Stages] /\ stage'[w] = p /\ p # "unused"
        /\ \A x \in Winds : x # w => stage'[x] = stage[x]
    BY <1>1, <1>3, <1>5 DEF Stages
  <2>2. \A x \in Winds : stage'[x] = "unused" <=> stage[x] = "unused"
    BY <1>3, <2>1
  <2>3. WindsGoOn
    BY <1>1, <1>2, <1>5, <2>1, <2>2, SameWindsGoOn
  <2> DEFINE d == parent[w]
  <2>4. Formed(F, d, parent, stage)
    BY <1>3
  <2> HIDE DEF d
  <2>5. \A x \in WindsOf(F) : x \in Winds /\ stage[x] # "unused"
    BY <1>3, <2>4, FrameFacts, WindsAreUsed
  <2>6. \A x \in WindsOf(F) : parent'[x] = parent[x] /\ stage'[x] # "unused"
    BY <1>2, <2>2, <2>5
  <2>7. Formed(F, d, parent', stage')
    BY <1>3, <2>4, <2>6, FormedStays
  <2> QED
    BY <2>1, <2>3, <2>7 DEF d
<1>6. ASSUME NEW p \in {"body", "after"}, stage' = [stage EXCEPT ![w] = p],
             \E more, less : Owe(more, less), GoOn(next(p), dywind), UNCHANGED fault
      PROVE  Linked'
  <2>1. owed' \in [Winds -> Int]
    BY <1>6, OweIsTyped
  <2>2. WindsGoOn /\ stage'[w] = p /\ Formed(F, parent[w], parent', stage')
    BY <1>5, <1>6, <2>1
  <2> DEFINE g == Frame(w, p)
             fs == Append(F, g)
  <2>3. g \in Frames /\ g.wind = w /\ g.part = p /\ p \in Parts /\ p # "unused"
    BY <1>1, <1>3 DEF Frame, Frames, Winds, Parts
  <2>4. GoOn(fs, dywind)
    BY <1>6
  <2> HIDE DEF g
  <2>5. fs \in FrameSeq
    BY <1>3, <2>3, FrameAdded
  <2>6. Formed(fs, g.wind, parent', stage')
    <3>1. /\ g.wind # NoWind /\ g.part \in Parts /\ stage'[g.wind] # "unused"
          /\ Formed(F, parent'[g.wind], parent', stage') /\ \A x \in WindsOf(F) : x < g.wind
      BY <1>2, <1>3, <2>2, <2>3
    <3> QED
      BY <1>3, <2>3, <3>1, FrameAdded
  <2>7. Formed(fs, dywind, parent', stage')
    BY <1>3, <2>3, <2>6
  <2> HIDE DEF fs
  <2> QED
    BY <1>1, <1>2, <2>2, <2>4, <2>5, <2>7, LinkGoesOn
<1>7. ASSUME stage' = [stage EXCEPT ![w] = "done"], GoOn(F, parent[w]), UNCHANGED <<owed, fault>>
      PROVE  Linked'
  <2> DEFINE d == parent[w]
  <2>1. WindsGoOn /\ Formed(F, d, parent', stage') /\ d \in 0 .. MaxWinds /\ GoOn(F, d)
    BY <1>1, <1>3, <1>5, <1>7
  <2> HIDE DEF d
  <2> QED
    BY <1>2, <1>3, <2>1, LinkGoesOn
<1>8. ASSUME Raise(dywind), fault' = TRUE, UNCHANGED stage
      PROVE  Linked'
  <2>1. /\ Owe({}, {x \in Chain(dywind) : stage[x] = "body"})
        /\ level' = IF Len(level) > 1 THEN Front(level) ELSE <<BaseLevel>>
    BY <1>8 DEF Raise
  <2>2. owed' \in [Winds -> Int]
    BY <2>1, OweIsTyped
  <2>3. WindsGoOn
    BY <1>1, <1>2, <1>8, <2>2, SameWindsGoOn
  <2> QED
    BY <1>2, <2>1, <2>3, LinkLeaves
<1> QED
  BY <1>4, <1>6, <1>7, <1>8

LEMMA PCallLinks ==
  ASSUME Linked, PCall
  PROVE  Linked'
<1> DEFINE n == Len(level)
<1>1. /\ n \in Nat \ {0} /\ level \in Seq(LevelType) /\ saved \in Seq(SavedType)
      /\ MaxWinds \in Nat /\ MaxLevels \in Nat /\ stage \in [Winds -> Stages]
      /\ owed \in [Winds -> Int] /\ fault \in BOOLEAN
  BY LinkFacts, ConstantsAssumption
<1>2. PICK m \in 1 .. MaxLevels :
        level' = Append(level, [BaseLevel EXCEPT !.frames = <<Code>>, !.name = m])
  BY DEF PCall
<1>3. UNCHANGED <<parent, stage, saved, owed, fault>>
  BY DEF PCall
<1> DEFINE L == [BaseLevel EXCEPT !.frames = <<Code>>, !.name = m]
<1>4. <<Code>> \in FrameSeq /\ Formed(<<Code>>, NoWind, parent, stage)
  <2> DEFINE e == <<>>
             C == Code
             o == NoWind
  <2>1. e \in FrameSeq /\ Formed(e, o, parent, stage)
    BY NoFrames
  <2>2. C \in Frames /\ C = Code
    BY <1>1 DEF Code, Frame, Frames, NoWind
  <2>3. Append(<<>>, C) = <<C>>
    OBVIOUS
  <2> HIDE DEF e, C, o
  <2>4. Append(e, C) \in FrameSeq /\ Formed(Append(e, C), o, parent, stage)
    BY <2>1, <2>2, FrameAdded
  <2> QED
    BY <2>2, <2>3, <2>4 DEF e, o
<1>5. L \in LevelType /\ L.frames = <<Code>> /\ L.dywind = NoWind
  <2> DEFINE c == <<Code>>
  <2>1. c \in FrameSeq /\ m \in Nat
    BY <1>4
  <2>2. BaseLevel \in LevelType /\ BaseLevel.dywind = NoWind
    BY <1>1, NoFrames DEF BaseLevel, LevelType, NoWind
  <2> HIDE DEF c
  <2>3. LET K == [BaseLevel EXCEPT !.frames = c, !.name = m]
        IN  K \in LevelType /\ K.frames = c /\ K.dywind = NoWind
    BY <2>1, <2>2 DEF LevelType
  <2> QED
    BY <2>3 DEF c
<1> HIDE DEF L
<1>6. /\ level' \in Seq(LevelType) /\ Len(level') = n + 1 /\ level' # <<>>
      /\ level'[n + 1] = L /\ \A l \in 1 .. n : level'[l] = level[l]
      /\ \A l : l \in 1 .. n + 1 <=> l \in 1 .. n \/ l = n + 1
  <2>1. level' = Append(level, L)
    BY <1>2 DEF L
  <2> QED
    BY <1>1, <1>5, <2>1, OneMore
<1>7. WindsGoOn
  BY <1>1, <1>3, SameWindsGoOn
<1>8. \A l \in 1 .. Len(level') : \/ \E k \in 1 .. Len(level) : level'[l] = level[k]
                                  \/ Formed(level'[l].frames, level'[l].dywind, parent', stage')
  BY <1>3, <1>4, <1>5, <1>6
<1> QED
  BY <1>1, <1>3, <1>6, <1>7, <1>8, LinkStays

LEMMA CallCCLinks ==
  ASSUME Linked, CallCC
  PROVE  Linked'
<1> DEFINE k == [frames |-> frames, dywind |-> dywind, home |-> Top(level).name,
                 dystage |-> IF dywind = NoWind THEN "none" ELSE stage[dywind]]
<1>1. saved' = <<k>> /\ UNCHANGED <<parent, stage, level, owed, fault>>
  BY ZenonT(30) DEF CallCC
<1>2. /\ frames \in FrameSeq /\ dywind \in 0 .. MaxWinds /\ MaxWinds \in Nat
      /\ Formed(frames, dywind, parent, stage) /\ level \in Seq(LevelType)
      /\ Top(level) \in LevelType /\ Top(level).name \in Nat
      /\ stage \in [Winds -> Stages] /\ owed \in [Winds -> Int] /\ fault \in BOOLEAN
  BY LinkFacts DEF LevelType
<1>3. (IF dywind = NoWind THEN "none" ELSE stage[dywind]) \in Stages \union {"none"}
  <2>1. dywind # NoWind => dywind \in Winds
    BY <1>2 DEF Winds, NoWind
  <2> QED
    BY <1>2, <2>1
<1>4. k \in SavedType /\ k.frames = frames /\ k.dywind = dywind
  BY <1>2, <1>3 DEF SavedType
<1> HIDE DEF k
<1>5. saved' \in Seq(SavedType) /\ Len(saved') = 1 /\ saved'[1] = k /\ \A s \in 1 .. 1 : s = 1
  BY <1>1, <1>4
<1>6. \A s \in 1 .. Len(saved') : Formed(saved'[s].frames, saved'[s].dywind, parent', stage')
  BY <1>1, <1>2, <1>4, <1>5
<1>7. WindsGoOn
  BY <1>1, <1>2, SameWindsGoOn
<1>8. level' \in Seq(LevelType) /\ level' # <<>>
  BY <1>1, <1>2 DEF Linked
<1> QED
  BY <1>1, <1>5, <1>6, <1>7, <1>8, LinkStays

(* A jump brings back frames that nest, whatever their winds are at.       *)
LEMMA ThrowLinks ==
  ASSUME Linked, Throw
  PROVE  Linked'
<1> DEFINE k == saved[1]
           c == Innermost(Chain(dywind) \intersect Chain(k.dywind))
           left == Left(c)
           entered == Chain(k.dywind) \ Chain(c)
           G == k.frames
           E == k.dywind
<1>1. /\ saved # <<>> /\ UNCHANGED <<parent, saved, fault>>
      /\ \/ /\ Owe({}, left \union {x \in Chain(c) : stage[x] = "body"})
            /\ level' = IF Len(level) > 1 THEN Front(level) ELSE <<BaseLevel>>
            /\ UNCHANGED stage
         \/ /\ Owe(entered, left)
            /\ stage' = Entered(entered)
            /\ GoOn(G, E)
  BY DEF Throw
<1>2. 1 \in 1 .. Len(saved)
  <2>1. Len(saved) \in Nat /\ Len(saved) # 0
    BY <1>1, LinkFacts
  <2>2. \A m \in Nat : m # 0 => 1 \in 1 .. m
    OBVIOUS
  <2> QED
    BY <2>1, <2>2
<1>3. /\ G \in FrameSeq /\ E \in 0 .. MaxWinds /\ Formed(G, E, parent, stage)
      /\ stage \in [Winds -> Stages] /\ fault \in BOOLEAN /\ ParentsFirst
  BY <1>2, LinkFacts DEF Linked
<1>4. Chain(E) = WindsOf(G)
  <2> HIDE DEF G, E
  <2> QED
    BY <1>3, ChainIsFrames
<1>5. \A w \in entered : stage[w] # "unused"
  <2>1. entered \subseteq WindsOf(G)
    BY <1>4
  <2> HIDE DEF G, E, entered
  <2> QED
    BY <1>3, <2>1, WindsAreUsed
<1> HIDE DEF G, E, left, entered, c
<1>6. CASE /\ Owe({}, left \union {x \in Chain(c) : stage[x] = "body"})
           /\ level' = IF Len(level) > 1 THEN Front(level) ELSE <<BaseLevel>>
           /\ UNCHANGED stage
  <2>1. owed' \in [Winds -> Int]
    BY <1>6, OweIsTyped
  <2>2. WindsGoOn
    BY <1>1, <1>3, <1>6, <2>1, SameWindsGoOn
  <2> QED
    BY <1>1, <1>6, <2>2, LinkLeaves
<1>7. CASE Owe(entered, left) /\ stage' = Entered(entered) /\ GoOn(G, E)
  <2>1. owed' \in [Winds -> Int]
    BY <1>7, OweIsTyped
  <2>2. /\ stage' \in [Winds -> Stages]
        /\ \A w \in Winds : stage'[w] = IF w \in entered THEN "body" ELSE stage[w]
    BY <1>3, <1>7 DEF Entered, Stages
  <2>3. \A w \in Winds : stage'[w] = "unused" <=> stage[w] = "unused"
    BY <1>5, <2>2
  <2>4. WindsGoOn
    BY <1>1, <1>3, <2>1, <2>2, <2>3, SameWindsGoOn
  <2>5. \A w \in WindsOf(G) : w \in Winds /\ stage[w] # "unused"
    BY <1>3, FrameFacts, WindsAreUsed
  <2>6. \A w \in WindsOf(G) : parent'[w] = parent[w] /\ stage'[w] # "unused"
    BY <1>1, <2>3, <2>5
  <2>7. Formed(G, E, parent', stage')
    BY <1>3, <2>6, FormedStays
  <2> QED
    BY <1>1, <1>3, <1>7, <2>4, <2>7, LinkGoesOn
<1> QED
  BY <1>1, <1>6, <1>7

LEMMA AlwaysLinked == Spec => []Linked
<1>1. Init => Linked
  BY InitIsWound DEF Wound, Linked, LevelsWound, SavedWound
<1>2. ASSUME Linked, [Next]_vars
      PROVE  Linked'
  <2>1. CASE Form \/ Call \/ Return \/ Fail
    BY <1>2, <2>1, PlainStepsLink
  <2>2. CASE Advance
    BY <1>2, <2>2, AdvanceLinks
  <2>3. CASE PCall
    BY <1>2, <2>3, PCallLinks
  <2>4. CASE \E w \in Winds : Wind(w)
    BY <1>2, <2>4, WindLinks
  <2>5. CASE CallCC
    BY <1>2, <2>5, CallCCLinks
  <2>6. CASE Throw
    BY <1>2, <2>6, ThrowLinks
  <2>7. CASE UNCHANGED vars
    <3>1. UNCHANGED <<parent, stage, level, saved, owed, fault>>
      BY <2>7 DEF vars
    <3> QED
      BY <1>2, <3>1 DEF Linked, TypeOK, UsedFirst
  <2> QED
    BY <1>2, <2>1, <2>2, <2>3, <2>4, <2>5, <2>6, <2>7 DEF Next
<1> QED
  BY <1>1, <1>2, PTL DEF Spec

(* Winds, frames and levels keep their shape, and a wind is made after the *)
(* one that it is in, whatever jumps and errors do.                        *)
THEOREM TypeCorrect == Spec => []TypeOK
<1>1. Linked => TypeOK
  BY DEF Linked
<1> QED
  BY <1>1, AlwaysLinked, PTL

(* vm->dywind and its parents are the winds whose thunks are on the stack, *)
(* in every level, whatever the program jumps to: so unwinddywindchain and *)
(* teardownstack find every after thunk that is owed.                      *)
THEOREM ChainFollowsStack == Spec => []ChainIsStack
<1>1. ASSUME Linked
      PROVE  ChainIsStack
  <2>1. ASSUME NEW l \in 1 .. Len(level)
        PROVE  Chain(level[l].dywind) = WindsOf(level[l].frames)
    <3> DEFINE F == level[l].frames
               D == level[l].dywind
    <3>1. ParentsFirst /\ F \in FrameSeq /\ Formed(F, D, parent, stage)
      BY <1>1, LinkFacts DEF Linked
    <3> HIDE DEF F, D
    <3>2. Chain(D) = WindsOf(F)
      BY <3>1, ChainIsFrames
    <3> QED
      BY <3>2 DEF F, D
  <2> QED
    BY <2>1 DEF ChainIsStack, WindsOf, WindsUpTo
<1> QED
  BY <1>1, AlwaysLinked, PTL

-----------------------------------------------------------------------------
(* Why dywindadvance meets no wind that is done: a wind is done when its   *)
(* last thunk leaves the stack, and no other level has it, as long as the  *)
(* program jumps only within a level.  Jumps into thunks and out of them   *)
(* do no harm here: the winds they enter are set to their bodies.          *)

SavedApart ==
  \A s \in 1 .. Len(saved), l \in 1 .. Len(level) :
    level[l].name # saved[s].home =>
      WindsOf(level[l].frames) \intersect WindsOf(saved[s].frames) = {}

Undone == \A l \in 1 .. Len(level) : \A w \in WindsOf(level[l].frames) : stage[w] # "done"

JumpsInLevel == Uses \intersect {"level jump"} = {}

LEMMA MayJumpInLevel == ASSUME JumpsInLevel, NEW k, MayJump(k) PROVE k.home = Top(level).name
BY ZenonT(30) DEF JumpsInLevel, MayJump

Separate == Len(saved) \in 0 .. 1 /\ LevelsApart /\ SavedApart /\ Undone /\ ~fault

LEMMA SeparateGoesOn ==
  ASSUME Linked, Separate, saved' = saved, fault' = fault,
         NEW fs \in FrameSeq, NEW d, GoOn(fs, d),
         \A w \in WindsOf(fs) :
           \/ w \in WindsOf(frames)
           \/ stage[w] = "unused"
           \/ /\ \A s \in 1 .. Len(saved) : saved[s].home = Top(level).name
              /\ \E s \in 1 .. Len(saved) : w \in WindsOf(saved[s].frames),
         \A w \in WindsOf(fs) : stage'[w] # "done",
         \A l \in 1 .. Len(level) - 1 : \A w \in WindsOf(level[l].frames) : stage'[w] # "done"
  PROVE  Separate'
<1> DEFINE n == Len(level)
           L == [Top(level) EXCEPT !.frames = fs, !.dywind = d]
<1>1. /\ n \in Nat \ {0} /\ n \in 1 .. n /\ level \in Seq(LevelType) /\ level # <<>>
      /\ Top(level) = level[n] /\ Top(level) \in LevelType /\ frames = level[n].frames
  BY LinkFacts DEF Linked
<1>2. L.frames = fs /\ L.name = level[n].name
  BY <1>1 DEF LevelType
<1>3. level' = Append(Front(level), L)
  BY DEF GoOn
<1> HIDE DEF L
<1>4. /\ Len(level') = n /\ level'[n] = L /\ \A l \in 1 .. n - 1 : level'[l] = level[l]
  <2>1. /\ Front(level) \in Seq(LevelType) /\ Len(Front(level)) = n - 1
        /\ \A l \in 1 .. n - 1 : Front(level)[l] = level[l]
    BY <1>1, LastAndFront
  <2> DEFINE F == Front(level)
  <2>2. F \in Seq(LevelType \union {L}) /\ L \in LevelType \union {L} /\ Len(F) = n - 1
    BY <2>1
  <2>3. (n - 1) + 1 = n
    BY <1>1
  <2> HIDE DEF F
  <2>4. Append(F, L)[n] = L /\ Len(Append(F, L)) = n /\ \A l \in 1 .. n - 1 : Append(F, L)[l] = F[l]
    BY <2>2, <2>3, OneMore
  <2> QED
    BY <1>3, <2>1, <2>4 DEF F
<1>5. \A l \in 1 .. n : l = n \/ (l \in 1 .. n - 1 /\ l # n)
  BY <1>1
<1>6. \A l \in 1 .. n - 1 : l \in 1 .. n /\ l # n
  BY <1>1
<1>7. ASSUME NEW l \in 1 .. n - 1
      PROVE  /\ level[l].name # level[n].name
             /\ WindsOf(level[l].frames) \intersect WindsOf(fs) = {}
  <2>1. /\ level[l].name # level[n].name
        /\ WindsOf(level[l].frames) \intersect WindsOf(frames) = {}
    BY <1>1, <1>6 DEF Separate, LevelsApart
  <2>2. \A w \in WindsOf(level[l].frames) : stage[w] # "unused"
    <3> DEFINE F == level[l].frames
               D == level[l].dywind
    <3>1. F \in FrameSeq /\ Formed(F, D, parent, stage)
      BY <1>6, LinkFacts DEF Linked
    <3> HIDE DEF F, D
    <3>2. \A w \in WindsOf(F) : stage[w] # "unused"
      BY <3>1, WindsAreUsed
    <3> QED
      BY <3>2 DEF F
  <2>3. \A s \in 1 .. Len(saved) : saved[s].home = level[n].name =>
          WindsOf(level[l].frames) \intersect WindsOf(saved[s].frames) = {}
    BY <1>6, <2>1 DEF Separate, SavedApart
  <2>4. ASSUME NEW w \in WindsOf(fs)
        PROVE  w \notin WindsOf(level[l].frames)
    <3>1. CASE /\ \A s \in 1 .. Len(saved) : saved[s].home = Top(level).name
               /\ \E t \in 1 .. Len(saved) : w \in WindsOf(saved[t].frames)
      <4>1. PICK t \in 1 .. Len(saved) : w \in WindsOf(saved[t].frames)
        BY <3>1
      <4>2. saved[t].home = level[n].name
        BY <1>1, <3>1
      <4> QED
        BY <2>3, <4>1, <4>2
    <3>2. CASE w \in WindsOf(frames) \/ stage[w] = "unused"
      BY <2>1, <2>2, <3>2
    <3> QED
      BY <2>4, <3>1, <3>2
  <2> QED
    BY <2>1, <2>4
<1>8. LevelsApart'
  <2>1. ASSUME NEW l \in 1 .. n, NEW m \in 1 .. n, l # m
        PROVE  /\ level'[l].name # level'[m].name
               /\ WindsOf(level'[l].frames) \intersect WindsOf(level'[m].frames) = {}
    <3>1. CASE l = n
      BY <1>2, <1>4, <1>5, <1>7, <2>1, <3>1
    <3>2. CASE m = n
      BY <1>2, <1>4, <1>5, <1>7, <2>1, <3>2
    <3>3. CASE l # n /\ m # n
      BY <1>4, <1>5, <2>1, <3>3 DEF Separate, LevelsApart
    <3> QED
      BY <3>1, <3>2, <3>3
  <2> QED
    BY <1>4, <2>1 DEF LevelsApart
<1>9. SavedApart'
  <2>1. ASSUME NEW s \in 1 .. Len(saved), NEW l \in 1 .. n, level'[l].name # saved[s].home
        PROVE  WindsOf(level'[l].frames) \intersect WindsOf(saved[s].frames) = {}
    <3>1. CASE l # n
      BY <1>4, <1>5, <2>1, <3>1 DEF Separate, SavedApart
    <3>2. CASE l = n
      <4>1. level[n].name # saved[s].home /\ level'[l].frames = fs
        BY <1>2, <1>4, <2>1, <3>2
      <4>2. WindsOf(frames) \intersect WindsOf(saved[s].frames) = {}
        BY <1>1, <4>1 DEF Separate, SavedApart
      <4>3. \A w \in WindsOf(saved[s].frames) : stage[w] # "unused"
        <5> DEFINE F == saved[s].frames
                   D == saved[s].dywind
        <5>1. F \in FrameSeq /\ Formed(F, D, parent, stage)
          BY LinkFacts DEF Linked
        <5> HIDE DEF F, D
        <5>2. \A w \in WindsOf(F) : stage[w] # "unused"
          BY <5>1, WindsAreUsed
        <5> QED
          BY <5>2 DEF F
      <4> QED
        BY <1>1, <4>1, <4>2, <4>3
    <3> QED
      BY <3>1, <3>2
  <2> QED
    BY <1>4, <2>1 DEF SavedApart
<1>10. Undone'
  BY <1>2, <1>4, <1>5 DEF Undone
<1> QED
  BY <1>8, <1>9, <1>10 DEF Separate

LEMMA SeparateLeaves ==
  ASSUME Linked, Separate, UNCHANGED <<stage, saved, fault>>,
         level' = IF Len(level) > 1 THEN Front(level) ELSE <<BaseLevel>>
  PROVE  Separate'
<1> DEFINE n == Len(level)
<1>1. n \in Nat \ {0} /\ level \in Seq(LevelType) /\ level # <<>>
  BY LinkFacts DEF Linked
<1>2. CASE n > 1
  <2>1. Len(level') = n - 1 /\ \A l \in 1 .. n - 1 : level'[l] = level[l] /\ l \in 1 .. n
    <3>1. Len(Front(level)) = n - 1 /\ \A l \in 1 .. n - 1 : Front(level)[l] = level[l]
      BY <1>1, LastAndFront
    <3>2. \A l \in 1 .. n - 1 : l \in 1 .. n
      BY <1>1
    <3> QED
      BY <1>2, <3>1, <3>2
  <2>2. LevelsApart'
    <3>1. \A l, m \in 1 .. n - 1 : l # m =>
            /\ level[l].name # level[m].name
            /\ WindsOf(level[l].frames) \intersect WindsOf(level[m].frames) = {}
      BY <2>1 DEF Separate, LevelsApart
    <3>2. ASSUME NEW l \in 1 .. Len(level'), NEW m \in 1 .. Len(level'), l # m
          PROVE  /\ level'[l].name # level'[m].name
                 /\ WindsOf(level'[l].frames) \intersect WindsOf(level'[m].frames) = {}
      <4>1. l \in 1 .. n - 1 /\ m \in 1 .. n - 1
        BY <2>1
      <4>2. level'[l] = level[l] /\ level'[m] = level[m]
        BY <2>1, <4>1
      <4> QED
        BY <3>1, <3>2, <4>1, <4>2
    <3> QED
      BY <3>2, ZenonT(60) DEF LevelsApart
  <2>3. SavedApart'
    BY <2>1 DEF Separate, SavedApart
  <2>4. Undone'
    BY <2>1 DEF Separate, Undone
  <2> QED
    BY <2>2, <2>3, <2>4 DEF Separate
<1>3. CASE ~(n > 1)
  <2>1. Len(level') = 1 /\ level'[1].frames = <<>> /\ \A l \in 1 .. 1 : l = 1
    BY <1>3 DEF BaseLevel
  <2>2. \A l \in 1 .. Len(level') : WindsOf(level'[l].frames) = {} /\ l = 1
    BY <2>1, NoFrames
  <2>3. LevelsApart' /\ SavedApart' /\ Undone'
    BY <2>2 DEF LevelsApart, SavedApart, Undone
  <2> QED
    BY <2>3 DEF Separate
<1> QED
  BY <1>2, <1>3

LEMMA StagesOnStack ==
  ASSUME Linked, Separate
  PROVE  /\ \A w \in WindsOf(frames) : w \in Winds /\ stage[w] # "done"
         /\ \A l \in 1 .. Len(level) - 1 : \A w \in WindsOf(level[l].frames) :
              w \in Winds /\ stage[w] # "done" /\ w \notin WindsOf(frames)
<1>1. /\ Len(level) \in Nat \ {0} /\ Len(level) \in 1 .. Len(level)
      /\ frames = level[Len(level)].frames
      /\ \A l \in 1 .. Len(level) : level[l].frames \in FrameSeq
  BY LinkFacts
<1>2. \A l \in 1 .. Len(level) - 1 : l \in 1 .. Len(level) /\ l # Len(level)
  BY <1>1
<1>3. \A l \in 1 .. Len(level) : WindsOf(level[l].frames) \subseteq Winds
  BY <1>1, FrameFacts
<1> QED
  BY <1>1, <1>2, <1>3 DEF Separate, LevelsApart, Undone

LEMMA PlainStepsSeparate ==
  ASSUME Linked, Separate, Form \/ Call \/ Return \/ Fail
  PROVE  Separate'
<1>1. /\ frames \in FrameSeq /\ Append(frames, Code) \in FrameSeq
      /\ Formed(frames, dywind, parent, stage)
      /\ frames # <<>> => Front(frames) \in FrameSeq
  BY LinkFacts, FramesLinked
<1>2. UNCHANGED <<stage, saved, fault>>
  BY DEF Form, Call, Return, Fail
<1>3. WindsOf(Append(frames, Code)) = WindsOf(frames)
  <2>1. Code \in Frames /\ Code.wind = NoWind
    BY ConstantsAssumption DEF Code, Frame, Frames, NoWind
  <2>2. WindsOf(Append(frames, Code)) = WindsOf(frames) \union ({Code.wind} \ {NoWind})
    BY <1>1, <2>1, FrameAdded
  <2> QED
    BY <2>1, <2>2
<1>4. frames # <<>> => WindsOf(Front(frames)) \subseteq WindsOf(frames)
  BY <1>1, FrameTaken
<1>5. ASSUME NEW fs \in FrameSeq, WindsOf(fs) \subseteq WindsOf(frames), GoOn(fs, dywind)
      PROVE  Separate'
  BY <1>2, <1>5, StagesOnStack, SeparateGoesOn
<1>6. CASE Form \/ Call
  <2>1. Append(<<>>, Code) = <<Code>>
    OBVIOUS
  <2>2. GoOn(Append(frames, Code), dywind)
    BY <1>6, <2>1 DEF Form, Call, Running
  <2> QED
    BY <1>1, <1>3, <1>5, <2>2
<1>7. CASE Return
  <2>1. CASE Len(frames) = 1 /\ Len(level) > 1
    <3>1. level' = IF Len(level) > 1 THEN Front(level) ELSE <<BaseLevel>>
      BY <1>7, <2>1 DEF Return
    <3> QED
      BY <1>2, <3>1, SeparateLeaves
  <2>2. CASE ~(Len(frames) = 1 /\ Len(level) > 1)
    <3>1. GoOn(Front(frames), dywind) /\ frames # <<>>
      BY <1>7, <2>2 DEF Return, Running
    <3> QED
      BY <1>1, <1>4, <1>5, <3>1
  <2> QED
    BY <2>1, <2>2
<1>8. CASE Fail
  <2>1. level' = IF Len(level) > 1 THEN Front(level) ELSE <<BaseLevel>>
    BY <1>8 DEF Fail, Raise
  <2> QED
    BY <1>2, <2>1, SeparateLeaves
<1> QED
  BY <1>6, <1>7, <1>8

LEMMA WindSeparates ==
  ASSUME Linked, Separate, NEW w \in Winds, Wind(w)
  PROVE  Separate'
<1> DEFINE f == Frame(w, "before")
           fs == Append(frames, f)
<1>1. /\ stage[w] = "unused" /\ stage' = [stage EXCEPT ![w] = "before"]
      /\ GoOn(fs, w) /\ UNCHANGED <<saved, fault>>
  BY DEF Wind
<1>2. frames \in FrameSeq /\ stage \in [Winds -> Stages]
  BY LinkFacts
<1>3. f \in Frames /\ f.wind = w
  BY ConstantsAssumption DEF Frame, Frames, Winds
<1> HIDE DEF f
<1>4. fs \in FrameSeq /\ WindsOf(fs) \subseteq WindsOf(frames) \union {w}
  BY <1>2, <1>3, FrameAdded
<1>5. stage'[w] = "before" /\ \A x \in Winds : x # w => stage'[x] = stage[x]
  BY <1>1, <1>2
<1> HIDE DEF fs
<1>6. \A x \in Winds : stage[x] # "done" => stage'[x] # "done"
  BY <1>5
<1>7. \A x \in WindsOf(fs) : stage'[x] # "done" /\ (x \in WindsOf(frames) \/ stage[x] = "unused")
  BY <1>1, <1>4, <1>5, <1>6, StagesOnStack
<1> QED
  BY <1>1, <1>4, <1>6, <1>7, StagesOnStack, SeparateGoesOn

(* The wind whose thunk returns is on the stack, so it is not done.        *)
LEMMA AdvanceSeparates ==
  ASSUME Linked, Separate, Advance
  PROVE  Separate'
<1> DEFINE w == Top(frames).wind
           F == Front(frames)
           next(p) == Append(F, Frame(w, p))
<1>1. frames \in FrameSeq /\ stage \in [Winds -> Stages] /\ Formed(frames, dywind, parent, stage)
  BY LinkFacts
<1>2. frames # <<>> /\ w # NoWind /\ UNCHANGED <<parent, saved>>
  BY DEF Advance, Running
<1>3. /\ F \in FrameSeq /\ w \in Winds /\ w \in WindsOf(frames)
      /\ WindsOf(frames) = WindsOf(F) \union {w}
      /\ \A x \in WindsOf(F) : x < w
  BY <1>1, <1>2, FrameTaken
<1>4. stage[w] # "done"
  BY <1>3, StagesOnStack
<1>5. \/ \E p \in {"body", "after"} :
           stage' = [stage EXCEPT ![w] = p] /\ GoOn(next(p), dywind) /\ UNCHANGED fault
      \/ stage' = [stage EXCEPT ![w] = "done"] /\ GoOn(F, parent[w]) /\ UNCHANGED fault
  BY <1>4 DEF Advance
<1> HIDE DEF w, F
<1>6. ASSUME NEW p \in {"body", "after"}, stage' = [stage EXCEPT ![w] = p],
             GoOn(next(p), dywind), UNCHANGED fault
      PROVE  Separate'
  <2> DEFINE g == Frame(w, p)
             fs == Append(F, g)
  <2>1. g \in Frames /\ g.wind = w
    BY <1>3, ConstantsAssumption DEF Frame, Frames, Winds
  <2>2. GoOn(fs, dywind)
    BY <1>6
  <2> HIDE DEF g
  <2>3. fs \in FrameSeq /\ WindsOf(fs) \subseteq WindsOf(frames)
    BY <1>3, <2>1, FrameAdded
  <2> HIDE DEF fs
  <2>4. \A x \in Winds : stage[x] # "done" => stage'[x] # "done"
    BY <1>1, <1>6
  <2> QED
    BY <1>2, <1>6, <2>2, <2>3, <2>4, StagesOnStack, SeparateGoesOn
<1>7. ASSUME stage' = [stage EXCEPT ![w] = "done"], GoOn(F, parent[w]), UNCHANGED fault
      PROVE  Separate'
  <2>1. \A x \in Winds : x # w => stage'[x] = stage[x]
    BY <1>1, <1>7
  <2>2. w \notin WindsOf(F)
    <3>1. w \in Nat
      BY <1>3 DEF Winds
    <3>2. ~(w < w)
      BY <3>1
    <3> QED
      BY <1>3, <3>2
  <2>3. \A x \in WindsOf(F) : x \in WindsOf(frames) /\ x # w
    BY <1>3, <2>2
  <2>4. \A x \in WindsOf(F) : stage'[x] # "done"
    BY <2>1, <2>3, StagesOnStack
  <2>5. \A l \in 1 .. Len(level) - 1 : \A x \in WindsOf(level[l].frames) : stage'[x] # "done"
    BY <1>3, <2>1, StagesOnStack
  <2> DEFINE d == parent[w]
  <2>6. GoOn(F, d)
    BY <1>7
  <2> HIDE DEF d
  <2> QED
    BY <1>2, <1>3, <1>7, <2>3, <2>4, <2>5, <2>6, SeparateGoesOn
<1> QED
  BY <1>5, <1>6, <1>7

(* A level that pcall begins has a name of its own, and no wind.           *)
LEMMA PCallSeparates ==
  ASSUME Linked, Separate, PCall
  PROVE  Separate'
<1> DEFINE n == Len(level)
<1>1. n \in Nat \ {0} /\ level \in Seq(LevelType) /\ MaxWinds \in Nat
  BY LinkFacts
<1>2. PICK m \in 1 .. MaxLevels :
        /\ \A l \in 1 .. Len(level) : level[l].name # m
        /\ level' = Append(level, [BaseLevel EXCEPT !.frames = <<Code>>, !.name = m])
  BY DEF PCall
<1>3. UNCHANGED <<stage, saved, fault>>
  BY DEF PCall
<1> DEFINE L == [BaseLevel EXCEPT !.frames = <<Code>>, !.name = m]
<1>4. L.frames = <<Code>> /\ L.name = m
  BY DEF BaseLevel
<1>5. WindsOf(<<Code>>) = {}
  <2>1. <<>> \in FrameSeq /\ WindsOf(<<>>) = {} /\ Append(<<>>, Code) = <<Code>>
    BY NoFrames
  <2>2. Code \in Frames /\ Code.wind = NoWind
    BY <1>1 DEF Code, Frame, Frames, NoWind
  <2> DEFINE e == <<>>
             C == Code
  <2>3. e \in FrameSeq /\ WindsOf(e) = {} /\ C \in Frames /\ C.wind = NoWind
    BY <2>1, <2>2
  <2> HIDE DEF e, C
  <2>4. WindsOf(Append(e, C)) = {}
    BY <2>3, FrameAdded
  <2> QED
    BY <2>1, <2>4 DEF e, C
<1>6. level' = Append(level, L)
  BY <1>2
<1> HIDE DEF L
<1>7. /\ Len(level') = n + 1 /\ level'[n + 1] = L /\ \A l \in 1 .. n : level'[l] = level[l]
      /\ \A l : l \in 1 .. n + 1 <=> l \in 1 .. n \/ l = n + 1
  <2>1. level \in Seq(LevelType \union {L}) /\ L \in LevelType \union {L}
    BY <1>1
  <2> QED
    BY <1>6, <2>1, OneMore
<1>8. \A l \in 1 .. n : level[l].name # L.name
  BY <1>2, <1>4
<1>9. WindsOf(L.frames) = {}
  BY <1>4, <1>5
<1>10. LevelsApart'
  <2>1. ASSUME NEW l \in 1 .. n + 1, NEW k \in 1 .. n + 1, l # k
        PROVE  /\ level'[l].name # level'[k].name
               /\ WindsOf(level'[l].frames) \intersect WindsOf(level'[k].frames) = {}
    <3>1. CASE l = n + 1
      BY <1>7, <1>8, <1>9, <2>1, <3>1
    <3>2. CASE k = n + 1
      BY <1>7, <1>8, <1>9, <2>1, <3>2
    <3>3. CASE l # n + 1 /\ k # n + 1
      BY <1>7, <2>1, <3>3 DEF Separate, LevelsApart
    <3> QED
      BY <3>1, <3>2, <3>3
  <2> QED
    BY <1>7, <2>1 DEF LevelsApart
<1>11. SavedApart'
  <2>1. ASSUME NEW s \in 1 .. Len(saved), NEW l \in 1 .. n + 1, level'[l].name # saved[s].home
        PROVE  WindsOf(level'[l].frames) \intersect WindsOf(saved[s].frames) = {}
    BY <1>7, <1>9, <2>1 DEF Separate, SavedApart
  <2> QED
    BY <1>3, <1>7, <2>1 DEF SavedApart
<1>12. Undone'
  BY <1>3, <1>7, <1>9 DEF Separate, Undone
<1> QED
  BY <1>3, <1>10, <1>11, <1>12 DEF Separate

LEMMA CallCCSeparates ==
  ASSUME Linked, Separate, CallCC
  PROVE  Separate'
<1> DEFINE n == Len(level)
           k == [frames |-> frames, dywind |-> dywind, home |-> Top(level).name,
                 dystage |-> IF dywind = NoWind THEN "none" ELSE stage[dywind]]
<1>1. saved' = <<k>> /\ UNCHANGED <<parent, stage, level, owed, fault>>
  BY ZenonT(30) DEF CallCC
<1>2. n \in 1 .. n /\ frames = level[n].frames /\ Top(level) = level[n]
  BY LinkFacts
<1>3. k.frames = level[n].frames /\ k.home = level[n].name
  BY <1>2
<1> HIDE DEF k
<1>4. Len(saved') = 1 /\ saved'[1] = k /\ \A s \in 1 .. 1 : s = 1
  BY <1>1
<1>5. \A l \in 1 .. n : level[l].name # k.home =>
        WindsOf(level[l].frames) \intersect WindsOf(k.frames) = {}
  BY <1>2, <1>3 DEF Separate, LevelsApart
<1>6. SavedApart'
  BY <1>1, <1>4, <1>5 DEF SavedApart
<1>7. LevelsApart' /\ Undone' /\ ~fault'
  BY <1>1 DEF Separate, LevelsApart, Undone
<1> QED
  BY <1>4, <1>6, <1>7 DEF Separate

(* A wind of the frames that a jump brings back is in its body again, or   *)
(* it was on the stack.                                                    *)
LEMMA ThrowSeparates ==
  ASSUME JumpsInLevel, Linked, Separate, Throw
  PROVE  Separate'
<1> DEFINE k == saved[1]
           c == Innermost(Chain(dywind) \intersect Chain(k.dywind))
           left == Left(c)
           entered == Chain(k.dywind) \ Chain(c)
           G == k.frames
           E == k.dywind
<1>1. /\ saved # <<>> /\ UNCHANGED <<parent, saved, fault>>
      /\ MayJump(k)
      /\ \/ /\ level' = IF Len(level) > 1 THEN Front(level) ELSE <<BaseLevel>>
            /\ UNCHANGED stage
         \/ /\ stage' = Entered(entered)
            /\ GoOn(G, E)
  BY DEF Throw
<1>2. 1 \in 1 .. Len(saved) /\ \A s \in 1 .. Len(saved) : s = 1
  <2>1. Len(saved) \in Nat /\ Len(saved) # 0
    BY <1>1, LinkFacts
  <2>2. Len(saved) \in 0 .. 1
    BY DEF Separate
  <2>3. Len(saved) = 1
    BY <2>1, <2>2
  <2>4. \A s \in 1 .. 1 : s = 1
    OBVIOUS
  <2> QED
    BY <2>3, <2>4
<1>3. k.home = Top(level).name
  BY <1>1, MayJumpInLevel
<1>4. /\ G \in FrameSeq /\ E \in 0 .. MaxWinds /\ Formed(G, E, parent, stage)
      /\ stage \in [Winds -> Stages] /\ ParentsFirst
      /\ frames \in FrameSeq /\ Formed(frames, dywind, parent, stage)
  BY <1>2, LinkFacts DEF Linked
<1>5. /\ Chain(E) = WindsOf(G) /\ WindsOf(G) \subseteq Winds
      /\ Chain(c) = WindsOf(frames) \intersect WindsOf(G)
  <2> DEFINE D == dywind
             W == frames
  <2> HIDE DEF G, E, D, W
  <2>1. /\ W \in FrameSeq /\ Formed(W, D, parent, stage) /\ G \in FrameSeq
        /\ Formed(G, E, parent, stage) /\ ParentsFirst
    BY <1>4 DEF D, W
  <2>2. Chain(D) = WindsOf(W) /\ Chain(E) = WindsOf(G) /\ WindsOf(G) \subseteq Winds
    BY <2>1, ChainIsFrames, FrameFacts
  <2>3. Chain(Innermost(WindsOf(W) \intersect WindsOf(G))) = WindsOf(W) \intersect WindsOf(G)
    BY <2>1, CommonChain
  <2> QED
    BY <2>2, <2>3 DEF D, W, E
<1>6. \A w \in WindsOf(G) : \E s \in 1 .. Len(saved) : w \in WindsOf(saved[s].frames)
  BY <1>2
<1>7. \A s \in 1 .. Len(saved) : saved[s].home = Top(level).name
  BY <1>2, <1>3
<1> HIDE DEF G, E, left, c
<1>8. \A w \in WindsOf(G) : w \in entered \/ w \in WindsOf(frames)
  BY <1>5 DEF E
<1> HIDE DEF entered
<1>9. CASE stage' = Entered(entered) /\ GoOn(G, E)
  <2>1. \A w \in Winds : stage'[w] = IF w \in entered THEN "body" ELSE stage[w]
    BY <1>9 DEF Entered
  <2>2. \A w \in Winds : stage[w] # "done" => stage'[w] # "done"
    BY <2>1
  <2>3. \A w \in WindsOf(G) : stage'[w] # "done"
    BY <1>5, <1>8, <2>1, <2>2, StagesOnStack
  <2>4. \A l \in 1 .. Len(level) - 1 : \A w \in WindsOf(level[l].frames) : stage'[w] # "done"
    BY <2>2, StagesOnStack
  <2>5. \A w \in WindsOf(G) :
          \/ w \in WindsOf(frames)
          \/ stage[w] = "unused"
          \/ /\ \A s \in 1 .. Len(saved) : saved[s].home = Top(level).name
             /\ \E t \in 1 .. Len(saved) : w \in WindsOf(saved[t].frames)
    BY <1>2, <1>6, <1>7
  <2> QED
    BY <1>1, <1>4, <1>9, <2>3, <2>4, <2>5, SeparateGoesOn
<1>10. CASE UNCHANGED stage /\ level' = IF Len(level) > 1 THEN Front(level) ELSE <<BaseLevel>>
  BY <1>1, <1>10, SeparateLeaves
<1> QED
  BY <1>1, <1>9, <1>10

LEMMA InitIsSeparate == ASSUME Init PROVE Separate
<1>1. Wound
  BY InitIsWound
<1>2. Len(saved) \in 0 .. 1 /\ LevelsApart /\ ~fault
  BY <1>1 DEF Wound
<1>3. SavedApart
  BY <1>1 DEF Wound, SavedWound, SavedApart
<1>4. Len(level) = 1 /\ level[1].frames = <<>> /\ \A l \in 1 .. 1 : l = 1
  BY DEF Init, BaseLevel
<1>5. Undone
  BY <1>4, NoFrames DEF Undone
<1> QED
  BY <1>2, <1>3, <1>5 DEF Separate

LEMMA StepKeepsSeparate ==
  ASSUME JumpsInLevel, Linked, Separate, [Next]_vars
  PROVE  Separate'
<1>1. CASE Form \/ Call \/ Return \/ Fail
  BY <1>1, PlainStepsSeparate
<1>2. CASE Advance
  BY <1>2, AdvanceSeparates
<1>3. CASE PCall
  BY <1>3, PCallSeparates
<1>4. CASE \E w \in Winds : Wind(w)
  BY <1>4, WindSeparates
<1>5. CASE CallCC
  BY <1>5, CallCCSeparates
<1>6. CASE Throw
  BY <1>6, ThrowSeparates
<1>7. CASE UNCHANGED vars
  <2>1. UNCHANGED <<parent, stage, level, saved, owed, fault>>
    BY <1>7 DEF vars
  <2> QED
    BY <2>1 DEF Separate, LevelsApart, SavedApart, Undone
<1> QED
  BY <1>1, <1>2, <1>3, <1>4, <1>5, <1>6, <1>7 DEF Next

(* As long as a program jumps only within a level, the state of a wind is  *)
(* known whenever one of its thunks returns: dywindadvance raises no       *)
(* internal error, even where jumps into thunks and out of them break the  *)
(* pairing of before and after thunks.                                     *)
THEOREM NoInternalError ==
  ASSUME "level jump" \notin Uses
  PROVE  Spec => []NoFault
<1>1. JumpsInLevel
  BY Zenon DEF JumpsInLevel
<1>2. Init => Separate
  BY InitIsSeparate
<1>3. Linked /\ Separate /\ [Next]_vars => Separate'
  BY <1>1, StepKeepsSeparate
<1>4. Separate => NoFault
  BY Zenon DEF Separate, NoFault
<1> QED
  BY <1>2, <1>3, <1>4, AlwaysLinked, PTL DEF Spec
=============================================================================
