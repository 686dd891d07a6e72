----------------------------- MODULE MachineProofs -----------------------------
(***************************************************************************)
(* What copy-on-write frames promise, for any compiled code, segments of   *)
(* any size, any number of continuations and frames: a frame that a        *)
(* continuation holds stays as it was.                                     *)
(***************************************************************************)
EXTENDS Machine, FiniteSetTheorems, WellFoundedInduction, TLAPS

-----------------------------------------------------------------------------
(* Induction, recursion, sequences.                                        *)

(* What holds of 0, and of i when it holds of i - 1, holds up to n.        *)
LEMMA Upwards ==
  ASSUME NEW n \in Nat, NEW T, 0 \in T, \A i \in 1..n : i - 1 \in T => i \in T
  PROVE  0..n \subseteq T
<1> DEFINE U == (0..n) \ T
<1>1. PICK R : R = OpToRel(<, Nat) /\ IsWellFoundedOn(R, Nat)
  BY NatLessThanWellFounded
<1>2. \A i, j \in Nat : <<i, j>> \in R <=> i < j
  BY <1>1 DEF OpToRel
<1>3. U # {} => \E i \in U : \A j \in U : ~(<<j, i>> \in R)
  <2>1. U \subseteq Nat
    OBVIOUS
  <2> HIDE DEF U
  <2> QED
    BY <1>1, <2>1, WFMin
<1>4. ASSUME NEW i \in U, \A j \in U : ~(<<j, i>> \in R)
      PROVE  FALSE
  <2>1. i \in Nat /\ i \in 1..n /\ i \notin T /\ i - 1 \in Nat /\ i - 1 < i /\ i - 1 \in 0..n
    OBVIOUS
  <2>2. i - 1 \notin U
    BY <1>2, <1>4, <2>1
  <2> QED
    BY <2>1, <2>2
<1> QED
  BY <1>3, <1>4

(* A recursive definition has a solution: F gives each value from the one  *)
(* before.                                                                 *)
StepOn(F, S, n) == F \in [S \X (1..n) -> S]
Solution(g, c, F, S, n) ==
  g \in [0..n -> S] /\ g[0] = c /\ \A i \in 1..n : g[i] = F[<<g[i - 1], i>>]

LEMMA Recursion ==
  ASSUME NEW n \in Nat, NEW S, NEW c, c \in S, NEW F, StepOn(F, S, n)
  PROVE  \E g : Solution(g, c, F, S, n)
<1> F \in [S \X (1..n) -> S]
  BY DEF StepOn
<1> DEFINE Solves(g, k) == /\ g \in [0..k -> S] /\ g[0] = c
                           /\ \A i \in 1..k : g[i] = F[<<g[i - 1], i>>]
           T == {k \in 0..n : \E g : Solves(g, k)}
<1>1. 0 \in T
  <2>1. Solves([i \in 0..0 |-> c], 0)
    OBVIOUS
  <2> HIDE DEF Solves
  <2> QED
    BY <2>1
<1>2. ASSUME NEW k \in 1..n, k - 1 \in T
      PROVE  k \in T
  <2>1. PICK g : Solves(g, k - 1)
    BY <1>2
  <2> DEFINE h == [i \in 0..k |-> IF i = k THEN F[<<g[k - 1], k>>] ELSE g[i]]
  <2>2. g[k - 1] \in S /\ F[<<g[k - 1], k>>] \in S
    BY <2>1
  <2>3. h \in [0..k -> S] /\ h[0] = c
    BY <2>1, <2>2
  <2>4. ASSUME NEW i \in 1..k
        PROVE  h[i] = F[<<h[i - 1], i>>]
    <3>1. CASE i = k
      <4>1. h[i - 1] = g[k - 1] /\ h[i] = F[<<g[k - 1], k>>]
        BY <3>1
      <4> QED
        BY <3>1, <4>1
    <3>2. CASE i # k
      <4>1. h[i - 1] = g[i - 1] /\ h[i] = g[i] /\ i \in 1..(k - 1)
        BY <3>2
      <4> QED
        BY <2>1, <4>1
    <3> QED
      BY <3>1, <3>2
  <2>5. Solves(h, k)
    BY <2>3, <2>4
  <2> HIDE DEF Solves, h
  <2> QED
    BY <2>5
<1>3. 0..n \subseteq T
  <2> HIDE DEF T
  <2> QED
    BY <1>1, <1>2, Upwards
<1>4. \E g : Solves(g, n)
  <2> HIDE DEF Solves
  <2> QED
    BY <1>3
<1>5. PICK g : Solves(g, n)
  BY <1>4
<1>6. Solution(g, c, F, S, n)
  BY <1>5 DEF Solution
<1> QED
  BY <1>6

(* Sequences, whatever their elements.                                     *)
IsSequence(s) == \E S : s \in Seq(S)

LEMMA SequenceFacts ==
  ASSUME NEW s, IsSequence(s)
  PROVE  Len(s) \in Nat /\ DOMAIN s = 1..Len(s)
BY DEF IsSequence

LEMMA Appended ==
  ASSUME NEW s, NEW e, IsSequence(s)
  PROVE  /\ IsSequence(Append(s, e))
         /\ Len(Append(s, e)) = Len(s) + 1
         /\ DOMAIN Append(s, e) = 1..(Len(s) + 1)
         /\ Append(s, e)[Len(s) + 1] = e
         /\ \A i \in DOMAIN s : Append(s, e)[i] = s[i]
<1>1. PICK S : s \in Seq(S)
  BY DEF IsSequence
<1> DEFINE T == S \cup {e}
<1>2. s \in Seq(T) /\ e \in T
  BY <1>1
<1> HIDE DEF T
<1>3. Append(s, e) \in Seq(T)
  BY <1>2
<1> QED
  BY <1>1, <1>2, <1>3 DEF IsSequence

LEMMA Exchanged ==
  ASSUME NEW s, NEW i, NEW e, IsSequence(s)
  PROVE  /\ IsSequence([s EXCEPT ![i] = e])
         /\ Len([s EXCEPT ![i] = e]) = Len(s)
         /\ DOMAIN [s EXCEPT ![i] = e] = 1..Len(s)
         /\ i \in DOMAIN s => [s EXCEPT ![i] = e][i] = e
         /\ \A j \in DOMAIN s : j # i => [s EXCEPT ![i] = e][j] = s[j]
<1>1. PICK S : s \in Seq(S)
  BY DEF IsSequence
<1> DEFINE T == S \cup {e}
           t == [s EXCEPT ![i] = e]
<1>2. s \in [1..Len(s) -> T] /\ e \in T /\ Len(s) \in Nat
  BY <1>1
<1>3. t \in [1..Len(s) -> T]
  BY <1>2
<1>4. t \in Seq(T) /\ Len(t) = Len(s)
  BY <1>2, <1>3
<1>5. DOMAIN s = 1..Len(s)
  BY <1>2
<1> QED
  BY <1>2, <1>4, <1>5 DEF IsSequence

-----------------------------------------------------------------------------
(* The chain of a frame.                                                   *)

(* Frames are closed when the caller of each is one of them, and an older  *)
(* one.                                                                    *)
Closed(fs, D) == \A g \in D : /\ fs[g].prev \in D \cup {0}
                              /\ fs[g].prev < g

(* The chain holds its first frame, goes on to every caller, and stays in  *)
(* every closed set it starts in.                                          *)
LEMMA ChainFacts ==
  ASSUME NEW fs, NEW D, NEW f \in D, Len(fs) \in Nat, D \subseteq 1..Len(fs), Closed(fs, D)
  PROVE  /\ f \in Chain(fs, f) /\ Chain(fs, f) \subseteq D
         /\ \A g \in Chain(fs, f) : fs[g].prev \in Chain(fs, f) \cup {0}
<1> DEFINE n == Len(fs)
           F(d) == [i \in 0..n |-> IF i = 0 THEN f ELSE CallerOf(fs, d[i - 1])]
           down == CHOOSE d : d = F(d)
           S == D \cup {0}
           G == [p \in S \X (1..n) |-> CallerOf(fs, p[1])]
<1>1. n \in Nat /\ S \subseteq Nat /\ f \in S /\ f # 0
  OBVIOUS
<1>2. \A g \in S : CallerOf(fs, g) \in S /\ (g # 0 => CallerOf(fs, g) < g)
  BY DEF CallerOf, Closed
<1>3. G \in [S \X (1..n) -> S] /\ \A g \in S, i \in 1..n : G[<<g, i>>] = CallerOf(fs, g)
  <2>1. \A p \in S \X (1..n) : p[1] \in S
    OBVIOUS
  <2> QED
    BY <1>2, <2>1
<1>4. PICK d : Solution(d, f, G, S, n)
  <2> HIDE DEF G, S
  <2> QED
    BY <1>1, <1>3, Recursion DEF StepOn
<1>5. /\ d \in [0..n -> S] /\ d[0] = f
      /\ \A i \in 1..n : d[i] = CallerOf(fs, d[i - 1])
  <2>1. d \in [0..n -> S] /\ d[0] = f /\ \A i \in 1..n : d[i] = G[<<d[i - 1], i>>]
    BY <1>4 DEF Solution
  <2>2. \A i \in 1..n : d[i - 1] \in S
    BY <2>1
  <2> HIDE DEF G, S
  <2> QED
    BY <1>3, <2>1, <2>2
<1>6. d = F(d)
  <2>1. \A i \in 0..n : i = 0 \/ i \in 1..n
    OBVIOUS
  <2> HIDE DEF S
  <2> QED
    BY <1>5, <2>1
<1>7. down = F(down)
  <2> HIDE DEF F
  <2> QED
    BY <1>6
<1>8. \A i \in 0..n : down[i] = IF i = 0 THEN f ELSE CallerOf(fs, down[i - 1])
  <2> HIDE DEF down
  <2> QED
    BY <1>7
<1>9. Chain(fs, f) = {down[i] : i \in 0..n} \ {0}
  BY DEF Chain
<1> HIDE DEF down, F, G, S
<1> DEFINE T == {i \in 0..n : down[i] \in S /\ (down[i] = 0 \/ down[i] <= n - i)}
<1>10. 0..n \subseteq T
  <2>1. 0 \in T
    BY <1>1, <1>8 DEF S
  <2>2. ASSUME NEW i \in 1..n, i - 1 \in T
        PROVE  i \in T
    <3>1. down[i] = CallerOf(fs, down[i - 1]) /\ down[i - 1] \in S
      BY <1>8, <2>2
    <3>2. down[i] \in S /\ (down[i - 1] # 0 => down[i] < down[i - 1])
      BY <1>2, <3>1
    <3>3. down[i - 1] = 0 => down[i] = 0
      BY <3>1 DEF CallerOf
    <3>4. down[i - 1] = 0 \/ down[i - 1] <= n - (i - 1)
      BY <2>2
    <3>5. down[i] = 0 \/ down[i] <= n - i
      <4>1. n \in Nat /\ i \in Nat
        BY <1>1
      <4>2. down[i] \in Nat
        BY <1>1, <3>2
      <4>3. down[i - 1] \in Nat
        BY <1>1, <3>1
      <4> HIDE DEF n
      <4> QED
        BY <3>2, <3>3, <3>4, <4>1, <4>2, <4>3
    <3> QED
      BY <3>2, <3>5
  <2> HIDE DEF T
  <2> QED
    BY <1>1, <2>1, <2>2, Upwards
<1>11. \A i \in 0..n : down[i] \in S
  BY <1>10
<1>12. down[n] = 0
  <2>1. n \in T
    BY <1>1, <1>10
  <2>2. down[n] \in S /\ (down[n] = 0 \/ down[n] <= n - n)
    BY <2>1
  <2>3. down[n] \in Nat
    BY <1>1, <2>2
  <2>4. n - n = 0
    BY <1>1
  <2> QED
    BY <2>2, <2>3, <2>4
<1>13. f \in Chain(fs, f)
  BY <1>1, <1>8, <1>9
<1>14. Chain(fs, f) \subseteq D
  BY <1>9, <1>11 DEF S
<1>15. ASSUME NEW g \in Chain(fs, f)
       PROVE  fs[g].prev \in Chain(fs, f) \cup {0}
  <2>1. PICK i \in 0..n : g = down[i] /\ g # 0
    BY <1>9
  <2>2. i + 1 \in 1..n /\ i + 1 \in 0..n /\ (i + 1) - 1 = i
    BY <1>1, <1>12, <2>1
  <2>3. down[i + 1] = fs[g].prev
    BY <1>8, <2>1, <2>2 DEF CallerOf
  <2> QED
    BY <1>9, <2>2, <2>3
<1> QED
  BY <1>13, <1>14, <1>15

-----------------------------------------------------------------------------
(* The shape of a machine's state: what the values in it are does not      *)
(* matter.                                                                 *)
FrameShaped(ss, f) ==
  /\ f = [pc |-> f.pc, seg |-> f.seg, prev |-> f.prev, start |-> f.start,
          base |-> f.base, top |-> f.top, unwind |-> f.unwind]
  /\ f.seg \in DOMAIN ss /\ f.start.seg \in DOMAIN ss /\ f.base \in Int
SegShaped(s) == s = [frozen |-> s.frozen, slots |-> s.slots] /\ s.frozen \in Nat
HeapShaped(h) ==
  /\ h = [clos |-> h.clos, boxes |-> h.boxes, pairs |-> h.pairs, conts |-> h.conts,
          ports |-> h.ports]
  /\ IsSequence(h.conts)
Shaped(m) ==
  /\ m = [frames |-> m.frames, segs |-> m.segs, cur |-> m.cur, heap |-> m.heap]
  /\ IsSequence(m.frames) /\ IsSequence(m.segs) /\ HeapShaped(m.heap)
  /\ \A f \in DOMAIN m.frames : FrameShaped(m.segs, m.frames[f])
  /\ \A s \in DOMAIN m.segs : SegShaped(m.segs[s])

(* The running frame is one that may be written.                           *)
Ready(m) == /\ Shaped(m)
            /\ m.cur \in DOMAIN m.frames
            /\ m.segs[m.frames[m.cur].seg].frozen = 0

(* The caller of a frame is an older one, and waits for the value in a slot *)
(* of its own window.                                                      *)
Linked(m, g) ==
  LET f == m.frames[g]
      p == m.frames[f.prev]
  IN  /\ f.prev \in Nat /\ f.prev < g
      /\ f.prev # 0 => /\ f.start.seg = p.seg
                       /\ p.base <= f.start.off /\ f.start.off < p.top

(* K holds what the continuations hold; all of it is frozen.               *)
Holds(m, K) ==
  /\ K \subseteq DOMAIN m.frames
  /\ \A c \in DOMAIN m.heap.conts : m.heap.conts[c].frm \in K
  /\ \A g \in K : /\ Linked(m, g)
                  /\ m.frames[g].prev \in K \cup {0}
                  /\ m.segs[m.frames[g].seg].frozen > 0

(* C holds the running frame and its callers.                              *)
Stands(m, C) ==
  /\ C \subseteq DOMAIN m.frames /\ m.cur \in C
  /\ \A g \in C : /\ Linked(m, g)
                  /\ m.frames[g].prev \in C \cup {0}
                  /\ g <= m.cur

(* From m to n the frames of K stayed as they were.                        *)
Keeps(m, n, K) ==
  \A g \in K : /\ n.frames[g] = m.frames[g]
               /\ n.segs[m.frames[g].seg].slots = m.segs[m.frames[g].seg].slots

(* From m to n the running frame may have moved; nothing else did, and no  *)
(* frozen segment was written.                                             *)
Tame(m, n) ==
  /\ Ready(n)
  /\ n.cur = m.cur /\ n.heap.conts = m.heap.conts
  /\ Len(n.frames) = Len(m.frames) /\ Len(m.segs) <= Len(n.segs)
  /\ \A g \in DOMAIN m.frames : g # m.cur => n.frames[g] = m.frames[g]
  /\ n.frames[m.cur].prev = m.frames[m.cur].prev
  /\ n.frames[m.cur].start = m.frames[m.cur].start
  /\ \A s \in DOMAIN m.segs : /\ n.segs[s].frozen = m.segs[s].frozen
                              /\ m.segs[s].frozen > 0 => n.segs[s].slots = m.segs[s].slots

LEMMA ShapedFacts ==
  ASSUME NEW m, Shaped(m)
  PROVE  /\ Len(m.frames) \in Nat /\ DOMAIN m.frames = 1..Len(m.frames)
         /\ Len(m.segs) \in Nat /\ DOMAIN m.segs = 1..Len(m.segs)
         /\ Len(m.heap.conts) \in Nat /\ DOMAIN m.heap.conts = 1..Len(m.heap.conts)
         /\ \A f \in DOMAIN m.frames : /\ m.frames[f].seg \in DOMAIN m.segs
                                        /\ m.frames[f].start.seg \in DOMAIN m.segs
         /\ \A s \in DOMAIN m.segs : m.segs[s].frozen \in Nat
BY SequenceFacts DEF Shaped, FrameShaped, SegShaped, HeapShaped

LEMMA TameItself ==
  ASSUME NEW m, Ready(m)
  PROVE  Tame(m, m)
BY ShapedFacts DEF Ready, Tame

LEMMA TameAgain ==
  ASSUME NEW m, NEW n, NEW q, Ready(m), Tame(m, n), Tame(n, q)
  PROVE  Tame(m, q)
<1>1. /\ Shaped(m) /\ Shaped(n) /\ Shaped(q)
  BY DEF Ready, Tame
<1>2. DOMAIN m.frames = DOMAIN n.frames /\ DOMAIN m.segs \subseteq DOMAIN n.segs
  BY <1>1, ShapedFacts DEF Tame
<1>3. Len(m.segs) <= Len(q.segs)
  BY <1>1, ShapedFacts DEF Tame
<1>4. ASSUME NEW s \in DOMAIN m.segs
      PROVE  /\ q.segs[s].frozen = m.segs[s].frozen
             /\ m.segs[s].frozen > 0 => q.segs[s].slots = m.segs[s].slots
  BY <1>2 DEF Tame
<1> QED
  BY <1>2, <1>3, <1>4 DEF Tame

(* The ways of a tame change.                                              *)
LEMMA SlotsWritten ==
  ASSUME NEW m, NEW s, NEW w, Shaped(m)
  PROVE  LET n == [m EXCEPT !.segs[s].slots = w]
         IN  /\ Shaped(n) /\ n.frames = m.frames /\ n.cur = m.cur /\ n.heap = m.heap
             /\ Len(n.segs) = Len(m.segs)
             /\ \A j \in DOMAIN m.segs : /\ n.segs[j].frozen = m.segs[j].frozen
                                         /\ j # s => n.segs[j] = m.segs[j]
<1>1. PICK e : e = [m.segs[s] EXCEPT !.slots = w]
  OBVIOUS
<1>2. PICK ss : ss = [m.segs EXCEPT ![s] = e]
  OBVIOUS
<1>3. IsSequence(m.segs) /\ DOMAIN m.segs = 1..Len(m.segs)
  BY SequenceFacts DEF Shaped
<1>4. IsSequence(ss)
  BY <1>2, <1>3, Exchanged
<1>5. Len(ss) = Len(m.segs)
  BY <1>2, <1>3, Exchanged
<1>6. /\ DOMAIN ss = DOMAIN m.segs
      /\ s \in DOMAIN m.segs => ss[s] = e
      /\ \A j \in DOMAIN m.segs : j # s => ss[j] = m.segs[j]
  BY <1>2
<1>7. s \in DOMAIN m.segs => SegShaped(e) /\ e.frozen = m.segs[s].frozen
  BY <1>1 DEF Shaped, SegShaped
<1>8. PICK n : n = [frames |-> m.frames, segs |-> ss, cur |-> m.cur, heap |-> m.heap]
  OBVIOUS
<1>9. n.frames = m.frames /\ n.segs = ss /\ n.cur = m.cur /\ n.heap = m.heap
  BY <1>8
<1>10. [m EXCEPT !.segs[s].slots = w] = n
  <2>1. m = [frames |-> m.frames, segs |-> m.segs, cur |-> m.cur, heap |-> m.heap]
    BY DEF Shaped
  <2>2. [m EXCEPT !.segs[s].slots = w] = [m EXCEPT !.segs = ss]
    BY <1>1, <1>2
  <2> QED
    BY <1>8, <2>1, <2>2
<1>11. Shaped(n)
  <2>1. \A f \in DOMAIN m.frames : FrameShaped(ss, m.frames[f])
    BY <1>6 DEF Shaped, FrameShaped
  <2>2. \A j \in DOMAIN ss : SegShaped(ss[j])
    BY <1>6, <1>7 DEF Shaped
  <2> QED
    BY <1>4, <1>8, <1>9, <2>1, <2>2 DEF Shaped
<1>12. \A j \in DOMAIN m.segs : ss[j].frozen = m.segs[j].frozen
  BY <1>6, <1>7
<1> QED
  BY <1>5, <1>6, <1>9, <1>10, <1>11, <1>12

LEMMA SlotsTame ==
  ASSUME NEW m, NEW s, NEW w, Ready(m), m.segs[s].frozen = 0
  PROVE  Tame(m, [m EXCEPT !.segs[s].slots = w])
<1>1. PICK n : n = [m EXCEPT !.segs[s].slots = w]
  OBVIOUS
<1>2. /\ Shaped(n) /\ n.frames = m.frames /\ n.cur = m.cur /\ n.heap = m.heap
      /\ Len(n.segs) = Len(m.segs)
      /\ \A j \in DOMAIN m.segs : /\ n.segs[j].frozen = m.segs[j].frozen
                                  /\ j # s => n.segs[j] = m.segs[j]
  BY <1>1, SlotsWritten, SMTT(60) DEF Ready
<1>3. Shaped(m)
  BY DEF Ready
<1>4. Ready(n)
  BY <1>2, <1>3, ShapedFacts DEF Ready
<1>5. \A j \in DOMAIN m.segs : m.segs[j].frozen > 0 => n.segs[j].slots = m.segs[j].slots
  BY <1>2
<1>6. Tame(m, n)
  BY <1>2, <1>3, <1>4, <1>5, ShapedFacts DEF Tame
<1> QED
  BY <1>1, <1>6

LEMMA HeapTame ==
  ASSUME NEW m, NEW h, Ready(m), HeapShaped(h), h.conts = m.heap.conts
  PROVE  Tame(m, [m EXCEPT !.heap = h])
<1> DEFINE n == [m EXCEPT !.heap = h]
<1>1. Shaped(m)
  BY DEF Ready
<1>2. n = [frames |-> m.frames, segs |-> m.segs, cur |-> m.cur, heap |-> h]
  BY <1>1 DEF Shaped
<1>3. n.frames = m.frames /\ n.segs = m.segs /\ n.cur = m.cur /\ n.heap = h
  BY <1>2
<1> HIDE DEF n
<1>4. Shaped(n)
  BY <1>1, <1>2, <1>3 DEF Shaped
<1>5. Tame(m, n)
  BY <1>1, <1>3, <1>4, ShapedFacts DEF Tame, Ready
<1> QED
  BY <1>5 DEF n

LEMMA FrameTame ==
  ASSUME NEW m, NEW f, Ready(m), FrameShaped(m.segs, f),
         m.segs[f.seg].frozen = 0,
         f.prev = m.frames[m.cur].prev, f.start = m.frames[m.cur].start
  PROVE  Tame(m, [m EXCEPT !.frames[m.cur] = f])
<1> DEFINE fs == [m.frames EXCEPT ![m.cur] = f]
           n == [m EXCEPT !.frames = fs]
<1>1. Shaped(m) /\ m.cur \in DOMAIN m.frames
  BY DEF Ready
<1>2. /\ IsSequence(fs) /\ Len(fs) = Len(m.frames) /\ DOMAIN fs = DOMAIN m.frames
      /\ fs[m.cur] = f
      /\ \A g \in DOMAIN m.frames : g # m.cur => fs[g] = m.frames[g]
  <2>1. IsSequence(m.frames) /\ DOMAIN m.frames = 1..Len(m.frames)
    BY <1>1, SequenceFacts DEF Shaped
  <2> QED
    BY <1>1, <2>1, Exchanged
<1> HIDE DEF fs
<1>3. /\ n = [frames |-> fs, segs |-> m.segs, cur |-> m.cur, heap |-> m.heap]
  BY <1>1 DEF Shaped
<1>4. n.frames = fs /\ n.segs = m.segs /\ n.cur = m.cur /\ n.heap = m.heap
  BY <1>3
<1> HIDE DEF n
<1>5. Shaped(n)
  <2>1. \A g \in DOMAIN fs : FrameShaped(m.segs, fs[g])
    BY <1>1, <1>2 DEF Shaped
  <2> QED
    BY <1>1, <1>2, <1>3, <1>4, <2>1 DEF Shaped
<1>6. Tame(m, n)
  BY <1>1, <1>2, <1>4, <1>5, ShapedFacts DEF Tame, Ready
<1> QED
  BY <1>6 DEF n, fs

(* A tame change keeps what the continuations hold, and the chain.         *)
LEMMA TameLinked ==
  ASSUME NEW m, NEW n, Tame(m, n), NEW g \in DOMAIN m.frames, Linked(m, g),
         m.frames[g].prev # m.cur,
         m.frames[g].prev # 0 => m.frames[g].prev \in DOMAIN m.frames
  PROVE  Linked(n, g) /\ n.frames[g].prev = m.frames[g].prev
<1>1. n.frames[g].prev = m.frames[g].prev /\ n.frames[g].start = m.frames[g].start
  BY DEF Tame
<1>2. m.frames[g].prev # 0 => n.frames[m.frames[g].prev] = m.frames[m.frames[g].prev]
  BY DEF Tame
<1> QED
  BY <1>1, <1>2 DEF Linked

LEMMA TameHolds ==
  ASSUME NEW m, NEW n, NEW K, Ready(m), Holds(m, K), Tame(m, n)
  PROVE  Keeps(m, n, K) /\ Holds(n, K)
<1>1. Shaped(m) /\ Shaped(n) /\ Ready(n) /\ m.cur \in DOMAIN m.frames
  BY DEF Ready, Tame
<1>2. DOMAIN n.frames = DOMAIN m.frames /\ DOMAIN m.segs \subseteq DOMAIN n.segs
  BY <1>1, ShapedFacts DEF Tame
<1>3. m.cur \notin K
  BY <1>1, ShapedFacts DEF Ready, Holds
<1>4. \A g \in K : n.frames[g] = m.frames[g]
  BY <1>3 DEF Tame, Holds
<1>5. Keeps(m, n, K)
  BY <1>1, <1>4, ShapedFacts DEF Tame, Holds, Keeps
<1>6. \A g \in K : g \in DOMAIN m.frames /\ Linked(m, g) /\ m.frames[g].prev \in K \cup {0}
  BY DEF Holds
<1>7. \A g \in K : m.frames[g].prev # m.cur
  BY <1>1, <1>3, <1>6, ShapedFacts
<1>8. \A g \in K : Linked(n, g) /\ n.frames[g].prev = m.frames[g].prev
  <2> TAKE g \in K
  <2>1. /\ g \in DOMAIN m.frames /\ Linked(m, g) /\ m.frames[g].prev # m.cur
        /\ m.frames[g].prev # 0 => m.frames[g].prev \in DOMAIN m.frames
    BY <1>6, <1>7
  <2> QED
    BY <2>1, TameLinked
<1>9. \A g \in K : n.segs[n.frames[g].seg].frozen > 0
  BY <1>1, <1>4, ShapedFacts DEF Holds, Tame
<1>10. Holds(n, K)
  BY <1>2, <1>6, <1>8, <1>9 DEF Holds, Tame
<1> QED
  BY <1>5, <1>10

LEMMA TameKeeps ==
  ASSUME NEW m, NEW n, NEW K, NEW C, Ready(m), Holds(m, K), Stands(m, C), Tame(m, n)
  PROVE  Keeps(m, n, K) /\ Holds(n, K) /\ Stands(n, C)
<1>1. Keeps(m, n, K) /\ Holds(n, K)
  BY TameHolds
<1>2. Shaped(m) /\ Shaped(n) /\ m.cur \in DOMAIN m.frames
  BY DEF Ready, Tame
<1>3. DOMAIN n.frames = DOMAIN m.frames
  BY <1>2, ShapedFacts DEF Tame
<1>4. \A g \in C : /\ g \in DOMAIN m.frames /\ Linked(m, g) /\ m.frames[g].prev \in C \cup {0}
                   /\ g <= m.cur
  BY DEF Stands
<1>5. \A g \in C : m.frames[g].prev < g /\ m.frames[g].prev \in Nat
  BY <1>4 DEF Linked
<1>6. \A g \in C : m.frames[g].prev # m.cur
  BY <1>2, <1>4, <1>5, ShapedFacts
<1>7. \A g \in C : Linked(n, g) /\ n.frames[g].prev = m.frames[g].prev
  <2> TAKE g \in C
  <2>1. /\ g \in DOMAIN m.frames /\ Linked(m, g) /\ m.frames[g].prev # m.cur
        /\ m.frames[g].prev # 0 => m.frames[g].prev \in DOMAIN m.frames
    BY <1>4, <1>6
  <2> QED
    BY <2>1, TameLinked
<1>8. Stands(n, C)
  BY <1>3, <1>4, <1>7 DEF Stands, Tame
<1> QED
  BY <1>1, <1>8

-----------------------------------------------------------------------------
(* The tame operations.                                                    *)

(* A heap's continuations do not depend on its other parts.                *)
LEMMA HeapParts ==
  ASSUME NEW h, HeapShaped(h), NEW w
  PROVE  /\ HeapShaped([h EXCEPT !.clos = w]) /\ [h EXCEPT !.clos = w].conts = h.conts
         /\ HeapShaped([h EXCEPT !.boxes = w]) /\ [h EXCEPT !.boxes = w].conts = h.conts
         /\ HeapShaped([h EXCEPT !.pairs = w]) /\ [h EXCEPT !.pairs = w].conts = h.conts
         /\ HeapShaped([h EXCEPT !.ports = w]) /\ [h EXCEPT !.ports = w].conts = h.conts
BY DEF HeapShaped

LEMMA ListsAreShaped ==
  ASSUME NEW h, HeapShaped(h)
  PROVE  /\ \A s, t : HeapShaped(ListOn(h, s, t).heap) /\ ListOn(h, s, t).heap.conts = h.conts
         /\ \A a, d : HeapShaped(ConsOn(h, a, d).heap) /\ ConsOn(h, a, d).heap.conts = h.conts
         /\ \A v, t : HeapShaped(AppendOn(h, v, t).heap) /\ AppendOn(h, v, t).heap.conts = h.conts
<1>1. \A s, t : HeapShaped(ListOn(h, s, t).heap) /\ ListOn(h, s, t).heap.conts = h.conts
  BY HeapParts DEF ListOn
<1>2. \A a, d : HeapShaped(ConsOn(h, a, d).heap) /\ ConsOn(h, a, d).heap.conts = h.conts
  BY HeapParts DEF ConsOn
<1>3. \A v, t : HeapShaped(AppendOn(h, v, t).heap) /\ AppendOn(h, v, t).heap.conts = h.conts
  BY HeapParts DEF AppendOn
<1> QED
  BY <1>1, <1>2, <1>3

LEMMA PutTame ==
  ASSUME NEW m, NEW k, NEW v, Ready(m)
  PROVE  Tame(m, Put(m, k, v))
<1>1. PICK s : s = Top(m).seg
  OBVIOUS
<1>2. PICK w : w = [m.segs[s].slots EXCEPT ![Top(m).base + k] = v]
  OBVIOUS
<1>3. m.segs[s].frozen = 0
  BY <1>1 DEF Ready, Top
<1>4. Tame(m, [m EXCEPT !.segs[s].slots = w])
  BY <1>3, SlotsTame
<1>5. Put(m, k, v) = [m EXCEPT !.segs[s].slots = w]
  BY <1>1, <1>2 DEF Put
<1> QED
  BY <1>4, <1>5

LEMMA PutAllTame ==
  ASSUME NEW m, NEW k, NEW vals, Ready(m)
  PROVE  Tame(m, PutAll(m, k, vals))
<1>1. PICK s : s = Top(m).seg
  OBVIOUS
<1>2. m.segs[s].frozen = 0
  BY <1>1 DEF Ready, Top
<1>3. \A w : Tame(m, [m EXCEPT !.segs[s].slots = w])
  BY <1>2, SlotsTame
<1>4. \E w : PutAll(m, k, vals) = [m EXCEPT !.segs[s].slots = w]
  BY <1>1 DEF PutAll
<1> QED
  BY <1>3, <1>4

(* A value is put where a list was made.                                   *)
LEMMA HeapPutTame ==
  ASSUME NEW m, NEW h, NEW k, NEW v, Ready(m), HeapShaped(h), h.conts = m.heap.conts
  PROVE  Tame(m, Put([m EXCEPT !.heap = h], k, v))
<1>1. PICK n : n = [m EXCEPT !.heap = h]
  OBVIOUS
<1>2. Tame(m, n)
  BY <1>1, HeapTame
<1>3. Tame(n, Put(n, k, v))
  BY <1>2, PutTame DEF Tame
<1> QED
  BY <1>1, <1>2, <1>3, TameAgain

LEMMA PlaceArgsTame ==
  ASSUME NEW m, NEW k, NEW args, NEW argnum, NEW rest, Ready(m)
  PROVE  Tame(m, PlaceArgs(m, k, args, argnum, rest))
<1> DEFINE h == ListOn(m.heap, SubSeq(args, argnum, Len(args)), Nil).heap
           n == [m EXCEPT !.heap = h]
<1>1. HeapShaped(h) /\ h.conts = m.heap.conts
  BY ListsAreShaped DEF Ready, Shaped
<1>2. Tame(m, n)
  <2> HIDE DEF h
  <2> QED
    BY <1>1, HeapTame
<1>3. \A vals : Tame(n, PutAll(n, k, vals)) /\ Tame(m, PutAll(m, k, vals))
  <2> HIDE DEF n
  <2> QED
    BY <1>2, PutAllTame, SMTT(60) DEF Tame
<1>4. \A vals : Tame(m, PutAll(n, k, vals))
  <2> HIDE DEF n
  <2> QED
    BY <1>2, <1>3, TameAgain
<1>5. \E vals : PlaceArgs(m, k, args, argnum, rest) \in {PutAll(n, k, vals), PutAll(m, k, vals)}
  BY DEF PlaceArgs
<1> HIDE DEF n
<1> QED
  BY <1>3, <1>4, <1>5

(* A port is closed: its string goes to the start of the running frame.    *)
StartIsSafe(m) == m.segs[m.frames[m.cur].start.seg].frozen = 0

LEMMA CloseTame ==
  ASSUME NEW m, NEW k, NEW kind, Ready(m), kind = "str" => StartIsSafe(m)
  PROVE  /\ Tame(m, ClosePort(m, m.cur, k, kind).m)
         /\ ClosePort(m, m.cur, k, kind).act \in {"error", "done"}
<1> DEFINE o == ClosePort(m, m.cur, k, kind)
           v == m.segs[m.frames[m.cur].seg].slots[m.frames[m.cur].base + k + 1]
           p == IF v.t = "pair" THEN m.heap.pairs[v.id].a ELSE v
           closed(to) == [m EXCEPT !.heap.ports[p.id] = to]
           s == m.frames[m.cur].start.seg
<1>1. \A to : Tame(m, closed(to))
  <2> TAKE to
  <2>1. PICK w : w = [m.heap.ports EXCEPT ![p.id] = to]
    OBVIOUS
  <2>2. PICK h : h = [m.heap EXCEPT !.ports = w]
    OBVIOUS
  <2>3. closed(to) = [m EXCEPT !.heap = h]
    BY <2>1, <2>2
  <2>4. HeapShaped(m.heap)
    BY DEF Ready, Shaped
  <2>5. HeapShaped(h) /\ h.conts = m.heap.conts
    BY <2>2, <2>4, HeapParts
  <2> HIDE DEF closed
  <2> QED
    BY <2>3, <2>5, HeapTame
<1>2. ASSUME kind = "str", NEW to, NEW w
      PROVE  Tame(m, [closed(to) EXCEPT !.segs[s].slots = w])
  <2>1. PICK n : n = closed(to)
    OBVIOUS
  <2>2. Tame(m, n) /\ Ready(n)
    BY <1>1, <2>1 DEF Tame
  <2>3. n.segs = m.segs
    <3>1. \A q : [m EXCEPT !.heap = q].segs = m.segs
      BY DEF Ready, Shaped
    <3> QED
      BY <2>1, <3>1
  <2>4. n.segs[s].frozen = 0
    BY <1>2, <2>3 DEF StartIsSafe
  <2>5. Tame(n, [n EXCEPT !.segs[s].slots = w])
    <3> HIDE DEF s
    <3> QED
      BY <2>2, <2>4, SlotsTame
  <2> HIDE DEF s, closed
  <2> QED
    BY <2>1, <2>2, <2>5, TameAgain
<1>3. \/ o = Outcome(m, "error")
      \/ \E to, w : kind = "str" /\ o = Outcome([closed(to) EXCEPT !.segs[s].slots = w], "done")
      \/ \E to : o = Outcome(closed(to), "done")
  BY DEF ClosePort
<1> HIDE DEF o, closed, s
<1>4. Tame(m, o.m) /\ o.act \in {"error", "done"}
  BY <1>1, <1>2, <1>3, TameItself DEF Outcome
<1> QED
  BY <1>4 DEF o

LEMMA StartStaysSafe ==
  ASSUME NEW m, NEW n, Ready(m), Tame(m, n), StartIsSafe(m)
  PROVE  StartIsSafe(n)
BY ShapedFacts DEF Ready, Tame, StartIsSafe

(* What the plain natives do; their answer goes to the slot of the call.   *)
LEMMA NativeTame ==
  ASSUME NEW m, NEW p \in PlainNatives, NEW args, Ready(m)
  PROVE  Tame(m, NativeResult(m, p, args).m)
<1>1. HeapShaped(m.heap)
  BY DEF Ready, Shaped
<1>2. \A w : Tame(m, [m EXCEPT !.heap.ports[args[2].id].text = w])
  <2> TAKE w
  <2>1. PICK u : u = [m.heap.ports EXCEPT ![args[2].id].text = w]
    OBVIOUS
  <2>2. PICK h : h = [m.heap EXCEPT !.ports = u]
    OBVIOUS
  <2>3. HeapShaped(h) /\ h.conts = m.heap.conts
    BY <1>1, <2>2, HeapParts
  <2>4. [m EXCEPT !.heap.ports[args[2].id].text = w] = [m EXCEPT !.heap = h]
    BY <2>1, <2>2
  <2> QED
    BY <2>3, <2>4, HeapTame
<1>3. Tame(m, [m EXCEPT !.heap = ListOn(m.heap, args, Nil).heap])
  <2>1. PICK h : h = ListOn(m.heap, args, Nil).heap
    OBVIOUS
  <2>2. HeapShaped(h) /\ h.conts = m.heap.conts
    BY <1>1, <2>1, ListsAreShaped
  <2> QED
    BY <2>1, <2>2, HeapTame
<1>4. Tame(m, m)
  BY TameItself
<1>5. \/ NativeResult(m, p, args).m = m
      \/ NativeResult(m, p, args).m = [m EXCEPT !.heap = ListOn(m.heap, args, Nil).heap]
      \/ \E w : NativeResult(m, p, args).m = [m EXCEPT !.heap.ports[args[2].id].text = w]
  <2>1. CASE p = "+"
    BY <2>1 DEF NativeResult
  <2>2. CASE p = "zero?"
    BY <2>2 DEF NativeResult
  <2>3. CASE p = "list"
    BY <2>3 DEF NativeResult
  <2>4. CASE p = "write"
    BY <2>4 DEF NativeResult
  <2> QED
    BY <2>1, <2>2, <2>3, <2>4 DEF PlainNatives
<1> QED
  BY <1>2, <1>3, <1>4, <1>5

LEMMA CallNativeTame ==
  ASSUME NEW m, NEW c, NEW act, NEW p \in PlainNatives, NEW args, Ready(m),
         c.unwind = "str" => StartIsSafe(m)
  PROVE  /\ Tame(m, CallNative(m, c, act, p, args).m)
         /\ CallNative(m, c, act, p, args).act \in {"error", act}
<1>1. PICK n : n = NativeResult(m, p, args).m
  OBVIOUS
<1>2. PICK v : v = NativeResult(m, p, args).v
  OBVIOUS
<1>3. Tame(m, n) /\ Ready(n)
  BY <1>1, NativeTame DEF Tame
<1>4. PICK q : q = Put(n, c.k, v)
  OBVIOUS
<1>5. Tame(n, q) /\ Tame(m, q) /\ Ready(q)
  <2>1. Tame(n, q)
    BY <1>3, <1>4, PutTame
  <2>2. Tame(m, q)
    BY <1>3, <2>1, TameAgain
  <2> QED
    BY <2>1, <2>2 DEF Tame
<1>6. PICK o : o = ClosePort(q, q.cur, c.k, c.unwind)
  OBVIOUS
<1>7. Tame(q, o.m) /\ o.act \in {"error", "done"}
  BY <1>5, <1>6, CloseTame, StartStaysSafe
<1>8. Tame(m, o.m)
  BY <1>5, <1>7, TameAgain
<1>9. q.cur = n.cur
  BY <1>5 DEF Tame
<1>10. DOMAIN o = {"m", "act"}
  BY <1>6 DEF ClosePort, Outcome
<1>11. NativeDone(n, c, v, act) \in
         {Outcome(n, "error"), Outcome(q, act),
          [o EXCEPT !.act = IF @ = "error" THEN @ ELSE act]}
  BY <1>4, <1>6, <1>9 DEF NativeDone
<1>12. Tame(m, m)
  BY TameItself
<1>13. CallNative(m, c, act, p, args) \in {Outcome(m, "error"), NativeDone(n, c, v, act)}
  BY <1>1, <1>2 DEF CallNative
<1>14. /\ [o EXCEPT !.act = IF @ = "error" THEN @ ELSE act].m = o.m
       /\ [o EXCEPT !.act = IF @ = "error" THEN @ ELSE act].act \in {"error", act}
  BY <1>10
<1>15. \A r : Outcome(r, "error").m = r /\ Outcome(r, "error").act = "error"
  BY DEF Outcome
<1>16. Outcome(q, act).m = q /\ Outcome(q, act).act = act
  BY DEF Outcome
<1>17. Tame(m, NativeDone(n, c, v, act).m) /\ NativeDone(n, c, v, act).act \in {"error", act}
  BY <1>3, <1>5, <1>8, <1>11, <1>14, <1>15, <1>16
<1> QED
  BY <1>12, <1>13, <1>15, <1>17

(* The frame goes on with another instruction, in another body.            *)
LEMMA PcTame ==
  ASSUME NEW m, NEW i, Ready(m)
  PROVE  Tame(m, [m EXCEPT !.frames[m.cur].pc = i])
<1>1. PICK f : f = [m.frames[m.cur] EXCEPT !.pc = i]
  OBVIOUS
<1>2. FrameShaped(m.segs, m.frames[m.cur]) /\ m.segs[m.frames[m.cur].seg].frozen = 0
  BY DEF Ready, Shaped
<1>3. /\ FrameShaped(m.segs, f) /\ f.seg = m.frames[m.cur].seg
      /\ f.prev = m.frames[m.cur].prev /\ f.start = m.frames[m.cur].start
  BY <1>1, <1>2 DEF FrameShaped
<1>4. Tame(m, [m EXCEPT !.frames[m.cur] = f])
  BY <1>2, <1>3, FrameTame
<1> QED
  BY <1>1, <1>4

LEMMA ClearAndBoxTame ==
  ASSUME NEW m, NEW lam, Ready(m)
  PROVE  Tame(m, ClearAndBox(m, lam))
<1>1. PICK s : s = m.frames[m.cur].seg
  OBVIOUS
<1>2. PICK u, w : ClearAndBox(m, lam) = [m EXCEPT !.heap.boxes = u, !.segs[s].slots = w]
  BY <1>1 DEF ClearAndBox, Top
<1>3. PICK h : h = [m.heap EXCEPT !.boxes = u]
  OBVIOUS
<1>4. HeapShaped(h) /\ h.conts = m.heap.conts
  BY <1>3, HeapParts DEF Ready, Shaped
<1>5. PICK n : n = [m EXCEPT !.heap = h]
  OBVIOUS
<1>6. Tame(m, n) /\ Ready(n)
  BY <1>4, <1>5, HeapTame DEF Tame
<1>7. n.segs = m.segs
  BY <1>5 DEF Ready, Shaped
<1>8. n.segs[s].frozen = 0
  BY <1>1, <1>7 DEF Ready
<1>9. Tame(n, [n EXCEPT !.segs[s].slots = w])
  BY <1>6, <1>8, SlotsTame
<1>10. ClearAndBox(m, lam) = [n EXCEPT !.segs[s].slots = w]
  BY <1>2, <1>3, <1>5, <1>7
<1> QED
  BY <1>6, <1>9, <1>10, TameAgain

LEMMA EnterClosureTame ==
  ASSUME NEW m, NEW lam, NEW unwind, Ready(m)
  PROVE  /\ Tame(m, EnterClosure(m, lam, unwind).m)
         /\ EnterClosure(m, lam, unwind).act \in {"error", "enter"}
<1> DEFINE f == [Top(m) EXCEPT !.pc = Len(lam.code) - 1,
                               !.unwind = IF unwind # "none" THEN unwind ELSE @]
<1>2. FrameShaped(m.segs, m.frames[m.cur]) /\ m.segs[m.frames[m.cur].seg].frozen = 0
  BY DEF Ready, Shaped
<1>3. /\ FrameShaped(m.segs, f) /\ f.seg = m.frames[m.cur].seg
      /\ f.prev = m.frames[m.cur].prev /\ f.start = m.frames[m.cur].start
  <2>1. PICK i, u : f = [m.frames[m.cur] EXCEPT !.pc = i, !.unwind = u]
    BY DEF Top
  <2>2. PICK e : e = m.frames[m.cur]
    OBVIOUS
  <2> HIDE DEF f
  <2>3. PICK g : g = [e EXCEPT !.pc = i]
    OBVIOUS
  <2>4. FrameShaped(m.segs, g) /\ g.seg = e.seg /\ g.prev = e.prev /\ g.start = e.start
    BY <1>2, <2>2, <2>3 DEF FrameShaped
  <2>5. f = [g EXCEPT !.unwind = u]
    BY <2>1, <2>2, <2>3
  <2>6. FrameShaped(m.segs, f) /\ f.seg = g.seg /\ f.prev = g.prev /\ f.start = g.start
    BY <2>4, <2>5 DEF FrameShaped
  <2> QED
    BY <2>2, <2>4, <2>6
<1> HIDE DEF f
<1>4. PICK n : n = [m EXCEPT !.frames[m.cur] = f]
  OBVIOUS
<1>5. Tame(m, n) /\ Ready(n)
  BY <1>2, <1>3, <1>4, FrameTame, SMTT(60) DEF Tame
<1>6. Tame(m, ClearAndBox(n, lam))
  BY <1>5, ClearAndBoxTame, TameAgain
<1>8. \/ EnterClosure(m, lam, unwind) = Outcome(m, "error")
      \/ EnterClosure(m, lam, unwind) = Outcome(ClearAndBox(n, lam), "enter")
  BY <1>4, Zenon DEF EnterClosure, f
<1>9. \A r, a : Outcome(r, a).m = r /\ Outcome(r, a).act = a
  BY DEF Outcome
<1> QED
  BY <1>6, <1>8, <1>9, TameItself

(* A new segment.                                                          *)
WithSegment(m, e) == [m EXCEPT !.segs = Append(@, e)]

LEMMA SegmentAdded ==
  ASSUME NEW m, NEW e, Shaped(m), SegShaped(e), e.frozen = 0
  PROVE  LET n == WithSegment(m, e)
             s == Len(m.segs) + 1
         IN  /\ Shaped(n) /\ n.frames = m.frames /\ n.cur = m.cur /\ n.heap = m.heap
             /\ Len(n.segs) = s /\ n.segs[s].frozen = 0
             /\ \A i \in DOMAIN m.segs : n.segs[i] = m.segs[i]
             /\ Ready(m) => Tame(m, n)
<1> DEFINE s == Len(m.segs) + 1
<1>1. PICK ss : ss = Append(m.segs, e)
  OBVIOUS
<1>2. IsSequence(m.segs) /\ Len(m.segs) \in Nat /\ DOMAIN m.segs = 1..Len(m.segs)
  BY ShapedFacts DEF Shaped
<1>3. /\ IsSequence(ss) /\ Len(ss) = s /\ DOMAIN ss = 1..s
      /\ ss[s] = e /\ \A i \in DOMAIN m.segs : ss[i] = m.segs[i]
  BY <1>1, <1>2, Appended
<1>4. PICK n : n = [frames |-> m.frames, segs |-> ss, cur |-> m.cur, heap |-> m.heap]
  OBVIOUS
<1>5. n.frames = m.frames /\ n.segs = ss /\ n.cur = m.cur /\ n.heap = m.heap
  BY <1>4
<1>6. WithSegment(m, e) = n
  <2>1. m = [frames |-> m.frames, segs |-> m.segs, cur |-> m.cur, heap |-> m.heap]
    BY DEF Shaped
  <2>2. WithSegment(m, e) = [m EXCEPT !.segs = ss]
    BY <1>1 DEF WithSegment
  <2> QED
    BY <1>4, <2>1, <2>2
<1>7. DOMAIN m.segs \subseteq DOMAIN ss /\ \A i \in DOMAIN ss : i \in DOMAIN m.segs \/ i = s
  BY <1>2, <1>3
<1>8. Shaped(n)
  <2>1. \A f \in DOMAIN m.frames : FrameShaped(ss, m.frames[f])
    BY <1>7 DEF Shaped, FrameShaped
  <2>2. \A i \in DOMAIN ss : SegShaped(ss[i])
    BY <1>3, <1>7 DEF Shaped
  <2> QED
    BY <1>3, <1>4, <1>5, <2>1, <2>2 DEF Shaped
<1>9. Ready(m) => Tame(m, n)
  <2> SUFFICES ASSUME Ready(m) PROVE Tame(m, n)
    OBVIOUS
  <2>1. Ready(n)
    BY <1>3, <1>5, <1>8, ShapedFacts DEF Ready
  <2>2. \A i \in DOMAIN m.segs : n.segs[i] = m.segs[i]
    BY <1>3, <1>5
  <2>3. Len(m.segs) <= Len(n.segs)
    BY <1>2, <1>3, <1>5
  <2> QED
    BY <1>5, <2>1, <2>2, <2>3 DEF Tame
<1> QED
  BY <1>3, <1>5, <1>6, <1>8, <1>9

LEMMA AddSegmentTame ==
  ASSUME NEW m, Shaped(m)
  PROVE  LET n == AddSegment(m)
             s == Len(m.segs) + 1
         IN  /\ Shaped(n) /\ n.frames = m.frames /\ n.cur = m.cur /\ n.heap = m.heap
             /\ Len(n.segs) = s /\ n.segs[s].frozen = 0
             /\ \A i \in DOMAIN m.segs : n.segs[i] = m.segs[i]
             /\ Ready(m) => Tame(m, n)
<1>1. PICK e : e = NewSegment
  OBVIOUS
<1>2. SegShaped(e) /\ e.frozen = 0
  BY <1>1 DEF SegShaped, NewSegment
<1>3. AddSegment(m) = WithSegment(m, e)
  BY <1>1 DEF AddSegment, WithSegment
<1> QED
  BY <1>2, <1>3, SegmentAdded

(* A tail call: the frame stays on its segment, or moves to a new one.     *)
LEMMA TailFrameTame ==
  ASSUME NEW m, NEW k, NEW argnum, NEW arity, Ready(m)
  PROVE  Tame(m, TailFrame(m, k, argnum, arity))
<1> DEFINE f == Top(m)
           move == m.segs[f.seg].frozen > 0 \/ f.base + 1 + arity >= SegSize
           seg == IF move THEN Len(m.segs) + 1 ELSE f.seg
           base == IF move THEN 0 ELSE f.base
           moved == [f EXCEPT !.seg = seg, !.base = base, !.top = base + 1 + arity]
           n == IF move THEN AddSegment(m) ELSE m
<1>1. Shaped(m) /\ f = m.frames[m.cur] /\ m.cur \in DOMAIN m.frames /\ FrameShaped(m.segs, f)
  BY DEF Ready, Shaped, Top
<1>2. /\ Tame(m, n) /\ Ready(n) /\ n.frames = m.frames /\ n.cur = m.cur
      /\ seg \in DOMAIN n.segs /\ n.segs[seg].frozen = 0 /\ base \in Int
  <2>1. CASE move
    <3>1. Tame(m, n) /\ n.frames = m.frames /\ n.cur = m.cur /\ Len(n.segs) = Len(m.segs) + 1
          /\ n.segs[Len(m.segs) + 1].frozen = 0
      <4> HIDE DEF move
      <4> QED
        BY <1>1, <2>1, AddSegmentTame
    <3>2. Ready(n) /\ Shaped(n)
      <4> HIDE DEF n
      <4> QED
        BY <3>1 DEF Tame, Ready
    <3>3. seg = Len(m.segs) + 1 /\ base = 0
      <4> HIDE DEF move
      <4> QED
        BY <2>1
    <3> HIDE DEF n, seg, base
    <3> QED
      BY <1>1, <3>1, <3>2, <3>3, ShapedFacts
  <2>2. CASE ~move
    <3>1. n = m /\ seg = f.seg /\ base = f.base
      <4> HIDE DEF move
      <4> QED
        BY <2>2
    <3> HIDE DEF n, seg, base
    <3> QED
      BY <1>1, <3>1, TameItself DEF FrameShaped, Ready
  <2> HIDE DEF n, seg, base, move
  <2> QED
    BY <2>1, <2>2
<1> HIDE DEF f, n, seg, base, move
<1>3. FrameShaped(n.segs, f)
  BY <1>1, <1>2 DEF Ready, Shaped
<1>4. /\ FrameShaped(n.segs, moved) /\ moved.seg = seg
      /\ moved.prev = f.prev /\ moved.start = f.start
  <2>1. PICK top : top = base + 1 + arity
    OBVIOUS
  <2>2. PICK g : g = [f EXCEPT !.seg = seg]
    OBVIOUS
  <2>3. FrameShaped(n.segs, g) /\ g.seg = seg /\ g.prev = f.prev /\ g.start = f.start
    BY <1>2, <1>3, <2>2 DEF FrameShaped
  <2>4. PICK h : h = [g EXCEPT !.base = base]
    OBVIOUS
  <2>5. FrameShaped(n.segs, h) /\ h.seg = seg /\ h.prev = f.prev /\ h.start = f.start
    BY <1>2, <2>3, <2>4 DEF FrameShaped
  <2>6. moved = [h EXCEPT !.top = top]
    BY <2>1, <2>2, <2>4
  <2> HIDE DEF moved
  <2> QED
    BY <2>5, <2>6 DEF FrameShaped
<1> HIDE DEF moved
<1>5. PICK q : q = [n EXCEPT !.frames[n.cur] = moved]
  OBVIOUS
<1>6. Tame(n, q) /\ Ready(q)
  <2>1. n.frames[n.cur] = f
    BY <1>1, <1>2
  <2> QED
    <3>1. PICK g : g = moved
      OBVIOUS
    <3>2. /\ FrameShaped(n.segs, g) /\ n.segs[g.seg].frozen = 0
          /\ g.prev = n.frames[n.cur].prev /\ g.start = n.frames[n.cur].start
      BY <1>2, <1>4, <2>1, <3>1
    <3>3. Tame(n, [n EXCEPT !.frames[n.cur] = g])
      BY <1>2, <3>2, FrameTame
    <3> QED
      BY <1>5, <3>1, <3>3 DEF Tame
<1>7. q.segs = n.segs
  BY <1>2, <1>5 DEF Ready, Shaped
<1>8. \A w : Tame(q, [q EXCEPT !.segs[seg].slots = w])
  BY <1>2, <1>6, <1>7, SlotsTame
<1>9. PICK w : TailFrame(m, k, argnum, arity) =
                 [n EXCEPT !.frames[m.cur] = moved, !.segs[seg].slots = w]
  BY DEF TailFrame, f, n, seg, base, move, moved
<1>10. TailFrame(m, k, argnum, arity) = [q EXCEPT !.segs[seg].slots = w]
  BY <1>2, <1>5, <1>9
<1>11. Tame(m, q)
  BY <1>2, <1>6, TameAgain
<1> QED
  BY <1>8, <1>10, <1>11, TameAgain

-----------------------------------------------------------------------------
(* Frames that are added.                                                  *)
WithFrame(m, f) == [m EXCEPT !.frames = Append(@, f)]
Written(m, s, w) == [m EXCEPT !.segs[s].slots = w]
Switched(m, f) == [m EXCEPT !.cur = f]
NextFrame(m) == Len(m.frames) + 1

LEMMA FrameAdded ==
  ASSUME NEW m, NEW f, Shaped(m), FrameShaped(m.segs, f)
  PROVE  LET n == WithFrame(m, f)
             id == NextFrame(m)
         IN  /\ Shaped(n) /\ n.segs = m.segs /\ n.cur = m.cur /\ n.heap = m.heap
             /\ Len(n.frames) = id /\ id \in DOMAIN n.frames /\ n.frames[id] = f
             /\ \A g \in DOMAIN m.frames : n.frames[g] = m.frames[g]
<1> DEFINE id == Len(m.frames) + 1
<1>1. PICK fs : fs = Append(m.frames, f)
  OBVIOUS
<1>2. IsSequence(m.frames) /\ Len(m.frames) \in Nat /\ DOMAIN m.frames = 1..Len(m.frames)
  BY ShapedFacts DEF Shaped
<1>3. /\ IsSequence(fs) /\ Len(fs) = id /\ DOMAIN fs = 1..id
      /\ fs[id] = f /\ \A g \in DOMAIN m.frames : fs[g] = m.frames[g]
  BY <1>1, <1>2, Appended
<1>4. PICK n : n = [frames |-> fs, segs |-> m.segs, cur |-> m.cur, heap |-> m.heap]
  OBVIOUS
<1>5. n.frames = fs /\ n.segs = m.segs /\ n.cur = m.cur /\ n.heap = m.heap
  BY <1>4
<1>6. [m EXCEPT !.frames = Append(@, f)] = n
  <2>1. m = [frames |-> m.frames, segs |-> m.segs, cur |-> m.cur, heap |-> m.heap]
    BY DEF Shaped
  <2>2. [m EXCEPT !.frames = Append(@, f)] = [m EXCEPT !.frames = fs]
    BY <1>1
  <2> QED
    BY <1>4, <2>1, <2>2
<1>7. id \in DOMAIN fs /\ \A g \in DOMAIN fs : g \in DOMAIN m.frames \/ g = id
  BY <1>2, <1>3
<1>8. Shaped(n)
  <2>1. \A g \in DOMAIN fs : FrameShaped(m.segs, fs[g])
    BY <1>3, <1>7 DEF Shaped
  <2> QED
    BY <1>3, <1>4, <1>5, <2>1 DEF Shaped
<1>9. WithFrame(m, f) = n /\ NextFrame(m) = id
  BY <1>6 DEF WithFrame, NextFrame
<1>10. Len(n.frames) = id /\ id \in DOMAIN n.frames /\ n.frames[id] = f
  BY <1>3, <1>5, <1>7
<1>11. \A g \in DOMAIN m.frames : n.frames[g] = m.frames[g]
  BY <1>3, <1>5
<1> HIDE DEF id
<1> QED
  BY <1>5, <1>8, <1>9, <1>10, <1>11

LEMMA SlotsRewritten ==
  ASSUME NEW m, NEW s, NEW w, Shaped(m)
  PROVE  LET n == Written(m, s, w)
         IN  /\ Shaped(n) /\ n.frames = m.frames /\ n.cur = m.cur /\ n.heap = m.heap
             /\ Len(n.segs) = Len(m.segs)
             /\ \A j \in DOMAIN m.segs : /\ n.segs[j].frozen = m.segs[j].frozen
                                         /\ j # s => n.segs[j] = m.segs[j]
             /\ Ready(m) /\ m.segs[s].frozen = 0 => Tame(m, n)
<1>1. PICK n : n = [m EXCEPT !.segs[s].slots = w]
  OBVIOUS
<1>2. /\ Shaped(n) /\ n.frames = m.frames /\ n.cur = m.cur /\ n.heap = m.heap
      /\ Len(n.segs) = Len(m.segs)
      /\ \A j \in DOMAIN m.segs : /\ n.segs[j].frozen = m.segs[j].frozen
                                  /\ j # s => n.segs[j] = m.segs[j]
  BY <1>1, SlotsWritten
<1>3. Ready(m) /\ m.segs[s].frozen = 0 => Tame(m, n)
  BY <1>1, SlotsTame
<1>4. Written(m, s, w) = n
  BY <1>1 DEF Written
<1> QED
  BY <1>2, <1>3, <1>4

LEMMA CurSet ==
  ASSUME NEW m, NEW f, Shaped(m)
  PROVE  LET n == Switched(m, f)
         IN  Shaped(n) /\ n.frames = m.frames /\ n.segs = m.segs /\ n.cur = f /\ n.heap = m.heap
<1>1. PICK n : n = [frames |-> m.frames, segs |-> m.segs, cur |-> f, heap |-> m.heap]
  OBVIOUS
<1>2. n.frames = m.frames /\ n.segs = m.segs /\ n.cur = f /\ n.heap = m.heap
  BY <1>1
<1>3. [m EXCEPT !.cur = f] = n
  BY <1>1 DEF Shaped
<1>4. Shaped(n)
  BY <1>1, <1>2 DEF Shaped
<1> QED
  BY <1>2, <1>3, <1>4 DEF Switched

(* From m to n frames and segments were added, and no frozen one written.  *)
Grows(m, n) ==
  /\ Shaped(n)
  /\ n.heap.conts = m.heap.conts
  /\ Len(m.frames) <= Len(n.frames) /\ Len(m.segs) <= Len(n.segs)
  /\ \A g \in DOMAIN m.frames : n.frames[g] = m.frames[g]
  /\ \A s \in DOMAIN m.segs : /\ n.segs[s].frozen = m.segs[s].frozen
                              /\ m.segs[s].frozen > 0 => n.segs[s].slots = m.segs[s].slots

LEMMA GrowsFacts ==
  ASSUME NEW m, NEW n, Shaped(m), Grows(m, n)
  PROVE  DOMAIN m.frames \subseteq DOMAIN n.frames /\ DOMAIN m.segs \subseteq DOMAIN n.segs
BY ShapedFacts DEF Grows

LEMMA GrowsAgain ==
  ASSUME NEW m, NEW n, NEW q, Shaped(m), Grows(m, n), Grows(n, q)
  PROVE  Grows(m, q)
<1>1. Shaped(n) /\ Shaped(q)
  BY DEF Grows
<1>2. DOMAIN m.frames \subseteq DOMAIN n.frames /\ DOMAIN m.segs \subseteq DOMAIN n.segs
  BY <1>1, GrowsFacts
<1>3. Len(m.frames) <= Len(q.frames) /\ Len(m.segs) <= Len(q.segs)
  BY <1>1, ShapedFacts DEF Grows
<1>4. \A s \in DOMAIN m.segs : /\ q.segs[s].frozen = m.segs[s].frozen
                               /\ m.segs[s].frozen > 0 => q.segs[s].slots = m.segs[s].slots
  BY <1>2 DEF Grows
<1> QED
  BY <1>1, <1>2, <1>3, <1>4 DEF Grows

(* The running frame is a new one: what it does is more growth.            *)
LEMMA GrowsThenTame ==
  ASSUME NEW m, NEW n, NEW q, Shaped(m), Grows(m, n), n.cur \notin DOMAIN m.frames, Tame(n, q)
  PROVE  Grows(m, q)
<1>1. Shaped(n) /\ Shaped(q)
  BY DEF Grows, Tame, Ready
<1>2. DOMAIN m.frames \subseteq DOMAIN n.frames /\ DOMAIN m.segs \subseteq DOMAIN n.segs
  BY <1>1, GrowsFacts
<1>3. Len(m.frames) <= Len(q.frames) /\ Len(m.segs) <= Len(q.segs)
  BY <1>1, ShapedFacts DEF Grows, Tame
<1>4. \A s \in DOMAIN m.segs : /\ q.segs[s].frozen = m.segs[s].frozen
                               /\ m.segs[s].frozen > 0 => q.segs[s].slots = m.segs[s].slots
  BY <1>2 DEF Grows, Tame
<1>5. \A g \in DOMAIN m.frames : q.frames[g] = m.frames[g]
  BY <1>2 DEF Grows, Tame
<1> QED
  BY <1>1, <1>3, <1>4, <1>5 DEF Grows, Tame

LEMMA GrowsLinked ==
  ASSUME NEW m, NEW n, Grows(m, n), NEW g \in DOMAIN m.frames, Linked(m, g),
         m.frames[g].prev # 0 => m.frames[g].prev \in DOMAIN m.frames
  PROVE  Linked(n, g) /\ n.frames[g].prev = m.frames[g].prev
<1>1. n.frames[g] = m.frames[g]
  BY DEF Grows
<1>2. m.frames[g].prev # 0 => n.frames[m.frames[g].prev] = m.frames[m.frames[g].prev]
  BY DEF Grows
<1> QED
  BY <1>1, <1>2 DEF Linked

LEMMA GrowsKeeps ==
  ASSUME NEW m, NEW n, NEW K, Shaped(m), Grows(m, n), Holds(m, K)
  PROVE  Keeps(m, n, K) /\ Holds(n, K)
<1>1. DOMAIN m.frames \subseteq DOMAIN n.frames /\ DOMAIN m.segs \subseteq DOMAIN n.segs
  BY GrowsFacts
<1>2. \A g \in K : /\ g \in DOMAIN m.frames /\ n.frames[g] = m.frames[g]
                   /\ m.frames[g].seg \in DOMAIN m.segs
  BY ShapedFacts DEF Grows, Holds
<1>3. Keeps(m, n, K)
  BY <1>2 DEF Grows, Holds, Keeps
<1>4. \A g \in K : Linked(n, g) /\ n.frames[g].prev = m.frames[g].prev
  <2> TAKE g \in K
  <2>1. Linked(m, g) /\ m.frames[g].prev \in K \cup {0}
    BY DEF Holds
  <2> QED
    BY <1>2, <2>1, GrowsLinked
<1>5. \A g \in K : n.segs[n.frames[g].seg].frozen > 0
  BY <1>2 DEF Grows, Holds
<1>6. Holds(n, K)
  BY <1>1, <1>2, <1>4, <1>5 DEF Grows, Holds
<1> QED
  BY <1>3, <1>6

(* The new frame runs, above a chain.                                      *)
LEMMA ChainExtended ==
  ASSUME NEW m, NEW n, NEW D, Shaped(m), Grows(m, n), Ready(n),
         D \subseteq DOMAIN m.frames,
         \A g \in D : Linked(m, g) /\ m.frames[g].prev \in D \cup {0},
         n.cur = Len(m.frames) + 1,
         Linked(n, n.cur), n.frames[n.cur].prev \in D \cup {0}
  PROVE  Stands(n, D \cup {n.cur})
<1>1. DOMAIN m.frames \subseteq DOMAIN n.frames /\ n.cur \in DOMAIN n.frames
  BY GrowsFacts DEF Ready
<1>2. \A g \in D : Linked(n, g) /\ n.frames[g].prev = m.frames[g].prev
  <2> TAKE g \in D
  <2>1. g \in DOMAIN m.frames /\ Linked(m, g) /\ m.frames[g].prev \in D \cup {0}
    OBVIOUS
  <2> QED
    BY <2>1, GrowsLinked
<1>3. n.cur \in Nat /\ \A g \in D : g <= n.cur
  BY ShapedFacts
<1>4. \A g \in D : /\ Linked(n, g) /\ g <= n.cur
                   /\ n.frames[g].prev \in (D \cup {n.cur}) \cup {0}
  BY <1>2, <1>3
<1>5. /\ Linked(n, n.cur) /\ n.cur <= n.cur
      /\ n.frames[n.cur].prev \in (D \cup {n.cur}) \cup {0}
  BY <1>3
<1>6. D \cup {n.cur} \subseteq DOMAIN n.frames
  BY <1>1
<1>7. \A g \in D \cup {n.cur} : /\ Linked(n, g) /\ g <= n.cur
                              /\ n.frames[g].prev \in (D \cup {n.cur}) \cup {0}
  <2> TAKE g \in D \cup {n.cur}
  <2>1. g \in D \/ g = n.cur
    OBVIOUS
  <2> QED
    BY <1>4, <1>5, <2>1
<1> QED
  BY <1>6, <1>7 DEF Stands

LEMMA SegmentGrows ==
  ASSUME NEW m, Shaped(m)
  PROVE  Grows(m, AddSegment(m)) /\ Grows(m, m)
<1>1. PICK n : n = AddSegment(m)
  OBVIOUS
<1>2. /\ Shaped(n) /\ n.frames = m.frames /\ n.heap = m.heap
      /\ Len(n.segs) = Len(m.segs) + 1
      /\ \A i \in DOMAIN m.segs : n.segs[i] = m.segs[i]
  BY <1>1, AddSegmentTame
<1> QED
  BY <1>1, <1>2, ShapedFacts DEF Grows

(* A frame is added on a segment that may be written.                      *)
LEMMA FrameGrows ==
  ASSUME NEW m, NEW f, Shaped(m), FrameShaped(m.segs, f), m.segs[f.seg].frozen = 0
  PROVE  LET q == WithFrame(m, f)
             id == NextFrame(m)
         IN  /\ Grows(m, q) /\ q.cur = m.cur /\ q.heap = m.heap
             /\ q.frames[id] = f /\ id \in DOMAIN q.frames /\ q.segs[f.seg].frozen = 0
<1>1. PICK q, id : q = WithFrame(m, f) /\ id = NextFrame(m)
  OBVIOUS
<1>2. /\ Shaped(q) /\ q.segs = m.segs /\ q.cur = m.cur /\ q.heap = m.heap
      /\ Len(q.frames) = id /\ id \in DOMAIN q.frames /\ q.frames[id] = f
      /\ \A g \in DOMAIN m.frames : q.frames[g] = m.frames[g]
  BY <1>1, FrameAdded
<1>3. Grows(m, q)
  BY <1>1, <1>2, ShapedFacts DEF Grows, NextFrame
<1> QED
  BY <1>1, <1>2, <1>3

(* The new frame's slots are written as well.                              *)
LEMMA WrittenFrameGrows ==
  ASSUME NEW m, NEW f, NEW s, NEW w, Shaped(m), FrameShaped(m.segs, f), f.seg = s,
         m.segs[s].frozen = 0
  PROVE  LET n == Written(WithFrame(m, f), s, w)
             id == NextFrame(m)
         IN  /\ Grows(m, n) /\ n.cur = m.cur /\ n.heap = m.heap
             /\ n.frames[id] = f /\ id \in DOMAIN n.frames /\ n.segs[s].frozen = 0
<1>1. PICK q, id : q = WithFrame(m, f) /\ id = NextFrame(m)
  OBVIOUS
<1>2. /\ Shaped(q) /\ q.segs = m.segs /\ q.cur = m.cur /\ q.heap = m.heap
      /\ Len(q.frames) = id /\ id \in DOMAIN q.frames /\ q.frames[id] = f
      /\ \A g \in DOMAIN m.frames : q.frames[g] = m.frames[g]
  BY <1>1, FrameAdded
<1>3. PICK n : n = Written(q, s, w)
  OBVIOUS
<1>4. /\ Shaped(n) /\ n.frames = q.frames /\ n.cur = q.cur /\ n.heap = q.heap
      /\ Len(n.segs) = Len(q.segs)
      /\ \A j \in DOMAIN q.segs : /\ n.segs[j].frozen = q.segs[j].frozen
                                  /\ j # s => n.segs[j] = q.segs[j]
  BY <1>2, <1>3, SlotsRewritten
<1>5. \A j \in DOMAIN q.segs : q.segs[j].frozen > 0 => n.segs[j].slots = q.segs[j].slots
  BY <1>2, <1>4
<1>6. Grows(m, n)
  BY <1>1, <1>2, <1>4, <1>5, ShapedFacts DEF Grows, NextFrame
<1>7. n.segs[s].frozen = 0
  BY <1>2, <1>4 DEF FrameShaped
<1> QED
  BY <1>1, <1>2, <1>3, <1>4, <1>6, <1>7

(* A frame begins to run.                                                  *)
LEMMA Runs ==
  ASSUME NEW m, NEW q, NEW id, Shaped(m), Grows(m, q), id \in DOMAIN q.frames,
         q.segs[q.frames[id].seg].frozen = 0
  PROVE  LET n == Switched(q, id)
         IN  /\ Ready(n) /\ Grows(m, n) /\ n.cur = id /\ n.frames = q.frames
             /\ n.segs = q.segs /\ n.heap = q.heap
<1>1. PICK n : n = Switched(q, id)
  OBVIOUS
<1>2. Shaped(q)
  BY DEF Grows
<1>3. Shaped(n) /\ n.frames = q.frames /\ n.segs = q.segs /\ n.cur = id /\ n.heap = q.heap
  BY <1>1, <1>2, CurSet
<1>4. Ready(n) /\ Grows(m, n)
  BY <1>3 DEF Ready, Grows
<1> QED
  BY <1>1, <1>3, <1>4

(* A call: the callee waits on its caller, in a slot of the caller's window. *)
LEMMA NewFrameStands ==
  ASSUME NEW m, NEW k \in Nat, NEW argnum, NEW arity, NEW K, NEW C,
         Ready(m), Holds(m, K), Stands(m, C), Top(m).base + k < Top(m).top
  PROVE  LET n == NewFrame(m, k, argnum, arity)
         IN  Ready(n) /\ Keeps(m, n, K) /\ Holds(n, K) /\ Stands(n, C \cup {n.cur})
<1>1. PICK f : f = Top(m)
  OBVIOUS
<1>2. Shaped(m) /\ f = m.frames[m.cur] /\ m.cur \in DOMAIN m.frames /\ FrameShaped(m.segs, f)
      /\ m.segs[f.seg].frozen = 0
  BY <1>1 DEF Ready, Shaped, Top
<1>3. PICK id : id = NextFrame(m)
  OBVIOUS
<1>4. PICK slot : slot = f.base + k
  OBVIOUS
<1>5. f.base \in Int /\ f.base <= slot /\ slot < f.top
  BY <1>1, <1>2, <1>4 DEF FrameShaped
<1> DEFINE new(seg, base) == [pc |-> -1, seg |-> seg, prev |-> m.cur,
                              start |-> [seg |-> f.seg, off |-> slot],
                              base |-> base, top |-> base + 1 + arity, unwind |-> "none"]
           Good(n) == Ready(n) /\ Keeps(m, n, K) /\ Holds(n, K) /\ Stands(n, C \cup {n.cur})
<1>6. \A ss, seg, base : seg \in DOMAIN ss /\ f.seg \in DOMAIN ss /\ base \in Int
                           => FrameShaped(ss, new(seg, base))
  BY DEF FrameShaped
<1>7. \A seg, base : /\ new(seg, base).seg = seg /\ new(seg, base).prev = m.cur
                     /\ new(seg, base).start.seg = f.seg /\ new(seg, base).start.off = slot
  OBVIOUS
<1> HIDE DEF new
<1>8. ASSUME NEW q, NEW g, Grows(m, q), id \in DOMAIN q.frames, q.frames[id] = g,
             q.segs[g.seg].frozen = 0,
             g.prev = m.cur, g.start.seg = f.seg, g.start.off = slot
      PROVE  Good(Switched(q, id))
  <2>1. PICK n : n = Switched(q, id)
    OBVIOUS
  <2>2. /\ Ready(n) /\ Grows(m, n) /\ n.cur = id /\ n.frames = q.frames
        /\ n.segs = q.segs /\ n.heap = q.heap
    BY <1>2, <1>8, <2>1, Runs
  <2>3. n.frames[m.cur] = f /\ m.cur \in Nat /\ m.cur < id /\ m.cur # 0
    BY <1>2, <1>3, <2>2, ShapedFacts DEF Grows, NextFrame
  <2>4. Linked(n, n.cur) /\ n.frames[n.cur].prev \in C \cup {0}
    BY <1>5, <1>8, <2>2, <2>3 DEF Linked, Stands
  <2>5. /\ C \subseteq DOMAIN m.frames
        /\ \A h \in C : Linked(m, h) /\ m.frames[h].prev \in C \cup {0}
    BY DEF Stands
  <2>6. Stands(n, C \cup {n.cur})
    BY <1>2, <1>3, <2>2, <2>4, <2>5, ChainExtended DEF NextFrame
  <2>7. Keeps(m, n, K) /\ Holds(n, K)
    BY <1>2, <2>2, GrowsKeeps
  <2> HIDE DEF Good
  <2> QED
    <3>1. Good(n)
      BY <2>2, <2>6, <2>7 DEF Good
    <3> QED
      BY <2>1, <3>1
<1> HIDE DEF Good
<1>9. Good(Switched(WithFrame(m, new(f.seg, slot)), id))
  <2>1. PICK g : g = new(f.seg, slot)
    OBVIOUS
  <2>2. FrameShaped(m.segs, g) /\ g.seg = f.seg
        /\ g.prev = m.cur /\ g.start.seg = f.seg /\ g.start.off = slot
    <3>1. f.seg \in DOMAIN m.segs
      BY <1>2 DEF FrameShaped
    <3>2. slot \in Int
      BY <1>4, <1>5
    <3>3. FrameShaped(m.segs, new(f.seg, slot))
      BY <1>6, <3>1, <3>2
    <3> QED
      BY <1>7, <2>1, <3>3
  <2>3. PICK q : q = WithFrame(m, g)
    OBVIOUS
  <2>4. Grows(m, q) /\ q.frames[id] = g /\ id \in DOMAIN q.frames /\ q.segs[g.seg].frozen = 0
    <3>1. m.segs[g.seg].frozen = 0
      BY <1>2, <2>2
    <3> QED
      BY <1>2, <1>3, <2>2, <2>3, <3>1, FrameGrows
  <2>5. Good(Switched(q, id))
    BY <1>8, <2>2, <2>4
  <2> QED
    BY <2>1, <2>3, <2>5
<1>10. PICK m1, s : m1 = AddSegment(m) /\ s = Len(m.segs) + 1
  OBVIOUS
<1>11. /\ Shaped(m1) /\ m1.frames = m.frames /\ m1.cur = m.cur /\ m1.heap = m.heap
       /\ Len(m1.segs) = s /\ m1.segs[s].frozen = 0 /\ s \in DOMAIN m1.segs
       /\ DOMAIN m.segs \subseteq DOMAIN m1.segs /\ Grows(m, m1)
  <2>1. Grows(m, m1)
    BY <1>2, <1>10, SegmentGrows
  <2>2. /\ Shaped(m1) /\ m1.frames = m.frames /\ m1.cur = m.cur /\ m1.heap = m.heap
        /\ Len(m1.segs) = s /\ m1.segs[s].frozen = 0
    BY <1>2, <1>10, AddSegmentTame
  <2> QED
    BY <1>2, <1>10, <2>1, <2>2, GrowsFacts, ShapedFacts
<1>12. ASSUME NEW w
       PROVE  Good(Switched(Written(WithFrame(m1, new(s, 0)), s, w), id))
  <2>1. PICK g : g = new(s, 0)
    OBVIOUS
  <2>2. FrameShaped(m1.segs, g) /\ g.seg = s
        /\ g.prev = m.cur /\ g.start.seg = f.seg /\ g.start.off = slot
    BY <1>2, <1>6, <1>7, <1>11, <2>1, SMTT(60) DEF FrameShaped
  <2>3. PICK q : q = Written(WithFrame(m1, g), s, w)
    OBVIOUS
  <2>4. Grows(m1, q) /\ q.frames[id] = g /\ id \in DOMAIN q.frames /\ q.segs[g.seg].frozen = 0
    <3>1. NextFrame(m1) = id
      BY <1>3, <1>11 DEF NextFrame
    <3> QED
      BY <1>11, <2>2, <2>3, <3>1, WrittenFrameGrows
  <2>5. Grows(m, q)
    BY <1>2, <1>11, <2>4, GrowsAgain
  <2>6. Good(Switched(q, id))
    BY <1>8, <2>2, <2>4, <2>5
  <2> QED
    BY <2>1, <2>2, <2>3, <2>6
<1>13. \/ NewFrame(m, k, argnum, arity) =
            Switched(WithFrame(m, new(f.seg, slot)), id)
       \/ \E w : NewFrame(m, k, argnum, arity) =
            Switched(Written(WithFrame(m1, new(s, 0)), s, w), id)
  BY <1>1, <1>3, <1>4, <1>10, <1>11 DEF NewFrame, new, Switched, Written, WithFrame, NextFrame
<1>14. Good(NewFrame(m, k, argnum, arity))
  BY <1>9, <1>12, <1>13
<1> QED
  BY <1>14 DEF Good

-----------------------------------------------------------------------------
(* Copies of frames.                                                       *)

(* A frame on a frozen segment is copied to a segment of its own; the copy *)
(* waits where the frame waits.                                            *)
LEMMA CowCopies ==
  ASSUME NEW m, NEW f \in DOMAIN m.frames, Shaped(m), m.segs[m.frames[f].seg].frozen > 0
  PROVE  LET cow == CowFrame(m, f)
         IN  /\ Grows(m, cow.m) /\ cow.m.cur = m.cur /\ cow.m.heap = m.heap
             /\ cow.id = NextFrame(m) /\ cow.id \in DOMAIN cow.m.frames
             /\ cow.m.frames[cow.id].prev = m.frames[f].prev
             /\ cow.m.frames[cow.id].start = m.frames[f].start
             /\ cow.m.segs[cow.m.frames[cow.id].seg].frozen = 0
<1>1. PICK src : src = m.frames[f]
  OBVIOUS
<1>2. PICK top : top = src.top - src.base
  OBVIOUS
<1>3. PICK m1, s : m1 = AddSegment(m) /\ s = Len(m.segs) + 1
  OBVIOUS
<1>4. /\ Shaped(m1) /\ m1.frames = m.frames /\ m1.cur = m.cur /\ m1.heap = m.heap
      /\ Len(m1.segs) = s /\ m1.segs[s].frozen = 0 /\ s \in DOMAIN m1.segs
      /\ Grows(m, m1)
  <2>1. Grows(m, m1)
    BY <1>3, SegmentGrows
  <2>2. /\ Shaped(m1) /\ m1.frames = m.frames /\ m1.cur = m.cur /\ m1.heap = m.heap
        /\ Len(m1.segs) = s /\ m1.segs[s].frozen = 0
    BY <1>3, AddSegmentTame
  <2> QED
    BY <1>3, <2>1, <2>2, ShapedFacts
<1>5. PICK dst : dst = [src EXCEPT !.seg = s, !.base = 0, !.top = top]
  OBVIOUS
<1>6. /\ FrameShaped(m1.segs, dst) /\ dst.seg = s
      /\ dst.prev = src.prev /\ dst.start = src.start
  <2>1. FrameShaped(m1.segs, src)
    BY <1>1, <1>4 DEF Shaped
  <2>2. PICK g : g = [src EXCEPT !.seg = s]
    OBVIOUS
  <2>3. FrameShaped(m1.segs, g) /\ g.seg = s /\ g.prev = src.prev /\ g.start = src.start
    BY <1>4, <2>1, <2>2 DEF FrameShaped
  <2>4. PICK h : h = [g EXCEPT !.base = 0]
    OBVIOUS
  <2>5. FrameShaped(m1.segs, h) /\ h.seg = s /\ h.prev = src.prev /\ h.start = src.start
    BY <2>3, <2>4 DEF FrameShaped
  <2>6. dst = [h EXCEPT !.top = top]
    BY <1>5, <2>2, <2>4
  <2> QED
    BY <2>5, <2>6 DEF FrameShaped
<1>7. PICK id : id = NextFrame(m)
  OBVIOUS
<1>8. NextFrame(m1) = id
  BY <1>4, <1>7 DEF NextFrame
<1>9. PICK w : CowFrame(m, f) = [m |-> Written(WithFrame(m1, dst), s, w), id |-> id]
  BY <1>1, <1>2, <1>3, <1>4, <1>5, <1>7 DEF CowFrame, Written, WithFrame, NextFrame
<1>10. PICK q : q = Written(WithFrame(m1, dst), s, w)
  OBVIOUS
<1>11. /\ Grows(m1, q) /\ q.cur = m1.cur /\ q.heap = m1.heap
       /\ q.frames[id] = dst /\ id \in DOMAIN q.frames /\ q.segs[s].frozen = 0
  BY <1>4, <1>6, <1>8, <1>10, WrittenFrameGrows
<1>12. Grows(m, q)
  BY <1>4, <1>11, GrowsAgain
<1>13. CowFrame(m, f).m = q /\ CowFrame(m, f).id = id
  BY <1>9, <1>10
<1> QED
  BY <1>1, <1>4, <1>6, <1>7, <1>11, <1>12, <1>13

(* From m to n: the frames of K are kept, and n stands as m did.           *)
Onward(m, n, K) ==
  /\ Keeps(m, n, K) /\ Ready(n)
  /\ \E L, D : K \subseteq L /\ Holds(n, L) /\ Stands(n, D)

LEMMA KeepsAgain ==
  ASSUME NEW m, NEW n, NEW q, NEW K, Keeps(m, n, K), Keeps(n, q, K)
  PROVE  Keeps(m, q, K)
BY DEF Keeps

LEMMA TameOnward ==
  ASSUME NEW m, NEW n, NEW K, NEW C, Ready(m), Holds(m, K), Stands(m, C), Tame(m, n)
  PROVE  Onward(m, n, K)
BY TameKeeps DEF Onward, Tame

(* The copy of a frame of C runs, with the callers of that frame.          *)
LEMMA CopyRuns ==
  ASSUME NEW m, NEW C, NEW K, NEW f \in C, Shaped(m), Holds(m, K),
         C \subseteq DOMAIN m.frames,
         \A g \in C : Linked(m, g) /\ m.frames[g].prev \in C \cup {0},
         m.segs[m.frames[f].seg].frozen > 0
  PROVE  LET n == Switched(CowFrame(m, f).m, CowFrame(m, f).id)
         IN  /\ Ready(n) /\ Keeps(m, n, K) /\ Holds(n, K) /\ Stands(n, C \cup {n.cur})
             /\ n.cur = NextFrame(m)
<1>1. PICK q, id : q = CowFrame(m, f).m /\ id = CowFrame(m, f).id
  OBVIOUS
<1>2. f \in DOMAIN m.frames /\ Linked(m, f) /\ m.frames[f].prev \in C \cup {0}
  OBVIOUS
<1>3. /\ Grows(m, q) /\ id = NextFrame(m) /\ id \in DOMAIN q.frames
      /\ q.frames[id].prev = m.frames[f].prev /\ q.frames[id].start = m.frames[f].start
      /\ q.segs[q.frames[id].seg].frozen = 0
  BY <1>1, <1>2, CowCopies
<1>4. PICK n : n = Switched(q, id)
  OBVIOUS
<1>5. Ready(n) /\ Grows(m, n) /\ n.cur = id /\ n.frames = q.frames
  BY <1>3, <1>4, Runs
<1>6. f < id /\ f \in Nat /\ id \in Nat
  <2>1. Len(m.frames) \in Nat /\ f \in 1..Len(m.frames) /\ id = Len(m.frames) + 1
    BY <1>2, <1>3, ShapedFacts DEF NextFrame
  <2> QED
    BY <2>1
<1>7. m.frames[f].prev # 0 => n.frames[m.frames[f].prev] = m.frames[m.frames[f].prev]
  BY <1>2, <1>5 DEF Grows
<1>8. Linked(n, n.cur)
  BY <1>2, <1>3, <1>5, <1>6, <1>7, SMTT(60) DEF Linked
<1>9. n.frames[n.cur].prev \in C \cup {0}
  BY <1>2, <1>3, <1>5
<1>10. Stands(n, C \cup {n.cur})
  BY <1>3, <1>5, <1>8, <1>9, ChainExtended DEF NextFrame
<1>11. Keeps(m, n, K) /\ Holds(n, K)
  BY <1>5, GrowsKeeps
<1> QED
  BY <1>1, <1>3, <1>4, <1>5, <1>10, <1>11

(* A continuation is called: the copy of its frame runs.                   *)
LEMMA ThrowOnward ==
  ASSUME NEW m, NEW c, NEW cont, NEW K, NEW C, Ready(m), Holds(m, K), Stands(m, C),
         cont.frm \in K
  PROVE  LET o == Throw(m, c, cont)
         IN  Onward(m, o.m, K) /\ o.act \in {"error", "cctailret", "done"}
<1>1. PICK q : q = Switched(CowFrame(m, cont.frm).m, CowFrame(m, cont.frm).id)
  OBVIOUS
<1>2. PICK f : f = cont.frm
  OBVIOUS
<1>3. Shaped(m) /\ K \subseteq DOMAIN m.frames /\ f \in K /\ m.segs[m.frames[f].seg].frozen > 0
      /\ \A g \in K : Linked(m, g) /\ m.frames[g].prev \in K \cup {0}
  BY <1>2 DEF Ready, Holds
<1>4. Ready(q) /\ Keeps(m, q, K) /\ Holds(q, K) /\ Stands(q, K \cup {q.cur})
  BY <1>1, <1>2, <1>3, CopyRuns
<1>5. PICK n : n = Put(q, cont.k, At(m, c.k + 1))
  OBVIOUS
<1>6. Tame(q, n)
  BY <1>4, <1>5, PutTame
<1>7. Keeps(q, n, K) /\ Holds(n, K) /\ Stands(n, K \cup {q.cur})
  BY <1>4, <1>6, TameKeeps
<1>8. Onward(m, n, K)
  BY <1>4, <1>6, <1>7, KeepsAgain DEF Onward, Tame
<1>9. Onward(m, m, K)
  BY TameItself, TameOnward
<1>10. Throw(m, c, cont) \in {Outcome(m, "error"), Outcome(n, "cctailret"), Outcome(n, "done")}
  BY <1>1, <1>5 DEF Throw, Switched
<1>11. \A r, a : Outcome(r, a).m = r /\ Outcome(r, a).act = a
  BY DEF Outcome
<1> QED
  BY <1>8, <1>9, <1>10, <1>11

-----------------------------------------------------------------------------
(* The rounds of callproc.                                                 *)

(* A captured chain: its segments are frozen, nothing else changes.        *)
LEMMA FreezeFacts ==
  ASSUME NEW m, NEW f, Shaped(m), Chain(m.frames, f) \subseteq DOMAIN m.frames
  PROVE  LET n == Freeze(m, f)
         IN  /\ Shaped(n) /\ n.frames = m.frames /\ n.cur = m.cur /\ n.heap = m.heap
             /\ Len(n.segs) = Len(m.segs)
             /\ \A s \in DOMAIN m.segs : /\ n.segs[s].slots = m.segs[s].slots
                                         /\ m.segs[s].frozen > 0 => n.segs[s].frozen > 0
             /\ \A g \in Chain(m.frames, f) : n.segs[m.frames[g].seg].frozen > 0
<1> DEFINE on(s) == {g \in Chain(m.frames, f) : m.frames[g].seg = s}
           held(s) == Cardinality(on(s))
           seg(s) == [m.segs[s] EXCEPT !.frozen = @ + held(s)]
<1>1. \A s : held(s) \in Nat /\ (on(s) # {} => held(s) > 0)
  <2> TAKE s
  <2>1. IsFiniteSet(1..Len(m.frames))
    BY ShapedFacts, FS_Interval
  <2>2. on(s) \subseteq 1..Len(m.frames)
    BY ShapedFacts
  <2> HIDE DEF on
  <2>3. IsFiniteSet(on(s))
    BY <2>1, <2>2, FS_Subset
  <2> QED
    BY <2>3, FS_CardinalityType, FS_EmptySet
<1> HIDE DEF held
<1>2. \A s \in DOMAIN m.segs : /\ SegShaped(seg(s)) /\ seg(s).slots = m.segs[s].slots
                               /\ seg(s).frozen = m.segs[s].frozen + held(s)
  <2> TAKE s \in DOMAIN m.segs
  <2>1. PICK e : e = m.segs[s]
    OBVIOUS
  <2>2. SegShaped(e)
    BY <2>1 DEF Shaped
  <2>3. PICK h : h = e.frozen + held(s)
    OBVIOUS
  <2>4. h \in Nat
    BY <1>1, <2>2, <2>3 DEF SegShaped
  <2>5. SegShaped([e EXCEPT !.frozen = h]) /\ [e EXCEPT !.frozen = h].slots = e.slots
        /\ [e EXCEPT !.frozen = h].frozen = h
    BY <2>2, <2>4 DEF SegShaped
  <2>6. seg(s) = [e EXCEPT !.frozen = h]
    BY <2>1, <2>3
  <2> QED
    BY <2>1, <2>3, <2>5, <2>6
<1> HIDE DEF seg
<1>3. PICK ss : ss = [s \in DOMAIN m.segs |-> seg(s)]
  OBVIOUS
<1>4. DOMAIN m.segs = 1..Len(m.segs) /\ Len(m.segs) \in Nat
  BY ShapedFacts
<1>5. IsSequence(ss) /\ Len(ss) = Len(m.segs) /\ DOMAIN ss = DOMAIN m.segs
  <2>1. PICK S : S = {seg(s) : s \in DOMAIN m.segs}
    OBVIOUS
  <2>2. ss \in [1..Len(m.segs) -> S]
    BY <1>3, <1>4, <2>1
  <2>3. ss \in Seq(S)
    BY <1>4, <2>2
  <2> QED
    BY <1>4, <2>2, <2>3 DEF IsSequence
<1>6. PICK n : n = [frames |-> m.frames, segs |-> ss, cur |-> m.cur, heap |-> m.heap]
  OBVIOUS
<1>7. n.frames = m.frames /\ n.segs = ss /\ n.cur = m.cur /\ n.heap = m.heap
  BY <1>6
<1>8. Freeze(m, f) = n
  <2>1. Freeze(m, f) = [m EXCEPT !.segs = ss]
    BY <1>3 DEF Freeze, seg, held, on
  <2>2. m = [frames |-> m.frames, segs |-> m.segs, cur |-> m.cur, heap |-> m.heap]
    BY DEF Shaped
  <2> QED
    BY <1>6, <2>1, <2>2
<1>9. \A s \in DOMAIN m.segs : ss[s] = seg(s)
  BY <1>3
<1>10. Shaped(n)
  <2>1. \A g \in DOMAIN m.frames : FrameShaped(ss, m.frames[g])
    BY <1>5 DEF Shaped, FrameShaped
  <2>2. \A s \in DOMAIN ss : SegShaped(ss[s])
    BY <1>2, <1>5, <1>9
  <2> QED
    BY <1>5, <1>6, <1>7, <2>1, <2>2 DEF Shaped
<1>11. ASSUME NEW s \in DOMAIN m.segs
       PROVE  /\ ss[s].slots = m.segs[s].slots
              /\ m.segs[s].frozen > 0 => ss[s].frozen > 0
              /\ on(s) # {} => ss[s].frozen > 0
  <2>1. m.segs[s].frozen \in Nat
    BY ShapedFacts
  <2> QED
    BY <1>1, <1>2, <1>9, <2>1
<1>12. ASSUME NEW g \in Chain(m.frames, f)
       PROVE  ss[m.frames[g].seg].frozen > 0
  <2>1. m.frames[g].seg \in DOMAIN m.segs
    BY ShapedFacts
  <2>2. g \in on(m.frames[g].seg)
    OBVIOUS
  <2> HIDE DEF on
  <2> QED
    BY <1>11, <2>1, <2>2
<1> HIDE DEF on
<1> QED
  BY <1>5, <1>7, <1>8, <1>10, <1>11, <1>12

(* From m to n only slots of one segment were written.                     *)
WritesOn(m, n, s) ==
  /\ Shaped(n) /\ n.frames = m.frames /\ n.cur = m.cur /\ n.heap = m.heap
  /\ Len(n.segs) = Len(m.segs)
  /\ \A j \in DOMAIN m.segs : /\ n.segs[j].frozen = m.segs[j].frozen
                              /\ j # s => n.segs[j].slots = m.segs[j].slots

LEMMA PutWrites ==
  ASSUME NEW m, NEW n, NEW s, NEW k, NEW v, Shaped(m), WritesOn(m, n, s), s = Top(m).seg
  PROVE  WritesOn(m, Put(n, k, v), s)
<1>1. PICK w : w = [n.segs[s].slots EXCEPT ![Top(n).base + k] = v]
  OBVIOUS
<1>2. PICK q : q = Written(n, s, w)
  OBVIOUS
<1>3. Shaped(n) /\ Top(n) = Top(m) /\ DOMAIN n.segs = DOMAIN m.segs
  BY ShapedFacts DEF WritesOn, Top
<1>4. Put(n, k, v) = q
  BY <1>1, <1>2, <1>3 DEF Put, Written
<1>5. /\ Shaped(q) /\ q.frames = n.frames /\ q.cur = n.cur /\ q.heap = n.heap
      /\ Len(q.segs) = Len(n.segs)
      /\ \A j \in DOMAIN n.segs : /\ q.segs[j].frozen = n.segs[j].frozen
                                  /\ j # s => q.segs[j] = n.segs[j]
  BY <1>2, <1>3, SlotsRewritten
<1>6. \A j \in DOMAIN m.segs : /\ q.segs[j].frozen = m.segs[j].frozen
                               /\ j # s => q.segs[j].slots = m.segs[j].slots
  BY <1>3, <1>5 DEF WritesOn
<1> QED
  BY <1>4, <1>5, <1>6 DEF WritesOn

(* call/cc captures the chain, puts the continuation where the procedure   *)
(* it calls expects it, and goes on in a copy of the frame.                *)
LEMMA Captures ==
  ASSUME NEW m, NEW cont, NEW K, NEW C, Ready(m), Holds(m, K), Stands(m, C), cont.frm = m.cur
  PROVE  LET n == Freeze([m EXCEPT !.heap.conts = Append(@, cont)], m.cur)
         IN  /\ Shaped(n) /\ n.frames = m.frames /\ n.cur = m.cur
             /\ Keeps(m, n, K) /\ Holds(n, K \cup Chain(m.frames, m.cur))
             /\ m.cur \in Chain(m.frames, m.cur) /\ Chain(m.frames, m.cur) \subseteq C
             /\ Len(n.segs) = Len(m.segs)
             /\ \A s \in DOMAIN m.segs : n.segs[s].slots = m.segs[s].slots
<1>1. PICK h : h = [m.heap EXCEPT !.conts = Append(@, cont)]
  OBVIOUS
<1>2. PICK m0 : m0 = [m EXCEPT !.heap = h]
  OBVIOUS
<1>3. PICK cs : cs = Append(m.heap.conts, cont)
  OBVIOUS
<1>4. Shaped(m) /\ HeapShaped(m.heap) /\ IsSequence(m.heap.conts)
  BY DEF Ready, Shaped, HeapShaped
<1>5. /\ IsSequence(cs) /\ cs[Len(m.heap.conts) + 1] = cont
      /\ DOMAIN cs = 1..(Len(m.heap.conts) + 1)
      /\ \A i \in DOMAIN m.heap.conts : cs[i] = m.heap.conts[i]
  BY <1>3, <1>4, Appended
<1>6. \A c \in DOMAIN cs : c \in DOMAIN m.heap.conts \/ c = Len(m.heap.conts) + 1
  BY <1>4, <1>5, ShapedFacts
<1>7. HeapShaped(h) /\ h.conts = cs
  <2>1. h = [m.heap EXCEPT !.conts = cs]
    BY <1>1, <1>3
  <2> QED
    BY <1>4, <1>5, <2>1 DEF HeapShaped
<1>8. Shaped(m0) /\ m0.frames = m.frames /\ m0.segs = m.segs /\ m0.cur = m.cur /\ m0.heap = h
  <2>1. PICK e : e = [frames |-> m.frames, segs |-> m.segs, cur |-> m.cur, heap |-> h]
    OBVIOUS
  <2>2. m0 = e
    BY <1>2, <1>4, <2>1 DEF Shaped
  <2>3. e.frames = m.frames /\ e.segs = m.segs /\ e.cur = m.cur /\ e.heap = h
    BY <2>1
  <2>4. Shaped(e)
    BY <1>4, <1>7, <2>1, <2>3 DEF Shaped
  <2> QED
    BY <2>2, <2>3, <2>4
<1>9. PICK D : D = Chain(m.frames, m.cur)
  OBVIOUS
<1>10. /\ m.cur \in D /\ D \subseteq C
       /\ \A g \in D : m.frames[g].prev \in D \cup {0}
  <2>1. /\ C \subseteq 1..Len(m.frames) /\ m.cur \in C /\ Len(m.frames) \in Nat
    BY <1>4, ShapedFacts DEF Stands
  <2>2. Closed(m.frames, C)
    BY DEF Closed, Stands, Linked
  <2> QED
    BY <1>9, <2>1, <2>2, ChainFacts
<1>11. PICK n : n = Freeze(m0, m.cur)
  OBVIOUS
<1>12. /\ Shaped(n) /\ n.frames = m.frames /\ n.cur = m.cur /\ n.heap = h
       /\ Len(n.segs) = Len(m.segs)
       /\ \A s \in DOMAIN m.segs : /\ n.segs[s].slots = m.segs[s].slots
                                   /\ m.segs[s].frozen > 0 => n.segs[s].frozen > 0
       /\ \A g \in D : n.segs[m.frames[g].seg].frozen > 0
  <2>1. Chain(m0.frames, m.cur) = D /\ D \subseteq DOMAIN m0.frames
    BY <1>8, <1>9, <1>10 DEF Stands
  <2> QED
    BY <1>8, <1>11, <2>1, FreezeFacts
<1>13. Keeps(m, n, K)
  BY <1>4, <1>12, ShapedFacts DEF Keeps, Holds
<1>14. Holds(n, K \cup D)
  <2>1. K \cup D \subseteq DOMAIN n.frames
    BY <1>10, <1>12 DEF Holds, Stands
  <2>2. \A c \in DOMAIN n.heap.conts : n.heap.conts[c].frm \in K \cup D
    BY <1>5, <1>6, <1>7, <1>10, <1>12 DEF Holds
  <2>3. \A g \in K : /\ g \in DOMAIN m.frames /\ Linked(m, g)
                     /\ m.frames[g].prev \in K \cup {0} /\ m.segs[m.frames[g].seg].frozen > 0
    BY DEF Holds
  <2>4. \A g \in D : Linked(m, g)
    BY <1>10 DEF Stands
  <2>5. \A g : Linked(m, g) => Linked(n, g)
    BY <1>12 DEF Linked
  <2>6. \A g \in K : n.segs[n.frames[g].seg].frozen > 0
    BY <1>4, <1>12, <2>3, ShapedFacts
  <2>7. \A g \in K \cup D : /\ Linked(n, g) /\ n.frames[g].prev \in (K \cup D) \cup {0}
                            /\ n.segs[n.frames[g].seg].frozen > 0
    BY <1>10, <1>12, <2>3, <2>4, <2>5, <2>6
  <2> QED
    BY <2>1, <2>2, <2>7 DEF Holds
<1>15. [m EXCEPT !.heap.conts = Append(@, cont)] = m0
  BY <1>1, <1>2
<1> QED
  BY <1>9, <1>10, <1>11, <1>12, <1>13, <1>14, <1>15

LEMMA WritesHold ==
  ASSUME NEW m, NEW n, NEW s, NEW K, Shaped(m), WritesOn(m, n, s), Holds(m, K)
  PROVE  Holds(n, K)
<1>1. \A g : Linked(m, g) => Linked(n, g)
  BY DEF WritesOn, Linked
<1>2. \A g \in K : m.frames[g].seg \in DOMAIN m.segs
  BY ShapedFacts DEF Holds
<1> QED
  BY <1>1, <1>2 DEF Holds, WritesOn

LEMMA CallCCOnward ==
  ASSUME NEW m, NEW c, NEW args, NEW K, NEW C, Ready(m), Holds(m, K), Stands(m, C)
  PROVE  LET o == CallCC(m, c, args)
         IN  Onward(m, o.m, K) /\ o.act \in {"error", "recall"}
<1>1. PICK cont : cont = [frm |-> m.cur, k |-> c.k, tail |-> c.istail]
  OBVIOUS
<1>2. PICK m1 : m1 = Freeze([m EXCEPT !.heap.conts = Append(@, cont)], m.cur)
  OBVIOUS
<1>3. PICK D : D = Chain(m.frames, m.cur)
  OBVIOUS
<1>4. /\ Shaped(m1) /\ m1.frames = m.frames /\ m1.cur = m.cur
      /\ Keeps(m, m1, K) /\ Holds(m1, K \cup D) /\ m.cur \in D /\ D \subseteq C
      /\ Len(m1.segs) = Len(m.segs)
      /\ \A s \in DOMAIN m.segs : m1.segs[s].slots = m.segs[s].slots
  <2>1. cont.frm = m.cur
    BY <1>1
  <2> QED
    BY <1>2, <1>3, <2>1, Captures
<1>5. PICK s : s = Top(m1).seg
  OBVIOUS
<1>6. Shaped(m) /\ s = m.frames[m.cur].seg /\ m.segs[s].frozen = 0 /\ m1.segs[s].frozen > 0
  BY <1>4, <1>5 DEF Ready, Top, Holds
<1>7. WritesOn(m1, m1, s)
  BY <1>4 DEF WritesOn
<1>8. ASSUME NEW x, WritesOn(m1, x, s)
      PROVE  /\ Onward(m, AfterCapture(CowFrame(x, m.cur), c).m, K)
             /\ AfterCapture(CowFrame(x, m.cur), c).act = "recall"
  <2>1. Shaped(x) /\ x.frames = m.frames /\ x.segs[s].frozen > 0
    BY <1>4, <1>5, <1>6, <1>8, ShapedFacts DEF WritesOn, Top, Ready
  <2>2. Holds(x, K \cup D)
    BY <1>4, <1>8, WritesHold
  <2>3. Keeps(m, x, K)
    <3>1. \A g \in K : m.frames[g].seg # s /\ m.frames[g].seg \in DOMAIN m.segs
      BY <1>6, ShapedFacts DEF Holds
    <3>2. DOMAIN m1.segs = DOMAIN m.segs
      BY <1>4, <1>6, ShapedFacts
    <3> QED
      BY <1>4, <1>8, <2>1, <3>1, <3>2 DEF WritesOn, Keeps
  <2>4. C \subseteq DOMAIN x.frames /\ m.cur \in C
    BY <2>1 DEF Stands
  <2>5. \A g \in C : Linked(x, g) /\ x.frames[g].prev \in C \cup {0}
    BY <2>1 DEF Stands, Linked
  <2>6. x.segs[x.frames[m.cur].seg].frozen > 0
    BY <1>6, <2>1
  <2>7. PICK n : n = Switched(CowFrame(x, m.cur).m, CowFrame(x, m.cur).id)
    OBVIOUS
  <2>8. Ready(n) /\ Keeps(x, n, K \cup D) /\ Holds(n, K \cup D) /\ Stands(n, C \cup {n.cur})
    BY <2>1, <2>2, <2>4, <2>5, <2>6, <2>7, CopyRuns
  <2>9. Keeps(m, n, K)
    BY <2>3, <2>8 DEF Keeps
  <2>10. Onward(m, n, K)
    BY <2>8, <2>9 DEF Onward
  <2>11. AfterCapture(CowFrame(x, m.cur), c).m = n
    BY <2>7 DEF AfterCapture, Switched
  <2>12. AfterCapture(CowFrame(x, m.cur), c).act = "recall"
    BY DEF AfterCapture
  <2> QED
    BY <2>10, <2>11, <2>12
<1>9. \A k, v, x : WritesOn(m1, x, s) => WritesOn(m1, Put(x, k, v), s)
  BY <1>4, <1>5, PutWrites
<1>10. Onward(m, m, K)
  BY TameItself, TameOnward
<1>11. \/ CallCC(m, c, args) = Outcome(m, "error")
       \/ \E x : WritesOn(m1, x, s) /\ CallCC(m, c, args) = AfterCapture(CowFrame(x, m.cur), c)
  <2>1. PICK m2 : m2 = Put(Put(m1, c.k, args[1]), c.k + 1, ContRef(Len(m.heap.conts) + 1))
    OBVIOUS
  <2>2. WritesOn(m1, m2, s) /\ WritesOn(m1, Put(m2, c.k + 2, Nil), s)
    BY <1>7, <1>9, <2>1
  <2> HIDE DEF Nil
  <2>3. \/ CallCC(m, c, args) = Outcome(m, "error")
        \/ CallCC(m, c, args) = AfterCapture(CowFrame(m2, m.cur), c)
        \/ CallCC(m, c, args) = AfterCapture(CowFrame(Put(m2, c.k + 2, Nil), m.cur), c)
    BY <1>1, <1>2, <2>1 DEF CallCC
  <2> QED
    BY <2>2, <2>3
<1>12. \A r, a : Outcome(r, a).m = r /\ Outcome(r, a).act = a
  BY DEF Outcome
<1> QED
  BY <1>8, <1>10, <1>11, <1>12

(* apply and the port procedures only rewrite the call.                    *)
LEMMA TwoPutsTame ==
  ASSUME NEW m, NEW h, NEW k, NEW v, NEW j, NEW w, Ready(m), HeapShaped(h),
         h.conts = m.heap.conts
  PROVE  Tame(m, Put(Put([m EXCEPT !.heap = h], k, v), j, w))
<1>1. PICK n : n = Put([m EXCEPT !.heap = h], k, v)
  OBVIOUS
<1>2. Tame(m, n)
  BY <1>1, HeapPutTame
<1>3. Tame(n, Put(n, j, w))
  BY <1>2, PutTame DEF Tame
<1> QED
  BY <1>1, <1>2, <1>3, TameAgain

LEMMA CallApplyTame ==
  ASSUME NEW m, NEW c, NEW args, Ready(m)
  PROVE  LET o == CallApply(m, c, args)
         IN  Tame(m, o.m) /\ o.act \in {"error", "recall"}
<1>1. PICK lst : lst = ListOn(m.heap, SubSeq(args, 2, Len(args) - 1)
                                      \o ItemsOf(m.heap, args[Len(args)]), Nil)
  OBVIOUS
<1>2. HeapShaped(lst.heap) /\ lst.heap.conts = m.heap.conts
  BY <1>1, ListsAreShaped DEF Ready, Shaped
<1>3. PICK h, v : h = lst.heap /\ v = lst.v
  OBVIOUS
<1>4. PICK n : n = Put(Put([m EXCEPT !.heap = h], c.k, args[1]), c.k + 1, v)
  OBVIOUS
<1>5. Tame(m, n)
  BY <1>2, <1>3, <1>4, TwoPutsTame
<1>6. \/ CallApply(m, c, args) = Outcome(m, "error")
      \/ CallApply(m, c, args) = [m |-> n, act |-> "recall",
                                  c |-> [c EXCEPT !.len = 1, !.fromapply = TRUE]]
  BY <1>1, <1>3, <1>4 DEF CallApply
<1>7. Outcome(m, "error").m = m /\ Outcome(m, "error").act = "error"
  BY DEF Outcome
<1> QED
  BY <1>5, <1>6, <1>7, TameItself

LEMMA CallWithPortTame ==
  ASSUME NEW m, NEW c, NEW kind, NEW args, Ready(m)
  PROVE  LET o == CallWithPort(m, c, kind, args)
         IN  Tame(m, o.m) /\ o.act \in {"error", "recall"}
<1>1. PICK w : w = Append(m.heap.ports, [open |-> TRUE, text |-> <<>>, closes |-> 0])
  OBVIOUS
<1>2. PICK h : h = [m.heap EXCEPT !.ports = w]
  OBVIOUS
<1>3. HeapShaped(h) /\ h.conts = m.heap.conts
  BY <1>2, HeapParts DEF Ready, Shaped
<1>4. PICK n : n = Put(Put([m EXCEPT !.heap = h], c.k, args[Len(args)]), c.k + 1,
                       PortRef(Len(m.heap.ports) + 1))
  OBVIOUS
<1>5. Tame(m, n)
  BY <1>3, <1>4, TwoPutsTame
<1>6. \/ CallWithPort(m, c, kind, args) = Outcome(m, "error")
      \/ CallWithPort(m, c, kind, args) =
           [m |-> n, act |-> "recall",
            c |-> [c EXCEPT !.len = 1, !.fromapply = FALSE, !.unwind = kind]]
  BY <1>1, <1>2, <1>4 DEF CallWithPort
<1>7. Outcome(m, "error").m = m /\ Outcome(m, "error").act = "error"
  BY DEF Outcome
<1> QED
  BY <1>5, <1>6, <1>7, TameItself

LEMMA CallValuesTame ==
  ASSUME NEW m, NEW c, Ready(m)
  PROVE  Tame(m, CallValues(m, c)) /\ Tame(m, ValuesToList(m, c))
<1>1. \A s, t : /\ HeapShaped(ListOn(m.heap, s, t).heap)
                /\ ListOn(m.heap, s, t).heap.conts = m.heap.conts
  BY ListsAreShaped DEF Ready, Shaped
<1>2. HeapShaped(m.heap)
  BY DEF Ready, Shaped
<1>3. Tame(m, CallValues(m, c))
  <2>1. PICK lst : lst = ListOn(m.heap, RawArgs(m, c), Nil)
    OBVIOUS
  <2>2. PICK h, v : h = lst.heap /\ v = ValuesRef(lst.v)
    OBVIOUS
  <2>3. PICK n : n = Put([m EXCEPT !.heap = h], c.k, v)
    OBVIOUS
  <2>4. Tame(m, n)
    BY <1>1, <2>1, <2>2, <2>3, HeapPutTame
  <2>5. PICK vals : vals = [i \in 1 .. c.len |-> Void]
    OBVIOUS
  <2>6. Tame(m, PutAll(n, c.k, vals))
    BY <2>4, PutAllTame, TameAgain, SMTT(60) DEF Tame
  <2>7. PICK q : q = Put(m, c.k, ValuesRef(At(m, c.k + 1)))
    OBVIOUS
  <2>8. Tame(m, Put(q, c.k + 1, Void))
    <3>1. Tame(m, q)
      BY <2>7, PutTame
    <3>2. Tame(q, Put(q, c.k + 1, Void))
      BY <3>1, PutTame DEF Tame
    <3> QED
      BY <3>1, <3>2, TameAgain
  <2>9. CallValues(m, c) \in {Put(q, c.k + 1, Void), PutAll(n, c.k, vals)}
    BY <2>1, <2>2, <2>3, <2>5, <2>7 DEF CallValues
  <2> QED
    BY <2>6, <2>8, <2>9
<1>4. Tame(m, ValuesToList(m, c))
  <2>1. \A h, l : HeapShaped(h) /\ h.conts = m.heap.conts
                    => Tame(m, Put(Put([m EXCEPT !.heap = h], c.k + 1, Void), c.k, l))
    BY TwoPutsTame
  <2>2. PICK one : one = ListOn(m.heap, <<At(m, c.k + 1)>>, Nil)
    OBVIOUS
  <2>3. HeapShaped(one.heap) /\ one.heap.conts = m.heap.conts
    BY <1>1, <2>2
  <2>4. \E h \in {m.heap, one.heap}, l \in {At(m, c.k + 1).l, Nil, one.v} :
          ValuesToList(m, c) = Put(Put([m EXCEPT !.heap = h], c.k + 1, Void), c.k, l)
    BY <2>2 DEF ValuesToList
  <2> QED
    BY <1>2, <2>1, <2>3, <2>4
<1> QED
  BY <1>3, <1>4

(* The arguments are placed before the frame is looked at: it is the same. *)
LEMMA PlaceArgsTop ==
  ASSUME NEW m, NEW k, NEW args, NEW argnum, NEW rest, Ready(m)
  PROVE  Top(PlaceArgs(m, k, args, argnum, rest)) = Top(m)
<1>1. \A q, vals : Shaped(q) => Top(PutAll(q, k, vals)) = Top(q)
  <2> TAKE q, vals
  <2> HAVE Shaped(q)
  <2>1. PICK s : s = Top(q).seg
    OBVIOUS
  <2>2. \A w : Top(Written(q, s, w)) = Top(q)
    BY SlotsRewritten DEF Top
  <2>3. \E w : PutAll(q, k, vals) = Written(q, s, w)
    BY <2>1 DEF PutAll, Written
  <2> QED
    BY <2>2, <2>3
<1>2. PICK h : h = ListOn(m.heap, SubSeq(args, argnum, Len(args)), Nil).heap
  OBVIOUS
<1>3. HeapShaped(h) /\ h.conts = m.heap.conts
  BY <1>2, ListsAreShaped DEF Ready, Shaped
<1>4. PICK n : n = [m EXCEPT !.heap = h]
  OBVIOUS
<1>5. Shaped(n)
  BY <1>3, <1>4, HeapTame DEF Tame, Ready
<1>6. n.frames = m.frames /\ n.cur = m.cur
  BY <1>4 DEF Ready, Shaped
<1>7. \E vals : PlaceArgs(m, k, args, argnum, rest) \in {PutAll(n, k, vals), PutAll(m, k, vals)}
  BY <1>2, <1>4 DEF PlaceArgs
<1>8. Top(n) = Top(m)
  BY <1>6 DEF Top
<1> QED
  BY <1>1, <1>5, <1>7, <1>8 DEF Ready

(* A closure is called: in a new frame, or, a tail call, in this one.      *)
LEMMA CtorClosureFrameOnward ==
  ASSUME NEW m, NEW c, NEW lam, NEW args, NEW K, NEW C, Ready(m), Holds(m, K), Stands(m, C),
         c.k \in Nat, Top(m).base + c.k < Top(m).top
  PROVE  LET o == CtorClosureFrame(m, c, lam, args)
         IN  Onward(m, o.m, K) /\ o.act \in {"error", "enter"}
<1>1. PICK m1 : m1 = PlaceArgs(m, c.k, args, lam.argnum, lam.argrest)
  OBVIOUS
<1>2. Tame(m, m1) /\ Ready(m1)
  BY <1>1, PlaceArgsTame DEF Tame
<1>3. Keeps(m, m1, K) /\ Holds(m1, K) /\ Stands(m1, C)
  BY <1>2, TameKeeps
<1>4. Top(m1) = Top(m)
  BY <1>1, PlaceArgsTop
<1>5. PICK t : t = TailFrame(m1, c.k, lam.argnum, lam.top)
  OBVIOUS
<1>6. PICK n : n = NewFrame(m1, c.k, lam.argnum, lam.top)
  OBVIOUS
<1>7. Tame(m, t) /\ Ready(t)
  <2>1. Tame(m1, t)
    BY <1>2, <1>5, TailFrameTame
  <2>2. Tame(m, t)
    BY <1>2, <2>1, TameAgain
  <2> QED
    BY <2>2 DEF Tame
<1>8. Keeps(m, t, K) /\ Holds(t, K) /\ Stands(t, C)
  BY <1>7, TameKeeps
<1>9. /\ Ready(n) /\ Keeps(m1, n, K) /\ Holds(n, K) /\ Stands(n, C \cup {n.cur})
  BY <1>2, <1>3, <1>4, <1>6, NewFrameStands
<1>10. Keeps(m, n, K)
  BY <1>3, <1>9, KeepsAgain
<1>11. ASSUME NEW q, NEW D, Ready(q), Keeps(m, q, K), Holds(q, K), Stands(q, D)
       PROVE  LET e == EnterClosure(q, lam, c.unwind)
              IN  Onward(m, e.m, K) /\ e.act \in {"error", "enter"}
  <2>1. PICK e : e = EnterClosure(q, lam, c.unwind)
    OBVIOUS
  <2>2. Tame(q, e.m) /\ e.act \in {"error", "enter"}
    BY <1>11, <2>1, EnterClosureTame
  <2>3. Keeps(q, e.m, K) /\ Holds(e.m, K) /\ Stands(e.m, D)
    BY <1>11, <2>2, TameKeeps
  <2>4. Keeps(m, e.m, K)
    BY <1>11, <2>3, KeepsAgain
  <2> QED
    BY <2>1, <2>2, <2>3, <2>4 DEF Onward, Tame
<1>12. CtorClosureFrame(m, c, lam, args) \in
         {Outcome(m, "error"), EnterClosure(t, lam, c.unwind), EnterClosure(n, lam, c.unwind)}
  BY <1>1, <1>5, <1>6 DEF CtorClosureFrame
<1>13. Onward(m, m, K)
  BY TameItself, TameOnward
<1>14. Outcome(m, "error").m = m /\ Outcome(m, "error").act = "error"
  BY DEF Outcome
<1>15. /\ Onward(m, EnterClosure(t, lam, c.unwind).m, K)
       /\ EnterClosure(t, lam, c.unwind).act \in {"error", "enter"}
  BY <1>7, <1>8, <1>11
<1>16. /\ Onward(m, EnterClosure(n, lam, c.unwind).m, K)
       /\ EnterClosure(n, lam, c.unwind).act \in {"error", "enter"}
  BY <1>9, <1>10, <1>11
<1> QED
  BY <1>12, <1>13, <1>14, <1>15, <1>16

(* A round of callproc, whatever is called.                                *)
RoundOk(m, o, K) ==
  /\ Onward(m, o.m, K)
  /\ o.act \in {"error", "enter", "done", "recall", "tailret", "cctailret"}

LEMMA CallRoundOnward ==
  ASSUME NEW m, NEW c, NEW K, NEW C, Ready(m), Holds(m, K), Stands(m, C),
         c.k \in Nat, Top(m).base + c.k < Top(m).top,
         At(m, c.k).t = "cont" => At(m, c.k).id \in DOMAIN m.heap.conts,
         c.unwind = "str" /\ At(m, c.k).t = "prim" => StartIsSafe(m)
  PROVE  RoundOk(m, CallRound(m, c), K)
<1>1. PICK proc : proc = At(m, c.k)
  OBVIOUS
<1>2. PICK act : act = IF c.istail THEN "tailret" ELSE "done"
  OBVIOUS
<1>3. PICK o : o = CallRound(m, c)
  OBVIOUS
<1> SUFFICES RoundOk(m, o, K)
  BY <1>3
<1>4. \A r, a : Outcome(r, a).m = r /\ Outcome(r, a).act = a
  BY DEF Outcome
<1>5. \A n : Tame(m, n) => Onward(m, n, K)
  BY TameOnward
<1>6. Onward(m, m, K)
  BY <1>5, TameItself
<1>7. CASE proc.t = "clo"
  <2>1. o = CtorClosureFrame(m, c, LambdaOf(m.heap, proc), Args(m, c))
    BY <1>1, <1>3, <1>7 DEF CallRound
  <2> QED
    BY <2>1, CtorClosureFrameOnward DEF RoundOk
<1>8. CASE proc.t = "cont"
  <2>1. o = Throw(m, c, m.heap.conts[proc.id])
    BY <1>1, <1>3, <1>8 DEF CallRound
  <2>2. m.heap.conts[proc.id].frm \in K
    BY <1>1, <1>8 DEF Holds
  <2> QED
    BY <2>1, <2>2, ThrowOnward DEF RoundOk
<1>9. CASE proc.t = "prim"
  <2>1. CASE proc.p = "call/cc"
    <3>1. o = CallCC(m, c, RawArgs(m, c))
      BY <1>1, <1>3, <1>9, <2>1 DEF CallRound, PlainNatives
    <3> QED
      BY <3>1, CallCCOnward DEF RoundOk
  <2>2. CASE proc.p = "apply"
    <3>1. o = CallApply(m, c, RawArgs(m, c))
      BY <1>1, <1>3, <1>9, <2>2 DEF CallRound, PlainNatives
    <3> QED
      BY <1>5, <3>1, CallApplyTame DEF RoundOk
  <2>3. CASE proc.p \in {"call-with-output-string", "call-with-output-file"}
    <3>1. \E kind : o = CallWithPort(m, c, kind, RawArgs(m, c))
      BY <1>1, <1>3, <1>9, <2>3 DEF CallRound, PlainNatives
    <3> QED
      BY <1>5, <3>1, CallWithPortTame DEF RoundOk
  <2>4. CASE proc.p \in {"values", "%values->list"}
    <3>1. o \in {Outcome(CallValues(m, c), act), Outcome(m, "error"),
                 Outcome(ValuesToList(m, c), act)}
      BY <1>1, <1>2, <1>3, <1>9, <2>4 DEF CallRound, PlainNatives
    <3>2. Tame(m, CallValues(m, c)) /\ Tame(m, ValuesToList(m, c))
      BY CallValuesTame
    <3>3. act \in {"tailret", "done"}
      BY <1>2
    <3> QED
      BY <1>4, <1>5, <1>6, <3>1, <3>2, <3>3 DEF RoundOk
  <2>5. CASE proc.p \in PlainNatives
    <3>1. o = CallNative(m, c, act, proc.p, Args(m, c))
      BY <1>1, <1>2, <1>3, <1>9, <2>5 DEF CallRound, PlainNatives
    <3>2. c.unwind = "str" => StartIsSafe(m)
      BY <1>1, <1>9
    <3>3. Tame(m, o.m) /\ o.act \in {"error", act}
      BY <2>5, <3>1, <3>2, CallNativeTame
    <3>4. act \in {"tailret", "done"}
      BY <1>2
    <3> QED
      BY <1>5, <3>3, <3>4 DEF RoundOk
  <2>6. CASE proc.p \notin {"call/cc", "apply", "call-with-output-string",
                            "call-with-output-file", "values", "%values->list"}
             /\ proc.p \notin PlainNatives
    <3>1. o = Outcome(m, "error")
      BY <1>1, <1>3, <1>9, <2>6 DEF CallRound
    <3> QED
      BY <1>4, <1>6, <3>1 DEF RoundOk
  <2> QED
    BY <2>1, <2>2, <2>3, <2>4, <2>5, <2>6
<1>10. CASE proc.t \notin {"clo", "cont", "prim"}
  <2>1. o = Outcome(m, "error")
    BY <1>1, <1>3, <1>10 DEF CallRound
  <2> QED
    BY <1>4, <1>6, <2>1 DEF RoundOk
<1> QED
  BY <1>7, <1>8, <1>9, <1>10

-----------------------------------------------------------------------------
(* Returning.                                                              *)

(* E holds the caller of the running frame and its callers; the caller may *)
(* be written.                                                             *)
Below(m, E) ==
  LET i == m.frames[m.cur].prev
  IN  /\ i \in E /\ E \subseteq DOMAIN m.frames /\ m.cur \notin E
      /\ \A g \in E : Linked(m, g) /\ m.frames[g].prev \in E \cup {0} /\ g <= i
      /\ m.segs[m.frames[i].seg].frozen = 0

LEMMA BelowTame ==
  ASSUME NEW m, NEW n, NEW E, Ready(m), Below(m, E), Tame(m, n)
  PROVE  Below(n, E)
<1>1. PICK i : i = m.frames[m.cur].prev
  OBVIOUS
<1>2. Shaped(m) /\ Shaped(n)
  BY DEF Ready, Tame
<1>3. DOMAIN n.frames = DOMAIN m.frames /\ n.frames[n.cur].prev = i /\ n.cur = m.cur
  BY <1>1, <1>2, ShapedFacts DEF Tame
<1>4. \A g \in E : n.frames[g] = m.frames[g] /\ m.frames[g].seg \in DOMAIN m.segs
  BY <1>2, ShapedFacts DEF Below, Tame
<1>5. \A g \in E : Linked(n, g)
  <2> TAKE g \in E
  <2>1. /\ Linked(m, g) /\ m.frames[g].prev \in E \cup {0}
        /\ n.frames[g] = m.frames[g]
    BY <1>4 DEF Below
  <2>2. m.frames[g].prev # 0 => n.frames[m.frames[g].prev] = m.frames[m.frames[g].prev]
    BY <1>4, <2>1
  <2> QED
    BY <2>1, <2>2 DEF Linked
<1>6. i \in E /\ n.segs[n.frames[i].seg].frozen = 0
  BY <1>1, <1>4 DEF Below, Tame
<1> QED
  BY <1>1, <1>3, <1>4, <1>5, <1>6 DEF Below

(* The running frame changes its links or what it owes.                    *)
Replaced(m, i, f) == [m EXCEPT !.frames[i] = f]

LEMMA FrameReplaced ==
  ASSUME NEW m, NEW f, NEW i \in DOMAIN m.frames, Shaped(m), FrameShaped(m.segs, f)
  PROVE  LET n == Replaced(m, i, f)
         IN  /\ Shaped(n) /\ n.segs = m.segs /\ n.cur = m.cur /\ n.heap = m.heap
             /\ DOMAIN n.frames = DOMAIN m.frames /\ n.frames[i] = f
             /\ \A g \in DOMAIN m.frames : g # i => n.frames[g] = m.frames[g]
<1>1. PICK fs : fs = [m.frames EXCEPT ![i] = f]
  OBVIOUS
<1>2. /\ IsSequence(fs) /\ DOMAIN fs = DOMAIN m.frames /\ fs[i] = f
      /\ \A g \in DOMAIN m.frames : g # i => fs[g] = m.frames[g]
  <2>1. IsSequence(m.frames) /\ DOMAIN m.frames = 1..Len(m.frames)
    BY SequenceFacts DEF Shaped
  <2> QED
    BY <1>1, <2>1, Exchanged
<1>3. PICK n : n = [frames |-> fs, segs |-> m.segs, cur |-> m.cur, heap |-> m.heap]
  OBVIOUS
<1>4. n.frames = fs /\ n.segs = m.segs /\ n.cur = m.cur /\ n.heap = m.heap
  BY <1>3
<1>5. Replaced(m, i, f) = n
  <2>1. m = [frames |-> m.frames, segs |-> m.segs, cur |-> m.cur, heap |-> m.heap]
    BY DEF Shaped
  <2>2. [m EXCEPT !.frames[i] = f] = [m EXCEPT !.frames = fs]
    BY <1>1
  <2> QED
    BY <1>3, <2>1, <2>2 DEF Replaced
<1>6. Shaped(n)
  <2>1. \A g \in DOMAIN fs : FrameShaped(m.segs, fs[g])
    BY <1>2 DEF Shaped
  <2> QED
    BY <1>2, <1>3, <1>4, <2>1 DEF Shaped
<1> QED
  BY <1>2, <1>4, <1>5, <1>6

LEMMA ReplacedHolds ==
  ASSUME NEW m, NEW n, NEW K, Ready(m), Holds(m, K), Shaped(n), n.segs = m.segs,
         n.heap = m.heap, DOMAIN n.frames = DOMAIN m.frames,
         \A g \in DOMAIN m.frames : g # m.cur => n.frames[g] = m.frames[g]
  PROVE  Keeps(m, n, K) /\ Holds(n, K)
<1>1. Shaped(m) /\ m.cur \in DOMAIN m.frames
  BY DEF Ready
<1>2. m.cur \notin K
  BY <1>1, ShapedFacts DEF Ready, Holds
<1>3. \A g \in K : /\ n.frames[g] = m.frames[g] /\ Linked(m, g)
                   /\ m.frames[g].prev \in K \cup {0}
  BY <1>2 DEF Holds
<1>4. \A g \in K : Linked(n, g)
  <2> TAKE g \in K
  <2>1. m.frames[g].prev # 0 => n.frames[m.frames[g].prev] = m.frames[m.frames[g].prev]
    BY <1>3
  <2> QED
    BY <1>3, <2>1 DEF Linked
<1> QED
  BY <1>3, <1>4 DEF Keeps, Holds

(* The frame is left for its caller.                                       *)
Left(m) == [m EXCEPT !.frames[m.cur].unwind = "none", !.cur = Top(m).prev]

LEMMA LeftStands ==
  ASSUME NEW m, NEW K, Ready(m), Holds(m, K)
  PROVE  /\ Shaped(Left(m)) /\ Keeps(m, Left(m), K) /\ Holds(Left(m), K)
         /\ Left(m).cur = m.frames[m.cur].prev
         /\ \A E : Below(m, E) => Ready(Left(m)) /\ Stands(Left(m), E)
<1>1. PICK e, i : e = m.frames[m.cur] /\ i = m.cur
  OBVIOUS
<1>2. PICK f : f = [e EXCEPT !.unwind = "none"]
  OBVIOUS
<1>3. PICK q : q = Replaced(m, i, f)
  OBVIOUS
<1>4. PICK n : n = Switched(q, e.prev)
  OBVIOUS
<1>5. Shaped(m) /\ i \in DOMAIN m.frames /\ FrameShaped(m.segs, e)
  BY <1>1 DEF Ready, Shaped
<1>6. FrameShaped(m.segs, f) /\ f.prev = e.prev
  BY <1>2, <1>5 DEF FrameShaped
<1>7. /\ Shaped(q) /\ q.segs = m.segs /\ q.cur = m.cur /\ q.heap = m.heap
      /\ DOMAIN q.frames = DOMAIN m.frames
      /\ \A g \in DOMAIN m.frames : g # i => q.frames[g] = m.frames[g]
  BY <1>3, <1>5, <1>6, FrameReplaced
<1>8. /\ Shaped(n) /\ n.frames = q.frames /\ n.segs = q.segs /\ n.cur = e.prev
      /\ n.heap = q.heap
  BY <1>4, <1>7, CurSet
<1>9. Left(m) = n
  BY <1>1, <1>2, <1>3, <1>4 DEF Left, Top, Switched, Replaced
<1>10. Keeps(m, n, K) /\ Holds(n, K)
  BY <1>1, <1>7, <1>8, ReplacedHolds
<1>11. ASSUME NEW E, Below(m, E)
       PROVE  Ready(n) /\ Stands(n, E)
  <2>1. \A g \in E : n.frames[g] = m.frames[g]
    BY <1>1, <1>7, <1>8, <1>11 DEF Below
  <2>2. \A g \in E : Linked(n, g)
    <3> TAKE g \in E
    <3>1. Linked(m, g) /\ m.frames[g].prev \in E \cup {0}
      BY <1>11 DEF Below
    <3>2. m.frames[g].prev # 0 => n.frames[m.frames[g].prev] = m.frames[m.frames[g].prev]
      BY <2>1, <3>1
    <3> QED
      BY <2>1, <3>1, <3>2 DEF Linked
  <2>3. Stands(n, E)
    BY <1>1, <1>7, <1>8, <1>11, <2>1, <2>2 DEF Below, Stands
  <2>4. Ready(n)
    BY <1>1, <1>7, <1>8, <1>11, <2>1 DEF Below, Ready
  <2> QED
    BY <2>3, <2>4
<1> QED
  BY <1>1, <1>8, <1>9, <1>10, <1>11

(* What a frame owes is done before it is left.                            *)
ReturnOk(m, o, K) ==
  /\ o.act \in {"error", "done"} /\ Keeps(m, o.m, K)
  /\ o.act = "done" =>
       IF o.m.cur = 0 THEN Shaped(o.m) /\ \E L : K \subseteq L /\ Holds(o.m, L)
       ELSE Ready(o.m) /\ \E L, D : K \subseteq L /\ Holds(o.m, L) /\ Stands(o.m, D)

LEMMA SettleOk ==
  ASSUME NEW m, NEW v, NEW K, Ready(m), Holds(m, K),
         Top(m).unwind = "str" => StartIsSafe(m),
         m.frames[m.cur].prev = 0 \/ \E E : Below(m, E)
  PROVE  ReturnOk(m, Settle(m, v), K)
<1>1. PICK o : o = IF Top(m).unwind = "none" THEN Outcome(m, "done")
                   ELSE ClosePort(m, m.cur, 0, Top(m).unwind)
  OBVIOUS
<1>2. Tame(m, o.m) /\ o.act \in {"error", "done"}
  <2>1. CASE Top(m).unwind = "none"
    <3>1. o.m = m /\ o.act = "done"
      BY <1>1, <2>1 DEF Outcome
    <3> QED
      BY <3>1, TameItself
  <2>2. CASE Top(m).unwind # "none"
    <3>1. o = ClosePort(m, m.cur, 0, Top(m).unwind)
      BY <1>1, <2>2
    <3> QED
      BY <3>1, CloseTame
  <2> QED
    BY <2>1, <2>2
<1>3. PICK s : s = Settle(m, v)
  OBVIOUS
<1>4. s = Leave(o, v, Top(m))
  BY <1>1, <1>3 DEF Settle
<1>5. Ready(o.m) /\ Keeps(m, o.m, K) /\ Holds(o.m, K)
  BY <1>2, TameHolds DEF Tame
<1>6. PICK n : n = Left(o.m)
  OBVIOUS
<1>7. /\ Shaped(n) /\ Keeps(o.m, n, K) /\ Holds(n, K) /\ n.cur = o.m.frames[o.m.cur].prev
      /\ \A E : Below(o.m, E) => Ready(n) /\ Stands(n, E)
  BY <1>5, <1>6, LeftStands
<1>8. Keeps(m, n, K)
  BY <1>5, <1>7, KeepsAgain
<1>9. n.cur = m.frames[m.cur].prev
  BY <1>2, <1>7 DEF Tame
<1>10. n.cur = 0 \/ \E E : Ready(n) /\ Stands(n, E)
  <2>1. CASE m.frames[m.cur].prev = 0
    BY <1>9, <2>1
  <2>2. ASSUME NEW E, Below(m, E) PROVE \E D : Ready(n) /\ Stands(n, D)
    BY <1>2, <1>7, <2>2, BelowTame
  <2> QED
    BY <2>1, <2>2
<1>11. CASE o.act = "error"
  <2>1. s = o
    BY <1>4, <1>11 DEF Leave
  <2> QED
    BY <1>3, <1>5, <1>11, <2>1 DEF ReturnOk
<1>12. CASE o.act # "error"
  <2>1. s.m = n /\ s.act = "done"
    BY <1>4, <1>6, <1>12 DEF Leave, Left
  <2> QED
    BY <1>3, <1>7, <1>8, <1>10, <2>1 DEF ReturnOk
<1> QED
  BY <1>11, <1>12

(* The frame waits in the window of its caller, which may be written.      *)
Waits(m) == m.frames[m.cur].start.seg = m.frames[m.frames[m.cur].prev].seg

LEMMA DeliverOk ==
  ASSUME NEW m, NEW v, NEW K, NEW E, Ready(m), Holds(m, K), Below(m, E), Waits(m)
  PROVE  LET n == Deliver(m, v)
         IN  Tame(m, n) /\ StartIsSafe(n) /\ Below(n, E) /\ Keeps(m, n, K) /\ Holds(n, K)
<1>1. PICK own, s : own = m.frames[m.cur].prev /\ s = m.frames[m.cur].start.seg
  OBVIOUS
<1>2. own # 0 /\ m.segs[s].frozen = 0
  <2>1. own \in E /\ E \subseteq DOMAIN m.frames /\ m.segs[m.frames[own].seg].frozen = 0
    BY <1>1 DEF Below
  <2>2. own # 0
    BY <2>1, ShapedFacts DEF Ready
  <2>3. s = m.frames[own].seg
    BY <1>1 DEF Waits
  <2> QED
    BY <2>1, <2>2, <2>3
<1>3. PICK w : w = [m.segs[s].slots EXCEPT ![Top(m).start.off] = v]
  OBVIOUS
<1>4. PICK n : n = Deliver(m, v)
  OBVIOUS
<1>5. n = [m EXCEPT !.segs[s].slots = w]
  BY <1>1, <1>2, <1>3, <1>4 DEF Deliver, Top
<1>6. Tame(m, n)
  BY <1>2, <1>5, SlotsTame
<1>7. StartIsSafe(m)
  BY <1>1, <1>2 DEF StartIsSafe
<1> QED
  BY <1>4, <1>6, <1>7, StartStaysSafe, BelowTame, TameHolds

(* A frozen owner is copied, and the running frame waits in the copy.      *)
OwnerFrozen(m, own) ==
  own = m.frames[m.cur].prev /\ own # 0 /\ m.segs[m.frames[own].seg].frozen > 0

LEMMA OwnerCopiedOk ==
  ASSUME NEW m, NEW own, NEW K, NEW C, Ready(m), Holds(m, K), Stands(m, C), OwnerFrozen(m, own)
  PROVE  LET x == OwnerCopied(m, CowFrame(m, own), own)
         IN  /\ Ready(x) /\ Keeps(m, x, K) /\ Holds(x, K) /\ Waits(x)
             /\ \E E : Below(x, E)
<1>1. PICK q, id, i : q = CowFrame(m, own).m /\ id = CowFrame(m, own).id /\ i = m.cur
  OBVIOUS
<1>2. Shaped(m) /\ own \in C /\ own \in DOMAIN m.frames /\ i \in C /\ i \in DOMAIN m.frames
  <2>1. own = m.frames[m.cur].prev /\ own # 0
    BY DEF OwnerFrozen
  <2>2. own \in C /\ i \in C /\ C \subseteq DOMAIN m.frames
    BY <1>1, <2>1 DEF Stands
  <2> QED
    BY <2>2 DEF Ready
<1>3. /\ Grows(m, q) /\ q.cur = m.cur /\ q.heap = m.heap
      /\ id = NextFrame(m) /\ id \in DOMAIN q.frames
      /\ q.frames[id].prev = m.frames[own].prev
      /\ q.frames[id].start = m.frames[own].start
      /\ q.segs[q.frames[id].seg].frozen = 0
  <2>1. m.segs[m.frames[own].seg].frozen > 0
    BY DEF OwnerFrozen
  <2> QED
    BY <1>1, <1>2, <2>1, CowCopies
<1>4. Keeps(m, q, K) /\ Holds(q, K)
  BY <1>2, <1>3, GrowsKeeps
<1>5. PICK e : e = q.frames[i]
  OBVIOUS
<1>6. e = m.frames[i] /\ Shaped(q)
  BY <1>2, <1>3, <1>5 DEF Grows
<1>7. i \in DOMAIN q.frames /\ FrameShaped(q.segs, e) /\ q.segs[e.seg].frozen = 0
  <2>1. i \in DOMAIN q.frames
    BY <1>2, <1>3, GrowsFacts
  <2>2. m.frames[i].seg \in DOMAIN m.segs /\ m.segs[m.frames[i].seg].frozen = 0
    BY <1>1, <1>2, ShapedFacts DEF Ready
  <2> QED
    BY <1>3, <1>5, <1>6, <2>1, <2>2 DEF Grows, Shaped
<1>8. Ready(q)
  BY <1>1, <1>3, <1>5, <1>6, <1>7 DEF Ready
<1>9. PICK start : start = [seg |-> q.frames[id].seg,
                            off |-> q.frames[id].base + (Top(m).start.off - m.frames[own].base)]
  OBVIOUS
<1>10. PICK f : f = [e EXCEPT !.prev = id, !.start = start]
  OBVIOUS
<1>11. /\ FrameShaped(q.segs, f) /\ f.prev = id /\ f.seg = e.seg
       /\ f.start.seg = q.frames[id].seg
  <2>1. start.seg = q.frames[id].seg /\ start.seg \in DOMAIN q.segs
    BY <1>3, <1>6, <1>9, ShapedFacts
  <2>2. PICK g : g = [e EXCEPT !.prev = id]
    OBVIOUS
  <2>3. FrameShaped(q.segs, g) /\ g.prev = id /\ g.seg = e.seg
    BY <1>7, <2>2 DEF FrameShaped
  <2>4. f = [g EXCEPT !.start = start]
    BY <1>10, <2>2
  <2>5. FrameShaped(q.segs, f) /\ f.prev = id /\ f.seg = e.seg /\ f.start = start
    BY <2>1, <2>3, <2>4 DEF FrameShaped
  <2> QED
    BY <2>1, <2>5
<1>12. PICK x : x = Replaced(q, i, f)
  OBVIOUS
<1>13. /\ Shaped(x) /\ x.segs = q.segs /\ x.cur = q.cur /\ x.heap = q.heap
       /\ DOMAIN x.frames = DOMAIN q.frames /\ x.frames[i] = f
       /\ \A g \in DOMAIN q.frames : g # i => x.frames[g] = q.frames[g]
  <2>1. Shaped(q) /\ i \in DOMAIN q.frames /\ FrameShaped(q.segs, f)
    BY <1>6, <1>7, <1>11
  <2> QED
    BY <1>12, <2>1, FrameReplaced, SMTT(60)
<1>14. Keeps(q, x, K) /\ Holds(x, K)
  BY <1>1, <1>3, <1>4, <1>8, <1>13, ReplacedHolds
<1>15. Keeps(m, x, K)
  BY <1>4, <1>14, KeepsAgain
<1>16. i \in 1..Len(m.frames) /\ id = Len(m.frames) + 1 /\ Len(m.frames) \in Nat
       /\ DOMAIN m.frames = 1..Len(m.frames)
  BY <1>2, <1>3, ShapedFacts DEF NextFrame
<1>17. id # i /\ x.frames[id] = q.frames[id]
  BY <1>3, <1>13, <1>16, SMTT(60)
<1>18. x.cur = i /\ x.frames[x.cur] = f
  BY <1>1, <1>3, <1>13
<1>180. Ready(x)
  <2>1. Shaped(x) /\ i \in DOMAIN x.frames
    BY <1>7, <1>13
  <2>2. x.segs[f.seg].frozen = 0
    BY <1>7, <1>11, <1>13
  <2> QED
    BY <1>18, <2>1, <2>2 DEF Ready
<1>19. Waits(x)
  <2>1. f.start.seg = x.frames[f.prev].seg
    BY <1>11, <1>17
  <2> QED
    BY <1>18, <2>1 DEF Waits
<1>20. PICK D : D = C \ {i}
  OBVIOUS
<1>21. \A g \in D : /\ g \in DOMAIN m.frames /\ g # i /\ g < id
                    /\ Linked(m, g) /\ m.frames[g].prev \in D \cup {0}
                    /\ x.frames[g] = m.frames[g]
  <2> TAKE g \in D
  <2>1. g \in C /\ g # i /\ g \in DOMAIN m.frames
    BY <1>20 DEF Stands
  <2>2. Linked(m, g) /\ m.frames[g].prev \in C \cup {0} /\ g <= i
    BY <1>1, <2>1 DEF Stands
  <2>3. m.frames[g].prev < g /\ m.frames[g].prev \in Nat
    BY <2>2 DEF Linked
  <2>4. g < id /\ m.frames[g].prev # i
    BY <1>16, <2>1, <2>2, <2>3, SMTT(60)
  <2>5. x.frames[g] = m.frames[g]
    BY <1>3, <1>13, <2>1, GrowsFacts, <1>2 DEF Grows
  <2> QED
    BY <1>20, <2>1, <2>2, <2>4, <2>5
<1>22. Linked(m, own) /\ own # i /\ own \in D /\ own < id /\ m.frames[own].prev \in D \cup {0}
  <2>1. Linked(m, i)
    BY <1>1 DEF Stands
  <2>2. own # i
    <3>1. own = m.frames[i].prev /\ own # 0
      BY <1>1 DEF OwnerFrozen
    <3>2. own < i
      BY <2>1, <3>1 DEF Linked
    <3> QED
      BY <1>16, <3>2
  <2>3. own \in D
    BY <1>2, <1>20, <2>2
  <2> QED
    BY <1>21, <2>2, <2>3
<1>23. \A g \in D : Linked(x, g)
  <2> TAKE g \in D
  <2>1. m.frames[g].prev # 0 => x.frames[m.frames[g].prev] = m.frames[m.frames[g].prev]
    BY <1>21
  <2> QED
    BY <1>21, <2>1 DEF Linked
<1>24. Linked(x, id) /\ x.frames[id].prev \in D \cup {0}
  <2>1. x.frames[id].prev = m.frames[own].prev /\ x.frames[id].start = m.frames[own].start
    BY <1>3, <1>17
  <2>2. m.frames[own].prev # 0 => x.frames[m.frames[own].prev] = m.frames[m.frames[own].prev]
    BY <1>21, <1>22
  <2>3. m.frames[own].prev \in Nat /\ m.frames[own].prev < id
    <3>1. m.frames[own].prev \in Nat /\ m.frames[own].prev < own
      BY <1>22 DEF Linked
    <3>2. own \in Nat /\ own < id
      BY <1>2, <1>16, <1>22, SMTT(60)
    <3> QED
      BY <1>16, <3>1, <3>2, SMTT(60)
  <2> QED
    BY <1>22, <2>1, <2>2, <2>3 DEF Linked
<1>25. Below(x, D \cup {id})
  <2>1. x.frames[x.cur].prev = id /\ x.cur = i
    BY <1>1, <1>3, <1>11, <1>13
  <2>2. D \cup {id} \subseteq DOMAIN x.frames
    BY <1>2, <1>3, <1>13, <1>21, GrowsFacts
  <2>3. i \notin D \cup {id}
    BY <1>17, <1>20
  <2>4. x.segs[x.frames[id].seg].frozen = 0
    BY <1>3, <1>13, <1>17
  <2>5. \A g \in D \cup {id} : /\ Linked(x, g) /\ x.frames[g].prev \in (D \cup {id}) \cup {0}
                               /\ g <= id
    <3> TAKE g \in D \cup {id}
    <3>1. CASE g \in D
      <4>1. g \in DOMAIN m.frames /\ g < id
        BY <1>21, <3>1
      <4> QED
        BY <1>16, <1>21, <1>23, <3>1, <4>1, SMTT(60)
    <3>2. CASE g = id
      BY <1>16, <1>24, <3>2, SMTT(60)
    <3> QED
      BY <3>1, <3>2
  <2> QED
    BY <2>1, <2>2, <2>3, <2>4, <2>5 DEF Below
<1>26. OwnerCopied(m, CowFrame(m, own), own) = x
  BY <1>1, <1>5, <1>9, <1>10, <1>12 DEF OwnerCopied, Replaced
<1> QED
  BY <1>14, <1>15, <1>180, <1>19, <1>25, <1>26

(* A return.                                                               *)
LEMMA ReturnFromOk ==
  ASSUME NEW m, NEW v, NEW K, NEW C, Ready(m), Holds(m, K), Stands(m, C),
         Top(m).unwind = "str" /\ Top(m).prev = 0 => StartIsSafe(m)
  PROVE  ReturnOk(m, ReturnFrom(m, v), K)
<1>1. PICK own : own = m.frames[m.cur].prev
  OBVIOUS
<1>2. PICK x : x = UnshareOwner(m, own)
  OBVIOUS
<1>3. PICK n : n = Deliver(x, v)
  OBVIOUS
<1>4. ReturnFrom(m, v) = Settle(n, v)
  BY <1>1, <1>2, <1>3 DEF ReturnFrom, Top
<1>5. Shaped(m) /\ m.cur \in DOMAIN m.frames /\ Linked(m, m.cur) /\ own \in C \cup {0}
  BY <1>1 DEF Ready, Stands
<1>6. CASE own = 0
  <2>1. x = m /\ n = m
    BY <1>1, <1>2, <1>3, <1>6 DEF UnshareOwner, Deliver, Top
  <2>2. Top(m).unwind = "str" => StartIsSafe(m)
    BY <1>1, <1>6 DEF Top
  <2> QED
    BY <1>1, <1>4, <1>6, <2>1, <2>2, SettleOk
<1>7. CASE own # 0
  <2>1. /\ own \in Nat /\ own < m.cur /\ own \in C
        /\ m.frames[m.cur].start.seg = m.frames[own].seg
        /\ m.frames[own].base <= m.frames[m.cur].start.off
        /\ m.frames[m.cur].start.off < m.frames[own].top
    BY <1>1, <1>5, <1>7 DEF Linked
  <2>2. m.frames[own].seg \in DOMAIN m.segs /\ m.segs[m.frames[own].seg].frozen \in Nat
    BY <1>5, <2>1, ShapedFacts DEF Stands
  <2>3. Ready(x) /\ Keeps(m, x, K) /\ Holds(x, K) /\ Waits(x) /\ \E E : Below(x, E)
    <3>1. CASE m.segs[m.frames[own].seg].frozen > 0
      <4>1. x = OwnerCopied(m, CowFrame(m, own), own)
        BY <1>2, <1>7, <2>1, <3>1 DEF UnshareOwner, Top
      <4> QED
        BY <1>1, <1>7, <3>1, <4>1, OwnerCopiedOk DEF OwnerFrozen
    <3>2. CASE m.segs[m.frames[own].seg].frozen = 0
      <4>1. x = m
        BY <1>2, <3>2 DEF UnshareOwner
      <4>2. PICK E : E = {g \in C : g <= own}
        OBVIOUS
      <4>3. \A g \in C : /\ g \in DOMAIN m.frames /\ Linked(m, g)
                         /\ m.frames[g].prev \in C \cup {0} /\ g <= m.cur
        BY DEF Stands
      <4>4. \A g \in E : m.frames[g].prev \in E \cup {0}
        <5> TAKE g \in E
        <5>1. g \in C /\ g <= own /\ g \in Nat
          <6>1. g \in C /\ g <= own
            BY <4>2
          <6>2. g \in 1..Len(m.frames)
            BY <1>5, <4>3, <6>1, ShapedFacts
          <6> QED
            BY <6>1, <6>2
        <5>2. m.frames[g].prev \in Nat /\ m.frames[g].prev < g /\ m.frames[g].prev \in C \cup {0}
          BY <4>3, <5>1 DEF Linked
        <5> QED
          BY <2>1, <4>2, <5>1, <5>2
      <4>5. m.cur \in Nat
        BY <1>5, ShapedFacts
      <4>6. own \in E /\ m.cur \notin E
        BY <2>1, <4>2, <4>5
      <4>7. E \subseteq DOMAIN m.frames
        BY <4>2, <4>3
      <4>8. \A g \in E : Linked(m, g) /\ m.frames[g].prev \in E \cup {0} /\ g <= own
        BY <4>2, <4>3, <4>4
      <4>9. Below(m, E)
        BY <1>1, <3>2, <4>6, <4>7, <4>8 DEF Below
      <4>10. Waits(m)
        BY <1>1, <2>1 DEF Waits
      <4>11. Keeps(m, m, K)
        BY DEF Keeps
      <4> QED
        BY <4>1, <4>9, <4>10, <4>11
    <3> QED
      BY <2>2, <3>1, <3>2
  <2>4. PICK E : Below(x, E)
    BY <2>3
  <2>5. /\ Tame(x, n) /\ StartIsSafe(n) /\ Below(n, E)
        /\ Keeps(x, n, K) /\ Holds(n, K)
    BY <1>3, <2>3, <2>4, DeliverOk
  <2>6. Keeps(m, n, K) /\ Ready(n)
    BY <2>3, <2>5, KeepsAgain DEF Tame
  <2>7. ReturnOk(n, Settle(n, v), K)
    BY <2>5, <2>6, SettleOk
  <2>8. ReturnOk(m, Settle(n, v), K)
    BY <2>6, <2>7, KeepsAgain DEF ReturnOk
  <2> QED
    BY <1>4, <2>8
<1> QED
  BY <1>6, <1>7

-----------------------------------------------------------------------------
(* The steps of the machine.                                               *)

(* A state the machine can go on from; what the error handler does to the  *)
(* frames does not matter, nothing runs after it.                          *)
Going(m)  == Ready(m) /\ \E K, C : Holds(m, K) /\ Stands(m, C)
Rested(m) == Shaped(m) /\ \E K : Holds(m, K)
Fit(md, m) ==
  /\ md \in {"idle", "run", "call", "ret", "error", "done"}
  /\ md \in {"run", "call", "ret"} => Going(m)
  /\ md = "idle" => Rested(m)
MInv == Fit(mode, M)

(* What a step does.                                                       *)
StepOk == /\ Fit(mode', M')
          /\ \A K : Holds(M, K) => Keeps(M, M', K)

LEMMA SetMGives ==
  ASSUME NEW n, NEW r, Shaped(n), SetMReg(n, r)
  PROVE  M' = n
BY DEF SetMReg, M, Shaped

LEMMA TameStep ==
  ASSUME NEW n, Going(M), Tame(M, n), M' = n, mode' \in {"run", "call", "ret", "error"}
  PROVE  StepOk
<1>1. Ready(M) /\ Ready(n)
  BY DEF Going, Tame
<1>2. \A K : Holds(M, K) => Keeps(M, n, K)
  BY <1>1, TameHolds
<1>3. PICK K, C : Holds(M, K) /\ Stands(M, C)
  BY DEF Going
<1>4. Holds(n, K) /\ Stands(n, C)
  BY <1>1, <1>3, TameKeeps
<1>5. Fit(mode', n)
  BY <1>1, <1>4 DEF Fit, Going
<1> QED
  BY <1>2, <1>5 DEF StepOk

(* The next instruction, after a tame change.                              *)
LEMMA GoesOn ==
  ASSUME NEW n, Going(M), Tame(M, n), NextPc(n), mode' = mode, mode = "run"
  PROVE  StepOk
<1>1. PICK i : i = n.frames[n.cur].pc - 1
  OBVIOUS
<1>2. PICK q : q = [n EXCEPT !.frames[n.cur].pc = i]
  OBVIOUS
<1>3. SetM(q)
  BY <1>1, <1>2 DEF NextPc
<1>4. Tame(M, q)
  <2>1. Ready(n) /\ Ready(M)
    BY DEF Tame, Going
  <2>2. Tame(n, q)
    BY <1>2, <2>1, PcTame
  <2> QED
    BY <2>1, <2>2, TameAgain
<1>5. M' = q
  <2>1. Shaped(q)
    BY <1>4 DEF Tame, Ready
  <2> QED
    BY <1>3, <2>1, SetMGives DEF SetM
<1> QED
  BY <1>4, <1>5, TameStep

(* An error: the frames stay, the handler comes next.                      *)
LEMMA Raises ==
  ASSUME NEW n, Going(M), Tame(M, n), Raise(n)
  PROVE  StepOk
<1>1. M' = n
  <2>1. Shaped(n)
    BY DEF Tame, Ready
  <2> QED
    BY <2>1, SetMGives DEF Raise, SetM
<1>2. mode' = "error"
  BY DEF Raise
<1> QED
  BY <1>1, <1>2, TameStep

LEMMA SameFrames ==
  ASSUME UNCHANGED <<frames, segs, cur, heap>>
  PROVE  M' = M /\ \A K : Keeps(M, M', K)
<1>1. M' = M
  BY DEF M
<1> QED
  BY <1>1 DEF Keeps

(* The instructions.                                                       *)
LEMMA PutStep ==
  ASSUME NEW k, NEW v, Going(M), NextPc(Put(M, k, v)), mode' = mode, mode = "run"
  PROVE  StepOk
<1>1. Tame(M, Put(M, k, v))
  BY PutTame DEF Going
<1> QED
  BY <1>1, GoesOn

LEMMA RunningGoes ==
  ASSUME NEW ops, MInv, Running(ops)
  PROVE  Going(M) /\ mode = "run" /\ Ready(M) /\ HeapShaped(heap) /\ Ins.op \in ops
<1>1. mode = "run" /\ Ins.op \in ops
  BY DEF Running
<1>2. Going(M)
  BY <1>1 DEF MInv, Fit
<1>3. Ready(M)
  BY <1>2 DEF Going
<1>4. HeapShaped(M.heap)
  BY <1>3 DEF Ready, Shaped
<1>5. HeapShaped(heap)
  BY <1>4 DEF M
<1> QED
  BY <1>1, <1>2, <1>3, <1>5

LEMMA MoveStep ==
  ASSUME MInv, ExecMove
  PROVE  StepOk
<1>1. Going(M) /\ mode = "run" /\ Ins.op \in {"ASSIGN", "REFLOCAL", "REFBVAR", "REFBOX", "REFOUT0"}
  BY RunningGoes DEF ExecMove
<1>2. mode' = mode
  BY DEF ExecMove, KeepRest
<1>3. \E k, v : NextPc(Put(M, k, v))
  BY DEF ExecMove
<1> QED
  BY <1>1, <1>2, <1>3, PutStep

LEMMA UndefinedGlobalStep ==
  ASSUME MInv, UndefinedGlobal
  PROVE  StepOk
<1>1. Going(M) /\ Ready(M)
  BY RunningGoes DEF UndefinedGlobal
<1>2. Raise(M)
  BY DEF UndefinedGlobal
<1> QED
  BY <1>1, <1>2, TameItself, Raises

(* A box is written.                                                       *)
LEMMA BoxTame ==
  ASSUME NEW i, NEW v, Ready(M)
  PROVE  Tame(M, [M EXCEPT !.heap.boxes[i] = v])
<1>1. PICK w : w = [M.heap.boxes EXCEPT ![i] = v]
  OBVIOUS
<1>2. PICK h : h = [M.heap EXCEPT !.boxes = w]
  OBVIOUS
<1>3. HeapShaped(h) /\ h.conts = M.heap.conts
  BY <1>2, HeapParts DEF Ready, Shaped
<1>4. Tame(M, [M EXCEPT !.heap = h])
  BY <1>3, HeapTame
<1>5. [M EXCEPT !.heap.boxes[i] = v] = [M EXCEPT !.heap = h]
  BY <1>1, <1>2
<1> QED
  BY <1>4, <1>5

LEMMA StoreStep ==
  ASSUME MInv, ExecStore
  PROVE  StepOk
<1>1. /\ Going(M) /\ Ready(M) /\ mode = "run"
      /\ Ins.op \in {"DEFLOCAL", "SETLOCAL", "SETBOX", "SETBVAR"}
  BY RunningGoes DEF ExecStore
<1>2. \/ Raise(M)
      \/ mode' = mode /\ \E k, v : NextPc(Put(M, k, v))
      \/ mode' = mode /\ \E i, v : NextPc([M EXCEPT !.heap.boxes[i] = v])
  <2>1. PICK v : v = SingleValue(heap, Slot(Ins.b))
    OBVIOUS
  <2>2. CASE v = Bad
    BY <2>1, <2>2 DEF ExecStore
  <2>3. CASE v # Bad
    <3>1. /\ mode' = mode
          /\ \/ NextPc(Put(M, Ins.a + 1, v))
             \/ \E i : NextPc([M EXCEPT !.heap.boxes[i] = v])
      BY <2>1, <2>3 DEF ExecStore, KeepRest
    <3> QED
      BY <3>1
  <2> QED
    BY <2>2, <2>3
<1>3. CASE Raise(M)
  BY <1>1, <1>3, TameItself, Raises
<1>4. ASSUME mode' = mode, NEW k, NEW v, NextPc(Put(M, k, v))
      PROVE  StepOk
  BY <1>1, <1>4, PutStep
<1>5. ASSUME mode' = mode, NEW i, NEW v, NextPc([M EXCEPT !.heap.boxes[i] = v])
      PROVE  StepOk
  BY <1>1, <1>5, BoxTame, GoesOn
<1> QED
  BY <1>2, <1>3, <1>4, <1>5

LEMMA StoreGlobalStep ==
  ASSUME MInv, ExecStoreGlobal
  PROVE  StepOk
<1>1. Going(M) /\ Ready(M) /\ mode = "run"
  BY RunningGoes DEF ExecStoreGlobal
<1>2. \/ Raise(M)
      \/ mode' = mode /\ NextPc(Put(M, Ins.b, Void))
  BY DEF ExecStoreGlobal
<1>3. CASE Raise(M)
  BY <1>1, <1>3, TameItself, Raises
<1>4. CASE mode' = mode /\ NextPc(Put(M, Ins.b, Void))
  BY <1>1, <1>4, PutStep
<1> QED
  BY <1>2, <1>3, <1>4

LEMMA ListStep ==
  ASSUME MInv, ExecList
  PROVE  StepOk
<1>1. /\ Going(M) /\ Ready(M) /\ mode = "run" /\ HeapShaped(heap)
      /\ Ins.op \in {"CONS", "CONSEXT", "LIST", "LISTK", "LIST2VEC", "APPEND", "APPENDEXT"}
  BY RunningGoes DEF ExecList
<1>2. PICK made : ListMade(made) /\ HeapShaped(made.heap) /\ made.heap.conts = heap.conts
  <2> DEFINE a == Slot(Ins.a)
             made ==
               CASE Ins.op = "CONS"    -> ConsOn(heap, a, Slot(Ins.a + 1))
                 [] Ins.op = "CONSEXT" -> ConsOn(heap, Slot(Ins.b), Slot(Ins.c))
                 [] Ins.op = "LIST"    -> ListOn(heap, <<a>>, Nil)
                 [] Ins.op = "LISTK"   -> ListOn(heap, <<Ins.b, a>>, Nil)
                 [] Ins.op = "LIST2VEC" ->
                      IF IsListOn(heap, a)
                      THEN [heap |-> heap, v |-> Vector(ItemsOf(heap, a))]
                      ELSE [heap |-> heap, v |-> Bad]
                 [] Ins.op = "APPEND"    -> AppendOn(heap, a, Slot(Ins.a + 1))
                 [] Ins.op = "APPENDEXT" -> AppendOn(heap, Slot(Ins.b), Slot(Ins.c))
  <2>1. HeapShaped(made.heap) /\ made.heap.conts = heap.conts
    <3>1. CASE Ins.op = "CONS"
      BY <1>1, <3>1, ListsAreShaped
    <3>2. CASE Ins.op = "CONSEXT"
      BY <1>1, <3>2, ListsAreShaped
    <3>3. CASE Ins.op = "LIST"
      BY <1>1, <3>3, ListsAreShaped
    <3>4. CASE Ins.op = "LISTK"
      BY <1>1, <3>4, ListsAreShaped
    <3>5. CASE Ins.op = "LIST2VEC"
      BY <1>1, <3>5, ListsAreShaped
    <3>6. CASE Ins.op = "APPEND"
      BY <1>1, <3>6, ListsAreShaped
    <3>7. CASE Ins.op = "APPENDEXT"
      BY <1>1, <3>7, ListsAreShaped
    <3> QED
      BY <1>1, <3>1, <3>2, <3>3, <3>4, <3>5, <3>6, <3>7
  <2>2. ListMade(made)
    BY DEF ExecList
  <2> QED
    BY <2>1, <2>2
<1>3. Tame(M, Put([M EXCEPT !.heap = made.heap], Ins.a, made.v))
  <2>1. M.heap = heap
    BY DEF M
  <2> QED
    BY <1>1, <1>2, <2>1, HeapPutTame
<1>4. CASE Raise(M)
  BY <1>1, <1>4, TameItself, Raises
<1>5. CASE NextPc(Put([M EXCEPT !.heap = made.heap], Ins.a, made.v)) /\ KeepRest
  <2>1. mode' = mode
    BY <1>5 DEF KeepRest
  <2> QED
    BY <1>1, <1>3, <1>5, <2>1, GoesOn
<1> QED
  BY <1>2, <1>4, <1>5 DEF ListMade

LEMMA JumpStep ==
  ASSUME MInv, ExecJump
  PROVE  StepOk
<1>1. Going(M) /\ Ready(M) /\ mode = "run"
  BY RunningGoes DEF ExecJump
<1>2. \/ Raise(M)
      \/ mode' = mode /\ NextPc(M)
      \/ mode' = mode /\ SetM([M EXCEPT !.frames[M.cur].pc = Ins.a])
  <2>1. M.cur = cur
    BY DEF M
  <2> QED
    BY <2>1 DEF ExecJump, KeepRest
<1>3. CASE Raise(M)
  BY <1>1, <1>3, TameItself, Raises
<1>4. CASE mode' = mode /\ NextPc(M)
  BY <1>1, <1>4, TameItself, GoesOn
<1>5. CASE mode' = mode /\ SetM([M EXCEPT !.frames[M.cur].pc = Ins.a])
  <2>1. PICK n : n = [M EXCEPT !.frames[M.cur].pc = Ins.a]
    OBVIOUS
  <2>2. Tame(M, n) /\ Shaped(n)
    BY <1>1, <2>1, PcTame, SMTT(60) DEF Tame, Ready
  <2>3. M' = n
    BY <1>5, <2>1, <2>2, SetMGives DEF SetM
  <2> QED
    BY <1>1, <1>5, <2>2, <2>3, TameStep
<1> QED
  BY <1>2, <1>3, <1>4, <1>5

LEMMA LambdaStep ==
  ASSUME MInv, ExecLambda
  PROVE  StepOk
<1>1. Going(M) /\ Ready(M) /\ mode = "run"
  BY RunningGoes DEF ExecLambda
<1>2. mode' = mode
  BY DEF ExecLambda, KeepRest
<1>3. PICK e, v : NextPc(Put([M EXCEPT !.heap.clos = Append(@, e)], Ins.a, v))
  BY DEF ExecLambda
<1>4. PICK w : w = Append(M.heap.clos, e)
  OBVIOUS
<1>5. PICK h : h = [M.heap EXCEPT !.clos = w]
  OBVIOUS
<1>6. HeapShaped(h) /\ h.conts = M.heap.conts
  BY <1>1, <1>5, HeapParts DEF Ready, Shaped
<1>7. [M EXCEPT !.heap.clos = Append(@, e)] = [M EXCEPT !.heap = h]
  BY <1>4, <1>5
<1>8. Tame(M, Put([M EXCEPT !.heap = h], Ins.a, v))
  BY <1>1, <1>6, HeapPutTame
<1> QED
  BY <1>1, <1>2, <1>3, <1>7, <1>8, GoesOn

LEMMA PromiseStep ==
  ASSUME MInv, ExecPromise
  PROVE  StepOk
<1>1. Going(M) /\ mode = "run"
  BY RunningGoes DEF ExecPromise
<1>2. mode' = mode /\ \E k, v : NextPc(Put(M, k, v))
  BY DEF ExecPromise, KeepRest
<1> QED
  BY <1>1, <1>2, PutStep

(* A form begins: its frame stands alone on a segment of its own.          *)
LEMMA StartStep ==
  ASSUME MInv, StartForm
  PROVE  StepOk
<1>1. mode = "idle" /\ mode' = "run"
  BY DEF StartForm
<1>2. Rested(M)
  BY <1>1 DEF MInv, Fit
<1>3. Shaped(M)
  BY <1>2 DEF Rested
<1>4. PICK s, id, pc, top, v, w : /\ s = Len(segs) + 1 /\ id = Len(frames) + 1
        /\ heap' = [heap EXCEPT !.clos = w]
        /\ segs' = Append(segs, [NewSegment EXCEPT !.slots[0] = v])
        /\ frames' = Append(frames, [pc |-> pc, seg |-> s, prev |-> 0,
                                     start |-> [seg |-> s, off |-> 0],
                                     base |-> 0, top |-> top, unwind |-> "none"])
        /\ cur' = id
  BY DEF StartForm
<1>5. PICK e : e = [NewSegment EXCEPT !.slots[0] = v]
  OBVIOUS
<1>6. SegShaped(e) /\ e.frozen = 0
  BY <1>5 DEF SegShaped, NewSegment
<1>7. PICK f : f = [pc |-> pc, seg |-> s, prev |-> 0, start |-> [seg |-> s, off |-> 0],
                    base |-> 0, top |-> top, unwind |-> "none"]
  OBVIOUS
<1>8. PICK h : h = [heap EXCEPT !.clos = w]
  OBVIOUS
<1>9. M.frames = frames /\ M.segs = segs /\ M.cur = cur /\ M.heap = heap
  BY DEF M
<1>10. PICK m1 : m1 = WithSegment(M, e)
  OBVIOUS
<1>11. /\ Shaped(m1) /\ m1.frames = M.frames /\ m1.cur = M.cur /\ m1.heap = M.heap
       /\ Len(m1.segs) = s /\ m1.segs[s].frozen = 0 /\ m1.segs = Append(segs, e)
       /\ \A i \in DOMAIN M.segs : m1.segs[i] = M.segs[i]
  <2>1. m1.segs = Append(segs, e)
    BY <1>3, <1>9, <1>10 DEF WithSegment, Shaped
  <2> QED
    BY <1>3, <1>4, <1>6, <1>9, <1>10, <2>1, SegmentAdded
<1>12. Grows(M, m1) /\ s \in DOMAIN m1.segs
  <2>1. Grows(M, m1)
    BY <1>3, <1>4, <1>9, <1>11, ShapedFacts DEF Grows
  <2> QED
    BY <1>3, <1>4, <1>9, <1>11, <2>1, ShapedFacts
<1>13. FrameShaped(m1.segs, f) /\ f.seg = s /\ f.prev = 0
  BY <1>7, <1>12 DEF FrameShaped
<1>14. PICK q : q = WithFrame(m1, f)
  OBVIOUS
<1>15. /\ Grows(m1, q) /\ q.frames[id] = f /\ id \in DOMAIN q.frames
       /\ q.segs[f.seg].frozen = 0 /\ q.heap = m1.heap
       /\ q.segs = m1.segs /\ q.frames = Append(frames, f)
  <2>1. NextFrame(m1) = id
    BY <1>4, <1>9, <1>11 DEF NextFrame
  <2>2. q.segs = m1.segs /\ q.frames = Append(frames, f)
    BY <1>9, <1>11, <1>14 DEF WithFrame, Shaped
  <2>3. m1.segs[f.seg].frozen = 0
    BY <1>11, <1>13
  <2> QED
    BY <1>11, <1>13, <1>14, <2>1, <2>2, <2>3, FrameGrows, ZenonT(60)
<1>16. Grows(M, q)
  BY <1>3, <1>12, <1>15, GrowsAgain
<1>17. PICK r : r = Switched(q, id)
  OBVIOUS
<1>18. /\ Ready(r) /\ Grows(M, r) /\ r.cur = id /\ r.frames = q.frames
       /\ r.segs = q.segs /\ r.heap = q.heap
  <2>1. q.segs[q.frames[id].seg].frozen = 0 /\ id \in DOMAIN q.frames
    BY <1>15
  <2> QED
    BY <1>3, <1>16, <1>17, <2>1, Runs
<1>19. HeapShaped(h) /\ h.conts = r.heap.conts
  <2>1. r.heap = heap /\ HeapShaped(heap)
    BY <1>3, <1>9, <1>11, <1>15, <1>18 DEF Shaped
  <2> QED
    BY <1>8, <2>1, HeapParts
<1>20. PICK n : n = [r EXCEPT !.heap = h]
  OBVIOUS
<1>21. /\ Tame(r, n) /\ Ready(n)
       /\ n.frames = r.frames /\ n.segs = r.segs /\ n.cur = r.cur /\ n.heap = h
       /\ n = [frames |-> n.frames, segs |-> n.segs, cur |-> n.cur, heap |-> n.heap]
  <2>1. Tame(r, n) /\ Ready(n)
    BY <1>18, <1>19, <1>20, HeapTame DEF Tame
  <2>2. Shaped(r)
    BY <1>18 DEF Ready
  <2>3. n.frames = r.frames /\ n.segs = r.segs /\ n.cur = r.cur /\ n.heap = h
    BY <1>20, <2>2 DEF Shaped
  <2> QED
    BY <2>1, <2>3 DEF Ready, Shaped
<1>22. M' = n
  BY <1>4, <1>5, <1>7, <1>8, <1>11, <1>15, <1>18, <1>21 DEF M
<1>23. id \notin DOMAIN M.frames /\ id = Len(M.frames) + 1 /\ id \in Nat /\ 0 < id
  BY <1>3, <1>4, <1>9, ShapedFacts
<1>24. Grows(M, n)
  BY <1>3, <1>18, <1>21, <1>23, GrowsThenTame
<1>25. Linked(n, n.cur) /\ n.frames[n.cur].prev = 0
  BY <1>13, <1>15, <1>18, <1>21, <1>23, SMTT(60) DEF Linked
<1>26. Stands(n, {n.cur})
  <2>1. Stands(n, {} \cup {n.cur})
    BY <1>3, <1>18, <1>21, <1>23, <1>24, <1>25, ChainExtended
  <2> QED
    BY <2>1
<1>27. \A K : Holds(M, K) => Keeps(M, n, K) /\ Holds(n, K)
  BY <1>3, <1>24, GrowsKeeps
<1>28. Going(n)
  <2>1. PICK K : Holds(M, K)
    BY <1>2 DEF Rested
  <2> QED
    BY <1>21, <1>26, <1>27, <2>1 DEF Going
<1>29. Fit(mode', n)
  BY <1>1, <1>28 DEF Fit
<1> QED
  BY <1>22, <1>27, <1>29 DEF StepOk

(* A call: a round of callproc.                                            *)
Assumed == CallsInWindow /\ StringsAreSafe /\ ContinuationsExist

LEMMA OnwardStep ==
  ASSUME NEW n, M' = n, mode' \in {"run", "call", "ret", "error"},
         Going(M), \A K : Holds(M, K) => Onward(M, n, K)
  PROVE  StepOk
<1>1. \E K : Holds(M, K)
  BY DEF Going
<1>2. Going(n)
  BY <1>1 DEF Onward, Going
<1>3. Fit(mode', n)
  BY <1>2 DEF Fit
<1> QED
  BY <1>3 DEF StepOk, Onward

LEMMA OnwardNext ==
  ASSUME NEW n, NextPc(n), mode' = "run", Going(M), \A K : Holds(M, K) => Onward(M, n, K)
  PROVE  StepOk
<1>1. PICK i : i = n.frames[n.cur].pc - 1
  OBVIOUS
<1>2. PICK q : q = [n EXCEPT !.frames[n.cur].pc = i]
  OBVIOUS
<1>3. SetM(q)
  BY <1>1, <1>2 DEF NextPc
<1>4. Ready(n)
  BY DEF Going, Onward
<1>5. Tame(n, q) /\ Shaped(q)
  BY <1>2, <1>4, PcTame, SMTT(60) DEF Tame, Ready
<1>6. M' = q
  BY <1>3, <1>5, SetMGives DEF SetM
<1>7. \A K : Holds(M, K) => Onward(M, q, K)
  <2> TAKE K
  <2> HAVE Holds(M, K)
  <2>1. Keeps(M, n, K)
    BY DEF Onward
  <2>2. PICK L, D : K \subseteq L /\ Holds(n, L) /\ Stands(n, D)
    BY DEF Onward
  <2>3. Ready(q) /\ Keeps(n, q, L) /\ Holds(q, L) /\ Stands(q, D)
    BY <1>4, <1>5, <2>2, TameKeeps DEF Tame
  <2>4. Keeps(n, q, K)
    BY <2>2, <2>3 DEF Keeps
  <2>5. Keeps(M, q, K)
    BY <2>1, <2>4, KeepsAgain
  <2> QED
    BY <2>2, <2>3, <2>5 DEF Onward
<1> QED
  BY <1>6, <1>7, OnwardStep

LEMMA CallStep ==
  ASSUME MInv, Assumed, CallProc
  PROVE  StepOk
<1>1. mode = "call" /\ Called(CallRound(M, app))
  BY DEF CallProc
<1>2. Going(M)
  BY <1>1 DEF MInv, Fit
<1>3. Ready(M)
  BY <1>2 DEF Going
<1>4. PICK o : o = CallRound(M, app)
  OBVIOUS
<1>5. Called(o)
  BY <1>1, <1>4
<1>6. \A K : Holds(M, K) => RoundOk(M, o, K)
  <2> TAKE K
  <2> HAVE Holds(M, K)
  <2>1. PICK C : Stands(M, C)
    BY <1>2 DEF Going
  <2>2. app.k \in Nat /\ Top(M).base + app.k < Top(M).top
    BY <1>1 DEF Assumed, CallsInWindow, Top, M
  <2>3. At(M, app.k).t = "cont" => At(M, app.k).id \in DOMAIN M.heap.conts
    BY <1>1 DEF Assumed, ContinuationsExist, Slot, M
  <2>4. app.unwind = "str" /\ At(M, app.k).t = "prim" => StartIsSafe(M)
    BY <1>1 DEF Assumed, StringsAreSafe, Slot, StartIsSafe, M
  <2> QED
    BY <1>3, <1>4, <2>1, <2>2, <2>3, <2>4, CallRoundOnward
<1>7. \A K : Holds(M, K) => Onward(M, o.m, K)
  BY <1>6 DEF RoundOk
<1>8. ASSUME NEW r, SetMReg(o.m, r), mode' \in {"run", "call", "ret", "error"}
      PROVE  StepOk
  <2>1. Shaped(o.m)
    BY <1>2, <1>7 DEF Going, Onward, Ready
  <2>2. M' = o.m
    BY <1>8, <2>1, SetMGives
  <2> QED
    BY <1>2, <1>7, <1>8, <2>2, OnwardStep
<1>9. \/ mode' = "run" /\ NextPc(o.m)
      \/ mode' \in {"run", "call", "ret", "error"} /\ \E r : SetMReg(o.m, r)
  BY <1>1, <1>5 DEF Called, Raise, SetM
<1>10. CASE mode' = "run" /\ NextPc(o.m)
  BY <1>2, <1>7, <1>10, OnwardNext
<1> QED
  BY <1>8, <1>9, <1>10

(* A return.                                                               *)
LEMMA ReturnStep ==
  ASSUME MInv, Assumed, ReturnFrame
  PROVE  StepOk
<1>1. mode = "ret"
  BY DEF ReturnFrame
<1>2. Going(M)
  BY <1>1 DEF MInv, Fit
<1>3. Ready(M)
  BY <1>2 DEF Going
<1>4. PICK v : v = At([M EXCEPT !.cur = reg], RetSlot(Lam))
  OBVIOUS
<1>5. PICK o : o = ReturnFrom(M, v)
  OBVIOUS
<1>6. Returned(o)
  BY <1>4, <1>5 DEF ReturnFrame
<1>7. \A K : Holds(M, K) => ReturnOk(M, o, K)
  <2> TAKE K
  <2> HAVE Holds(M, K)
  <2>1. PICK C : Stands(M, C)
    BY <1>2 DEF Going
  <2>2. Top(M).unwind = "str" /\ Top(M).prev = 0 => StartIsSafe(M)
    BY <1>1 DEF Assumed, StringsAreSafe, StartIsSafe, Top, M
  <2> QED
    BY <1>3, <1>5, <2>1, <2>2, ReturnFromOk
<1>8. PICK K : Holds(M, K)
  BY <1>2 DEF Going
<1>9. ReturnOk(M, o, K) /\ o.act \in {"error", "done"}
  BY <1>7, <1>8 DEF ReturnOk
<1>10. CASE o.act = "error"
  <2>1. mode' = "error" /\ SetM(o.m)
    BY <1>6, <1>10 DEF Returned, Raise
  <2>2. Fit(mode', M')
    BY <2>1 DEF Fit
  <2>3. frames' = o.m.frames /\ segs' = o.m.segs
    BY <2>1 DEF SetM, SetMReg
  <2>4. \A L : Holds(M, L) => Keeps(M, M', L)
    <3> TAKE L
    <3> HAVE Holds(M, L)
    <3>1. Keeps(M, o.m, L)
      BY <1>7 DEF ReturnOk
    <3>2. M'.frames = o.m.frames /\ M'.segs = o.m.segs
      BY <2>3 DEF M
    <3> QED
      BY <3>1, <3>2 DEF Keeps
  <2> QED
    BY <2>2, <2>4 DEF StepOk
<1>11. CASE o.act = "done" /\ o.m.cur = 0
  <2>1. mode' = "idle" /\ SetM(o.m)
    BY <1>6, <1>11 DEF Returned
  <2>2. Rested(o.m)
    BY <1>9, <1>11 DEF ReturnOk, Rested
  <2>3. M' = o.m
    BY <2>1, <2>2, SetMGives DEF SetM, Rested
  <2>4. Fit(mode', M')
    BY <2>1, <2>2, <2>3 DEF Fit
  <2>5. \A L : Holds(M, L) => Keeps(M, o.m, L)
    BY <1>7 DEF ReturnOk
  <2> QED
    BY <2>3, <2>4, <2>5 DEF StepOk
<1>12. CASE o.act = "done" /\ o.m.cur # 0
  <2>1. mode' = "run" /\ NextPc(o.m)
    BY <1>6, <1>12 DEF Returned
  <2>2. \A L : Holds(M, L) => Onward(M, o.m, L)
    BY <1>7, <1>12 DEF ReturnOk, Onward
  <2> QED
    BY <1>2, <2>1, <2>2, OnwardNext
<1> QED
  BY <1>9, <1>10, <1>11, <1>12

-----------------------------------------------------------------------------
(* A step whose frames, segments and heap stay.                            *)
LEMMA QuietStep ==
  ASSUME MInv, UNCHANGED <<frames, segs, cur, heap>>,
         \/ mode' = "done"
         \/ mode \in {"run", "call", "ret"} /\ mode' \in {"run", "call", "ret", "idle"}
         \/ mode' = mode
  PROVE  StepOk
<1>1. M' = M /\ \A K : Keeps(M, M', K)
  BY SameFrames
<1>2. Going(M) => Rested(M)
  BY DEF Going, Rested, Ready
<1>3. Fit(mode', M)
  BY <1>2 DEF MInv, Fit
<1> QED
  BY <1>1, <1>3 DEF StepOk

LEMMA MachineStep ==
  ASSUME MInv, Assumed, [MachineNext]_machineVars, mode # "error"
  PROVE  StepOk
<1>1. CASE StartForm
  BY <1>1, StartStep
<1>2. CASE StopLoading
  BY <1>2, QuietStep DEF StopLoading
<1>3. CASE FallOff
  BY <1>3, QuietStep DEF FallOff
<1>4. CASE ExecMove
  BY <1>4, MoveStep
<1>5. CASE UndefinedGlobal
  BY <1>5, UndefinedGlobalStep
<1>6. CASE ExecStore
  BY <1>6, StoreStep
<1>7. CASE ExecStoreGlobal
  BY <1>7, StoreGlobalStep
<1>8. CASE ExecList
  BY <1>8, ListStep
<1>9. CASE ExecJump
  BY <1>9, JumpStep
<1>10. CASE ExecLambda
  BY <1>10, LambdaStep
<1>11. CASE ExecPromise
  BY <1>11, PromiseStep
<1>12. CASE ExecCall
  BY <1>12, QuietStep DEF ExecCall, Running
<1>13. CASE CallProc
  BY <1>13, CallStep
<1>14. CASE ExecReturn
  BY <1>14, QuietStep DEF ExecReturn, Running
<1>15. CASE ReturnFrame
  BY <1>15, ReturnStep
<1>16. CASE HandleError
  BY <1>16 DEF HandleError
<1>17. CASE UNCHANGED machineVars
  BY <1>17, QuietStep DEF machineVars
<1> QED
  BY <1>1, <1>2, <1>3, <1>4, <1>5, <1>6, <1>7, <1>8, <1>9, <1>10, <1>11, <1>12, <1>13, <1>14,
     <1>15, <1>16, <1>17 DEF MachineNext

(* What the continuations hold is among what is kept.                      *)
LEMMA CapturedHeld ==
  ASSUME NEW K, Shaped(M), Holds(M, K)
  PROVE  Captured \subseteq K
<1>1. /\ Len(frames) \in Nat /\ DOMAIN frames = 1..Len(frames) /\ K \subseteq 1..Len(frames)
  BY ShapedFacts DEF Holds, M
<1>2. Closed(frames, K)
  BY DEF Holds, Linked, Closed, M
<1>3. \A c \in DOMAIN heap.conts : Chain(frames, heap.conts[c].frm) \subseteq K
  <2> TAKE c \in DOMAIN heap.conts
  <2>1. heap.conts[c].frm \in K
    BY DEF Holds, M
  <2> QED
    BY <1>1, <1>2, <2>1, ChainFacts, ZenonT(60)
<1> QED
  BY <1>3 DEF Captured

LEMMA CapturedStep ==
  ASSUME MInv, StepOk, mode \in {"idle", "run", "call", "ret"}
  PROVE  \A f \in Captured : /\ frames'[f] = frames[f]
                             /\ Window(frames', segs', f) = Window(frames, segs, f)
<1>1. PICK K : Shaped(M) /\ Holds(M, K)
  BY DEF MInv, Fit, Going, Rested, Ready
<1>2. Keeps(M, M', K) /\ Captured \subseteq K
  BY <1>1, CapturedHeld DEF StepOk
<1>3. \A f \in K : /\ frames'[f] = frames[f]
                   /\ segs'[frames[f].seg].slots = segs[frames[f].seg].slots
  BY <1>2 DEF Keeps, M
<1> QED
  BY <1>2, <1>3 DEF Window

LEMMA MachineStarts ==
  ASSUME NEW compiled, MachineInit(compiled)
  PROVE  MInv
<1>1. IsSequence(<<>>)
  <2>1. <<>> \in Seq({})
    OBVIOUS
  <2> QED
    BY <2>1 DEF IsSequence
<1>2. M.frames = <<>> /\ M.segs = <<>> /\ M.heap = EmptyHeap /\ mode = "idle"
      /\ M = [frames |-> M.frames, segs |-> M.segs, cur |-> M.cur, heap |-> M.heap]
  BY DEF MachineInit, M
<1>3. HeapShaped(M.heap) /\ M.heap.conts = <<>>
  BY <1>1, <1>2 DEF HeapShaped, EmptyHeap
<1>4. DOMAIN M.frames = {} /\ DOMAIN M.segs = {} /\ DOMAIN M.heap.conts = {}
  BY <1>2, <1>3
<1>5. Shaped(M)
  BY <1>1, <1>2, <1>3, <1>4 DEF Shaped
<1>6. Holds(M, {})
  BY <1>4 DEF Holds
<1> QED
  BY <1>2, <1>5, <1>6 DEF MInv, Fit, Rested

(* Copy-on-write is right: from one step to the next, every frame that a   *)
(* continuation holds, and every slot of its window, stay as they were     *)
(* (CapturedFramesKeep), as long as calls are made from inside the window  *)
(* of their frame, a reference to a continuation is to one that exists,    *)
(* and the string of a port does not go to a frozen segment where          *)
(* callrtnfrm has no caller to copy.  (MInv: every frame of a continuation *)
(* lies on a frozen segment, the running frame on one that is not, and a   *)
(* frame waits for its value inside the window of an older frame, which is *)
(* the one callrtnfrm copies.)                                             *)
THEOREM CopyOnWrite ==
  ASSUME NEW compiled
  PROVE  MachineInit(compiled) /\ [][MachineNext]_machineVars
           /\ [](CallsInWindow /\ StringsAreSafe /\ ContinuationsExist)
         => CapturedFramesKeep
<1>1. MachineInit(compiled) => MInv
  BY MachineStarts
<1>2. MInv /\ Assumed /\ [MachineNext]_machineVars => MInv'
  <2> SUFFICES ASSUME MInv, Assumed, [MachineNext]_machineVars PROVE MInv'
    OBVIOUS
  <2>1. CASE mode # "error"
    BY <2>1, MachineStep DEF StepOk, MInv
  <2>2. CASE mode = "error"
    <3>1. mode' \in {"done", "error"}
      BY <2>2 DEF MachineNext, machineVars, HandleError, StartForm, StopLoading, FallOff,
         ExecMove, UndefinedGlobal, ExecStore, ExecStoreGlobal, ExecList, ExecJump, ExecLambda,
         ExecPromise, ExecCall, CallProc, ExecReturn, ReturnFrame, Running
    <3> QED
      BY <3>1 DEF MInv, Fit
  <2> QED
    BY <2>1, <2>2
<1>3. MInv /\ Assumed /\ [MachineNext]_machineVars
        => [mode # "error" =>
              \A f \in Captured : /\ frames'[f] = frames[f]
                                  /\ Window(frames', segs', f) = Window(frames, segs, f)]_machineVars
  <2> SUFFICES ASSUME MInv, Assumed, MachineNext, mode # "error"
               PROVE  \A f \in Captured : /\ frames'[f] = frames[f]
                                          /\ Window(frames', segs', f) = Window(frames, segs, f)
    OBVIOUS
  <2>1. StepOk
    BY MachineStep
  <2>2. mode \in {"idle", "run", "call", "ret"}
    BY DEF MInv, Fit, MachineNext, HandleError, StartForm, StopLoading, FallOff,
       ExecMove, UndefinedGlobal, ExecStore, ExecStoreGlobal, ExecList, ExecJump, ExecLambda,
       ExecPromise, ExecCall, CallProc, ExecReturn, ReturnFrame, Running
  <2> QED
    BY <2>1, <2>2, CapturedStep
<1> QED
  BY <1>1, <1>2, <1>3, PTL DEF CapturedFramesKeep, Assumed
=============================================================================
