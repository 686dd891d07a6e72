--------------------------- MODULE HashTableProofs ----------------------------
(***************************************************************************)
(* Whatever the keys, their hashes and the sizes a rehash chooses, the     *)
(* walk of rawget finds every key that has a node, and no key is stored    *)
(* twice; the table is a map, which a rehash does not change; and a rehash *)
(* makes room for all it has to re-insert without wasting the array part.  *)
(*                                                                         *)
(* A walk keeps only a key, yet it visits every entry once: where a key is *)
(* found depends on the layout of the keys alone, which a loop body that   *)
(* updates and removes entries leaves as it is.                            *)
(***************************************************************************)
EXTENDS HashTraversal, FiniteSetTheorems, WellFoundedInduction, TLAPS

NodesOK ==
  /\ firstfree \in Nat
  /\ node \in [Slots -> NodeType]
  /\ \A n \in Slots : ~Used(n) => node[n] = FreeNode

ChainInv == FirstFreeBound /\ ChainShape /\ EveryKeyFound /\ StoredOnce

(* The main position of a key is a node.                                   *)
LEMMA MainPositionInSlots ==
  ASSUME size \in Nat \ {0}, NEW k \in Keys
  PROVE  MainPosition(k) \in Slots
<1>1. Mix[k] \in Nat
  BY KeysAssumption
<1>2. Mix[k] % size \in 0 .. size - 1
  BY <1>1
<1> QED
  BY <1>2 DEF MainPosition, Slots

(* All nodes a walk visits hold keys of one main position.                 *)
LEMMA WalkStaysInChain ==
  ASSUME TypeOK, ChainShape, NEW h \in Slots, NEW n \in Slots, Used(h), Reaches(h, n)
  PROVE  Used(n) /\ MainPosition(node[n].key) = MainPosition(node[h].key)
<1> DEFINE S == {m \in Slots : Used(m) /\ MainPosition(node[m].key) = MainPosition(node[h].key)}
<1>1. h \in S
  OBVIOUS
<1>2. ASSUME NEW m \in S, node[m].next # None PROVE node[m].next \in S
  <2>1. node[m].next \in Slots
    BY <1>2 DEF TypeOK, NodeType
  <2> QED
    BY <1>2, <2>1 DEF ChainShape
<1>3. Closed(S)
  BY <1>2 DEF Closed
<1>4. n \in S
  BY <1>1, <1>3 DEF Reaches
<1> QED
  BY <1>4

(* A free node is the end of every walk that starts at it.                 *)
LEMMA FreeReachesItself ==
  ASSUME TypeOK, NEW h \in Slots, ~Used(h), NEW n \in Slots, Reaches(h, n)
  PROVE  n = h
<1>1. node[h].next = None
  BY DEF TypeOK, FreeNode
<1>2. Closed({h})
  BY <1>1 DEF Closed
<1> QED
  BY <1>2 DEF Reaches

(* A key whose main position is not where it is stored has a node before   *)
(* it in its chain: the walk of insertkey that looks for it ends.          *)
LEMMA PriorExists ==
  ASSUME TypeOK, NEW h \in Slots, NEW n \in Slots, Reaches(h, n), h # n
  PROVE  \E m \in Slots : Reaches(h, m) /\ node[m].next = n
<1>1. SUFFICES ASSUME \A m \in Slots : Reaches(h, m) => node[m].next # n
               PROVE  FALSE
  OBVIOUS
<1> DEFINE S == {m \in Slots \ {n} : Reaches(h, m)}
<1>2. h \in S
  BY DEF Reaches
<1>3. ASSUME NEW m \in S, node[m].next # None PROVE node[m].next \in S
  <2>1. node[m].next \in Slots \ {n}
    BY <1>1, <1>3 DEF TypeOK, NodeType
  <2>2. Reaches(h, node[m].next)
    <3>1. SUFFICES ASSUME NEW T \in SUBSET (Slots \ {node[m].next}), h \in T, Closed(T)
                   PROVE  FALSE
      BY DEF Reaches
    <3>2. m \notin T
      BY <1>3, <3>1 DEF Closed
    <3> QED
      BY <3>1, <3>2 DEF Reaches
  <2> QED
    BY <2>1, <2>2
<1>4. Closed(S)
  BY <1>3 DEF Closed
<1> QED
  BY <1>2, <1>4 DEF Reaches

(* A key that set() inserts is in no node yet.                             *)
LEMMA InsertedKeyIsNew ==
  ASSUME EveryKeyFound, NEW k \in Keys, Inserts(k), NEW n \in Slots
  PROVE  node[n].key # k
<1>1. Used(n) \/ node[n].key = None
  BY DEF Used
<1> QED
  BY <1>1, NoneAssumption DEF Inserts, Matches, EveryKeyFound

(* A main position that is free, or held by a key of another chain, is the *)
(* main position of no stored key.                                         *)
LEMMA HeadsHoldTheirChain ==
  ASSUME TypeOK, ChainInv, size \in Nat \ {0},
         NEW n \in Slots, Used(n), NEW h, h = MainPosition(node[n].key)
  PROVE  h \in Slots /\ Used(h) /\ MainPosition(node[h].key) = h
<1>1. node[n].key \in Keys
  BY DEF TypeOK, NodeType, Used
<1>2. h \in Slots
  BY <1>1, MainPositionInSlots
<1>3. Reaches(h, n)
  BY DEF ChainInv, EveryKeyFound
<1>4. Used(h)
  BY <1>2, <1>3, FreeReachesItself
<1> QED
  BY <1>2, <1>3, <1>4, WalkStaysInChain DEF ChainInv

(* fixfirstfree leaves no free node above firstfree.                       *)
LEMMA FixFirstFreeBounds ==
  ASSUME NEW f \in Nat, size \in Nat, firstfree' \in FixFirstFree(f, node'), size' = size,
         \A n \in Slots : n > f => node'[n].key # None
  PROVE  firstfree' \in Nat /\ FirstFreeBound'
BY DEF FixFirstFree, Highest, FirstFreeBound, Used, Slots

LEMMA InsertFreeKeepsInv ==
  ASSUME TypeOK, ChainInv, size \in Nat \ {0}, UNCHANGED <<array, size>>,
         NEW k \in Keys, NEW v \in Vals, Inserts(k), InsertFree(k, v)
  PROVE  NodesOK' /\ ChainInv'
<1> DEFINE mp == MainPosition(k)
<1>1. mp \in Slots /\ ~Used(mp) /\ node[mp] = FreeNode
  BY MainPositionInSlots DEF InsertFree, TypeOK
<1>2. node' = [node EXCEPT ![mp] = [key |-> k, val |-> v, next |-> node[mp].next]]
  BY DEF InsertFree
<1>3. /\ node'[mp] = [key |-> k, val |-> v, next |-> None]
      /\ \A n \in Slots \ {mp} : node'[n] = node[n]
  BY <1>1, <1>2 DEF TypeOK, NodeType, FreeNode
<1>4. k # None /\ Slots' = Slots /\ \A j : MainPosition(j)' = MainPosition(j)
  BY NoneAssumption DEF Slots, MainPosition
<1>5. node' \in [Slots -> NodeType] /\ NodeType' = NodeType
  BY <1>1, <1>2, <1>4 DEF TypeOK, NodeType
<1>6. \A n \in Slots : ~Used(n)' => n # mp /\ node'[n] = FreeNode
  BY <1>3, <1>4 DEF TypeOK, Used
<1>7. \A n \in Slots : node'[n].next = node[n].next
  BY <1>1, <1>3 DEF FreeNode
<1>8. firstfree' \in Nat /\ FirstFreeBound'
  <2>1. \A n \in Slots : n > firstfree => node'[n].key # None
    BY <1>3, <1>4 DEF ChainInv, FirstFreeBound, Used
  <2>2. firstfree' \in FixFirstFree(firstfree, node')
    BY DEF InsertFree
  <2> QED
    BY <2>1, <2>2, FixFirstFreeBounds DEF TypeOK
<1>9. \A n \in Slots : Used(n) => n # mp /\ Used(n)' /\ node'[n].key = node[n].key
  BY <1>1, <1>3 DEF Used
<1>10. ChainShape'
  <2>1. SUFFICES ASSUME NEW n \in Slots, node[n].next # None
                 PROVE  /\ node[n].next # n /\ node'[node[n].next].key # None
                        /\ MainPosition(node'[node[n].next].key) = MainPosition(node'[n].key)
                        /\ \A m \in Slots : node[m].next = node[n].next => m = n
    BY <1>4, <1>7 DEF ChainShape, Used
  <2>2. Used(n)
    BY <2>1 DEF TypeOK, FreeNode
  <2>3. node[n].next \in Slots
    BY <2>1 DEF TypeOK, NodeType
  <2>4. /\ node[n].next # n /\ Used(node[n].next)
        /\ MainPosition(node[node[n].next].key) = MainPosition(node[n].key)
        /\ \A m \in Slots : node[m].next = node[n].next => m = n
    BY <2>1 DEF ChainInv, ChainShape
  <2> DEFINE m == node[n].next
  <2>5. node'[m].key # None /\ node'[m].key = node[m].key
    BY <1>9, <2>3, <2>4 DEF Used
  <2>6. node'[n].key = node[n].key
    BY <1>9, <2>2
  <2> QED
    BY <2>4, <2>5, <2>6
<1>11. EveryKeyFound'
  <2>1. \A S \in SUBSET Slots : Closed(S)' <=> Closed(S)
    BY <1>7 DEF Closed
  <2>2. \A h, n \in Slots : Reaches(h, n)' <=> Reaches(h, n)
    BY <1>4, <2>1 DEF Reaches
  <2>3. ASSUME NEW n \in Slots, Used(n)' PROVE Reaches(MainPosition(node[n].key), n)'
    <3>1. CASE n = mp
      BY <1>3, <1>4, <3>1 DEF Reaches
    <3>2. CASE n # mp
      <4>1. Used(n) /\ node'[n] = node[n]
        BY <1>3, <2>3, <3>2 DEF Used
      <4>2. MainPosition(node[n].key) \in Slots /\ Reaches(MainPosition(node[n].key), n)
        BY <4>1, HeadsHoldTheirChain DEF ChainInv, EveryKeyFound
      <4> QED
        BY <1>4, <2>2, <4>1, <4>2
    <3> QED
      BY <3>1, <3>2
  <2> QED
    BY <1>4, <2>3 DEF EveryKeyFound
<1>12. StoredOnce'
  <2>1. \A j : InArray(j)' <=> InArray(j)
    BY DEF InArray
  <2>2. ~InArray(k) /\ \A n \in Slots : node[n].key # k
    BY InsertedKeyIsNew DEF ChainInv, Inserts, Absent
  <2> QED
    BY <1>3, <1>4, <2>1, <2>2 DEF ChainInv, StoredOnce, Used
<1> QED
  BY <1>4, <1>5, <1>6, <1>8, <1>10, <1>11, <1>12 DEF NodesOK, ChainInv

(* The node getfreepos hands out is free, no link leads to it, and every   *)
(* node above it is in use.                                                *)
LEMMA FreeNodeIsApart ==
  ASSUME TypeOK, ChainInv, NEW f \in Highest(FreeBelow)
  PROVE  /\ f \in Slots /\ ~Used(f) /\ node[f] = FreeNode
         /\ \A n \in Slots : node[n].next # f
         /\ \A n \in Slots : n > f => Used(n)
<1>1. f \in Slots /\ ~Used(f) /\ node[f] = FreeNode
  BY DEF Highest, FreeBelow, TypeOK
<1>2. f # None
  BY <1>1, NoneAssumption DEF Slots
<1>3. \A n \in Slots : node[n].next # f
  BY <1>1, <1>2 DEF ChainInv, ChainShape
<1>4. ASSUME NEW n \in Slots, n > f PROVE Used(n)
  <2>1. n \in Int /\ firstfree \in Int /\ f \in Int
    BY <1>1 DEF Slots, TypeOK
  <2>2. CASE n > firstfree
    BY <2>2 DEF ChainInv, FirstFreeBound
  <2>3. CASE n <= firstfree
    BY <1>4, <2>1, <2>3 DEF Highest, FreeBelow
  <2> QED
    BY <2>1, <2>2, <2>3
<1> QED
  BY <1>1, <1>3, <1>4

LEMMA InsertBehindKeepsInv ==
  ASSUME TypeOK, ChainInv, size \in Nat \ {0}, UNCHANGED <<array, size>>,
         NEW k \in Keys, NEW v \in Vals, Inserts(k),
         NEW freen \in Highest(FreeBelow), InsertBehind(k, v, freen)
  PROVE  NodesOK' /\ ChainInv'
<1> DEFINE mp == MainPosition(k)
<1>1. mp \in Slots /\ Used(mp) /\ MainPosition(node[mp].key) = mp
  BY MainPositionInSlots DEF InsertBehind
<1>2. /\ freen \in Slots /\ ~Used(freen) /\ node[freen] = FreeNode
      /\ \A n \in Slots : node[n].next # freen
      /\ \A n \in Slots : n > freen => Used(n)
  BY FreeNodeIsApart
<1>3. mp # freen /\ node[freen].next = None
  BY <1>1, <1>2 DEF FreeNode
<1>4. k # None /\ None \notin Slots /\ Slots' = Slots /\ \A j : MainPosition(j)' = MainPosition(j)
  BY NoneAssumption DEF Slots, MainPosition
<1>5. node' = [node EXCEPT ![freen] = [key |-> k, val |-> v, next |-> node[mp].next],
                           ![mp].next = freen]
  BY DEF InsertBehind
<1>6. node \in [Slots -> NodeType] /\ NodeType' = NodeType
  BY <1>4 DEF TypeOK, NodeType
<1>7. /\ node' \in [Slots -> NodeType]
      /\ node'[freen] = [key |-> k, val |-> v, next |-> node[mp].next]
      /\ node'[mp].key = node[mp].key /\ node'[mp].next = freen
      /\ \A n \in Slots \ {mp, freen} : node'[n] = node[n]
  BY <1>1, <1>2, <1>3, <1>4, <1>5, <1>6 DEF NodeType
<1>8. /\ node'[freen].key = k /\ node'[freen].next = node[mp].next
      /\ \A n \in Slots \ {freen} : node'[n].key = node[n].key
      /\ \A n \in Slots \ {mp, freen} : node'[n].next = node[n].next
  BY <1>7
<1>9. \A n \in Slots : node'[n].key # None <=> Used(n) \/ n = freen
  BY <1>4, <1>8 DEF Used
<1>10. \A n \in Slots : ~Used(n)' => node'[n] = FreeNode
  BY <1>1, <1>7, <1>9 DEF TypeOK, Used
<1>11. firstfree' \in Nat /\ FirstFreeBound'
  <2>1. firstfree' \in FixFirstFree(freen, node')
    BY DEF InsertBehind
  <2>2. freen \in Nat /\ \A n \in Slots : n > freen => node'[n].key # None
    BY <1>2, <1>9 DEF Slots
  <2> QED
    BY <2>1, <2>2, FixFirstFreeBounds
<1>12. ChainShape'
  <2>1. SUFFICES ASSUME NEW n \in Slots, node'[n].next # None
                 PROVE  /\ node'[n].next # n
                        /\ node'[node'[n].next].key # None
                        /\ MainPosition(node'[node'[n].next].key) = MainPosition(node'[n].key)
                        /\ \A m \in Slots : node'[m].next = node'[n].next => m = n
    BY <1>4 DEF ChainShape, Used
  <2>2. CASE n = mp
    BY <1>1, <1>2, <1>3, <1>4, <1>7, <1>8, <2>2
  <2>3. CASE n # mp
    <3> DEFINE o == IF n = freen THEN mp ELSE n
               x == node[o].next
    <3>1. o \in Slots /\ node'[n].next = x
      BY <1>1, <1>8, <2>3
    <3>2. /\ x # o /\ Used(x) /\ MainPosition(node[x].key) = MainPosition(node[o].key)
          /\ \A m \in Slots : node[m].next = x => m = o
      BY <2>1, <3>1 DEF ChainInv, ChainShape
    <3>3. x \in Slots /\ x # freen
      BY <1>2, <1>6, <2>1, <3>1 DEF NodeType
    <3>4. MainPosition(node'[n].key) = MainPosition(node[o].key)
      BY <1>1, <1>8
    <3>5. node'[x].key # None /\ node'[x].key = node[x].key
      BY <1>8, <1>9, <3>2, <3>3
    <3>6. n # x
      BY <3>2, <3>3
    <3>7. ASSUME NEW m \in Slots, node'[m].next = x PROVE m = n
      <4>1. CASE m = freen
        <5>1. mp = o
          BY <1>1, <1>8, <3>2, <3>7, <4>1
        <5> QED
          BY <2>3, <4>1, <5>1
      <4>2. CASE m # freen
        <5>1. m # mp
          BY <1>7, <3>3, <3>7
        <5>2. m = o
          BY <1>8, <3>2, <3>7, <4>2, <5>1
        <5> QED
          BY <4>2, <5>1, <5>2
      <4> QED
        BY <4>1, <4>2
    <3> QED
      BY <3>1, <3>2, <3>4, <3>5, <3>6, <3>7
  <2> QED
    BY <2>2, <2>3
<1>13. EveryKeyFound'
  <2>1. SUFFICES ASSUME NEW n \in Slots, node'[n].key # None,
                        NEW S \in SUBSET (Slots \ {n}),
                        MainPosition(node'[n].key) \in S, Closed(S)'
                 PROVE  FALSE
    BY <1>4 DEF EveryKeyFound, Used, Reaches
  <2>2. \A m \in S : node'[m].next # None => node'[m].next \in S
    BY <2>1 DEF Closed
  <2>3. CASE n = freen
    BY <1>1, <1>4, <1>7, <1>8, <1>2, <2>1, <2>2, <2>3
  <2>4. CASE n # freen
    <3> DEFINE h == MainPosition(node[n].key)
               T == S \ {freen}
    <3>1. Used(n) /\ h \in S
      BY <1>8, <1>9, <2>1, <2>4
    <3>2. h # freen /\ Reaches(h, n)
      BY <1>2, <3>1, HeadsHoldTheirChain DEF ChainInv, EveryKeyFound
    <3>3. ASSUME NEW m \in T, node[m].next # None PROVE node[m].next \in T
      <4>1. node[m].next # freen
        BY <1>2, <3>3
      <4>2. CASE m = mp
        BY <1>2, <1>4, <1>7, <1>8, <2>2, <3>3, <4>1, <4>2
      <4>3. CASE m # mp
        BY <1>8, <2>2, <3>3, <4>1, <4>3
      <4> QED
        BY <4>2, <4>3
    <3>4. Closed(T) /\ T \in SUBSET (Slots \ {n}) /\ h \in T
      BY <3>1, <3>2, <3>3 DEF Closed
    <3> QED
      BY <3>2, <3>4 DEF Reaches
  <2> QED
    BY <2>3, <2>4
<1>14. StoredOnce'
  <2>1. \A j : InArray(j)' <=> InArray(j)
    BY DEF InArray
  <2>2. ~InArray(k) /\ \A n \in Slots : node[n].key # k
    BY InsertedKeyIsNew DEF ChainInv, Inserts, Absent
  <2> QED
    BY <1>4, <1>8, <1>9, <2>1, <2>2 DEF ChainInv, StoredOnce, Used
<1> QED
  BY <1>4, <1>6, <1>7, <1>10, <1>11, <1>12, <1>13, <1>14 DEF NodesOK, ChainInv

(* The key that occupies the main position of another chain is moved to    *)
(* the free node, and stays reachable there.                               *)
LEMMA InsertMoveKeepsInv ==
  ASSUME TypeOK, ChainInv, size \in Nat \ {0}, UNCHANGED <<array, size>>,
         NEW k \in Keys, NEW v \in Vals, Inserts(k),
         NEW freen \in Highest(FreeBelow), InsertMove(k, v, freen)
  PROVE  NodesOK' /\ ChainInv'
<1> DEFINE mp == MainPosition(k)
           p == Prior(mp)
<1>1. mp \in Slots /\ Used(mp) /\ MainPosition(node[mp].key) # mp
  BY MainPositionInSlots DEF InsertMove
<1>2. /\ freen \in Slots /\ ~Used(freen) /\ node[freen] = FreeNode
      /\ \A n \in Slots : node[n].next # freen
      /\ \A n \in Slots : n > freen => Used(n)
  BY FreeNodeIsApart
<1>3. mp # freen /\ node[freen].next = None
  BY <1>1, <1>2 DEF FreeNode
<1>4. k # None /\ None \notin Slots /\ Slots' = Slots /\ \A j : MainPosition(j)' = MainPosition(j)
  BY NoneAssumption DEF Slots, MainPosition
<1>5. p \in Slots /\ node[p].next = mp
  <2> DEFINE h == MainPosition(node[mp].key)
  <2>1. h \in Slots /\ Reaches(h, mp) /\ h # mp
    BY <1>1, HeadsHoldTheirChain DEF ChainInv, EveryKeyFound
  <2>2. \E m \in Slots : Reaches(h, m) /\ node[m].next = mp
    BY <1>1, <2>1, PriorExists
  <2> QED
    BY <2>2 DEF Prior
<1>6. /\ p # mp /\ p # freen /\ Used(p)
      /\ MainPosition(node[mp].key) = MainPosition(node[p].key)
      /\ \A m \in Slots : node[m].next = mp => m = p
  <2>1. node[p].next # None /\ p # freen
    BY <1>1, <1>3, <1>4, <1>5
  <2>2. Used(p)
    BY <1>5, <2>1 DEF TypeOK, FreeNode
  <2> QED
    BY <1>5, <2>1, <2>2 DEF ChainInv, ChainShape
<1>7. node \in [Slots -> NodeType] /\ NodeType' = NodeType
  BY <1>4 DEF TypeOK, NodeType
<1>8. node' = [node EXCEPT ![p].next = freen,
                           ![freen] = node[mp],
                           ![mp] = [key |-> k, val |-> v, next |-> None]]
  BY DEF InsertMove
<1>9. /\ node' \in [Slots -> NodeType]
      /\ node'[freen] = node[mp]
      /\ node'[mp] = [key |-> k, val |-> v, next |-> None]
      /\ node'[p].key = node[p].key /\ node'[p].next = freen
      /\ \A n \in Slots \ {p, mp, freen} : node'[n] = node[n]
  BY <1>1, <1>2, <1>3, <1>4, <1>5, <1>6, <1>7, <1>8 DEF NodeType
<1>10. /\ node'[freen].key = node[mp].key /\ node'[freen].next = node[mp].next
       /\ node'[mp].key = k /\ node'[mp].next = None
       /\ \A n \in Slots \ {mp, freen} : node'[n].key = node[n].key
       /\ \A n \in Slots \ {p, mp, freen} : node'[n].next = node[n].next
  BY <1>9
<1>11. \A n \in Slots : node'[n].key # None <=> Used(n) \/ n = freen
  BY <1>1, <1>4, <1>10 DEF Used
<1>12. \A n \in Slots : ~Used(n)' => node'[n] = FreeNode
  BY <1>1, <1>6, <1>9, <1>11 DEF TypeOK, Used
<1>13. firstfree' \in Nat /\ FirstFreeBound'
  <2>1. firstfree' \in FixFirstFree(freen, node')
    BY DEF InsertMove
  <2>2. freen \in Nat /\ \A n \in Slots : n > freen => node'[n].key # None
    BY <1>2, <1>11 DEF Slots
  <2> QED
    BY <2>1, <2>2, FixFirstFreeBounds
<1>14. ChainShape'
  <2>1. SUFFICES ASSUME NEW n \in Slots, node'[n].next # None
                 PROVE  /\ node'[n].next # n
                        /\ node'[node'[n].next].key # None
                        /\ MainPosition(node'[node'[n].next].key) = MainPosition(node'[n].key)
                        /\ \A m \in Slots : node'[m].next = node'[n].next => m = n
    BY <1>4 DEF ChainShape, Used
  <2>2. n # mp
    BY <1>10, <2>1
  <2>3. CASE n = p
    <3>1. ASSUME NEW m \in Slots, node'[m].next = freen PROVE m = p
      BY <1>1, <1>2, <1>4, <1>10, <3>1
    <3>2. node'[p].next = freen /\ node'[p].key = node[p].key /\ node'[freen].key = node[mp].key
      BY <1>9
    <3>3. p # freen /\ node[mp].key # None
      BY <1>1, <1>6 DEF Used
    <3>4. MainPosition(node'[freen].key) = MainPosition(node'[p].key)
      BY <1>6, <3>2
    <3> QED
      BY <2>3, <3>1, <3>2, <3>3, <3>4
  <2>4. CASE n # p
    <3> DEFINE o == IF n = freen THEN mp ELSE n
               x == node[o].next
    <3>1. o \in Slots /\ o # p /\ node'[n].next = x
      BY <1>1, <1>6, <1>10, <2>2, <2>4
    <3>2. /\ x # o /\ Used(x) /\ MainPosition(node[x].key) = MainPosition(node[o].key)
          /\ \A m \in Slots : node[m].next = x => m = o
      BY <2>1, <3>1 DEF ChainInv, ChainShape
    <3>3. x \in Slots /\ x # freen /\ x # mp
      BY <1>2, <1>6, <1>7, <2>1, <3>1 DEF NodeType
    <3>4. MainPosition(node'[n].key) = MainPosition(node[o].key)
      BY <1>10, <2>2
    <3>5. node'[x].key # None /\ node'[x].key = node[x].key
      BY <1>10, <1>11, <3>2, <3>3
    <3>6. n # x
      BY <3>2, <3>3
    <3>7. ASSUME NEW m \in Slots, node'[m].next = x PROVE m = n
      <4>1. m # mp /\ m # p
        BY <1>9, <1>10, <2>1, <3>1, <3>3, <3>7
      <4>2. CASE m = freen
        <5>1. mp = o
          BY <1>1, <1>10, <3>2, <3>7, <4>2
        <5> QED
          BY <2>2, <4>2, <5>1
      <4>3. CASE m # freen
        <5>1. m = o
          BY <1>10, <3>2, <3>7, <4>1, <4>3
        <5> QED
          BY <4>1, <4>3, <5>1
      <4> QED
        BY <4>2, <4>3
    <3> QED
      BY <3>1, <3>2, <3>4, <3>5, <3>6, <3>7
  <2> QED
    BY <2>3, <2>4
<1>15. EveryKeyFound'
  <2>1. SUFFICES ASSUME NEW n \in Slots, node'[n].key # None,
                        NEW S \in SUBSET (Slots \ {n}),
                        MainPosition(node'[n].key) \in S, Closed(S)'
                 PROVE  FALSE
    BY <1>4 DEF EveryKeyFound, Used, Reaches
  <2>2. \A m \in S : node'[m].next # None => node'[m].next \in S
    BY <2>1 DEF Closed
  <2>3. n # mp
    BY <1>10, <2>1
  <2>4. CASE n = freen
    <3> DEFINE h == MainPosition(node[mp].key)
               T == S \ {mp}
    <3>1. Reaches(h, mp) /\ h \in T
      BY <1>1, <1>10, <2>1, <2>4 DEF ChainInv, EveryKeyFound
    <3>2. p \notin S
      BY <1>2, <1>4, <1>9, <2>1, <2>2, <2>4
    <3>3. ASSUME NEW m \in T, node[m].next # None PROVE node[m].next \in T
      <4>1. node[m].next # mp
        BY <1>6, <3>2, <3>3
      <4> QED
        BY <1>10, <2>1, <2>2, <2>4, <3>2, <3>3, <4>1
    <3>4. Closed(T) /\ T \in SUBSET (Slots \ {mp})
      BY <3>3 DEF Closed
    <3> QED
      BY <3>1, <3>4 DEF Reaches
  <2>5. CASE n # freen
    <3> DEFINE h == MainPosition(node[n].key)
               T == {m \in Slots : IF m = mp THEN freen \in S ELSE m # freen /\ m \in S}
    <3>1. Used(n) /\ h \in S
      BY <1>10, <1>11, <2>1, <2>3, <2>5
    <3>2. /\ h \in Slots /\ Used(h) /\ MainPosition(node[h].key) = h
          /\ Reaches(h, n)
      BY <3>1, HeadsHoldTheirChain DEF ChainInv, EveryKeyFound
    <3>3. h \in T /\ n \notin T
      BY <1>1, <1>2, <2>1, <2>3, <3>1, <3>2
    <3>4. ASSUME NEW m \in T, node[m].next # None PROVE node[m].next \in T
      <4> DEFINE x == node[m].next
      <4>1. x \in Slots /\ x # freen
        BY <1>2, <1>7, <3>4 DEF NodeType
      <4>2. CASE m = mp
        <5>1. x \in S
          BY <1>10, <2>2, <3>4, <4>2
        <5>2. x # mp
          BY <1>5, <1>6, <4>2
        <5> QED
          BY <4>1, <5>1, <5>2
      <4>3. CASE m = p
        <5>1. freen \in S
          BY <1>2, <1>4, <1>6, <1>9, <2>2, <3>4, <4>3
        <5> QED
          BY <1>1, <1>5, <4>3, <5>1
      <4>4. CASE m # mp /\ m # p
        <5>1. m \in S /\ m # freen
          BY <3>4, <4>4
        <5>2. x \in S
          BY <1>10, <2>2, <3>4, <4>4, <5>1
        <5>3. x # mp
          BY <1>6, <4>4
        <5> QED
          BY <4>1, <5>2, <5>3
      <4> QED
        BY <4>2, <4>3, <4>4
    <3>5. Closed(T) /\ T \in SUBSET (Slots \ {n})
      BY <3>3, <3>4 DEF Closed
    <3> QED
      BY <3>2, <3>3, <3>5 DEF Reaches
  <2> QED
    BY <2>4, <2>5
<1>16. StoredOnce'
  <2>1. \A j : InArray(j)' <=> InArray(j)
    BY DEF InArray
  <2>2. ~InArray(k) /\ \A n \in Slots : node[n].key # k
    BY InsertedKeyIsNew DEF ChainInv, Inserts, Absent
  <2>3. \A n \in Slots : Used(n) => ~InArray(node[n].key)
    BY DEF ChainInv, StoredOnce
  <2>4. \A m, n \in Slots : Used(m) /\ node[m].key = node[n].key => m = n
    BY DEF ChainInv, StoredOnce
  <2>5. ASSUME NEW m \in Slots, NEW n \in Slots, node'[m].key # None, node'[m].key = node'[n].key
        PROVE  m = n
    BY <1>1, <1>2, <1>10, <1>11, <2>2, <2>4, <2>5 DEF Used
  <2>6. ASSUME NEW n \in Slots, node'[n].key # None PROVE ~InArray(node'[n].key)
    BY <1>1, <1>10, <1>11, <2>2, <2>3, <2>6
  <2> QED
    BY <1>4, <2>1, <2>5, <2>6 DEF StoredOnce, Used
<1> QED
  BY <1>4, <1>7, <1>9, <1>12, <1>13, <1>14, <1>15, <1>16 DEF NodesOK, ChainInv

-----------------------------------------------------------------------------
(* Values come and go without touching the chains.                         *)
LEMMA SameLinksKeepInv ==
  ASSUME TypeOK, ChainInv, UNCHANGED <<size, firstfree>>, Len(array') = Len(array),
         \A n \in Slots : node'[n].key = node[n].key /\ node'[n].next = node[n].next
  PROVE  ChainInv'
<1>1. Slots' = Slots /\ \A j : MainPosition(j)' = MainPosition(j)
  BY DEF Slots, MainPosition
<1>2. \A n \in Slots : Used(n)' <=> Used(n)
  BY DEF Used
<1>3. FirstFreeBound'
  BY <1>1, <1>2 DEF ChainInv, FirstFreeBound
<1>4. ChainShape'
  <2>1. SUFFICES ASSUME NEW n \in Slots, node[n].next # None
                 PROVE  /\ node[n].next # n /\ node'[node[n].next].key # None
                        /\ MainPosition(node'[node[n].next].key) = MainPosition(node[n].key)
                        /\ \A m \in Slots : node[m].next = node[n].next => m = n
    BY <1>1 DEF ChainShape, Used
  <2>2. node[n].next \in Slots
    BY <2>1 DEF TypeOK, NodeType
  <2> QED
    BY <2>1, <2>2 DEF ChainInv, ChainShape, Used
<1>5. EveryKeyFound'
  <2>1. \A S \in SUBSET Slots : Closed(S)' <=> Closed(S)
    BY DEF Closed
  <2>2. \A h, n \in Slots : Reaches(h, n)' <=> Reaches(h, n)
    BY <1>1, <2>1 DEF Reaches
  <2>3. SUFFICES ASSUME NEW n \in Slots, Used(n)
                 PROVE  Reaches(MainPosition(node[n].key), n)'
    BY <1>1, <1>2 DEF EveryKeyFound
  <2>4. size # 0
    BY DEF Slots, TypeOK
  <2>5. MainPosition(node[n].key) \in Slots /\ Reaches(MainPosition(node[n].key), n)
    BY <2>3, <2>4, HeadsHoldTheirChain DEF ChainInv, EveryKeyFound, TypeOK
  <2> QED
    BY <1>1, <2>2, <2>5
<1>6. StoredOnce'
  <2>1. \A j : InArray(j)' <=> InArray(j)
    BY DEF InArray
  <2> QED
    BY <1>1, <1>2, <2>1 DEF ChainInv, StoredOnce
<1> QED
  BY <1>3, <1>4, <1>5, <1>6 DEF ChainInv

(* The node nodeindex finds holds the key.                                 *)
LEMMA NodeIndexFinds ==
  ASSUME NEW k, Matches(k) # {}
  PROVE  NodeIndex(k) \in Slots /\ node[NodeIndex(k)].key = k
<1>1. NodeIndex(k) \in Matches(k)
  BY DEF NodeIndex
<1> QED
  BY <1>1 DEF Matches

LEMMA WriteArrayTypes ==
  ASSUME TypeOK, NEW k \in Keys, InArray(k), NEW v \in Vals \union {None},
         array' = [array EXCEPT ![AsInt(k)] = v]
  PROVE  /\ array' \in Seq(Vals \union {None}) /\ Len(array') = Len(array)
         /\ \A i \in 1 .. Len(array') : array'[i] # None => i \in IntKeys
<1>1. AsInt(k) \in 1 .. Len(array) /\ AsInt(k) \in IntKeys
  BY KeysAssumption DEF InArray
<1>2. array \in Seq(Vals \union {None}) /\ \A i \in 1 .. Len(array) : array[i] # None => i \in IntKeys
  BY DEF TypeOK
<1>3. array' \in Seq(Vals \union {None}) /\ Len(array') = Len(array)
  BY <1>1, <1>2
<1> QED
  BY <1>1, <1>2, <1>3

(* set() without its rehash.                                               *)
LEMMA PutKeepsInv ==
  ASSUME TypeOK, ChainInv, NEW k \in Keys, NEW v \in Vals, Put(k, v)
  PROVE  /\ NodesOK' /\ ChainInv'
         /\ array' \in Seq(Vals \union {None})
         /\ \A i \in 1 .. Len(array') : array'[i] # None => i \in IntKeys
         /\ size' \in Nat
         /\ other' \in [Keys -> Vals \union {None}]
<1>1. size \in Nat /\ NodesOK /\ other \in [Keys -> Vals \union {None}]
  BY DEF TypeOK, NodesOK
<1>2. CASE WriteArray(k, v)
  <2>1. UNCHANGED <<size, node, firstfree, other>> /\ InArray(k) /\ array' = [array EXCEPT ![AsInt(k)] = v]
    BY <1>2 DEF WriteArray
  <2>2. NodesOK'
    BY <1>1, <2>1 DEF NodesOK, NodeType, Slots, Used
  <2> QED
    BY <1>1, <2>1, <2>2, WriteArrayTypes, SameLinksKeepInv
<1>3. CASE WriteNode(k, v)
  <2> DEFINE n == NodeIndex(k)
  <2>1. /\ UNCHANGED <<array, size, firstfree, other>>
        /\ n \in Slots /\ node[n].key = k
        /\ node' = [node EXCEPT ![n].val = v]
    BY <1>3, NodeIndexFinds DEF WriteNode
  <2>2. Slots' = Slots /\ NodeType' = NodeType /\ k # None
    BY <2>1, NoneAssumption DEF Slots, NodeType
  <2>3. node' \in [Slots -> NodeType] /\ \A m \in Slots \ {n} : node'[m] = node[m]
    BY <1>1, <2>1 DEF NodesOK, NodeType
  <2>4. node'[n].key = k /\ node'[n].next = node[n].next
    BY <1>1, <2>1 DEF NodesOK, NodeType
  <2>5. NodesOK'
    BY <1>1, <2>1, <2>2, <2>3, <2>4 DEF NodesOK, Used, FreeNode
  <2>6. ChainInv'
    BY <2>1, <2>3, <2>4, SameLinksKeepInv
  <2> QED
    BY <1>1, <2>1, <2>5, <2>6 DEF TypeOK
<1>4. CASE NewIndexFallback(k, v)
  <2>1. UNCHANGED <<array, size, node, firstfree>> /\ other' = [other EXCEPT ![k] = v]
    BY <1>4 DEF NewIndexFallback, parts
  <2>2. NodesOK'
    BY <1>1, <2>1 DEF NodesOK, NodeType, Slots, Used
  <2>3. ChainInv'
    BY <2>1, SameLinksKeepInv
  <2> QED
    BY <1>1, <2>1, <2>2, <2>3 DEF TypeOK
<1>5. CASE WriteNew(k, v)
  <2>1. size \in Nat \ {0} /\ Inserts(k) /\ InsertKey(k, v) /\ UNCHANGED <<array, size, other>>
    BY <1>1, <1>5 DEF WriteNew, MustRehash
  <2>2. NodesOK' /\ ChainInv'
    BY <2>1, InsertFreeKeepsInv, InsertBehindKeepsInv, InsertMoveKeepsInv DEF InsertKey
  <2> QED
    BY <1>1, <2>1, <2>2 DEF TypeOK
<1> QED
  BY <1>2, <1>3, <1>4, <1>5 DEF Put

(* The list of entries that a resize re-inserts.                           *)
LEMMA OldEntriesType ==
  ASSUME TypeOK, NEW n \in Nat
  PROVE  /\ OldEntries(n) \in Seq([key : Keys \union Int \union {None}, val : Vals \union {None}])
         /\ \A i \in 1 .. Len(OldEntries(n)) :
              OldEntries(n)[i].val # None => OldEntries(n)[i].key \in Keys
<1> DEFINE slice == IF Len(array) > n THEN Len(array) - n ELSE 0
           E(i) == IF i <= slice THEN Entry(n + i, array[n + i])
                   ELSE Entry(node[size - (i - slice)].key, node[size - (i - slice)].val)
           Ents == [key : Keys \union Int \union {None}, val : Vals \union {None}]
<1>1. /\ array \in Seq(Vals \union {None}) /\ size \in Nat
      /\ \A i \in 1 .. Len(array) : array[i] # None => i \in IntKeys
      /\ node \in [Slots -> NodeType]
      /\ \A m \in Slots : ~Used(m) => node[m] = FreeNode
  BY DEF TypeOK
<1>2. slice \in Nat /\ Len(array) \in Nat
  BY <1>1
<1>3. ASSUME NEW i \in 1 .. slice + size
      PROVE  E(i) \in Ents /\ (E(i).val # None => E(i).key \in Keys)
  <2>1. CASE i <= slice
    <3>1. n + i \in 1 .. Len(array)
      BY <1>2, <1>3, <2>1
    <3>2. array[n + i] \in Vals \union {None}
      BY <1>1, <3>1
    <3> QED
      BY <1>1, <2>1, <3>1, <3>2 DEF Entry, Keys
  <2>2. CASE ~(i <= slice)
    <3> DEFINE m == size - (i - slice)
    <3>1. m \in Slots
      BY <1>1, <1>2, <1>3, <2>2 DEF Slots
    <3>2. node[m] \in NodeType /\ (node[m].key = None => node[m] = FreeNode)
      BY <1>1, <3>1 DEF Used
    <3>3. E(i) = [key |-> node[m].key, val |-> node[m].val]
      BY <2>2 DEF Entry
    <3> QED
      BY <3>2, <3>3 DEF NodeType, FreeNode
  <2> QED
    BY <2>1, <2>2
<1>4. OldEntries(n) = [i \in 1 .. slice + size |-> E(i)]
  BY DEF OldEntries
<1> HIDE DEF slice, E
<1>5. OldEntries(n) \in Seq(Ents) /\ Len(OldEntries(n)) = slice + size
  BY <1>1, <1>2, <1>3, <1>4
<1> QED
  BY <1>3, <1>4, <1>5

(* A rehash starts over with free nodes only.                              *)
LEMMA RehashKeepsInv ==
  ASSUME TypeOK, NEW k \in Keys, NEW v \in Vals, Rehash(k, v)
  PROVE  TypeOK' /\ ChainInv'
<1>1. PICK nasize \in NewArraySizes :
        /\ array' = Resized(nasize)
        /\ todo' = OldEntries(nasize)
        /\ \E s \in Pow2 :
             size' = s /\ node' = [n \in 0 .. s - 1 |-> FreeNode] /\ firstfree' = s - 1
  BY DEF Rehash
<1>2. size' \in Nat \ {0} /\ node' = [n \in Slots' |-> FreeNode] /\ firstfree' = size' - 1
  BY <1>1, KeysAssumption DEF Pow2, Slots
<1>3. nasize \in Nat
  BY KeysAssumption DEF NewArraySizes, ArraySizes, Highest, Pow2
<1>4. call' = Entry(k, v) /\ UNCHANGED <<handler, other>>
  BY DEF Rehash
<1>5. array' \in Seq(Vals \union {None}) /\ \A i \in 1 .. Len(array') : array'[i] # None => i \in IntKeys
  <2>1. /\ array \in Seq(Vals \union {None})
        /\ \A i \in 1 .. Len(array) : array[i] # None => i \in IntKeys
    BY DEF TypeOK
  <2>2. Len(array) \in Nat /\ \A i \in 1 .. Len(array) : array[i] \in Vals \union {None}
    BY <2>1
  <2>3. array' = [i \in 1 .. nasize |-> IF i <= Len(array) THEN array[i] ELSE None]
    BY <1>1 DEF Resized
  <2>4. ASSUME NEW i \in 1 .. nasize
        PROVE  array'[i] \in Vals \union {None} /\ (array'[i] # None => i \in IntKeys)
    BY <1>3, <2>1, <2>2, <2>3, <2>4
  <2>5. array' \in Seq(Vals \union {None}) /\ Len(array') = nasize
    BY <1>3, <2>3, <2>4
  <2> QED
    BY <2>4, <2>5
<1>6. /\ todo' \in Seq([key : Keys \union Int \union {None}, val : Vals \union {None}])
      /\ \A i \in 1 .. Len(todo') : todo'[i].val # None => todo'[i].key \in Keys
  BY <1>1, <1>3, OldEntriesType
<1>7. /\ node' \in [Slots' -> NodeType']
      /\ \A n \in Slots' : ~Used(n)' /\ node'[n] = FreeNode
  BY <1>2 DEF FreeNode, NodeType, Used
<1>8. call' \in [key : Keys, val : Vals] \union {None} /\ call' # None
  <2>1. call' \in [key : Keys, val : Vals]
    BY <1>4 DEF Entry
  <2> QED
    BY <2>1, NoneAssumption
<1>9. TypeOK'
  <2>1. UNCHANGED <<handler, other>> /\ handler \in BOOLEAN /\ other \in [Keys -> Vals \union {None}]
    BY <1>4 DEF TypeOK
  <2>2. size' \in Nat \ {0} /\ firstfree' \in Nat
    <3>1. size' \in Nat \ {0} /\ firstfree' = size' - 1
      BY <1>2
    <3>2. \A n \in Nat \ {0} : n - 1 \in Nat
      OBVIOUS
    <3> QED
      BY <3>1, <3>2
  <2> QED
    BY <1>5, <1>6, <1>7, <1>8, <2>1, <2>2 DEF TypeOK
<1>10. \A n \in Slots' : node'[n].next = None
  BY <1>7 DEF FreeNode
<1>11. FirstFreeBound'
  <2>1. size' \in Nat /\ firstfree' = size' - 1
    BY <1>2
  <2>2. ASSUME NEW s \in Nat, NEW n \in 0 .. s - 1 PROVE ~(n > s - 1)
    OBVIOUS
  <2> QED
    BY <2>1, <2>2 DEF FirstFreeBound, Slots
<1>12. ChainInv'
  BY <1>7, <1>10, <1>11 DEF ChainInv, ChainShape, EveryKeyFound, StoredOnce
<1> QED
  BY <1>9, <1>12

-----------------------------------------------------------------------------
(* The inductive invariant: neither part holds on its own, since insertkey *)
(* finds the node before the one it moves only in well-formed chains.      *)
Inv == TypeOK /\ ChainInv

LEMMA InitInv == Init => Inv
<1> SUFFICES ASSUME Init PROVE Inv
  OBVIOUS
<1>1. /\ size = 0 /\ Slots = {} /\ array = <<>> /\ todo = <<>> /\ call = None
      /\ node = [n \in Slots |-> FreeNode]
  BY DEF Init, Slots
<1>2. node \in [Slots -> NodeType]
  BY <1>1 DEF Init
<1>3. /\ array \in Seq(Vals \union {None}) /\ 1 .. Len(array) = {}
      /\ todo \in Seq([key : Keys \union Int \union {None}, val : Vals \union {None}])
      /\ 1 .. Len(todo) = {}
  BY <1>1
<1>4. firstfree = 0 /\ handler = FALSE /\ other = [k \in Keys |-> None]
  BY DEF Init
<1>5. TypeOK
  BY <1>1, <1>2, <1>3, <1>4 DEF TypeOK
<1>6. ChainInv
  BY <1>1 DEF ChainInv, FirstFreeBound, ChainShape, EveryKeyFound, StoredOnce
<1> QED
  BY <1>5, <1>6 DEF Inv

LEMMA NextKeepsInv == Inv /\ [Next]_vars => Inv'
<1> SUFFICES ASSUME Inv, [Next]_vars PROVE Inv'
  OBVIOUS
<1> USE DEF Inv
<1>1. ASSUME NEW k \in Keys, NEW v \in Vals, Set(k, v) PROVE Inv'
  <2>1. CASE Put(k, v) /\ UNCHANGED <<todo, call, handler>>
    <3>1. TypeOK' /\ ChainInv'
      BY <2>1, PutKeepsInv DEF TypeOK, NodesOK
    <3> QED
      BY <3>1
  <2>2. CASE Rehash(k, v)
    BY <2>2, RehashKeepsInv
  <2> QED
    BY <1>1, <2>1, <2>2 DEF Set
<1>2. ASSUME NEW k \in Keys, Remove(k) PROVE Inv'
  <2>1. /\ UNCHANGED <<size, firstfree, todo, call, handler, other>>
        /\ RawGet(k) # None
    BY <1>2 DEF Remove
  <2>2. CASE InArray(k)
    <3>1. array' = [array EXCEPT ![AsInt(k)] = None] /\ UNCHANGED node
      BY <1>2, <2>2 DEF Remove
    <3>2. ChainInv'
      BY <2>1, <2>2, <3>1, WriteArrayTypes, SameLinksKeepInv
    <3>3. TypeOK'
      BY <2>1, <2>2, <3>1, WriteArrayTypes DEF TypeOK, NodeType, Slots, Used
    <3> QED
      BY <3>2, <3>3
  <2>3. CASE ~InArray(k)
    <3> DEFINE n == NodeIndex(k)
    <3>1. node' = [node EXCEPT ![n].val = None] /\ UNCHANGED array
      BY <1>2, <2>3 DEF Remove
    <3>2. n \in Slots /\ node[n].key = k
      BY <2>1, <2>3, NodeIndexFinds DEF RawGet, NodeIndex
    <3>3. node \in [Slots -> NodeType] /\ k # None
      BY NoneAssumption DEF TypeOK
    <3>4. /\ node' \in [Slots -> NodeType]
          /\ node'[n].key = k /\ node'[n].next = node[n].next
          /\ \A m \in Slots \ {n} : node'[m] = node[m]
      BY <3>1, <3>2, <3>3 DEF NodeType
    <3>5. TypeOK'
      BY <2>1, <3>1, <3>3, <3>4 DEF TypeOK, NodeType, Slots, Used, FreeNode
    <3>6. ChainInv'
      BY <2>1, <3>1, <3>2, <3>4, SameLinksKeepInv
    <3> QED
      BY <3>5, <3>6
  <2> QED
    BY <2>2, <2>3
<1>3. ASSUME Reinsert PROVE Inv'
  <2>1. /\ todo # <<>> /\ todo' = Tail(todo) /\ UNCHANGED <<call, handler>>
    BY <1>3 DEF Reinsert
  <2> DEFINE e == Head(todo)
             Ents == [key : Keys \union Int \union {None}, val : Vals \union {None}]
  <2>2. /\ todo \in Seq(Ents)
        /\ \A i \in 1 .. Len(todo) : todo[i].val # None => todo[i].key \in Keys
        /\ call # None
    BY <2>1 DEF TypeOK
  <2>3. /\ todo' \in Seq(Ents)
        /\ \A i \in 1 .. Len(todo') : todo'[i] = todo[i + 1] /\ i + 1 \in 1 .. Len(todo)
    <3>1. todo' = Tail(todo) /\ todo # <<>> /\ todo \in Seq(Ents)
      BY <2>1, <2>2
    <3> HIDE DEF Ents
    <3> QED
      BY <3>1
  <2>4. \A i \in 1 .. Len(todo') : todo'[i].val # None => todo'[i].key \in Keys
    BY <2>2, <2>3
  <2>5. CASE UNCHANGED <<parts, other>>
    <3>1. ChainInv'
      BY <2>5, SameLinksKeepInv DEF parts
    <3>2. TypeOK'
      BY <2>1, <2>2, <2>3, <2>4, <2>5 DEF parts, TypeOK, NodeType, Slots, Used
    <3> QED
      BY <3>1, <3>2
  <2>6. CASE e.val # None /\ Put(e.key, e.val)
    <3>1. e \in Ents /\ e = todo[1] /\ 1 \in 1 .. Len(todo)
      <4>1. todo # <<>> /\ todo \in Seq(Ents)
        BY <2>1, <2>2
      <4> HIDE DEF Ents
      <4> QED
        BY <4>1
    <3>2. e.key \in Keys /\ e.val \in Vals
      BY <2>2, <2>6, <3>1
    <3>3. TypeOK' /\ ChainInv'
      BY <2>1, <2>2, <2>3, <2>4, <2>6, <3>2, PutKeepsInv DEF TypeOK, NodesOK
    <3> QED
      BY <3>3
  <2> QED
    BY <1>3, <2>5, <2>6 DEF Reinsert
<1>4. ASSUME FinishSet PROVE Inv'
  <2>1. /\ call.key \in Keys /\ call.val \in Vals
        /\ todo = <<>> /\ call' = None
        /\ Put(call.key, call.val) /\ UNCHANGED <<todo, handler>>
    BY <1>4 DEF FinishSet, TypeOK
  <2>2. TypeOK' /\ ChainInv'
    BY <2>1, PutKeepsInv DEF TypeOK, NodesOK
  <2> QED
    BY <2>2
<1>5. ASSUME HandlerFails PROVE Inv'
  <2>1. /\ UNCHANGED <<array, size, node, firstfree, handler, other>>
        /\ todo' = <<>> /\ call' = None
    BY <1>5 DEF HandlerFails, parts
  <2>2. ChainInv'
    BY <2>1, SameLinksKeepInv
  <2>3. /\ todo' \in Seq([key : Keys \union Int \union {None}, val : Vals \union {None}])
        /\ \A i : i \notin 1 .. Len(todo')
    BY <2>1
  <2>4. TypeOK'
    BY <2>1, <2>3 DEF TypeOK, NodeType, Slots, Used
  <2> QED
    BY <2>2, <2>4
<1>6. ASSUME SetMetatable \/ UNCHANGED vars PROVE Inv'
  <2>1. UNCHANGED <<array, size, node, firstfree, todo, call, other>> /\ handler' \in BOOLEAN
    BY <1>6 DEF SetMetatable, vars, parts, TypeOK
  <2>2. ChainInv'
    BY <2>1, SameLinksKeepInv
  <2>3. TypeOK'
    BY <2>1 DEF TypeOK, NodeType, Slots, Used
  <2> QED
    BY <2>2, <2>3
<1> QED
  BY <1>1, <1>2, <1>3, <1>4, <1>5, <1>6 DEF Next

LEMMA InvHolds == Spec => []Inv
<1> QED
  BY InitInv, NextKeepsInv, PTL DEF Spec

(* The table keeps its shape whatever is done to it.                       *)
THEOREM TypeCorrect == Spec => []TypeOK
<1>1. Inv => TypeOK
  BY DEF Inv
<1> QED
  BY <1>1, InvHolds, PTL

(* rawget finds every key that has a node: no collision, move, removal or  *)
(* rehash cuts a key off from the chain it is looked up in.                *)
THEOREM KeysAreFound == Spec => []EveryKeyFound
<1>1. Inv => EveryKeyFound
  BY DEF Inv, ChainInv
<1> QED
  BY <1>1, InvHolds, PTL

(* The links of the node part form separate lists, one to a main position. *)
THEOREM ChainsAreLists == Spec => []ChainShape
<1>1. Inv => ChainShape
  BY DEF Inv, ChainInv
<1> QED
  BY <1>1, InvHolds, PTL

(* A key is in at most one place.                                          *)
THEOREM KeysAreStoredOnce == Spec => []StoredOnce
<1>1. Inv => StoredOnce
  BY DEF Inv, ChainInv
<1> QED
  BY <1>1, InvHolds, PTL

(* getfreepos misses no free node.                                         *)
THEOREM NoFreeNodeAbove == Spec => []FirstFreeBound
<1>1. Inv => FirstFreeBound
  BY DEF Inv, ChainInv
<1> QED
  BY <1>1, InvHolds, PTL

-----------------------------------------------------------------------------
(* The table as a map.  The theorems of this part and of the next are      *)
(* about keys that fit a C int: of two integers that are cut down to the   *)
(* same one, the array part stores the last written.                       *)

IntsFit == IntKeys \subseteq -HalfInt .. HalfInt - 1

LEMMA AsIntIsKey ==
  ASSUME IntsFit, NEW k \in IntKeys
  PROVE  AsInt(k) = k
<1>1. HalfInt \in Nat \ {0} /\ k \in -HalfInt .. HalfInt - 1
  BY KeysAssumption DEF IntsFit
<1>2. \A a \in Nat, b \in Nat \ {0} : a < b => a % b = a
  OBVIOUS
<1>3. k + HalfInt \in Nat /\ 2 * HalfInt \in Nat \ {0} /\ k + HalfInt < 2 * HalfInt
  BY <1>1
<1>4. (k + HalfInt) % (2 * HalfInt) = k + HalfInt
  BY <1>2, <1>3
<1> QED
  BY <1>1, <1>4 DEF AsInt

(* rawget gives what the array part or the node of a key holds.            *)
RawGetFinds ==
  \A k \in Keys :
    /\ InArray(k) => RawGet(k) = array[AsInt(k)]
    /\ \A n \in Slots : ~InArray(k) /\ node[n].key = k => RawGet(k) = node[n].val
    /\ ~InArray(k) /\ (\A n \in Slots : node[n].key # k) => RawGet(k) = None

LEMMA RawGetIsRight == EveryKeyFound /\ StoredOnce => RawGetFinds
<1> SUFFICES ASSUME EveryKeyFound, StoredOnce, NEW k \in Keys
             PROVE  /\ InArray(k) => RawGet(k) = array[AsInt(k)]
                    /\ \A n \in Slots : ~InArray(k) /\ node[n].key = k => RawGet(k) = node[n].val
                    /\ ~InArray(k) /\ (\A n \in Slots : node[n].key # k) => RawGet(k) = None
  BY DEF RawGetFinds
<1>1. k # None /\ None \notin Slots
  BY NoneAssumption DEF Slots
<1>2. InArray(k) => RawGet(k) = array[AsInt(k)]
  BY DEF RawGet
<1>3. ASSUME NEW n \in Slots, ~InArray(k), node[n].key = k
      PROVE  RawGet(k) = node[n].val
  <2>1. n \in Matches(k)
    BY <1>1, <1>3 DEF Matches, EveryKeyFound, Used
  <2>2. \A m \in Matches(k) : m = n
    BY <1>1, <1>3 DEF Matches, StoredOnce, Used
  <2>3. NodeIndex(k) = n
    BY <2>1, <2>2 DEF NodeIndex
  <2> QED
    BY <1>1, <1>3, <2>3 DEF RawGet
<1>4. ASSUME ~InArray(k), \A n \in Slots : node[n].key # k
      PROVE  RawGet(k) = None
  <2>1. Matches(k) = {}
    BY <1>4 DEF Matches
  <2> QED
    BY <1>4, <2>1 DEF RawGet, NodeIndex
<1> QED
  BY <1>2, <1>3, <1>4

(* k has the value v now, and no other key has another value than before.  *)
Becomes(k, v) == RawGet(k)' = v /\ \A j \in Keys : j # k => RawGet(j)' = RawGet(j)

LEMMA ArraySlotIsSet ==
  ASSUME Inv, IntsFit, ChainInv', NEW k \in Keys, InArray(k), NEW v,
         array' = [array EXCEPT ![AsInt(k)] = v], UNCHANGED <<size, node>>
  PROVE  Becomes(k, v)
<1>1. RawGetFinds /\ RawGetFinds'
  BY RawGetIsRight, PTL DEF Inv, ChainInv
<1>2. array \in Seq(Vals \union {None}) /\ AsInt(k) \in 1 .. Len(array)
  BY DEF Inv, TypeOK, InArray
<1>3. /\ Len(array') = Len(array) /\ array'[AsInt(k)] = v
      /\ \A i \in 1 .. Len(array) : i # AsInt(k) => array'[i] = array[i]
  BY <1>2
<1>4. Slots' = Slots /\ \A j : InArray(j)' <=> InArray(j)
  BY <1>3 DEF InArray, Slots
<1>5. RawGet(k)' = v
  BY <1>1, <1>3, <1>4 DEF RawGetFinds
<1>6. ASSUME NEW j \in Keys, j # k
      PROVE  RawGet(j)' = RawGet(j)
  <2>1. CASE InArray(j)
    <3>1. AsInt(j) # AsInt(k) /\ AsInt(j) \in 1 .. Len(array)
      BY <1>6, <2>1, AsIntIsKey DEF InArray
    <3> QED
      BY <1>1, <1>3, <1>4, <2>1, <3>1 DEF RawGetFinds
  <2>2. CASE ~InArray(j) /\ \A n \in Slots : node[n].key # j
    BY <1>1, <1>4, <2>2 DEF RawGetFinds
  <2>3. CASE ~InArray(j) /\ \E n \in Slots : node[n].key = j
    BY <1>1, <1>4, <2>3 DEF RawGetFinds
  <2> QED
    BY <2>1, <2>2, <2>3
<1> QED
  BY <1>5, <1>6 DEF Becomes

LEMMA NodeIsSet ==
  ASSUME Inv, ChainInv', NEW k \in Keys, ~InArray(k), NEW v,
         NEW n \in Slots, node[n].key = k, node' = [node EXCEPT ![n].val = v],
         UNCHANGED <<array, size>>
  PROVE  Becomes(k, v)
<1>1. RawGetFinds /\ RawGetFinds'
  BY RawGetIsRight, PTL DEF Inv, ChainInv
<1>2. node \in [Slots -> NodeType]
  BY DEF Inv, TypeOK
<1>3. /\ node'[n].key = k /\ node'[n].val = v
      /\ \A m \in Slots \ {n} : node'[m] = node[m]
  BY <1>2 DEF NodeType
<1>4. Slots' = Slots /\ \A j : InArray(j)' <=> InArray(j)
  BY DEF InArray, Slots
<1>5. RawGet(k)' = v
  BY <1>1, <1>3, <1>4 DEF RawGetFinds
<1>6. ASSUME NEW j \in Keys, j # k
      PROVE  RawGet(j)' = RawGet(j)
  <2>1. CASE InArray(j)
    BY <1>1, <1>4, <2>1 DEF RawGetFinds
  <2>2. CASE ~InArray(j) /\ \A m \in Slots : node[m].key # j
    <3>1. \A m \in Slots : node'[m].key # j
      BY <1>3, <1>6, <2>2
    <3> QED
      BY <1>1, <1>4, <2>2, <3>1 DEF RawGetFinds
  <2>3. CASE ~InArray(j) /\ \E m \in Slots : node[m].key = j
    <3>1. PICK m \in Slots : node[m].key = j
      BY <2>3
    <3>2. m # n /\ node'[m] = node[m]
      BY <1>3, <1>6, <3>1
    <3> QED
      BY <1>1, <1>4, <2>3, <3>1, <3>2 DEF RawGetFinds
  <2> QED
    BY <2>1, <2>2, <2>3
<1> QED
  BY <1>5, <1>6 DEF Becomes

(* insertkey may move a key to another node, but not its value to another  *)
(* key.                                                                    *)
HoldsToo(k, v) ==
  /\ \E n \in Slots : node'[n].key = k /\ node'[n].val = v
  /\ \A m \in Slots : Used(m) =>
       \E n \in Slots : node'[n].key = node[m].key /\ node'[n].val = node[m].val
  /\ \A n \in Slots : node'[n].key \in {k, None} \/ \E m \in Slots : node[m].key = node'[n].key

LEMMA InsertKeepsValues ==
  ASSUME Inv, size \in Nat \ {0}, NEW k \in Keys, NEW v, InsertKey(k, v)
  PROVE  HoldsToo(k, v)
<1> DEFINE mp == MainPosition(k)
<1>0. mp \in Slots /\ node \in [Slots -> NodeType] /\ k # None /\ None \notin Slots
  BY MainPositionInSlots, NoneAssumption DEF Inv, TypeOK, Slots
<1>1. CASE InsertFree(k, v)
  <2>1. node' = [node EXCEPT ![mp] = [key |-> k, val |-> v, next |-> node[mp].next]] /\ ~Used(mp)
    BY <1>1 DEF InsertFree
  <2>2. node'[mp].key = k /\ node'[mp].val = v /\ \A n \in Slots \ {mp} : node'[n] = node[n]
    BY <1>0, <2>1
  <2> QED
    BY <1>0, <2>1, <2>2 DEF HoldsToo
<1>2. ASSUME NEW freen \in Highest(FreeBelow), InsertBehind(k, v, freen)
      PROVE  HoldsToo(k, v)
  <2>1. /\ freen \in Slots /\ ~Used(freen) /\ Used(mp) /\ mp # freen
        /\ node' = [node EXCEPT ![freen] = [key |-> k, val |-> v, next |-> node[mp].next],
                                ![mp].next = freen]
    BY <1>2, FreeNodeIsApart DEF InsertBehind, Inv
  <2>2. /\ node'[freen].key = k /\ node'[freen].val = v
        /\ node'[mp].key = node[mp].key /\ node'[mp].val = node[mp].val
        /\ \A n \in Slots \ {mp, freen} : node'[n] = node[n]
    BY <1>0, <2>1 DEF NodeType
  <2> QED
    BY <1>0, <2>1, <2>2 DEF HoldsToo
<1>3. ASSUME NEW freen \in Highest(FreeBelow), InsertMove(k, v, freen)
      PROVE  HoldsToo(k, v)
  <2> DEFINE p == Prior(mp)
  <2>1. /\ freen \in Slots /\ ~Used(freen) /\ Used(mp) /\ mp # freen
        /\ MainPosition(node[mp].key) # mp
        /\ node' = [node EXCEPT ![Prior(mp)].next = freen,
                                ![freen] = node[mp],
                                ![mp] = [key |-> k, val |-> v, next |-> None]]
    BY <1>3, FreeNodeIsApart DEF InsertMove, Inv
  <2>2. p \in Slots /\ p # mp /\ p # freen
    <3> DEFINE h == MainPosition(node[mp].key)
    <3>1. h \in Slots /\ Reaches(h, mp) /\ h # mp
      BY <1>0, <2>1, HeadsHoldTheirChain DEF Inv, ChainInv, EveryKeyFound
    <3>2. \E m \in Slots : Reaches(h, m) /\ node[m].next = mp
      BY <1>0, <3>1, PriorExists DEF Inv
    <3>3. p \in Slots /\ node[p].next = mp
      BY <3>2 DEF Prior
    <3>4. node[p].next # None /\ node[freen].next = None
      BY <1>0, <2>1, <3>3 DEF Inv, TypeOK, FreeNode
    <3>5. p # mp
      BY <3>3, <3>4 DEF Inv, ChainInv, ChainShape
    <3> QED
      BY <3>3, <3>4, <3>5
  <2>3. /\ node'[freen] = node[mp] /\ node'[mp].key = k /\ node'[mp].val = v
        /\ node'[p].key = node[p].key /\ node'[p].val = node[p].val
        /\ \A n \in Slots \ {p, mp, freen} : node'[n] = node[n]
    BY <1>0, <2>1, <2>2 DEF NodeType
  <2>4. \A n \in Slots : n # mp /\ n # freen => node'[n].key = node[n].key /\ node'[n].val = node[n].val
    BY <2>3
  <2> QED
    BY <1>0, <2>1, <2>2, <2>3, <2>4 DEF HoldsToo
<1> QED
  BY <1>1, <1>2, <1>3 DEF InsertKey

LEMMA NewKeyIsSet ==
  ASSUME Inv, ChainInv', NEW k \in Keys, NEW v, WriteNew(k, v)
  PROVE  Becomes(k, v)
<1>1. RawGetFinds /\ RawGetFinds'
  BY RawGetIsRight, PTL DEF Inv, ChainInv
<1>2. /\ ~InArray(k) /\ InsertKey(k, v) /\ UNCHANGED <<array, size>> /\ size \in Nat \ {0}
  BY DEF WriteNew, Inserts, Absent, MustRehash, Inv, TypeOK
<1>3. HoldsToo(k, v)
  BY <1>2, InsertKeepsValues
<1>4. Slots' = Slots /\ \A j : InArray(j)' <=> InArray(j)
  BY <1>2 DEF InArray, Slots
<1>5. RawGet(k)' = v
  BY <1>1, <1>2, <1>3, <1>4 DEF RawGetFinds, HoldsToo
<1>6. ASSUME NEW j \in Keys, j # k
      PROVE  RawGet(j)' = RawGet(j)
  <2>0. j # None
    BY NoneAssumption
  <2>1. CASE InArray(j)
    BY <1>1, <1>2, <1>4, <2>1 DEF RawGetFinds
  <2>2. CASE ~InArray(j) /\ \A m \in Slots : node[m].key # j
    <3>1. \A n \in Slots : node'[n].key # j
      BY <1>3, <1>6, <2>0, <2>2 DEF HoldsToo
    <3> QED
      BY <1>1, <1>4, <2>2, <3>1 DEF RawGetFinds
  <2>3. CASE ~InArray(j) /\ \E m \in Slots : node[m].key = j
    <3>1. PICK m \in Slots : node[m].key = j
      BY <2>3
    <3>2. PICK n \in Slots : node'[n].key = j /\ node'[n].val = node[m].val
      BY <1>3, <2>0, <3>1 DEF HoldsToo, Used
    <3> QED
      BY <1>1, <1>4, <2>3, <3>1, <3>2 DEF RawGetFinds
  <2> QED
    BY <2>1, <2>2, <2>3
<1> QED
  BY <1>5, <1>6 DEF Becomes

(* set() without its rehash writes one entry, or leaves the table alone    *)
(* when the handler takes the write.                                       *)
LEMMA PutSets ==
  ASSUME Inv, IntsFit, NEW k \in Keys, NEW v \in Vals, Put(k, v), ~Diverts(k)
  PROVE  Becomes(k, v) /\ UNCHANGED other
<1>1. ChainInv'
  BY PutKeepsInv DEF Inv
<1>2. CASE WriteArray(k, v)
  BY <1>1, <1>2, ArraySlotIsSet DEF WriteArray
<1>3. CASE WriteNode(k, v)
  <2>1. NodeIndex(k) \in Slots /\ node[NodeIndex(k)].key = k
    BY <1>3, NodeIndexFinds DEF WriteNode
  <2> QED
    BY <1>1, <1>3, <2>1, NodeIsSet DEF WriteNode
<1>4. CASE WriteNew(k, v)
  BY <1>1, <1>4, NewKeyIsSet DEF WriteNew
<1> QED
  BY <1>2, <1>3, <1>4 DEF Put, NewIndexFallback

-----------------------------------------------------------------------------
(* The map through a rehash.                                               *)

(* The entries still to be re-inserted that hold k.                        *)
WaitingFor(k) == {i \in 1 .. Len(todo) : todo[i].key = k /\ todo[i].val # None}

WaitingApart ==
  \A i, j \in 1 .. Len(todo) :
    todo[i].val # None /\ todo[j].val # None /\ todo[i].key = todo[j].key => i = j

(* What waits is not in the table as well.                                 *)
WaitingAbsent == \A k \in WaitingKeys : RawGet(k) = None

(* The handler claims no key that has an entry, but for those that came in *)
(* unasked, nor the key that is being written.                             *)
NoneClaimed == handler => \A k \in Claimed \ Map!Late : Lookup(k) = None
CallUnclaimed == handler /\ call # None => call.key \notin Claimed

Kept ==
  /\ WaitingApart /\ WaitingAbsent
  /\ size = 0 => array = <<>> /\ call = None
  /\ NoneClaimed /\ CallUnclaimed

(* The value of a key is that of its waiting entry, if it has one.         *)
LookupRight ==
  \A k : /\ WaitingFor(k) = {} => Lookup(k) = RawGet(k)
         /\ \A i \in WaitingFor(k) : Lookup(k) = todo[i].val

LEMMA LookupIsRight == WaitingApart => LookupRight
<1> SUFFICES ASSUME WaitingApart, NEW k
             PROVE  /\ WaitingFor(k) = {} => Lookup(k) = RawGet(k)
                    /\ \A i \in WaitingFor(k) : Lookup(k) = todo[i].val
  BY DEF LookupRight
<1>1. WaitingFor(k) = {} => Lookup(k) = RawGet(k)
  BY DEF WaitingFor, Lookup
<1>2. ASSUME NEW i \in WaitingFor(k)
      PROVE  Lookup(k) = todo[i].val
  <2>1. \A j \in WaitingFor(k) : j = i
    BY <1>2 DEF WaitingFor, WaitingApart
  <2>2. Lookup(k) = todo[CHOOSE j \in WaitingFor(k) : TRUE].val
    BY <1>2 DEF WaitingFor, Lookup
  <2> QED
    BY <2>1, <2>2
<1> QED
  BY <1>1, <1>2

LEMMA IdleLookup ==
  ASSUME WaitingApart, todo = <<>>
  PROVE  \A k : Lookup(k) = RawGet(k)
<1>1. \A k : WaitingFor(k) = {}
  <2>1. Len(todo) = 0 /\ \A i : i \notin 1 .. 0
    OBVIOUS
  <2> QED
    BY <2>1 DEF WaitingFor
<1> QED
  BY <1>1, LookupIsRight DEF LookupRight

(* A write that takes the key out of the list of waiting ones, if it is in *)
(* it, changes one entry.                                                  *)
LEMMA EntrySet ==
  ASSUME WaitingApart, WaitingApart', NEW k \in Keys, NEW v, Becomes(k, v), WaitingFor(k)' = {},
         \A j \in Keys : j # k =>
           \/ WaitingFor(j) = {} /\ WaitingFor(j)' = {}
           \/ \E i \in WaitingFor(j) : \E h \in WaitingFor(j)' : todo'[h].val = todo[i].val
  PROVE  entries' = [entries EXCEPT ![k] = v]
<1>1. LookupRight /\ LookupRight'
  BY LookupIsRight, PTL
<1>2. Lookup(k)' = v
  BY <1>1 DEF LookupRight, Becomes
<1>3. \A j \in Keys : j # k => Lookup(j)' = Lookup(j)
  BY <1>1 DEF LookupRight, Becomes
<1> QED
  BY <1>2, <1>3 DEF entries

(* Where resize finds the old entries.                                     *)
LEMMA OldEntriesAre ==
  ASSUME TypeOK, NEW n \in Nat, NEW slice, slice = (IF Len(array) > n THEN Len(array) - n ELSE 0)
  PROVE  /\ slice \in Nat /\ Len(OldEntries(n)) = slice + size
         /\ \A i \in 1 .. slice : /\ n + i \in 1 .. Len(array)
                                  /\ OldEntries(n)[i].key = n + i
                                  /\ OldEntries(n)[i].val = array[n + i]
         /\ \A i \in slice + 1 .. slice + size :
              /\ slice + size - i \in Slots
              /\ OldEntries(n)[i].key = node[slice + size - i].key
              /\ OldEntries(n)[i].val = node[slice + size - i].val
<1>1. size \in Nat /\ Len(array) \in Nat
  BY DEF TypeOK
<1>2. slice \in Nat
  BY <1>1
<1>3. OldEntries(n) = [i \in 1 .. slice + size |->
         IF i <= slice THEN Entry(n + i, array[n + i])
         ELSE Entry(node[size - (i - slice)].key, node[size - (i - slice)].val)]
  BY DEF OldEntries
<1>4. OldEntries(n) \in Seq([key : Keys \union Int \union {None}, val : Vals \union {None}])
  BY OldEntriesType
<1>5. Len(OldEntries(n)) = slice + size
  BY <1>1, <1>2, <1>3, <1>4
<1>6. ASSUME NEW i \in 1 .. slice
      PROVE  /\ n + i \in 1 .. Len(array)
             /\ OldEntries(n)[i].key = n + i
             /\ OldEntries(n)[i].val = array[n + i]
  <2>1. i \in 1 .. slice + size /\ i <= slice /\ n + i \in 1 .. Len(array)
    BY <1>1, <1>2
  <2> QED
    BY <1>3, <2>1 DEF Entry
<1>7. ASSUME NEW i \in slice + 1 .. slice + size
      PROVE  /\ slice + size - i \in Slots
             /\ OldEntries(n)[i].key = node[slice + size - i].key
             /\ OldEntries(n)[i].val = node[slice + size - i].val
  <2>1. /\ i \in 1 .. slice + size /\ ~(i <= slice)
        /\ size - (i - slice) = slice + size - i /\ slice + size - i \in 0 .. size - 1
    BY <1>1, <1>2
  <2> QED
    BY <1>3, <2>1 DEF Entry, Slots
<1> QED
  BY <1>2, <1>5, <1>6, <1>7

(* The live entries of a list are those rawget finds, each of them once,   *)
(* but for those that stay in an array part of n slots.                    *)
ListsTheTable(list, n) ==
  /\ \A i \in 1 .. Len(list) : list[i].val # None =>
       /\ list[i].key \in Keys /\ RawGet(list[i].key) = list[i].val
       /\ ~(InArray(list[i].key) /\ AsInt(list[i].key) <= n)
  /\ \A i, j \in 1 .. Len(list) :
       list[i].val # None /\ list[j].val # None /\ list[i].key = list[j].key => i = j
  /\ \A k \in Keys : RawGet(k) # None /\ ~(InArray(k) /\ AsInt(k) <= n) =>
       \E i \in 1 .. Len(list) : list[i].key = k /\ list[i].val = RawGet(k)

LEMMA OldEntriesAreTheTable ==
  ASSUME Inv, IntsFit, NEW n \in Nat
  PROVE  ListsTheTable(OldEntries(n), n)
<1> DEFINE T == OldEntries(n)
<1> DEFINE slice == IF Len(array) > n THEN Len(array) - n ELSE 0
<1>0. slice = (IF Len(array) > n THEN Len(array) - n ELSE 0)
  OBVIOUS
<1> HIDE DEF slice
<1>1. /\ size \in Nat /\ Len(array) \in Nat
      /\ \A i \in 1 .. Len(array) : array[i] # None => i \in IntKeys
      /\ node \in [Slots -> NodeType]
      /\ \A m \in Slots : ~Used(m) => node[m] = FreeNode
      /\ RawGetFinds /\ StoredOnce
  BY RawGetIsRight DEF Inv, TypeOK, ChainInv
<1>2. /\ slice \in Nat /\ Len(T) = slice + size
      /\ \A i \in 1 .. slice : n + i \in 1 .. Len(array) /\ T[i].key = n + i /\ T[i].val = array[n + i]
      /\ \A i \in slice + 1 .. slice + size :
           /\ slice + size - i \in Slots
           /\ T[i].key = node[slice + size - i].key
           /\ T[i].val = node[slice + size - i].val
  BY <1>0, OldEntriesAre DEF Inv
<1> HIDE DEF T
<1>3. ASSUME NEW i \in 1 .. slice, T[i].val # None
      PROVE  /\ T[i].key \in Keys /\ InArray(T[i].key) /\ T[i].key = n + i
             /\ RawGet(T[i].key) = T[i].val /\ ~(AsInt(T[i].key) <= n)
  <2>1. n + i \in IntKeys /\ AsInt(n + i) = n + i
    BY <1>1, <1>2, <1>3, AsIntIsKey
  <2> QED
    BY <1>1, <1>2, <2>1 DEF InArray, RawGetFinds, Keys
<1>4. ASSUME NEW i \in slice + 1 .. slice + size, T[i].val # None
      PROVE  /\ Used(slice + size - i) /\ T[i].key = node[slice + size - i].key
             /\ T[i].key \in Keys /\ ~InArray(T[i].key) /\ RawGet(T[i].key) = T[i].val
  <2> DEFINE m == slice + size - i
  <2>1. m \in Slots /\ T[i].key = node[m].key /\ T[i].val = node[m].val
    BY <1>2
  <2> HIDE DEF m
  <2>2. Used(m)
    BY <1>1, <1>4, <2>1 DEF FreeNode
  <2>3. node[m].key \in Keys /\ ~InArray(node[m].key)
    BY <1>1, <2>1, <2>2 DEF NodeType, StoredOnce, Used
  <2>4. RawGet(node[m].key) = node[m].val
    BY <1>1, <2>1, <2>3 DEF RawGetFinds
  <2> QED
    BY <2>1, <2>2, <2>3, <2>4 DEF m
<1>5. \A i \in 1 .. Len(T) : i \in 1 .. slice \/ i \in slice + 1 .. slice + size
  BY <1>1, <1>2
<1>6. ASSUME NEW i \in 1 .. Len(T), NEW j \in 1 .. Len(T),
             T[i].val # None, T[j].val # None, T[i].key = T[j].key
      PROVE  i = j
  <2>1. CASE i \in 1 .. slice /\ j \in 1 .. slice
    <3>1. n + i = n + j
      BY <1>3, <1>6, <2>1
    <3> QED
      BY <1>2, <2>1, <3>1
  <2>2. CASE i \in slice + 1 .. slice + size /\ j \in slice + 1 .. slice + size
    <3>1. slice + size - i = slice + size - j
      BY <1>1, <1>2, <1>4, <1>6, <2>2 DEF StoredOnce
    <3> QED
      BY <1>1, <1>2, <2>2, <3>1
  <2>3. CASE i \in 1 .. slice /\ j \in slice + 1 .. slice + size
    BY <1>3, <1>4, <1>6, <2>3
  <2>4. CASE j \in 1 .. slice /\ i \in slice + 1 .. slice + size
    BY <1>3, <1>4, <1>6, <2>4
  <2> QED
    BY <1>5, <2>1, <2>2, <2>3, <2>4
<1>7. ASSUME NEW k \in Keys, RawGet(k) # None, ~(InArray(k) /\ AsInt(k) <= n)
      PROVE  \E i \in 1 .. Len(T) : T[i].key = k /\ T[i].val = RawGet(k)
  <2>1. CASE InArray(k)
    <3> DEFINE i == k - n
    <3>1. k \in IntKeys /\ AsInt(k) = k /\ k \in 1 .. Len(array)
      BY <2>1, AsIntIsKey DEF InArray
    <3>2. k \in Int /\ k > n
      BY <1>1, <1>7, <2>1, <3>1
    <3>3. i \in 1 .. slice /\ n + i = k /\ i \in 1 .. Len(T)
      BY <1>0, <1>1, <1>2, <3>1, <3>2
    <3>4. T[i].key = k /\ T[i].val = array[k]
      BY <1>2, <3>3
    <3> QED
      BY <1>1, <2>1, <3>1, <3>3, <3>4 DEF RawGetFinds
  <2>2. CASE ~InArray(k)
    <3>1. PICK m \in Slots : node[m].key = k
      BY <1>1, <1>7, <2>2 DEF RawGetFinds
    <3> DEFINE i == slice + size - m
    <3>2. m \in 0 .. size - 1
      BY <3>1 DEF Slots
    <3>3. i \in slice + 1 .. slice + size /\ slice + size - i = m /\ i \in 1 .. Len(T)
      BY <1>1, <1>2, <3>2
    <3>4. T[i].key = node[m].key /\ T[i].val = node[m].val
      BY <1>2, <3>3
    <3> QED
      BY <1>1, <2>2, <3>1, <3>3, <3>4 DEF RawGetFinds
  <2> QED
    BY <2>1, <2>2
<1> QED
  BY <1>3, <1>4, <1>5, <1>6, <1>7 DEF T, ListsTheTable
LEMMA RehashKeepsEntries ==
  ASSUME Inv, Kept, IntsFit, call = None, NEW k \in Keys, NEW v \in Vals, Inserts(k), Rehash(k, v)
  PROVE  Kept' /\ UNCHANGED <<entries, other>>
<1>1. PICK n \in NewArraySizes :
        /\ array' = Resized(n)
        /\ todo' = OldEntries(n)
        /\ \E s \in Pow2 : size' = s /\ node' = [m \in 0 .. s - 1 |-> FreeNode]
  BY DEF Rehash
<1>2. n \in Nat
  BY <1>1, KeysAssumption DEF NewArraySizes, ArraySizes, Highest, Pow2
<1>3. /\ \A i \in 1 .. Len(todo') : todo'[i].val # None =>
           /\ todo'[i].key \in Keys /\ RawGet(todo'[i].key) = todo'[i].val
           /\ ~(InArray(todo'[i].key) /\ AsInt(todo'[i].key) <= n)
      /\ \A i, j \in 1 .. Len(todo') :
           todo'[i].val # None /\ todo'[j].val # None /\ todo'[i].key = todo'[j].key => i = j
      /\ \A j \in Keys : RawGet(j) # None /\ ~(InArray(j) /\ AsInt(j) <= n) =>
           \E i \in 1 .. Len(todo') : todo'[i].key = j /\ todo'[i].val = RawGet(j)
  <2>1. ListsTheTable(todo', n)
    BY <1>1, <1>2, OldEntriesAreTheTable
  <2> QED
    BY <2>1 DEF ListsTheTable
<1>4. WaitingApart'
  BY <1>3 DEF WaitingApart
<1>5. /\ LookupRight' /\ RawGetFinds /\ RawGetFinds'
      /\ \A j \in Keys : Lookup(j) = RawGet(j)
  <2>1. Inv'
    BY RehashKeepsInv DEF Inv
  <2>2. LookupRight' /\ RawGetFinds /\ RawGetFinds'
    BY <1>4, <2>1, LookupIsRight, RawGetIsRight, PTL DEF Inv, ChainInv
  <2>3. todo = <<>>
    BY DEF Inv, TypeOK
  <2> QED
    BY <2>2, <2>3, IdleLookup DEF Kept
<1>6. size' # 0 /\ \A m \in Slots' : node'[m].key = None
  BY <1>1, KeysAssumption DEF Pow2, Slots, FreeNode
<1>7. ASSUME NEW j \in Keys
      PROVE  Lookup(j)' = Lookup(j)
  <2>1. CASE WaitingFor(j)' # {}
    <3>1. PICK i \in WaitingFor(j)' : Lookup(j)' = todo'[i].val
      BY <1>5, <2>1 DEF LookupRight
    <3> QED
      BY <1>3, <1>5, <3>1 DEF WaitingFor
  <2>2. CASE WaitingFor(j)' = {}
    <3>1. RawGet(j) = None \/ (InArray(j) /\ AsInt(j) <= n)
      BY <1>3, <2>2 DEF WaitingFor
    <3>2. /\ Len(array) \in Nat /\ Len(array') = n
          /\ \A i \in 1 .. n : array'[i] = IF i <= Len(array) THEN array[i] ELSE None
      <4>1. array' = [i \in 1 .. n |-> IF i <= Len(array) THEN array[i] ELSE None]
        BY <1>1 DEF Resized
      <4>2. array' \in Seq(Vals \union {None}) /\ array \in Seq(Vals \union {None})
        BY RehashKeepsInv DEF Inv, TypeOK
      <4> QED
        BY <1>2, <4>1, <4>2
    <3>3. RawGet(j)' = RawGet(j)
      <4>1. CASE InArray(j)'
        <5>1. AsInt(j) \in 1 .. n /\ j \in IntKeys
          BY <3>2, <4>1 DEF InArray
        <5>2. RawGet(j)' = array'[AsInt(j)]
          BY <1>5, <4>1 DEF RawGetFinds
        <5>3. CASE AsInt(j) <= Len(array)
          <6>1. InArray(j)
            BY <3>2, <5>1, <5>3 DEF InArray
          <6> QED
            BY <1>5, <3>2, <5>1, <5>2, <5>3, <6>1 DEF RawGetFinds
        <5>4. CASE ~(AsInt(j) <= Len(array))
          <6>1. ~InArray(j)
            BY <3>2, <5>1, <5>4 DEF InArray
          <6> QED
            BY <3>1, <3>2, <5>1, <5>2, <5>4, <6>1
        <5> QED
          BY <5>3, <5>4
      <4>2. CASE ~InArray(j)'
        <5>1. RawGet(j)' = None
          BY <1>5, <1>6, <4>2, NoneAssumption DEF RawGetFinds
        <5>2. ~(InArray(j) /\ AsInt(j) <= n)
          BY <1>2, <3>2, <4>2 DEF InArray
        <5> QED
          BY <3>1, <5>1, <5>2
      <4> QED
        BY <4>1, <4>2
    <3> QED
      BY <1>5, <2>2, <3>3 DEF LookupRight
  <2> QED
    BY <2>1, <2>2
<1>8. NoneClaimed' /\ CallUnclaimed'
  <2>1. call'.key = k /\ handler' = handler
    BY DEF Rehash, Entry
  <2>2. handler => k \notin Claimed
    BY DEF Inserts, Diverts
  <2> QED
    BY <1>7, <2>1, <2>2, KeysAssumption DEF Kept, NoneClaimed, CallUnclaimed, Map!Late
<1>9. WaitingAbsent'
  <2>1. SUFFICES ASSUME NEW j \in Keys, ~(InArray(j) /\ AsInt(j) <= n) PROVE RawGet(j)' = None
    BY <1>3 DEF WaitingAbsent, WaitingKeys
  <2>2. /\ Len(array) \in Nat /\ Len(array') = n
        /\ \A i \in 1 .. n : array'[i] = IF i <= Len(array) THEN array[i] ELSE None
    <3>1. array' = [i \in 1 .. n |-> IF i <= Len(array) THEN array[i] ELSE None]
      BY <1>1 DEF Resized
    <3>2. array' \in Seq(Vals \union {None}) /\ array \in Seq(Vals \union {None})
      BY RehashKeepsInv DEF Inv, TypeOK
    <3> QED
      BY <1>2, <3>1, <3>2
  <2>3. CASE InArray(j)'
    <3>1. AsInt(j) \in 1 .. n /\ j \in IntKeys
      BY <2>2, <2>3 DEF InArray
    <3>2. ~(AsInt(j) <= Len(array))
      BY <1>2, <2>1, <2>2, <3>1 DEF InArray
    <3>3. RawGet(j)' = array'[AsInt(j)]
      BY <1>5, <2>3 DEF RawGetFinds
    <3> QED
      BY <2>2, <3>1, <3>2, <3>3
  <2>4. CASE ~InArray(j)'
    BY <1>5, <1>6, <2>4, NoneAssumption DEF RawGetFinds
  <2> QED
    BY <2>3, <2>4
<1> QED
  BY <1>4, <1>6, <1>7, <1>8, <1>9 DEF Kept, entries, Rehash

(* What is left of the list once its head has been dealt with.             *)
LEMMA TailWaits ==
  ASSUME TypeOK, todo # <<>>, todo' = Tail(todo)
  PROVE  /\ 1 \in 1 .. Len(todo) /\ Head(todo) = todo[1]
         /\ \A i \in 1 .. Len(todo') : i + 1 \in 1 .. Len(todo) /\ todo'[i] = todo[i + 1]
         /\ \A i \in 1 .. Len(todo) : i # 1 => i - 1 \in 1 .. Len(todo') /\ todo'[i - 1] = todo[i]
<1> DEFINE Ents == [key : Keys \union Int \union {None}, val : Vals \union {None}]
<1>1. todo \in Seq(Ents)
  BY DEF TypeOK
<1> HIDE DEF Ents
<1> QED
  BY <1>1

LEMMA TailIsApart ==
  ASSUME TypeOK, WaitingApart, todo # <<>>, todo' = Tail(todo)
  PROVE  WaitingApart'
<1>1. \A i \in 1 .. Len(todo') : i \in Int /\ i + 1 \in 1 .. Len(todo) /\ todo'[i] = todo[i + 1]
  BY TailWaits
<1>2. ASSUME NEW i \in 1 .. Len(todo'), NEW j \in 1 .. Len(todo'),
             todo'[i].val # None, todo'[j].val # None, todo'[i].key = todo'[j].key
      PROVE  i = j
  <2>1. i + 1 = j + 1
    BY <1>1, <1>2 DEF WaitingApart
  <2> QED
    BY <1>1, <2>1
<1> QED
  BY <1>2 DEF WaitingApart

(* No other key has its waiting entry dropped or changed.                  *)
LEMMA OthersWait ==
  ASSUME TypeOK, todo # <<>>, todo' = Tail(todo), NEW j, j # Head(todo).key \/ Head(todo).val = None
  PROVE  \/ WaitingFor(j) = {} /\ WaitingFor(j)' = {}
         \/ \E i \in WaitingFor(j) : \E h \in WaitingFor(j)' : todo'[h].val = todo[i].val
<1>1. /\ Head(todo) = todo[1]
      /\ \A i \in 1 .. Len(todo') : i + 1 \in 1 .. Len(todo) /\ todo'[i] = todo[i + 1]
      /\ \A i \in 1 .. Len(todo) : i # 1 => i - 1 \in 1 .. Len(todo') /\ todo'[i - 1] = todo[i]
  BY TailWaits
<1>2. \A i \in WaitingFor(j) : i # 1 /\ i - 1 \in WaitingFor(j)' /\ todo'[i - 1].val = todo[i].val
  BY <1>1 DEF WaitingFor
<1>3. \A h \in WaitingFor(j)' : h + 1 \in WaitingFor(j)
  BY <1>1 DEF WaitingFor
<1> QED
  BY <1>2, <1>3
-----------------------------------------------------------------------------
(* Step by step.                                                           *)

(* A write to the map is none the handler claims.                          *)
LEMMA EntryKept ==
  ASSUME Inv, Kept, NEW k \in Keys, NEW v \in Vals, Put(k, v), ~Diverts(k),
         UNCHANGED handler, call' \in {call, None}, WaitingApart', WaitingAbsent',
         entries' = [entries EXCEPT ![k] = v], Lookup(k) = None => RawGet(k) = None
  PROVE  Kept'
<1>1. handler => k \notin Claimed \ Map!Late
  <2>1. SUFFICES ASSUME handler, k \in Claimed, k \notin Map!Late PROVE FALSE
    OBVIOUS
  <2>2. Lookup(k) = None
    BY <2>1 DEF Kept, NoneClaimed
  <2>3. ~InArray(k)
    BY <2>1 DEF Map!Late, InArray
  <2> QED
    BY <2>1, <2>2, <2>3 DEF Diverts, Absent
<1>2. \A j \in Keys : j # k => Lookup(j)' = Lookup(j)
  <2>1. ASSUME NEW j \in Keys, j # k PROVE Lookup(j)' = Lookup(j)
    <3>1. entries'[j] = Lookup(j)' /\ entries[j] = Lookup(j)
      BY DEF entries
    <3>2. entries'[j] = entries[j]
      BY <2>1 DEF entries
    <3> QED
      BY <3>1, <3>2
  <2> QED
    BY <2>1
<1>3. NoneClaimed' /\ CallUnclaimed'
  BY <1>1, <1>2, KeysAssumption DEF Kept, NoneClaimed, CallUnclaimed, Map!Late
<1>4. size' = 0 => array' = <<>> /\ call' = None
  <2>1. size' = size /\ (array' = array \/ InArray(k))
    BY DEF Put, WriteArray, WriteNode, NewIndexFallback, WriteNew, parts
  <2>2. array = <<>> => ~InArray(k)
    BY DEF InArray
  <2> QED
    BY <2>1, <2>2 DEF Kept
<1> QED
  BY <1>3, <1>4 DEF Kept

(* A write that reaches the table is a write to the map.                   *)
LEMMA PutWritesEntry ==
  ASSUME Inv, Kept, IntsFit, NEW k \in Keys, NEW v \in Vals, Put(k, v), ~Diverts(k),
         UNCHANGED handler, call' \in {call, None},
         \/ todo = <<>> /\ todo' = <<>>
         \/ todo # <<>> /\ todo' = Tail(todo) /\ Head(todo).key = k /\ Head(todo).val = v
  PROVE  entries' = [entries EXCEPT ![k] = v] /\ UNCHANGED other /\ Kept'
<1>1. Becomes(k, v) /\ UNCHANGED other /\ v # None
  BY PutSets, NoneAssumption
<1>2. WaitingApart /\ WaitingApart'
  <2>1. CASE todo' = <<>>
    <3>1. \A i : i \notin 1 .. Len(todo')
      BY <2>1
    <3> QED
      BY <3>1 DEF Kept, WaitingApart
  <2>2. CASE todo # <<>> /\ todo' = Tail(todo)
    BY <2>2, TailIsApart DEF Kept, Inv
  <2> QED
    BY <2>1, <2>2 DEF Kept
<1>3. CASE todo = <<>> /\ todo' = <<>>
  <2>1. \A i : i \notin 1 .. Len(todo') /\ i \notin 1 .. Len(todo)
    BY <1>3
  <2>2. \A j : WaitingFor(j) = {} /\ WaitingFor(j)' = {}
    BY <2>1 DEF WaitingFor
  <2>3. entries' = [entries EXCEPT ![k] = v]
    BY <1>1, <1>2, <2>2, EntrySet
  <2>4. Lookup(k) = RawGet(k)
    BY <1>2, <1>3, IdleLookup
  <2>5. WaitingAbsent'
    BY <2>1 DEF WaitingAbsent, WaitingKeys
  <2> QED
    BY <1>1, <1>2, <2>3, <2>4, <2>5, EntryKept
<1>4. CASE todo # <<>> /\ todo' = Tail(todo) /\ Head(todo).key = k /\ Head(todo).val = v
  <2>1. /\ 1 \in 1 .. Len(todo) /\ todo[1].key = k /\ todo[1].val = v
        /\ \A i \in 1 .. Len(todo') : i + 1 \in 1 .. Len(todo) /\ i + 1 # 1 /\ todo'[i] = todo[i + 1]
    BY <1>4, TailWaits DEF Inv
  <2>2. WaitingFor(k)' = {}
    BY <1>1, <1>2, <2>1 DEF WaitingFor, WaitingApart
  <2>3. \A j \in Keys : j # k =>
          \/ WaitingFor(j) = {} /\ WaitingFor(j)' = {}
          \/ \E i \in WaitingFor(j) : \E h \in WaitingFor(j)' : todo'[h].val = todo[i].val
    BY <1>4, OthersWait DEF Inv
  <2>4. entries' = [entries EXCEPT ![k] = v]
    BY <1>1, <1>2, <2>2, <2>3, EntrySet
  <2>5. Lookup(k) = v
    BY <1>1, <1>2, <2>1, LookupIsRight DEF LookupRight, WaitingFor
  <2>6. WaitingAbsent'
    <3>1. ASSUME NEW j \in WaitingKeys'
          PROVE  j \in WaitingKeys /\ j \in Keys /\ j # k
      <4>1. PICK i \in 1 .. Len(todo') : todo'[i].key = j /\ todo'[i].val # None
        BY <3>1 DEF WaitingKeys
      <4> QED
        BY <1>1, <2>1, <3>1, <4>1 DEF Kept, WaitingApart, WaitingKeys
    <3> QED
      BY <1>1, <3>1 DEF Kept, WaitingAbsent, Becomes
  <2> QED
    BY <1>1, <1>2, <2>4, <2>5, <2>6, EntryKept
<1> QED
  BY <1>3, <1>4
LEMMA SameParts ==
  ASSUME UNCHANGED parts
  PROVE  \A k : RawGet(k)' = RawGet(k)
<1>1. UNCHANGED <<array, size, node>> /\ Slots' = Slots
  BY DEF parts, Slots
<1>2. \A S : Closed(S)' <=> Closed(S)
  BY <1>1 DEF Closed
<1>3. \A n, m : Reaches(n, m)' <=> Reaches(n, m)
  BY <1>1, <1>2 DEF Reaches
<1>4. \A k : Matches(k)' = Matches(k) /\ (InArray(k)' <=> InArray(k))
  BY <1>1, <1>3 DEF Matches, MainPosition, InArray
<1>5. ASSUME NEW k PROVE NodeIndex(k)' = NodeIndex(k)
  <2>1. Matches(k)' = Matches(k)
    BY <1>4
  <2> QED
    BY <2>1 DEF NodeIndex
<1> QED
  BY <1>1, <1>4, <1>5 DEF RawGet

LEMMA SameEntries ==
  ASSUME Kept, UNCHANGED <<array, size, node, firstfree, todo, call, handler>>
  PROVE  UNCHANGED entries /\ Kept'
<1>1. \A k : RawGet(k)' = RawGet(k)
  BY SameParts DEF parts
<1>2. \A k : Lookup(k)' = Lookup(k)
  BY <1>1 DEF Lookup
<1>3. WaitingApart' /\ WaitingAbsent'
  BY <1>1 DEF Kept, WaitingApart, WaitingAbsent, WaitingKeys
<1>4. NoneClaimed' /\ CallUnclaimed'
  BY <1>2 DEF Kept, NoneClaimed, CallUnclaimed, Map!Late
<1> QED
  BY <1>2, <1>3, <1>4 DEF entries, Kept

LEMMA InitIsMap == Init => Kept /\ Map!Init
<1> SUFFICES ASSUME Init PROVE Kept /\ Map!Init
  OBVIOUS
<1>1. /\ size = 0 /\ Slots = {} /\ array = <<>> /\ todo = <<>> /\ call = None /\ handler = FALSE
      /\ other = [k \in Keys |-> None]
  BY DEF Init, Slots
<1>2. WaitingApart /\ WaitingAbsent
  <2>1. \A i : i \notin 1 .. Len(todo)
    BY <1>1
  <2> QED
    BY <2>1 DEF WaitingApart, WaitingAbsent, WaitingKeys
<1>3. \A k : RawGet(k) = None
  <2>1. \A k : ~InArray(k) /\ Matches(k) = {}
    BY <1>1 DEF InArray, Matches
  <2> QED
    BY <2>1 DEF RawGet, NodeIndex
<1>4. \A k : Lookup(k) = None
  BY <1>1, <1>2, <1>3, IdleLookup
<1> QED
  BY <1>1, <1>2, <1>4 DEF Kept, NoneClaimed, CallUnclaimed, Map!Init, entries

(* The handler takes a write only if nothing else does.                    *)
LEMMA DivertedPut ==
  ASSUME NEW k, NEW v, Put(k, v), Diverts(k)
  PROVE  UNCHANGED <<array, size, node, firstfree>> /\ other' = [other EXCEPT ![k] = v]
BY DEF Put, WriteArray, WriteNode, NewIndexFallback, WriteNew, Inserts, Diverts, Absent, parts

LEMMA SetIsMap ==
  ASSUME Inv, Kept, IntsFit, NEW k \in Keys, NEW v \in Vals, Set(k, v)
  PROVE  Kept' /\ Map!Set(k, v)
<1>1. call = None /\ todo = <<>> /\ entries[k] = Lookup(k) /\ Lookup(k) = RawGet(k)
  BY IdleLookup DEF Set, Inv, TypeOK, entries, Kept
<1>2. CASE Put(k, v) /\ UNCHANGED <<todo, call, handler>> /\ ~Diverts(k)
  <2>1. entries' = [entries EXCEPT ![k] = v] /\ UNCHANGED other /\ Kept'
    BY <1>1, <1>2, PutWritesEntry
  <2>2. Map!Asks(k) => k \in IntKeys
    BY <1>1, <1>2 DEF Map!Asks, Diverts, Absent, InArray
  <2> QED
    BY <1>1, <1>2, <2>1, <2>2 DEF Map!Set, Map!Write
<1>3. CASE Put(k, v) /\ UNCHANGED <<todo, call, handler>> /\ Diverts(k)
  <2>1. UNCHANGED <<array, size, node, firstfree>> /\ other' = [other EXCEPT ![k] = v]
    BY <1>3, DivertedPut
  <2>2. entries' = entries /\ Kept'
    BY <1>3, <2>1, SameEntries
  <2>3. Map!Asks(k)
    BY <1>1, <1>3 DEF Diverts, Absent, Map!Asks
  <2> QED
    BY <1>1, <1>3, <2>1, <2>2, <2>3 DEF Map!Set, Map!HandOver
<1>4. CASE Inserts(k) /\ Rehash(k, v)
  <2>1. Kept' /\ UNCHANGED <<entries, other>>
    BY <1>1, <1>4, RehashKeepsEntries
  <2>2. call' = [key |-> k, val |-> v] /\ UNCHANGED handler
    BY <1>4 DEF Rehash, Entry
  <2>3. entries[k] = None /\ ~Map!Asks(k)
    BY <1>1, <1>4 DEF Inserts, Absent, Diverts, Map!Asks
  <2> QED
    BY <1>1, <2>1, <2>2, <2>3 DEF Map!Set, Map!Defer
<1> QED
  BY <1>2, <1>3, <1>4 DEF Set

LEMMA RemoveIsMap ==
  ASSUME Inv, Inv', Kept, IntsFit, NEW k \in Keys, Remove(k)
  PROVE  Kept' /\ Map!Delete(k)
<1>1. /\ UNCHANGED <<size, firstfree, todo, call, handler, other>>
      /\ call = None /\ todo = <<>> /\ RawGet(k) # None
  BY DEF Remove, Inv, TypeOK
<1>2. \A j : Lookup(j) = RawGet(j)
  BY <1>1, IdleLookup DEF Kept
<1>3. Becomes(k, None)
  <2>1. CASE InArray(k)
    <3>1. array' = [array EXCEPT ![AsInt(k)] = None] /\ UNCHANGED node
      BY <2>1 DEF Remove
    <3> QED
      BY <1>1, <2>1, <3>1, ArraySlotIsSet DEF Inv
  <2>2. CASE ~InArray(k)
    <3>1. node' = [node EXCEPT ![NodeIndex(k)].val = None] /\ UNCHANGED array
      BY <2>2 DEF Remove
    <3>2. NodeIndex(k) \in Slots /\ node[NodeIndex(k)].key = k
      BY <1>1, <2>2, NodeIndexFinds DEF RawGet, NodeIndex
    <3> QED
      BY <1>1, <2>2, <3>1, <3>2, NodeIsSet DEF Inv
  <2> QED
    BY <2>1, <2>2
<1>4. /\ WaitingApart /\ WaitingApart' /\ WaitingAbsent'
      /\ \A j : WaitingFor(j) = {} /\ WaitingFor(j)' = {}
  <2>1. \A i : i \notin 1 .. Len(todo) /\ i \notin 1 .. Len(todo')
    BY <1>1
  <2> QED
    BY <2>1 DEF WaitingFor, WaitingApart, WaitingAbsent, WaitingKeys
<1>5. entries' = [entries EXCEPT ![k] = None]
  BY <1>3, <1>4, EntrySet
<1>6. entries[k] # None
  BY <1>1, <1>2 DEF entries
<1>7. \A j \in Keys : Lookup(j)' \in {None, Lookup(j)}
  <2>1. ASSUME NEW j \in Keys PROVE Lookup(j)' \in {None, Lookup(j)}
    <3>1. entries'[j] = Lookup(j)' /\ entries[j] = Lookup(j)
      BY DEF entries
    <3>2. entries'[j] \in {None, entries[j]}
      BY <1>5 DEF entries
    <3> QED
      BY <3>1, <3>2
  <2> QED
    BY <2>1
<1>8. Kept'
  <2>1. size = 0 => array' = <<>>
    BY DEF Kept, InArray, Remove
  <2>2. NoneClaimed' /\ CallUnclaimed'
    BY <1>1, <1>7, KeysAssumption DEF Kept, NoneClaimed, CallUnclaimed, Map!Late
  <2> QED
    BY <1>1, <1>4, <2>1, <2>2 DEF Kept
<1> QED
  BY <1>1, <1>5, <1>6, <1>8 DEF Map!Delete

(* The entry a rehash is about to re-insert.                               *)
LEMMA HeadWaits ==
  ASSUME Inv, Kept, todo # <<>>, Head(todo).val # None
  PROVE  /\ 1 \in 1 .. Len(todo) /\ Head(todo) = todo[1]
         /\ Head(todo).key \in Keys /\ Head(todo).val \in Vals /\ call # None
         /\ Lookup(Head(todo).key) = Head(todo).val
         /\ Diverts(Head(todo).key) => handler /\ Head(todo).key \in Map!Late
<1> DEFINE e == Head(todo)
           Ents == [key : Keys \union Int \union {None}, val : Vals \union {None}]
<1>1. todo \in Seq(Ents)
  BY DEF Inv, TypeOK
<1> HIDE DEF Ents
<1>2. e \in Ents /\ 1 \in 1 .. Len(todo) /\ e = todo[1]
  BY <1>1
<1> USE DEF Ents
<1>3. e.key \in Keys /\ e.val \in Vals /\ call # None
  BY <1>2 DEF Inv, TypeOK
<1>4. Lookup(e.key) = e.val
  BY <1>2, LookupIsRight DEF LookupRight, WaitingFor, Kept
<1>5. Diverts(e.key) => handler /\ e.key \in Map!Late
  BY <1>4 DEF Kept, NoneClaimed, Diverts
<1> QED
  BY <1>2, <1>3, <1>4, <1>5

(* Entries without a value are skipped.                                    *)
LEMMA SkipIsMap ==
  ASSUME Inv, Kept, todo # <<>>, todo' = Tail(todo), Head(todo).val = None,
         UNCHANGED <<parts, other, call, handler>>
  PROVE  Kept' /\ UNCHANGED <<entries, other, call, handler>>
<1>1. \A i \in 1 .. Len(todo') : i + 1 \in 1 .. Len(todo) /\ todo'[i] = todo[i + 1]
  BY TailWaits DEF Inv
<1>2. WaitingApart'
  BY TailIsApart DEF Kept, Inv
<1>3. \A j : RawGet(j)' = RawGet(j)
  BY SameParts
<1>4. WaitingAbsent'
  BY <1>1, <1>3 DEF Kept, WaitingAbsent, WaitingKeys
<1>5. \A j : \/ WaitingFor(j) = {} /\ WaitingFor(j)' = {}
             \/ \E i \in WaitingFor(j) : \E h \in WaitingFor(j)' : todo'[h].val = todo[i].val
  BY OthersWait DEF Inv
<1>6. LookupRight /\ LookupRight'
  BY <1>2, LookupIsRight, PTL DEF Kept
<1>7. ASSUME NEW j PROVE Lookup(j)' = Lookup(j)
  <2>1. CASE WaitingFor(j) = {} /\ WaitingFor(j)' = {}
    BY <1>3, <1>6, <2>1 DEF LookupRight
  <2>2. CASE \E i \in WaitingFor(j) : \E h \in WaitingFor(j)' : todo'[h].val = todo[i].val
    BY <1>6, <2>2 DEF LookupRight
  <2> QED
    BY <1>5, <2>1, <2>2
<1>8. NoneClaimed' /\ CallUnclaimed'
  BY <1>7 DEF Kept, NoneClaimed, CallUnclaimed, Map!Late
<1> QED
  BY <1>2, <1>4, <1>7, <1>8 DEF Kept, entries, parts

(* The handler takes an entry that is being re-inserted.                   *)
LEMMA HandedBack ==
  ASSUME Inv, Kept, todo # <<>>, todo' = Tail(todo), NEW k, NEW v,
         Head(todo).key = k, Head(todo).val = v, v # None,
         Put(k, v), Diverts(k), UNCHANGED <<call, handler>>
  PROVE  Kept' /\ Map!HandBack(k)
<1>1. /\ 1 \in 1 .. Len(todo) /\ todo[1].key = k /\ todo[1].val = v /\ k \in Keys
      /\ call # None /\ Lookup(k) = v /\ handler /\ k \in Map!Late
  BY HeadWaits
<1>2. \A i \in 1 .. Len(todo') : i + 1 \in 1 .. Len(todo) /\ i + 1 # 1 /\ todo'[i] = todo[i + 1]
  BY TailWaits DEF Inv
<1>3. UNCHANGED <<array, size, node, firstfree>> /\ other' = [other EXCEPT ![k] = v]
  BY DivertedPut
<1>4. \A j : RawGet(j)' = RawGet(j)
  BY <1>3, SameParts DEF parts
<1>5. WaitingApart /\ WaitingApart'
  BY TailIsApart DEF Kept, Inv
<1>6. WaitingAbsent'
  BY <1>2, <1>4 DEF Kept, WaitingAbsent, WaitingKeys
<1>7. WaitingFor(k)' = {}
  BY <1>1, <1>2, <1>5 DEF WaitingFor, WaitingApart
<1>8. Becomes(k, None)
  BY <1>4 DEF Becomes, Diverts, Absent
<1>9. \A j \in Keys : j # k =>
        \/ WaitingFor(j) = {} /\ WaitingFor(j)' = {}
        \/ \E i \in WaitingFor(j) : \E h \in WaitingFor(j)' : todo'[h].val = todo[i].val
  BY OthersWait DEF Inv
<1>10. entries' = [entries EXCEPT ![k] = None]
  BY <1>1, <1>5, <1>7, <1>8, <1>9, EntrySet
<1>11. entries[k] = v
  BY <1>1 DEF entries
<1>12. \A j \in Keys : Lookup(j)' \in {None, Lookup(j)}
  <2>1. ASSUME NEW j \in Keys PROVE Lookup(j)' \in {None, Lookup(j)}
    <3>1. entries'[j] = Lookup(j)' /\ entries[j] = Lookup(j)
      BY DEF entries
    <3>2. entries'[j] \in {None, entries[j]}
      BY <1>10 DEF entries
    <3> QED
      BY <3>1, <3>2
  <2> QED
    BY <2>1
<1>13. NoneClaimed' /\ CallUnclaimed'
  BY <1>12, KeysAssumption DEF Kept, NoneClaimed, CallUnclaimed, Map!Late
<1>14. Kept'
  BY <1>3, <1>5, <1>6, <1>13 DEF Kept
<1> QED
  BY <1>1, <1>3, <1>10, <1>11, <1>14 DEF Map!HandBack

LEMMA ReinsertIsMap ==
  ASSUME Inv, Kept, IntsFit, Reinsert
  PROVE  /\ Kept'
         /\ UNCHANGED <<entries, other, call, handler>> \/ Map!HandBack(Head(todo).key)
<1> DEFINE e == Head(todo)
<1>1. todo # <<>> /\ todo' = Tail(todo) /\ UNCHANGED <<call, handler>>
  BY DEF Reinsert
<1>2. CASE e.val # None /\ Put(e.key, e.val) /\ ~Diverts(e.key)
  <2>1. e.key \in Keys /\ e.val \in Vals /\ Lookup(e.key) = e.val
    BY <1>1, <1>2, HeadWaits
  <2>2. entries' = [entries EXCEPT ![e.key] = e.val] /\ UNCHANGED other /\ Kept'
    BY <1>1, <1>2, <2>1, PutWritesEntry
  <2>3. entries[e.key] = e.val
    BY <2>1 DEF entries
  <2> QED
    BY <1>1, <2>2, <2>3 DEF entries
<1>3. CASE e.val # None /\ Put(e.key, e.val) /\ Diverts(e.key)
  BY <1>1, <1>3, HandedBack
<1>4. CASE e.val = None /\ UNCHANGED <<parts, other>>
  BY <1>1, <1>4, SkipIsMap
<1> QED
  BY <1>2, <1>3, <1>4 DEF Reinsert

(* The error of a handler drops what waits, of which nothing is in the     *)
(* table.                                                                  *)
LEMMA HandlerFailsIsMap ==
  ASSUME Inv, Kept, HandlerFails
  PROVE  Kept' /\ Map!Abandon(WaitingKeys)
<1> DEFINE k == Head(todo).key
<1>1. /\ todo # <<>> /\ Head(todo).val # None /\ Diverts(k)
      /\ todo' = <<>> /\ call' = None /\ UNCHANGED <<parts, handler, other>>
  BY DEF HandlerFails
<1>2. /\ 1 \in 1 .. Len(todo) /\ Head(todo) = todo[1] /\ k \in Keys /\ call # None
      /\ handler /\ k \in Map!Late
  BY <1>1, HeadWaits
<1>3. \A i : i \notin 1 .. Len(todo')
  BY <1>1
<1>4. WaitingApart' /\ WaitingAbsent'
  BY <1>3 DEF WaitingApart, WaitingAbsent, WaitingKeys
<1>5. /\ \A j : RawGet(j)' = RawGet(j)
      /\ \A j : Lookup(j)' = RawGet(j)'
      /\ LookupRight
  <2>1. \A j : RawGet(j)' = RawGet(j)
    BY <1>1, SameParts
  <2>2. \A j : WaitingFor(j)' = {}
    BY <1>3 DEF WaitingFor
  <2>3. LookupRight /\ LookupRight'
    BY <1>4, LookupIsRight, PTL DEF Kept
  <2> QED
    BY <2>1, <2>2, <2>3 DEF LookupRight
<1>6. ASSUME NEW j \in Keys
      PROVE  /\ j \in WaitingKeys => Lookup(j) # None /\ Lookup(j)' = None
             /\ j \notin WaitingKeys => Lookup(j)' = Lookup(j)
  <2>1. CASE j \in WaitingKeys
    <3>1. PICK i \in 1 .. Len(todo) : todo[i].key = j /\ todo[i].val # None
      BY <2>1 DEF WaitingKeys
    <3>2. RawGet(j) = None
      BY <2>1 DEF Kept, WaitingAbsent
    <3>3. Lookup(j) = todo[i].val
      BY <1>5, <3>1 DEF LookupRight, WaitingFor
    <3> QED
      BY <1>5, <2>1, <3>1, <3>2, <3>3
  <2>2. CASE j \notin WaitingKeys
    <3>1. WaitingFor(j) = {}
      BY <2>2 DEF WaitingKeys, WaitingFor
    <3> QED
      BY <1>5, <2>2, <3>1 DEF LookupRight
  <2> QED
    BY <2>1, <2>2
<1>7. /\ entries' = [j \in Keys |-> IF j \in WaitingKeys THEN None ELSE entries[j]]
      /\ \A j \in WaitingKeys : entries[j] # None
  BY <1>6 DEF entries, WaitingKeys
<1>8. k \in WaitingKeys
  BY <1>1, <1>2 DEF WaitingKeys
<1>9. NoneClaimed' /\ CallUnclaimed'
  BY <1>1, <1>6, KeysAssumption DEF Kept, NoneClaimed, CallUnclaimed, Map!Late
<1>10. Kept'
  BY <1>1, <1>4, <1>9 DEF Kept, parts
<1> QED
  BY <1>1, <1>2, <1>7, <1>8, <1>10 DEF Map!Abandon

LEMMA FinishSetIsMap ==
  ASSUME Inv, Kept, IntsFit, FinishSet
  PROVE  Kept' /\ Map!Finish
<1>1. /\ call.key \in Keys /\ call.val \in Vals /\ call # None /\ todo = <<>>
      /\ Put(call.key, call.val) /\ call' = None /\ UNCHANGED <<todo, handler>>
  BY DEF FinishSet, Inv, TypeOK
<1>2. ~Diverts(call.key)
  BY <1>1 DEF Kept, CallUnclaimed, Diverts
<1>3. entries' = [entries EXCEPT ![call.key] = call.val] /\ UNCHANGED other /\ Kept'
  BY <1>1, <1>2, PutWritesEntry
<1> QED
  BY <1>1, <1>3 DEF Map!Finish

LEMMA SetMetatableIsMap ==
  ASSUME Inv, Kept, SetMetatable
  PROVE  Kept' /\ Map!Install
<1>1. /\ LateHandler \/ size = 0
      /\ call = None /\ todo = <<>> /\ Claimed # {} /\ handler' = TRUE
      /\ UNCHANGED <<array, size, node, firstfree, todo, call, other>>
  BY DEF SetMetatable, Inv, TypeOK, parts
<1>2. \A k : RawGet(k)' = RawGet(k)
  BY <1>1, SameParts DEF parts
<1>3. \A k : Lookup(k)' = Lookup(k)
  BY <1>1, <1>2 DEF Lookup
<1>4. LateHandler \/ \A k : Lookup(k) = None
  <2>1. SUFFICES ASSUME size = 0 PROVE \A k : Lookup(k) = None
    BY <1>1
  <2>2. array = <<>> /\ Slots = {}
    BY <2>1 DEF Kept, Slots
  <2>3. \A k : ~InArray(k) /\ Matches(k) = {}
    BY <2>2 DEF InArray, Matches
  <2>4. \A k : RawGet(k) = None
    BY <2>3 DEF RawGet, NodeIndex
  <2> QED
    BY <1>1, <2>4, IdleLookup DEF Kept
<1>5. NoneClaimed' /\ CallUnclaimed'
  BY <1>1, <1>3, <1>4 DEF NoneClaimed, CallUnclaimed, Map!Late
<1>6. WaitingApart' /\ WaitingAbsent'
  <2>1. \A i : i \notin 1 .. Len(todo')
    BY <1>1
  <2> QED
    BY <2>1 DEF WaitingApart, WaitingAbsent, WaitingKeys
<1>7. Kept'
  BY <1>1, <1>5, <1>6 DEF Kept
<1>8. UNCHANGED entries /\ (LateHandler \/ \A k \in Keys : entries[k] = None)
  BY <1>3, <1>4 DEF entries
<1> QED
  BY <1>1, <1>7, <1>8 DEF Map!Install

(* The table is a map, and each operation of it is that of the map: set    *)
(* and remove change their own entry only, and a rehash none, provided     *)
(* that all integer keys fit an int.  A claimed key that came into the     *)
(* table unasked is the only one that a rehash may hand to the handler or  *)
(* at which the handler may fail; where the handler is there from the      *)
(* start and claims no integer, there is none.                             *)
THEOREM TableIsMap ==
  ASSUME IntsFit
  PROVE  Spec => MapSpec
<1>1. Inv /\ Kept => StepsMatch
  <2> SUFFICES ASSUME Inv, Kept PROVE StepsMatch
    OBVIOUS
  <2>1. ASSUME NEW k \in Keys, Remove(k) PROVE Map!Delete(k)
    <3>1. Inv'
      BY <2>1, NextKeepsInv DEF Next
    <3> QED
      BY <2>1, <3>1, RemoveIsMap
  <2> QED
    BY <2>1, SetIsMap, ReinsertIsMap, HandlerFailsIsMap, FinishSetIsMap, SetMetatableIsMap
    DEF StepsMatch
<1>2. Inv /\ Kept /\ [Next]_vars => Kept' /\ [Map!Next]_<<entries, other, handler, call>>
  <2> SUFFICES ASSUME Inv, Kept, [Next]_vars
               PROVE  Kept' /\ [Map!Next]_<<entries, other, handler, call>>
    OBVIOUS
  <2>1. ASSUME NEW k \in Keys, NEW v \in Vals, Set(k, v)
        PROVE  Kept' /\ Map!Next
    BY <2>1, SetIsMap DEF Map!Next
  <2>2. ASSUME NEW k \in Keys, Remove(k)
        PROVE  Kept' /\ Map!Next
    <3>1. Inv'
      BY NextKeepsInv
    <3> QED
      BY <2>2, <3>1, RemoveIsMap DEF Map!Next
  <2>3. ASSUME Reinsert
        PROVE  Kept' /\ [Map!Next]_<<entries, other, handler, call>>
    <3>1. todo # <<>> /\ (Map!HandBack(Head(todo).key) => Head(todo).key \in Keys)
      BY <2>3, KeysAssumption DEF Reinsert, Map!HandBack, Map!Late
    <3> QED
      BY <2>3, <3>1, ReinsertIsMap DEF Map!Next
  <2>4. ASSUME HandlerFails PROVE Kept' /\ Map!Next
    <3>1. WaitingKeys \in SUBSET Keys
      BY DEF WaitingKeys
    <3> QED
      BY <2>4, <3>1, HandlerFailsIsMap DEF Map!Next
  <2>5. ASSUME FinishSet PROVE Kept' /\ Map!Next
    BY <2>5, FinishSetIsMap DEF Map!Next
  <2>6. ASSUME SetMetatable PROVE Kept' /\ Map!Next
    BY <2>6, SetMetatableIsMap DEF Map!Next
  <2>7. CASE UNCHANGED vars
    <3>1. UNCHANGED <<array, size, node, firstfree, todo, call, handler, other>>
      BY <2>7 DEF vars, parts
    <3> QED
      BY <3>1, SameEntries
  <2> QED
    BY <2>1, <2>2, <2>3, <2>4, <2>5, <2>6, <2>7 DEF Next
<1>3. Init => Kept /\ Map!Init
  BY InitIsMap
<1> QED
  BY <1>1, <1>2, <1>3, InvHolds, PTL DEF Spec, MapSpec, Map!Spec

-----------------------------------------------------------------------------
(* The sizes a rehash chooses.                                             *)

Waiting == {i \in 1 .. Len(todo) : todo[i].val # None}
ToArray == {i \in Waiting : InArray(todo[i].key)}
ToNodes == {i \in Waiting : ~InArray(todo[i].key)}
FullSlots == {i \in 1 .. Len(array) : array[i] # None}
FreeNodes == {n \in Slots : ~Used(n)}

(* While a rehash runs there is a node for each entry that still needs one *)
(* and another for the write that started it ...                           *)
Room == call # None => Cardinality(FreeNodes) > Cardinality(ToNodes)

(* ... and the entries that still go to the array part fill it half ...    *)
Half == call # None => 2 * (Cardinality(FullSlots) + Cardinality(ToArray)) >= Len(array)

(* ... since each of them has an empty slot of its own.                    *)
SlotsOpen == \A i \in ToArray : array[AsInt(todo[i].key)] = None

LEMMA ShiftedCount ==
  ASSUME NEW S \in SUBSET Int, NEW T \in SUBSET Int, IsFiniteSet(S), NEW d \in Int,
         \A i \in S : i - d \in T, \A i \in T : i + d \in S
  PROVE  IsFiniteSet(T) /\ Cardinality(T) = Cardinality(S)
<1> DEFINE f == [i \in S |-> i - d]
<1>1. f \in Bijection(S, T)
  <2>1. f \in [S -> T]
    OBVIOUS
  <2>2. \A i, j \in S : f[i] = f[j] => i = j
    OBVIOUS
  <2>3. \A j \in T : j + d \in S /\ f[j + d] = j
    OBVIOUS
  <2> HIDE DEF f
  <2> QED
    BY <2>1, <2>2, <2>3 DEF Bijection, Injection, Surjection, IsInjective
<1>2. ExistsBijection(S, T)
  BY <1>1 DEF ExistsBijection
<1> QED
  BY <1>2, FS_Bijection

LEMMA MirroredCount ==
  ASSUME NEW S \in SUBSET Int, NEW T \in SUBSET Int, IsFiniteSet(S), NEW d \in Int,
         \A i \in S : d - i \in T, \A i \in T : d - i \in S
  PROVE  IsFiniteSet(T) /\ Cardinality(T) = Cardinality(S)
<1> DEFINE f == [i \in S |-> d - i]
<1>1. f \in Bijection(S, T)
  <2>1. f \in [S -> T]
    OBVIOUS
  <2>2. \A i, j \in S : f[i] = f[j] => i = j
    OBVIOUS
  <2>3. \A j \in T : d - j \in S /\ f[d - j] = j
    OBVIOUS
  <2> HIDE DEF f
  <2> QED
    BY <2>1, <2>2, <2>3 DEF Bijection, Injection, Surjection, IsInjective
<1>2. ExistsBijection(S, T)
  BY <1>1 DEF ExistsBijection
<1> QED
  BY <1>2, FS_Bijection

LEMMA RestCount ==
  ASSUME NEW S, NEW T, IsFiniteSet(S), T \subseteq S
  PROVE  IsFiniteSet(S \ T) /\ Cardinality(S \ T) = Cardinality(S) - Cardinality(T)
<1>1. S \cap T = T
  OBVIOUS
<1>2. /\ IsFiniteSet(S \ T)
      /\ Cardinality(S \ T) = Cardinality(S) - Cardinality(S \cap T)
  BY FS_Difference
<1> QED
  BY <1>1, <1>2

LEMMA CountsAreFinite ==
  ASSUME TypeOK
  PROVE  /\ IsFiniteSet(Waiting) /\ IsFiniteSet(FullSlots) /\ IsFiniteSet(FreeNodes)
         /\ IsFiniteSet(ToArray) /\ IsFiniteSet(ToNodes)
<1>1. Len(todo) \in Nat /\ Len(array) \in Nat /\ size \in Nat
  BY DEF TypeOK
<1>2. IsFiniteSet(1 .. Len(todo)) /\ IsFiniteSet(1 .. Len(array)) /\ IsFiniteSet(Slots)
  BY <1>1, FS_Interval DEF Slots
<1>3. IsFiniteSet(Waiting) /\ IsFiniteSet(FullSlots) /\ IsFiniteSet(FreeNodes)
  BY <1>2, FS_Subset DEF Waiting, FullSlots, FreeNodes
<1> QED
  BY <1>3, FS_Subset DEF ToArray, ToNodes

(* Room is what set() needs.                                               *)
LEMMA RoomFits == TypeOK /\ FirstFreeBound /\ Room => RehashFits
<1> SUFFICES ASSUME TypeOK, FirstFreeBound, Room PROVE RehashFits
  OBVIOUS
<1>1. ASSUME call # None, NEW k PROVE ~MustRehash(k)
  <2>1. SUFFICES ASSUME MustRehash(k) PROVE FALSE
    OBVIOUS
  <2>2. FreeNodes = {}
    <3>1. CASE size = 0
      BY <3>1 DEF FreeNodes, Slots
    <3>2. CASE size # 0
      <4>1. FreeBelow = {}
        BY <2>1, <3>2 DEF MustRehash
      <4>2. \A n \in Slots : n \in Int /\ firstfree \in Int
        BY DEF Slots, TypeOK
      <4> QED
        BY <4>1, <4>2 DEF FreeBelow, FreeNodes, FirstFreeBound
    <3> QED
      BY <3>1, <3>2
  <2>3. Cardinality(ToNodes) \in Nat
    BY CountsAreFinite, FS_CardinalityType
  <2> QED
    BY <1>1, <2>2, <2>3, FS_EmptySet DEF Room
<1> QED
  BY <1>1 DEF RehashFits, TypeOK

LEMMA HalfIsUsed == TypeOK /\ Half => ArrayHalfUsed
<1> SUFFICES ASSUME TypeOK, Half, call # None, todo = <<>>
             PROVE  2 * Cardinality(FullSlots) >= Len(array)
  BY DEF ArrayHalfUsed, FullSlots
<1>1. ToArray = {}
  <2>1. \A i : i \notin 1 .. Len(todo)
    OBVIOUS
  <2> QED
    BY <2>1 DEF ToArray, Waiting
<1>2. Cardinality(ToArray) = 0 /\ Cardinality(FullSlots) \in Nat
  BY <1>1, CountsAreFinite, FS_EmptySet, FS_CardinalityType
<1> QED
  BY <1>2 DEF Half
(* Re-inserting the first of the entries leaves the others to do.          *)
LEMMA TailCounts ==
  ASSUME TypeOK, todo # <<>>, todo' = Tail(todo), Len(array') = Len(array)
  PROVE  /\ Cardinality(ToNodes') = Cardinality(ToNodes \ {1})
         /\ Cardinality(ToArray') = Cardinality(ToArray \ {1})
<1>1. /\ \A i \in 1 .. Len(todo') : i + 1 \in 1 .. Len(todo) /\ i + 1 # 1 /\ todo'[i] = todo[i + 1]
      /\ \A i \in 1 .. Len(todo) : i # 1 => i - 1 \in 1 .. Len(todo') /\ todo'[i - 1] = todo[i]
  BY TailWaits
<1>2. \A k : InArray(k)' <=> InArray(k)
  BY DEF InArray
<1>3. /\ ToNodes \ {1} \in SUBSET Int /\ ToNodes' \in SUBSET Int
      /\ ToArray \ {1} \in SUBSET Int /\ ToArray' \in SUBSET Int
  BY DEF ToNodes, ToArray, Waiting
<1>4. IsFiniteSet(ToNodes \ {1}) /\ IsFiniteSet(ToArray \ {1})
  BY CountsAreFinite, FS_RemoveElement
<1> DEFINE d == 1
<1>5. /\ d \in Int
      /\ \A i \in ToNodes \ {1} : i - d \in ToNodes'
      /\ \A i \in ToNodes' : i + d \in ToNodes \ {1}
      /\ \A i \in ToArray \ {1} : i - d \in ToArray'
      /\ \A i \in ToArray' : i + d \in ToArray \ {1}
  BY <1>1, <1>2 DEF ToNodes, ToArray, Waiting
<1> HIDE DEF d
<1>6. Cardinality(ToNodes') = Cardinality(ToNodes \ {1})
  BY <1>3, <1>4, <1>5, ShiftedCount
<1>7. Cardinality(ToArray') = Cardinality(ToArray \ {1})
  BY <1>3, <1>4, <1>5, ShiftedCount
<1> QED
  BY <1>6, <1>7

NodesFinite == IsFiniteSet(FreeNodes) /\ Cardinality(FreeNodes) \in Nat

LEMMA NodesAreFinite == TypeOK => NodesFinite
<1> QED
  BY CountsAreFinite, FS_CardinalityType DEF NodesFinite

LEMMA OneNodeLess ==
  ASSUME TypeOK, TypeOK', NEW x, FreeNodes \ {x} \subseteq FreeNodes'
  PROVE  Cardinality(FreeNodes') >= Cardinality(FreeNodes) - 1
<1>1. IsFiniteSet(FreeNodes) /\ Cardinality(FreeNodes) \in Nat
  BY CountsAreFinite, FS_CardinalityType
<1>2. IsFiniteSet(FreeNodes') /\ Cardinality(FreeNodes') \in Nat
  <2>1. NodesFinite'
    BY NodesAreFinite, PTL
  <2> QED
    BY <2>1 DEF NodesFinite
<1>3. Cardinality(FreeNodes \ {x}) >= Cardinality(FreeNodes) - 1
  BY <1>1, FS_RemoveElement
<1>4. Cardinality(FreeNodes') >= Cardinality(FreeNodes \ {x})
  BY <1>2, FS_Subset
<1>5. Cardinality(FreeNodes \ {x}) \in Nat
  BY <1>1, FS_RemoveElement, FS_CardinalityType
<1> QED
  BY <1>1, <1>2, <1>3, <1>4, <1>5

(* insertkey takes one node.                                               *)
LEMMA InsertTakesOneNode ==
  ASSUME Inv, Inv', size \in Nat \ {0}, size' = size, NEW k \in Keys, NEW v, InsertKey(k, v)
  PROVE  Cardinality(FreeNodes') >= Cardinality(FreeNodes) - 1
<1> DEFINE mp == MainPosition(k)
<1>0. /\ mp \in Slots /\ node \in [Slots -> NodeType] /\ k # None /\ None \notin Slots
      /\ Slots' = Slots
  BY MainPositionInSlots, NoneAssumption DEF Inv, TypeOK, Slots
<1>1. CASE InsertFree(k, v)
  <2>1. node' = [node EXCEPT ![mp] = [key |-> k, val |-> v, next |-> node[mp].next]]
    BY <1>1 DEF InsertFree
  <2>2. \A n \in Slots \ {mp} : node'[n] = node[n]
    BY <1>0, <2>1
  <2>3. FreeNodes \ {mp} \subseteq FreeNodes'
    BY <1>0, <2>2 DEF FreeNodes, Used
  <2> QED
    BY <2>3, OneNodeLess DEF Inv
<1>2. ASSUME NEW freen \in Highest(FreeBelow), InsertBehind(k, v, freen)
      PROVE  Cardinality(FreeNodes') >= Cardinality(FreeNodes) - 1
  <2>1. /\ freen \in Slots /\ ~Used(freen) /\ Used(mp) /\ mp # freen
        /\ node' = [node EXCEPT ![freen] = [key |-> k, val |-> v, next |-> node[mp].next],
                                ![mp].next = freen]
    BY <1>2, FreeNodeIsApart DEF InsertBehind, Inv
  <2>2. \A n \in Slots \ {mp, freen} : node'[n] = node[n]
    BY <1>0, <2>1 DEF NodeType
  <2>3. FreeNodes \ {freen} \subseteq FreeNodes'
    BY <1>0, <2>1, <2>2 DEF FreeNodes, Used
  <2> QED
    BY <2>3, OneNodeLess DEF Inv
<1>3. ASSUME NEW freen \in Highest(FreeBelow), InsertMove(k, v, freen)
      PROVE  Cardinality(FreeNodes') >= Cardinality(FreeNodes) - 1
  <2> DEFINE p == Prior(mp)
  <2>1. /\ freen \in Slots /\ ~Used(freen) /\ Used(mp) /\ mp # freen
        /\ node' = [node EXCEPT ![Prior(mp)].next = freen,
                                ![freen] = node[mp],
                                ![mp] = [key |-> k, val |-> v, next |-> None]]
    BY <1>3, FreeNodeIsApart DEF InsertMove, Inv
  <2>2. \A n \in Slots \ {mp, freen} : node'[n].key = node[n].key
    <3> HIDE DEF p
    <3> DEFINE first == [node EXCEPT ![p].next = freen]
    <3>1. \A n \in Slots : first[n].key = node[n].key
      BY <1>0 DEF NodeType
    <3>2. \A n \in Slots \ {mp, freen} : node'[n] = first[n]
      BY <1>0, <2>1 DEF p
    <3> QED
      BY <3>1, <3>2
  <2>3. FreeNodes \ {freen} \subseteq FreeNodes'
    BY <1>0, <2>1, <2>2 DEF FreeNodes, Used
  <2> QED
    BY <2>3, OneNodeLess DEF Inv
<1> QED
  BY <1>1, <1>2, <1>3 DEF InsertKey

(* One iteration of resize takes one of the empty array slots or one of    *)
(* the free nodes at most, and one of the entries off the list.            *)
LEMMA ReinsertKeepsSizes ==
  ASSUME Inv, Inv', Reinsert
  PROVE  /\ Room => Room'
         /\ IntsFit /\ WaitingApart /\ Half /\ SlotsOpen => Half' /\ SlotsOpen'
<1> DEFINE e == Head(todo)
<1>0. /\ todo # <<>> /\ todo' = Tail(todo) /\ UNCHANGED call /\ call # None
      /\ 1 \in 1 .. Len(todo) /\ e = todo[1]
      /\ \A i \in 1 .. Len(todo') : i + 1 \in 1 .. Len(todo) /\ i + 1 # 1 /\ todo'[i] = todo[i + 1]
  BY TailWaits DEF Reinsert, Inv, TypeOK
<1>1. /\ IsFiniteSet(ToArray) /\ IsFiniteSet(ToNodes) /\ IsFiniteSet(FreeNodes) /\ IsFiniteSet(FullSlots)
      /\ Cardinality(ToArray) \in Nat /\ Cardinality(ToNodes) \in Nat
      /\ Cardinality(FreeNodes) \in Nat /\ Cardinality(FullSlots) \in Nat /\ Len(array) \in Nat
  BY CountsAreFinite, FS_CardinalityType DEF Inv, TypeOK
<1>2. IsFiniteSet(FreeNodes') /\ Cardinality(FreeNodes') \in Nat
  <2>1. NodesFinite'
    BY NodesAreFinite, PTL DEF Inv
  <2> QED
    BY <2>1 DEF NodesFinite
<1>3. CASE e.val = None /\ UNCHANGED <<parts, other>>
  <2>1. 1 \notin ToNodes /\ 1 \notin ToArray
    BY <1>0, <1>3 DEF ToNodes, ToArray, Waiting
  <2>2. UNCHANGED <<array, size, node>> /\ FullSlots' = FullSlots /\ FreeNodes' = FreeNodes
    BY <1>3 DEF parts, FullSlots, FreeNodes, Slots, Used
  <2>3. Cardinality(ToNodes') = Cardinality(ToNodes) /\ Cardinality(ToArray') = Cardinality(ToArray)
    <3>1. ToNodes \ {1} = ToNodes /\ ToArray \ {1} = ToArray
      BY <2>1
    <3> QED
      BY <1>0, <2>2, <3>1, TailCounts DEF Inv
  <2>4. SlotsOpen => SlotsOpen'
    BY <1>0, <2>2 DEF SlotsOpen, ToArray, Waiting, InArray
  <2> QED
    BY <1>0, <2>2, <2>3, <2>4 DEF Room, Half
<1>4. CASE e.val # None /\ WriteArray(e.key, e.val)
  <2> DEFINE s == AsInt(e.key)
  <2>1. /\ array' = [array EXCEPT ![s] = e.val] /\ UNCHANGED <<size, node>>
        /\ InArray(e.key) /\ s \in 1 .. Len(array) /\ Len(array') = Len(array)
        /\ array'[s] = e.val /\ \A i \in 1 .. Len(array) : i # s => array'[i] = array[i]
    <3>1. array \in Seq(Vals \union {None})
      BY DEF Inv, TypeOK
    <3> QED
      BY <1>4, <3>1 DEF WriteArray, InArray
  <2>2. 1 \notin ToNodes /\ 1 \in ToArray /\ FreeNodes' = FreeNodes
    BY <1>0, <1>4, <2>1 DEF ToNodes, ToArray, Waiting, FreeNodes, Slots, Used
  <2>3. Cardinality(ToNodes') = Cardinality(ToNodes) /\ Cardinality(ToArray') = Cardinality(ToArray) - 1
    <3>1. ToNodes \ {1} = ToNodes
      BY <2>2
    <3> QED
      BY <1>0, <1>1, <2>1, <2>2, <3>1, TailCounts, FS_RemoveElement DEF Inv
  <2>4. ASSUME IntsFit, WaitingApart, Half, SlotsOpen PROVE Half' /\ SlotsOpen'
    <3>1. FullSlots' = FullSlots \union {s} /\ s \notin FullSlots
      <4>1. array[s] = None
        BY <1>0, <2>2, <2>4 DEF SlotsOpen
      <4> HIDE DEF s
      <4> QED
        BY <1>4, <2>1, <4>1 DEF FullSlots
    <3>2. Cardinality(FullSlots') = Cardinality(FullSlots) + 1
      BY <1>1, <3>1, FS_AddElement
    <3>3. ASSUME NEW i \in ToArray' PROVE array'[AsInt(todo'[i].key)] = None
      <4> DEFINE j == i + 1
      <4>1. j \in ToArray /\ j # 1 /\ todo'[i].key = todo[j].key /\ todo[j].val # None
        BY <1>0, <2>1, <3>3 DEF ToArray, Waiting, InArray
      <4>2. todo[j].key # e.key
        BY <1>0, <1>4, <2>4, <4>1 DEF WaitingApart, ToArray, Waiting
      <4>3. AsInt(todo[j].key) # s /\ AsInt(todo[j].key) \in 1 .. Len(array)
        BY <2>1, <2>4, <4>1, <4>2, AsIntIsKey DEF ToArray, InArray
      <4> QED
        BY <2>1, <2>4, <4>1, <4>3 DEF SlotsOpen
    <3>4. SlotsOpen'
      BY <3>3 DEF SlotsOpen
    <3> QED
      BY <1>0, <1>1, <2>1, <2>3, <2>4, <3>2, <3>4 DEF Half
  <2> QED
    BY <1>0, <2>2, <2>3, <2>4 DEF Room
<1>5. CASE e.val # None /\ Put(e.key, e.val) /\ ~InArray(e.key)
  <2>1. UNCHANGED <<array, size>> /\ 1 \in ToNodes /\ 1 \notin ToArray /\ FullSlots' = FullSlots
    BY <1>0, <1>5 DEF Put, WriteArray, WriteNode, NewIndexFallback, WriteNew, parts,
                      ToNodes, ToArray, Waiting, FullSlots
  <2>2. Cardinality(ToNodes') = Cardinality(ToNodes) - 1 /\ Cardinality(ToArray') = Cardinality(ToArray)
    <3>1. ToArray \ {1} = ToArray
      BY <2>1
    <3> QED
      BY <1>0, <1>1, <2>1, <3>1, TailCounts, FS_RemoveElement DEF Inv
  <2>3. Cardinality(FreeNodes') >= Cardinality(FreeNodes) - 1
    <3>1. CASE WriteNode(e.key, e.val)
      <4>1. node' = [node EXCEPT ![NodeIndex(e.key)].val = e.val] /\ node \in [Slots -> NodeType]
        BY <3>1 DEF WriteNode, Inv, TypeOK
      <4>2. \A n \in Slots : node'[n].key = node[n].key
        BY <4>1 DEF NodeType
      <4>3. FreeNodes' = FreeNodes
        BY <2>1, <4>2 DEF FreeNodes, Slots, Used
      <4> QED
        BY <1>1, <4>3
    <3>2. CASE NewIndexFallback(e.key, e.val)
      <4>1. FreeNodes' = FreeNodes
        BY <3>2 DEF NewIndexFallback, parts, FreeNodes, Slots, Used
      <4> QED
        BY <1>1, <4>1
    <3>3. CASE WriteNew(e.key, e.val)
      <4>1. size \in Nat \ {0} /\ InsertKey(e.key, e.val)
        BY <3>3 DEF WriteNew, MustRehash, Inv, TypeOK
      <4>2. e.key \in Keys
        BY <1>0, <1>5 DEF Inv, TypeOK
      <4> QED
        BY <2>1, <4>1, <4>2, InsertTakesOneNode
    <3> QED
      BY <1>5, <3>1, <3>2, <3>3 DEF Put, WriteArray
  <2>4. SlotsOpen => SlotsOpen'
    BY <1>0, <2>1 DEF SlotsOpen, ToArray, Waiting, InArray
  <2> QED
    BY <1>0, <1>1, <1>2, <2>1, <2>2, <2>3, <2>4 DEF Room, Half
<1> QED
  BY <1>3, <1>4, <1>5 DEF Reinsert, Put, WriteNode, NewIndexFallback, WriteNew, Diverts, Inserts, Absent
(* What numuse counts: the entries that stay out of an array part of n     *)
(* slots and those that are given a slot there.                            *)
LEMMA RehashHasRoom ==
  ASSUME Inv, NEW k \in Keys, NEW v \in Vals, Rehash(k, v)
  PROVE  Room' /\ Half' /\ (IntsFit => SlotsOpen')
<1>1. PICK n \in NewArraySizes :
        /\ array' = Resized(n)
        /\ todo' = OldEntries(n)
        /\ \E s \in Pow2 : /\ IsNodeSize(s, Total - CountUpTo(n))
                           /\ size' = s /\ node' = [m \in 0 .. s - 1 |-> FreeNode]
  BY DEF Rehash
<1>2. n \in Nat /\ n <= MaxSize /\ (n # 0 => 2 * CountUpTo(n) >= n)
  BY <1>1, KeysAssumption DEF NewArraySizes, ArraySizes, Highest, Pow2
<1>3. size' \in Nat \ {0} /\ size' > Total - CountUpTo(n) /\ \A m \in Slots' : ~Used(m)'
  BY <1>1, KeysAssumption DEF Pow2, IsNodeSize, Slots, Used, FreeNode
<1>4. Inv'
  BY RehashKeepsInv DEF Inv
<1>5. /\ Len(array) \in Nat /\ Len(array') = n
      /\ \A i \in 1 .. n : array'[i] = IF i <= Len(array) THEN array[i] ELSE None
  <2>1. array' = [i \in 1 .. n |-> IF i <= Len(array) THEN array[i] ELSE None]
    BY <1>1 DEF Resized
  <2>2. array' \in Seq(Vals \union {None}) /\ array \in Seq(Vals \union {None})
    BY <1>4 DEF Inv, TypeOK
  <2> QED
    BY <1>2, <2>1, <2>2
<1> DEFINE slice == IF Len(array) > n THEN Len(array) - n ELSE 0
<1>6. slice = (IF Len(array) > n THEN Len(array) - n ELSE 0)
  OBVIOUS
<1> HIDE DEF slice
<1>7. /\ slice \in Nat /\ size \in Nat /\ Len(todo') = slice + size
      /\ \A i \in 1 .. slice :
           n + i \in 1 .. Len(array) /\ todo'[i].key = n + i /\ todo'[i].val = array[n + i]
      /\ \A i \in slice + 1 .. slice + size :
           /\ slice + size - i \in Slots
           /\ todo'[i].key = node[slice + size - i].key
           /\ todo'[i].val = node[slice + size - i].val
  <2>1. /\ slice \in Nat /\ Len(OldEntries(n)) = slice + size
        /\ \A i \in 1 .. slice : /\ n + i \in 1 .. Len(array)
                                 /\ OldEntries(n)[i].key = n + i
                                 /\ OldEntries(n)[i].val = array[n + i]
        /\ \A i \in slice + 1 .. slice + size :
             /\ slice + size - i \in Slots
             /\ OldEntries(n)[i].key = node[slice + size - i].key
             /\ OldEntries(n)[i].val = node[slice + size - i].val
    BY <1>2, <1>6, OldEntriesAre DEF Inv
  <2> QED
    BY <1>1, <2>1 DEF Inv, TypeOK
<1>8. \A j : InArray(j)' <=> ArrayIndex(j) \in 1 .. n
  BY <1>2, <1>5, KeysAssumption DEF InArray, ArrayIndex
<1>9. \A m \in Slots : Live(m) <=> node[m].val # None
  BY DEF Live, Inv, TypeOK, FreeNode
(* the present entries ... *)
<1> DEFINE Low == {i \in 1 .. Len(array) : i <= n /\ array[i] # None}
           Nin == {m \in Slots : Live(m) /\ ArrayIndex(node[m].key) \in 1 .. n}
           Ain == FullSlots \ Low
           Nout == {m \in Slots : Live(m)} \ Nin
(* ... and where they are on the list.                                     *)
           TA == {i \in 1 .. slice : todo'[i].val # None}
           TN == {i \in slice + 1 .. slice + size :
                    todo'[i].val # None /\ ArrayIndex(todo'[i].key) \notin 1 .. n}
           TI == {i \in slice + 1 .. slice + size :
                    todo'[i].val # None /\ ArrayIndex(todo'[i].key) \in 1 .. n}
<1>10. /\ IsFiniteSet(Low) /\ IsFiniteSet(Nin) /\ IsFiniteSet(Ain) /\ IsFiniteSet(Nout)
       /\ Cardinality(Ain) + Cardinality(Nout) = Total - CountUpTo(n)
       /\ Cardinality(Low) + Cardinality(Nin) = CountUpTo(n)
  <2> DEFINE N == {m \in Slots : Live(m)}
  <2>1. IsFiniteSet(FullSlots) /\ IsFiniteSet(Slots)
    <3>1. 0 \in Int /\ size - 1 \in Int
      BY <1>7
    <3> QED
      BY <3>1, CountsAreFinite, FS_Interval DEF Inv, Slots
  <2>2. IsFiniteSet(N)
    BY <2>1, FS_Subset
  <2>3. IsFiniteSet(Low) /\ Low \subseteq FullSlots
    BY <2>1, FS_Subset DEF FullSlots
  <2>4. IsFiniteSet(Nin) /\ Nin \subseteq N
    BY <2>2, FS_Subset
  <2>5. Total = Cardinality(FullSlots) + Cardinality(N)
    BY DEF Total, FullSlots
  <2>6. CountUpTo(n) = Cardinality(Low) + Cardinality(Nin)
    BY DEF CountUpTo
  <2> HIDE DEF N, Low, Nin
  <2>8. IsFiniteSet(FullSlots \ Low) /\ Cardinality(FullSlots \ Low) = Cardinality(FullSlots) - Cardinality(Low)
    BY <2>1, <2>3, RestCount
  <2>9. IsFiniteSet(N \ Nin) /\ Cardinality(N \ Nin) = Cardinality(N) - Cardinality(Nin)
    BY <2>2, <2>4, RestCount
  <2>10. /\ Cardinality(FullSlots) \in Nat /\ Cardinality(N) \in Nat
         /\ Cardinality(Low) \in Nat /\ Cardinality(Nin) \in Nat
    BY <2>1, <2>2, <2>3, <2>4, FS_CardinalityType
  <2> QED
    BY <2>3, <2>4, <2>5, <2>6, <2>8, <2>9, <2>10 DEF N
<1>11. IsFiniteSet(TA) /\ Cardinality(TA) = Cardinality(Ain)
  <2>1. Ain \in SUBSET Int /\ TA \in SUBSET Int
    BY DEF FullSlots
  <2>2. \A i \in Ain : i - n \in TA
    <3>1. SUFFICES ASSUME NEW i \in Ain PROVE i - n \in TA
      OBVIOUS
    <3>2. i \in 1 .. Len(array) /\ i > n /\ array[i] # None
      BY <1>2, <1>5 DEF FullSlots
    <3>3. i - n \in 1 .. slice /\ n + (i - n) = i
      BY <1>2, <1>5, <1>6, <3>2
    <3> QED
      BY <1>7, <3>2, <3>3
  <2>3. \A i \in TA : i + n \in Ain
    <3>1. SUFFICES ASSUME NEW i \in TA PROVE i + n \in Ain
      OBVIOUS
    <3>2. i \in 1 .. slice /\ i + n = n + i /\ ~(i + n <= n)
      BY <1>2, <1>7
    <3> QED
      BY <1>7, <3>2 DEF FullSlots
  <2>4. IsFiniteSet(Ain) /\ n \in Int
    BY <1>2, <1>10
  <2> HIDE DEF Ain, TA
  <2> QED
    BY <2>1, <2>2, <2>3, <2>4, ShiftedCount
<1> DEFINE d == slice + size
<1>12. d \in Int /\ TN \in SUBSET Int /\ TI \in SUBSET Int /\ Nin \in SUBSET Int /\ Nout \in SUBSET Int
  BY <1>7 DEF Slots
<1>14. IsFiniteSet(TN) /\ Cardinality(TN) = Cardinality(Nout)
  <2>1. \A m \in Nout : d - m \in TN
    <3>1. SUFFICES ASSUME NEW m \in Nout PROVE d - m \in TN
      OBVIOUS
    <3>2. m \in Slots /\ node[m].val # None /\ ArrayIndex(node[m].key) \notin 1 .. n
      BY <1>9
    <3> DEFINE i == d - m
    <3>3. i \in slice + 1 .. slice + size /\ slice + size - i = m
      <4>1. m \in 0 .. size - 1
        BY <3>2 DEF Slots
      <4> QED
        BY <1>7, <4>1
    <3> HIDE DEF i
    <3>4. i \in TN
      BY <1>7, <3>2, <3>3
    <3> QED
      BY <3>4 DEF i
  <2>2. \A i \in TN : d - i \in Nout
    <3>1. SUFFICES ASSUME NEW i \in TN PROVE d - i \in Nout
      OBVIOUS
    <3>2. /\ d - i \in Slots /\ node[d - i].val # None
          /\ ArrayIndex(node[d - i].key) \notin 1 .. n
      BY <1>7
    <3> QED
      BY <1>9, <3>2
  <2> HIDE DEF TN, Nout, d
  <2> QED
    BY <1>10, <1>12, <2>1, <2>2, MirroredCount
<1>15. IsFiniteSet(TI) /\ Cardinality(TI) = Cardinality(Nin)
  <2>1. \A m \in Nin : d - m \in TI
    <3>1. SUFFICES ASSUME NEW m \in Nin PROVE d - m \in TI
      OBVIOUS
    <3>2. m \in Slots /\ node[m].val # None /\ ArrayIndex(node[m].key) \in 1 .. n
      BY <1>9
    <3> DEFINE i == d - m
    <3>3. i \in slice + 1 .. slice + size /\ slice + size - i = m
      <4>1. m \in 0 .. size - 1
        BY <3>2 DEF Slots
      <4> QED
        BY <1>7, <4>1
    <3> HIDE DEF i
    <3>4. i \in TI
      BY <1>7, <3>2, <3>3
    <3> QED
      BY <3>4 DEF i
  <2>2. \A i \in TI : d - i \in Nin
    <3>1. SUFFICES ASSUME NEW i \in TI PROVE d - i \in Nin
      OBVIOUS
    <3>2. /\ d - i \in Slots /\ node[d - i].val # None
          /\ ArrayIndex(node[d - i].key) \in 1 .. n
      BY <1>7
    <3> QED
      BY <1>9, <3>2
  <2> HIDE DEF TI, Nin, d
  <2> QED
    BY <1>10, <1>12, <2>1, <2>2, MirroredCount
<1>16. \A i \in 1 .. Len(todo') : i \in 1 .. slice \/ i \in slice + 1 .. slice + size
  BY <1>7
<1>17. Room'
  <2>1. FreeNodes' = 0 .. size' - 1
    BY <1>3 DEF FreeNodes, Slots
  <2>2. Cardinality(FreeNodes') = size'
    BY <1>3, <2>1, FS_Interval
  <2>3. ToNodes' \subseteq TA \union TN
    BY <1>8, <1>16 DEF ToNodes, Waiting
  <2> HIDE DEF TA, TN, Ain, Nout
  <2>4. /\ IsFiniteSet(TA \union TN)
        /\ Cardinality(TA \union TN) = Cardinality(TA) + Cardinality(TN) - Cardinality(TA \cap TN)
    BY <1>11, <1>14, FS_Union
  <2>5. IsFiniteSet(TA \cap TN)
    BY <1>11, FS_Subset
  <2>6. Cardinality(ToNodes') <= Cardinality(TA \union TN) /\ IsFiniteSet(ToNodes')
    BY <2>3, <2>4, FS_Subset
  <2>7. /\ Cardinality(ToNodes') \in Nat /\ Cardinality(TA) \in Nat /\ Cardinality(TN) \in Nat
        /\ Cardinality(TA \cap TN) \in Nat
    BY <1>11, <1>14, <2>5, <2>6, FS_CardinalityType
  <2>8. Cardinality(ToNodes') < size'
    BY <1>3, <1>10, <1>11, <1>14, <2>4, <2>6, <2>7
  <2> QED
    BY <1>3, <2>2, <2>7, <2>8 DEF Room
<1>18. Half'
  <2>1. FullSlots' = Low
    BY <1>2, <1>5 DEF FullSlots
  <2>2. TI \subseteq ToArray'
    BY <1>7, <1>8 DEF ToArray, Waiting
  <2>3. ToArray' \subseteq 1 .. Len(todo') /\ Len(todo') \in Nat
    BY <1>7 DEF ToArray, Waiting
  <2>4. IsFiniteSet(ToArray')
    <3>1. IsFiniteSet(1 .. Len(todo'))
      BY <2>3, FS_Interval
    <3> QED
      BY <2>3, <3>1, FS_Subset
  <2> HIDE DEF TI, Low, Nin
  <2>5. Cardinality(TI) <= Cardinality(ToArray')
    BY <2>2, <2>4, FS_Subset
  <2>6. /\ Cardinality(TI) \in Nat /\ Cardinality(ToArray') \in Nat /\ Cardinality(Low) \in Nat
    BY <1>10, <1>15, <2>4, FS_CardinalityType
  <2>7. 2 * (Cardinality(FullSlots') + Cardinality(ToArray')) >= n
    <3> DEFINE cl == Cardinality(Low)
               ci == Cardinality(TI)
               ca == Cardinality(ToArray')
               cu == CountUpTo(n)
    <3>1. /\ cl \in Nat /\ ci \in Nat /\ ca \in Nat /\ ci <= ca /\ cu = cl + ci
          /\ n \in Nat /\ (n # 0 => 2 * cu >= n)
      BY <1>2, <1>10, <1>15, <2>5, <2>6
    <3> HIDE DEF cl, ci, ca, cu
    <3>2. 2 * (cl + ca) >= n
      BY <3>1
    <3> QED
      BY <2>1, <3>2 DEF cl, ca
  <2> QED
    BY <1>5, <2>7 DEF Half
<1>19. ASSUME IntsFit PROVE SlotsOpen'
  <2>1. SUFFICES ASSUME NEW i \in ToArray' PROVE array'[AsInt(todo'[i].key)] = None
    BY DEF SlotsOpen
  <2>2. /\ i \in 1 .. Len(todo') /\ todo'[i].val # None
        /\ todo'[i].key \in IntKeys /\ AsInt(todo'[i].key) \in 1 .. n
    BY <1>5, <2>1 DEF ToArray, Waiting, InArray
  <2>3. CASE i \in 1 .. slice
    <3>1. AsInt(todo'[i].key) = n + i
      BY <1>7, <1>19, <2>2, <2>3, AsIntIsKey
    <3> QED
      BY <1>2, <1>7, <2>2, <2>3, <3>1
  <2>4. CASE i \in slice + 1 .. slice + size
    <3> DEFINE m == slice + size - i
    <3>1. m \in Slots /\ Used(m) /\ todo'[i].key = node[m].key
      BY <1>7, <1>9, <2>2, <2>4 DEF Live
    <3>2. ~InArray(node[m].key)
      BY <3>1 DEF Inv, ChainInv, StoredOnce
    <3>3. ~(AsInt(todo'[i].key) <= Len(array))
      BY <1>2, <1>5, <2>2, <3>1, <3>2 DEF InArray
    <3> QED
      BY <1>5, <2>2, <3>3
  <2> QED
    BY <1>16, <2>2, <2>3, <2>4
<1> QED
  BY <1>17, <1>18, <1>19
(* The waiting entries keep apart in every table whose integers fit.       *)
LEMMA ApartStep == IntsFit /\ Inv /\ WaitingApart /\ [Next]_vars => WaitingApart'
<1> SUFFICES ASSUME IntsFit, Inv, WaitingApart, [Next]_vars PROVE WaitingApart'
  OBVIOUS
<1>1. CASE todo' = todo
  BY <1>1 DEF WaitingApart
<1>2. ASSUME NEW k \in Keys, NEW v \in Vals, Rehash(k, v) PROVE WaitingApart'
  <2>1. PICK n \in NewArraySizes : todo' = OldEntries(n)
    BY <1>2 DEF Rehash
  <2>2. n \in Nat
    BY <2>1, KeysAssumption DEF NewArraySizes, ArraySizes, Highest, Pow2
  <2>3. ListsTheTable(todo', n)
    BY <2>1, <2>2, OldEntriesAreTheTable
  <2> QED
    BY <2>3 DEF ListsTheTable, WaitingApart
<1>3. CASE Reinsert
  BY <1>3, TailIsApart DEF Reinsert, Inv
<1>4. CASE todo' = <<>>
  <2>1. \A i : i \notin 1 .. Len(todo')
    BY <1>4
  <2> QED
    BY <2>1 DEF WaitingApart
<1> QED
  BY <1>1, <1>2, <1>3, <1>4 DEF Next, Set, Remove, HandlerFails, FinishSet, SetMetatable, vars

(* Between two rehashes nothing waits.                                     *)
LEMMA IdleSizes ==
  ASSUME Inv', call' = None
  PROVE  Room' /\ Half' /\ SlotsOpen'
<1>1. todo' = <<>>
  BY DEF Inv, TypeOK
<1>2. \A i : i \notin 1 .. Len(todo')
  BY <1>1
<1> QED
  BY <1>2 DEF Room, Half, SlotsOpen, ToArray, Waiting

LEMMA SameSizes ==
  ASSUME UNCHANGED vars
  PROVE  (Room => Room') /\ (Half /\ SlotsOpen => Half' /\ SlotsOpen')
<1>1. UNCHANGED <<array, size, node, todo, call>>
  BY DEF vars, parts
<1>2. Slots' = Slots /\ \A k : InArray(k)' <=> InArray(k)
  BY <1>1 DEF Slots, InArray
<1>3. /\ FullSlots' = FullSlots /\ FreeNodes' = FreeNodes
      /\ ToArray' = ToArray /\ ToNodes' = ToNodes
  BY <1>1, <1>2 DEF FullSlots, FreeNodes, ToArray, ToNodes, Waiting, Used
<1> QED
  BY <1>1, <1>3 DEF Room, Half, SlotsOpen

(* A step of the table begins a rehash, goes on with one or leaves none.   *)
LEMMA RehashSteps ==
  ASSUME Inv, [Next]_vars
  PROVE  \/ \E k \in Keys, v \in Vals : Rehash(k, v)
         \/ Reinsert
         \/ call' = None
         \/ UNCHANGED vars
BY DEF Next, Set, Remove, HandlerFails, FinishSet, SetMetatable

LEMMA RoomStep == Inv /\ Room /\ [Next]_vars => Room'
<1> SUFFICES ASSUME Inv, Room, [Next]_vars PROVE Room'
  OBVIOUS
<1>1. Inv'
  BY NextKeepsInv
<1> QED
  BY <1>1, RehashSteps, RehashHasRoom, ReinsertKeepsSizes, IdleSizes, SameSizes

LEMMA HalfStep ==
  IntsFit /\ Inv /\ WaitingApart /\ Half /\ SlotsOpen /\ [Next]_vars => Half' /\ SlotsOpen'
<1> SUFFICES ASSUME IntsFit, Inv, WaitingApart, Half, SlotsOpen, [Next]_vars
             PROVE  Half' /\ SlotsOpen'
  OBVIOUS
<1>1. Inv'
  BY NextKeepsInv
<1> QED
  BY <1>1, RehashSteps, RehashHasRoom, ReinsertKeepsSizes, IdleSizes, SameSizes

LEMMA InitSizes == Init => WaitingApart /\ Room /\ Half /\ SlotsOpen
<1> SUFFICES ASSUME Init PROVE WaitingApart /\ Room /\ Half /\ SlotsOpen
  OBVIOUS
<1>1. call = None /\ todo = <<>>
  BY DEF Init
<1>2. \A i : i \notin 1 .. Len(todo)
  BY <1>1
<1> QED
  BY <1>1, <1>2 DEF WaitingApart, Room, Half, SlotsOpen, ToArray, Waiting

(* A rehash has a node for every entry it re-inserts and for the write it  *)
(* was started for: set() never rehashes inside a rehash.                  *)
THEOREM RehashIsRoomy == Spec => []RehashFits
<1>1. Init => Room
  BY InitSizes
<1>2. Inv /\ Room /\ [Next]_vars => Room'
  BY RoomStep
<1>3. Inv /\ Room => RehashFits
  BY RoomFits DEF Inv, ChainInv
<1> QED
  BY <1>1, <1>2, <1>3, InvHolds, PTL DEF Spec

(* The sizes rehash chooses are large enough and not wasteful.             *)
THEOREM SizesCorrect ==
  ASSUME IntsFit
  PROVE  Spec => []SizesAreRight
<1> DEFINE Sized == WaitingApart /\ Room /\ Half /\ SlotsOpen
<1>1. Init => Sized
  BY InitSizes
<1>2. Inv /\ Sized /\ [Next]_vars => Sized'
  BY ApartStep, RoomStep, HalfStep
<1>3. Inv /\ Sized => SizesAreRight
  BY RoomFits, HalfIsUsed DEF Inv, ChainInv, SizesAreRight
<1> QED
  BY <1>1, <1>2, <1>3, InvHolds, PTL DEF Spec

-----------------------------------------------------------------------------
(* Traversal.                                                              *)

(* Where hash-table-next finds a key.                                      *)
Pos == [k \in Keys |-> PositionOf(k)]

(* That is settled by the length of the array part and by the layout of    *)
(* the keys, live or not.                                                  *)
Place(k, length, slots, layout) ==
  IF k \in IntKeys /\ AsInt(k) \in 1 .. length THEN AsInt(k)
  ELSE IF \E n \in slots : layout[n] = k
  THEN length + (CHOOSE n \in slots : layout[n] = k) + 1
  ELSE None

Placed ==
  /\ \A k \in Keys : Pos[k] = Place(k, Len(array), Slots, Layout)
  /\ \A p \in Positions : Filled(p) => KeyAt(p) \in Keys /\ Pos[KeyAt(p)] = p
  /\ \A k \in Present : Pos[k] \in Positions /\ Filled(Pos[k]) /\ KeyAt(Pos[k]) = k

ArrayFits == Len(array) <= MaxSize

(* The walk is at the last entry given, behind all it gave before, and has *)
(* left out none of the entries that stay.                                 *)
OnTrack ==
  /\ call = None
  /\ seen # <<>> /\ last = seen[Len(seen)]
  /\ \A i \in 1 .. Len(seen) : Pos[seen[i]] \in Positions
  /\ \A i, j \in 1 .. Len(seen) : i < j => Pos[seen[i]] < Pos[seen[j]]
  /\ steady \subseteq Present
  /\ \A k \in steady : Pos[k] <= Pos[last] => \E i \in 1 .. Len(seen) : seen[i] = k

WalkInv ==
  /\ walk \in {"off", "on", "done", "error", "void"}
  /\ seen \in Seq(Keys) /\ last \in Keys \union {None} /\ steady \subseteq Keys
  /\ walk = "off" => seen = <<>> /\ last = None
  /\ walk = "void" => seen = <<>> /\ steady = {}
  /\ walk = "on" => OnTrack
  /\ EachGivenOnce

-----------------------------------------------------------------------------
LEMMA KeysArePlaced == Inv /\ IntsFit /\ ArrayFits => Placed
<1> SUFFICES ASSUME Inv, IntsFit, ArrayFits PROVE Placed
  OBVIOUS
<1>1. /\ size \in Nat /\ Len(array) \in Nat /\ Len(array) <= MaxSize /\ MaxSize \in Nat
      /\ array \in Seq(Vals \union {None})
      /\ \A i \in 1 .. Len(array) : array[i] # None => i \in IntKeys
      /\ \A n \in Slots : node[n].key \in Keys \union {None}
      /\ EveryKeyFound /\ StoredOnce
  BY KeysAssumption DEF Inv, TypeOK, ChainInv, ArrayFits, NodeType
<1>2. /\ Slots = 0 .. size - 1 /\ Positions = 1 .. Len(array) + size
      /\ \A n \in Slots : Layout[n] = node[n].key /\ Len(array) + n + 1 \in Positions
                          /\ n \in Int /\ n >= 0
  BY <1>1 DEF Slots, Positions, Layout
<1>3. None \notin Keys /\ None \notin Int /\ None \notin Slots
  BY NoneAssumption DEF Slots
<1>4. RawGetFinds
  BY <1>1, RawGetIsRight
<1>5. \A k \in IntKeys : AsInt(k) = k /\ k \in Int
  BY AsIntIsKey, KeysAssumption
<1>6. \A k \in Keys : /\ ArrayIndex(k) \in 1 .. Len(array) <=> InArray(k)
                      /\ InArray(k) => ArrayIndex(k) = k /\ AsInt(k) = k /\ k \in IntKeys
  BY <1>1, <1>5 DEF ArrayIndex, InArray
<1>7. ASSUME NEW k \in Keys, NEW n \in Slots, node[n].key = k
      PROVE  /\ ~InArray(k) /\ NodeIndex(k) = n /\ (CHOOSE m \in Slots : Layout[m] = k) = n
             /\ \E m \in Slots : Layout[m] = k
  <2>1. \A m \in Slots : node[m].key = k => m = n
    BY <1>1, <1>3, <1>7 DEF StoredOnce, Used
  <2>2. n \in Matches(k) /\ ~InArray(k)
    BY <1>1, <1>3, <1>7 DEF Matches, EveryKeyFound, Used, StoredOnce
  <2>3. \A m \in Matches(k) : m = n
    BY <2>1 DEF Matches
  <2> QED
    BY <1>2, <1>7, <2>1, <2>2, <2>3 DEF NodeIndex
<1>8. ASSUME NEW k \in Keys, \A n \in Slots : node[n].key # k
      PROVE  NodeIndex(k) = None /\ ~\E n \in Slots : Layout[n] = k
  BY <1>2, <1>8 DEF NodeIndex, Matches
<1>9. ASSUME NEW k \in Keys
      PROVE  /\ Pos[k] = Place(k, Len(array), Slots, Layout)
             /\ InArray(k) => Pos[k] = k
             /\ \A n \in Slots : node[n].key = k => Pos[k] = Len(array) + n + 1
  <2>1. Pos[k] = PositionOf(k) /\ k # None
    BY <1>3 DEF Pos
  <2>2. CASE InArray(k)
    BY <1>6, <1>7, <2>1, <2>2 DEF PositionOf, Place, InArray
  <2>3. CASE ~InArray(k) /\ \E n \in Slots : node[n].key = k
    <3>1. PICK n \in Slots : node[n].key = k
      BY <2>3
    <3>2. PositionOf(k) = Len(array) + n + 1
      BY <1>3, <1>6, <1>7, <2>1, <2>3, <3>1 DEF PositionOf
    <3>3. Place(k, Len(array), Slots, Layout) = Len(array) + n + 1
      BY <1>7, <2>3, <3>1 DEF Place, InArray
    <3>4. \A m \in Slots : node[m].key = k => m = n
      BY <1>7, <3>1
    <3> QED
      BY <2>1, <2>3, <3>2, <3>3, <3>4
  <2>4. CASE ~InArray(k) /\ \A n \in Slots : node[n].key # k
    BY <1>6, <1>8, <2>1, <2>4 DEF PositionOf, Place, InArray
  <2> QED
    BY <2>2, <2>3, <2>4
<1>10. ASSUME NEW p \in Positions, Filled(p)
       PROVE  KeyAt(p) \in Keys /\ Pos[KeyAt(p)] = p
  <2>1. CASE p <= Len(array)
    <3>1. KeyAt(p) = p /\ p \in 1 .. Len(array) /\ p \in IntKeys
      BY <1>1, <1>2, <1>10, <2>1 DEF KeyAt, Filled
    <3>2. p \in Keys /\ InArray(p)
      BY <1>5, <3>1 DEF Keys, InArray
    <3> QED
      BY <1>9, <3>1, <3>2
  <2>2. CASE ~(p <= Len(array))
    <3> DEFINE n == p - Len(array) - 1
    <3>1. n \in Slots /\ Len(array) + n + 1 = p
      BY <1>1, <1>2, <2>2
    <3>2. KeyAt(p) = node[n].key /\ Used(n)
      BY <1>10, <2>2 DEF KeyAt, Filled, Live
    <3>3. node[n].key \in Keys
      BY <1>1, <3>1, <3>2 DEF Used
    <3> QED
      BY <1>9, <3>1, <3>2, <3>3
  <2> QED
    BY <2>1, <2>2
<1>11. ASSUME NEW k \in Present
       PROVE  Pos[k] \in Positions /\ Filled(Pos[k]) /\ KeyAt(Pos[k]) = k
  <2>1. k \in Keys /\ RawGet(k) # None
    BY DEF Present
  <2>2. CASE InArray(k)
    <3>1. Pos[k] = k /\ k \in 1 .. Len(array) /\ array[k] # None
      BY <1>4, <1>6, <1>9, <2>1, <2>2 DEF RawGetFinds, InArray
    <3> QED
      BY <1>1, <1>2, <3>1 DEF Filled, KeyAt
  <2>3. CASE ~InArray(k)
    <3>1. PICK n \in Slots : node[n].key = k /\ node[n].val # None
      BY <1>4, <2>1, <2>3 DEF RawGetFinds
    <3>2. Pos[k] = Len(array) + n + 1 /\ n \in Int /\ n >= 0
      BY <1>2, <1>9, <2>1, <3>1
    <3>3. ~(Pos[k] <= Len(array)) /\ Pos[k] - Len(array) - 1 = n
      BY <1>1, <3>2
    <3> QED
      BY <1>2, <1>3, <2>1, <3>1, <3>2, <3>3 DEF Filled, KeyAt, Live, Used
  <2> QED
    BY <2>2, <2>3
<1> QED
  BY <1>9, <1>10, <1>11 DEF Placed

(* Values come and go, the keys stay where they are.                       *)
LEMMA SamePlaces ==
  ASSUME Placed, Placed', Len(array') = Len(array), size' = size, Layout' = Layout
  PROVE  Pos' = Pos /\ Positions' = Positions
<1>1. Slots' = Slots /\ Positions' = Positions
  BY DEF Slots, Positions
<1>2. \A k \in Keys : Pos'[k] = Pos[k]
  <2>1. \A k \in Keys : /\ Pos[k] = Place(k, Len(array), Slots, Layout)
                        /\ Pos'[k] = Place(k, Len(array'), Slots', Layout')
    BY DEF Placed, Place
  <2> QED
    BY <1>1, <2>1
<1>3. Pos = [k \in Keys |-> Pos[k]] /\ Pos' = [k \in Keys |-> Pos'[k]]
  BY DEF Pos
<1> QED
  BY <1>1, <1>2, <1>3

LEMMA LeastOfNaturals ==
  ASSUME NEW S \in SUBSET Nat, S # {}
  PROVE  \E n \in S : \A m \in S : n <= m
<1>1. PICK R : R = OpToRel(<, Nat) /\ IsWellFoundedOn(R, Nat)
  BY NatLessThanWellFounded
<1>2. \A x, y \in Nat : <<x, y>> \in R <=> x < y
  BY <1>1 DEF OpToRel
<1>3. \E n \in S : \A m \in S : ~(<<m, n>> \in R)
  BY <1>1, WFMin
<1>4. PICK n \in S : \A m \in S : ~(<<m, n>> \in R)
  BY <1>3
<1>5. \A m \in S : ~(m < n) /\ m \in Nat /\ n \in Nat
  BY <1>2, <1>4
<1>6. \A m \in S : n <= m
  BY <1>5
<1> QED
  BY <1>6

(* hash-table-next goes on to the next entry in the order of places, and   *)
(* ends when there is none.                                                *)
LEMMA StepGoesOn ==
  ASSUME Inv, Placed, Placed', Step, walk # "void", call = None, UNCHANGED vars,
         seen \in Seq(Keys),
         PositionOf(last) \in Positions \union {0},
         \A i \in 1 .. Len(seen) : Pos[seen[i]] \in Positions /\ Pos[seen[i]] <= PositionOf(last),
         \A i, j \in 1 .. Len(seen) : i < j => Pos[seen[i]] < Pos[seen[j]],
         last \in Keys \union {None},
         steady' \subseteq Present,
         \A k \in steady' : Pos[k] <= PositionOf(last) => \E i \in 1 .. Len(seen) : seen[i] = k
  PROVE  WalkInv' /\ walk' # "error"
<1> DEFINE p == PositionOf(last)
<1>1. /\ Len(array) \in Nat /\ size \in Nat
      /\ \A q \in Positions \union {0} : q \in Int /\ q # None
  BY NoneAssumption DEF Inv, TypeOK, Positions
<1>2. /\ UNCHANGED <<array, size, node, call>>
      /\ Len(array') = Len(array) /\ Layout' = Layout /\ Present' = Present
  BY SMTT(60) DEF vars, parts, Layout, Present, Slots, RawGet, InArray, NodeIndex, Matches, Reaches,
         Closed, MainPosition
<1>3. Pos' = Pos /\ Positions' = Positions
  BY <1>2, SamePlaces
<1>4. \A k \in steady' : k \in Keys /\ Pos[k] \in Positions /\ Filled(Pos[k]) /\ KeyAt(Pos[k]) = k
  BY DEF Placed, Present
<1>5. GivenOnce
  <2>1. \A i, j \in 1 .. Len(seen) : i < j => seen[i] # seen[j]
    BY <1>1
  <2>2. \A i, j \in 1 .. Len(seen) : i < j \/ j < i \/ i = j
    OBVIOUS
  <2> QED
    BY <2>1, <2>2 DEF GivenOnce
<1>6. CASE After(p) = {}
  <2>1. walk' = "done" /\ UNCHANGED <<last, seen>>
    BY <1>1, <1>6 DEF Step
  <2>2. \A k \in steady' : \E i \in 1 .. Len(seen) : seen[i] = k
    BY <1>1, <1>4, <1>6 DEF After
  <2>3. EachGivenOnce'
    BY <1>5, <2>1, <2>2 DEF EachGivenOnce, GivenOnce, AllGiven
  <2> QED
    BY <1>4, <2>1, <2>3 DEF WalkInv
<1>7. CASE After(p) # {}
  <2> DEFINE q == CHOOSE n \in After(p) : \A m \in After(p) : n <= m
  <2>1. /\ last' = KeyAt(q) /\ seen' = Append(seen, KeyAt(q)) /\ walk' = "on"
    BY <1>1, <1>7 DEF Step
  <2>2. q \in After(p) /\ \A m \in After(p) : q <= m
    <3>1. After(p) \subseteq Nat /\ After(p) # {}
      BY <1>1, <1>7 DEF After, Positions
    <3>2. \E n \in After(p) : \A m \in After(p) : n <= m
      BY <3>1, LeastOfNaturals
    <3> QED
      BY <3>2
  <2> HIDE DEF q
  <2>3. q \in Positions /\ q > p /\ Filled(q) /\ KeyAt(q) \in Keys /\ Pos[KeyAt(q)] = q
    BY <2>2 DEF After, Placed
  <2>4. /\ seen' \in Seq(Keys) /\ Len(seen') = Len(seen) + 1 /\ seen' # <<>>
        /\ seen'[Len(seen')] = KeyAt(q) /\ Len(seen) \in Nat
        /\ \A i \in 1 .. Len(seen) : seen'[i] = seen[i]
        /\ \A i \in 1 .. Len(seen') : i = Len(seen') \/ i \in 1 .. Len(seen)
    BY <2>1, <2>3
  <2>5. \A i \in 1 .. Len(seen') : Pos[seen'[i]] \in Positions
    BY <2>3, <2>4
  <2>6. \A i, j \in 1 .. Len(seen') : i < j => Pos[seen'[i]] < Pos[seen'[j]]
    <3> SUFFICES ASSUME NEW i \in 1 .. Len(seen'), NEW j \in 1 .. Len(seen'), i < j
                 PROVE  Pos[seen'[i]] < Pos[seen'[j]]
      OBVIOUS
    <3>1. i \in 1 .. Len(seen)
      BY <2>4
    <3>2. CASE j \in 1 .. Len(seen)
      BY <2>4, <3>1, <3>2
    <3>3. CASE j = Len(seen')
      <4>1. Pos[seen'[i]] <= p /\ Pos[seen'[i]] \in Positions
        BY <2>4, <3>1
      <4> QED
        BY <1>1, <2>3, <2>4, <3>3, <4>1
    <3> QED
      BY <2>4, <3>2, <3>3
  <2>7. ASSUME NEW k \in steady', Pos[k] <= q
        PROVE  \E i \in 1 .. Len(seen') : seen'[i] = k
    <3>1. CASE Pos[k] <= p
      BY <2>4, <3>1
    <3>2. CASE ~(Pos[k] <= p)
      <4>1. Pos[k] \in After(p)
        BY <1>1, <1>4, <3>2 DEF After
      <4>2. Pos[k] = q
        BY <1>1, <1>4, <2>2, <2>3, <2>7, <4>1
      <4>3. seen'[Len(seen')] = k /\ Len(seen') \in 1 .. Len(seen')
        BY <1>4, <2>4, <4>2
      <4> QED
        BY <4>3
    <3> QED
      BY <3>1, <3>2
  <2>8. OnTrack'
    BY <1>2, <1>3, <2>1, <2>3, <2>4, <2>5, <2>6, <2>7 DEF OnTrack
  <2>9. GivenOnce'
    <3>1. \A i, j \in 1 .. Len(seen') : i < j => seen'[i] # seen'[j]
      BY <1>1, <2>5, <2>6
    <3>2. \A i, j \in 1 .. Len(seen') : i < j \/ j < i \/ i = j
      BY <2>4
    <3> QED
      BY <3>1, <3>2 DEF GivenOnce
  <2> QED
    BY <1>4, <2>1, <2>3, <2>4, <2>8, <2>9 DEF WalkInv, EachGivenOnce, AllGiven
<1> QED
  BY <1>6, <1>7

LEMMA StepKeepsWalk ==
  ASSUME Inv, Inv', IntsFit, ArrayFits, ArrayFits', WalkInv, WalkStart \/ WalkStep
  PROVE  WalkInv' /\ (walk = "on" => walk' # "error")
<1>1. Placed /\ Placed'
  BY KeysArePlaced, PTL
<1>2. /\ seen \in Seq(Keys) /\ last \in Keys \union {None} /\ steady \subseteq Keys
      /\ UNCHANGED vars
  BY DEF WalkInv, WalkStart, WalkStep
<1>3. \A k \in Present : Pos[k] \in Positions
  BY <1>1 DEF Placed
<1>4. /\ None \notin Keys /\ Len(array) \in Nat /\ size \in Nat
      /\ \A q \in Positions : q \in Int /\ q > 0 /\ ~(q <= 0)
  BY NoneAssumption DEF Inv, TypeOK, Positions
<1>5. CASE WalkStart
  <2>1. /\ seen = <<>> /\ last = None /\ call = None /\ walk = "off" /\ Step
        /\ steady' = Present /\ PositionOf(last) = 0
    BY <1>5 DEF WalkInv, WalkStart, PositionOf
  <2>2. 1 .. Len(seen) = {}
    BY <2>1
  <2>3. \A k \in steady' : ~(Pos[k] <= PositionOf(last))
    BY <1>3, <1>4, <2>1
  <2> QED
    BY <1>1, <1>2, <2>1, <2>2, <2>3, StepGoesOn
<1>6. CASE WalkStep /\ walk = "on"
  <2>1. OnTrack /\ Step /\ steady' = steady
    BY <1>6 DEF WalkInv, WalkStep
  <2>2. /\ seen # <<>> /\ last = seen[Len(seen)] /\ Len(seen) \in 1 .. Len(seen)
        /\ last \in Keys /\ Pos[last] \in Positions /\ PositionOf(last) = Pos[last]
        /\ call = None
    BY <1>2, <2>1 DEF OnTrack, Pos
  <2>3. \A i \in 1 .. Len(seen) : Pos[seen[i]] \in Positions /\ Pos[seen[i]] <= PositionOf(last)
    <3>1. \A i \in 1 .. Len(seen) : i = Len(seen) \/ i < Len(seen)
      OBVIOUS
    <3> QED
      BY <1>4, <2>1, <2>2, <3>1 DEF OnTrack
  <2>4. /\ \A i, j \in 1 .. Len(seen) : i < j => Pos[seen[i]] < Pos[seen[j]]
        /\ steady' \subseteq Present
        /\ \A k \in steady' : Pos[k] <= PositionOf(last) => \E i \in 1 .. Len(seen) : seen[i] = k
    BY <2>1, <2>2 DEF OnTrack
  <2> QED
    BY <1>1, <1>2, <1>6, <2>1, <2>2, <2>3, <2>4, StepGoesOn
<1>7. CASE WalkStep /\ walk = "void"
  <2>1. /\ seen' = <<>> /\ steady' = {} /\ walk' \in {"void", "error", "done"}
        /\ last' = last \/ last' \in Keys
    <3>1. seen = <<>> /\ steady = {} /\ Step /\ UNCHANGED steady
      BY <1>7 DEF WalkInv, WalkStep
    <3>2. CASE After(PositionOf(last)) = {} \/ PositionOf(last) = None
      BY <1>7, <3>1, <3>2 DEF Step
    <3>3. CASE After(PositionOf(last)) # {} /\ PositionOf(last) # None
      <4> DEFINE q == CHOOSE n \in After(PositionOf(last)) :
                        \A m \in After(PositionOf(last)) : n <= m
      <4>1. last' = KeyAt(q) /\ seen' = <<>> /\ walk' = "void"
        BY <1>7, <3>1, <3>3 DEF Step
      <4>2. After(PositionOf(last)) \subseteq Positions /\ Positions \subseteq Nat
        BY <1>4 DEF After, Positions
      <4>3. q \in After(PositionOf(last))
        BY <3>3, <4>2, LeastOfNaturals
      <4>4. KeyAt(q) \in Keys
        BY <1>1, <4>3 DEF Placed, After
      <4> QED
        BY <3>1, <4>1, <4>4
    <3> QED
      BY <3>2, <3>3
  <2>2. 1 .. Len(seen') = {} /\ seen' \in Seq(Keys)
    BY <2>1
  <2> QED
    BY <1>2, <1>7, <2>1, <2>2 DEF WalkInv, EachGivenOnce, GivenOnce, AllGiven
<1> QED
  BY <1>5, <1>6, <1>7 DEF WalkStep

(* A rehash begins with a table without keys: it cannot leave the layout   *)
(* as it was.                                                              *)
LEMMA RehashMovesKeys ==
  ASSUME Inv, NEW k \in Keys, NEW v \in Vals, MustRehash(k), Rehash(k, v)
  PROVE  Layout' # Layout
<1>1. size \in Nat /\ MaxSize \in Nat
  BY KeysAssumption DEF Inv, TypeOK
<1>2. PICK s \in Pow2 : size' = s /\ node' = [n \in 0 .. s - 1 |-> FreeNode]
  BY DEF Rehash
<1>3. s \in Nat /\ s >= 1 /\ Slots' = 0 .. s - 1
  BY <1>1, <1>2 DEF Pow2, Slots
<1>4. \A n \in Slots' : Layout'[n] = None
  BY <1>2, <1>3 DEF Layout, FreeNode
<1>5. DOMAIN Layout = Slots /\ DOMAIN Layout' = Slots'
  BY DEF Layout
<1>6. CASE size = 0
  <2>1. Slots = {}
    BY <1>6 DEF Slots
  <2>2. 0 \in Slots'
    BY <1>3
  <2> QED
    BY <1>5, <2>1, <2>2
<1>7. CASE size # 0
  <2>1. Used(MainPosition(k)) /\ MainPosition(k) \in Slots
    BY <1>1, <1>7, MainPositionInSlots DEF MustRehash
  <2>2. Layout[MainPosition(k)] # None
    BY <2>1 DEF Layout, Used
  <2> QED
    BY <1>4, <1>5, <2>1, <2>2
<1> QED
  BY <1>6, <1>7

LEMMA NextKeepsArrayFitting ==
  ASSUME Inv, ArrayFits, [Next]_vars
  PROVE  ArrayFits'
<1>1. /\ array \in Seq(Vals \union {None}) /\ Len(array) <= MaxSize /\ MaxSize \in Nat
      /\ size \in Nat
  BY KeysAssumption DEF Inv, TypeOK, ArrayFits
<1>2. \A k, v : Put(k, v) => Len(array') = Len(array)
  BY <1>1 DEF Put, WriteArray, WriteNode, NewIndexFallback, WriteNew, parts
<1>3. ASSUME NEW k \in Keys, NEW v \in Vals, Rehash(k, v)
      PROVE  Len(array') <= MaxSize
  <2>1. PICK n \in NewArraySizes : array' = Resized(n)
    BY <1>3 DEF Rehash
  <2>2. n \in Nat /\ n <= MaxSize
    BY <1>1 DEF NewArraySizes, Highest, ArraySizes, Pow2
  <2>3. Len(array') = n
    BY <2>1, <2>2 DEF Resized
  <2> QED
    BY <2>2, <2>3
<1>4. ASSUME NEW k \in Keys, Remove(k) PROVE Len(array') = Len(array)
  BY <1>1, <1>4 DEF Remove
<1>5. CASE Reinsert
  BY <1>1, <1>2, <1>5 DEF Reinsert, ArrayFits, parts
<1>6. CASE FinishSet
  BY <1>1, <1>2, <1>6 DEF FinishSet, ArrayFits
<1>7. CASE HandlerFails \/ SetMetatable \/ UNCHANGED vars
  BY <1>1, <1>7 DEF HandlerFails, SetMetatable, ArrayFits, parts, vars
<1>8. ASSUME NEW k \in Keys, NEW v \in Vals, Set(k, v) PROVE ArrayFits'
  BY <1>1, <1>2, <1>3, <1>8 DEF Set, ArrayFits
<1> QED
  BY <1>1, <1>4, <1>5, <1>6, <1>7, <1>8 DEF Next, ArrayFits

(* What a loop body does to entries leaves the walk on its track.          *)
LEMMA UseKeepsWalk ==
  ASSUME Inv, Inv', IntsFit, ArrayFits, ArrayFits', WalkInv, UseTable
  PROVE  WalkInv' /\ (walk = "on" => walk' # "error")
<1>1. Placed /\ Placed'
  BY KeysArePlaced, PTL
<1>2. CASE walk # "on" /\ UNCHANGED walkvars
  BY <1>2 DEF WalkInv, walkvars, EachGivenOnce, GivenOnce, AllGiven
<1>3. CASE walk = "on" /\ Layout' # Layout
  <2>1. walk' = "void" /\ seen' = <<>> /\ steady' = {} /\ last' = last
    BY <1>3 DEF UseTable
  <2>2. 1 .. Len(seen') = {} /\ seen' \in Seq(Keys)
    BY <2>1
  <2> QED
    BY <2>1, <2>2 DEF WalkInv, EachGivenOnce, GivenOnce, AllGiven
<1>4. CASE walk = "on" /\ Layout' = Layout
  <2>1. /\ steady' = steady \intersect Present' /\ UNCHANGED <<walk, last, seen>>
        /\ OnTrack /\ call = None /\ Next
    BY <1>4 DEF UseTable, WalkInv, OnTrack
  <2>2. Len(array') = Len(array) /\ size' = size /\ call' = None
    <3>1. /\ array \in Seq(Vals \union {None}) /\ todo = <<>>
      BY <2>1 DEF Inv, TypeOK
    <3>2. \A k, v : Put(k, v) => Len(array') = Len(array) /\ size' = size
      BY <3>1 DEF Put, WriteArray, WriteNode, NewIndexFallback, WriteNew, parts
    <3>3. ASSUME NEW k \in Keys, NEW v \in Vals, Set(k, v)
          PROVE  Len(array') = Len(array) /\ size' = size /\ call' = None
      BY <1>4, <2>1, <3>2, <3>3, RehashMovesKeys DEF Set
    <3>4. ASSUME NEW k \in Keys, Remove(k)
          PROVE  Len(array') = Len(array) /\ size' = size /\ call' = None
      BY <2>1, <3>1, <3>4 DEF Remove
    <3>5. CASE SetMetatable
      BY <2>1, <3>5 DEF SetMetatable, parts
    <3> QED
      BY <2>1, <3>1, <3>3, <3>4, <3>5 DEF Next, Reinsert, HandlerFails, FinishSet
  <2>3. Pos' = Pos /\ Positions' = Positions
    BY <1>1, <1>4, <2>2, SamePlaces
  <2>4. OnTrack'
    BY <2>1, <2>2, <2>3 DEF OnTrack
  <2>5. EachGivenOnce'
    BY <1>4, <2>1 DEF WalkInv, EachGivenOnce, GivenOnce, AllGiven
  <2> QED
    BY <1>4, <2>1, <2>4, <2>5 DEF WalkInv
<1> QED
  BY <1>2, <1>3, <1>4 DEF UseTable

LEMMA WalkInitInv == WalkInit => Inv /\ ArrayFits /\ WalkInv
<1> SUFFICES ASSUME WalkInit PROVE Inv /\ ArrayFits /\ WalkInv
  OBVIOUS
<1>1. Inv /\ array = <<>> /\ MaxSize \in Nat
  BY InitInv, KeysAssumption DEF WalkInit, Init
<1>2. walk = "off" /\ last = None /\ seen = <<>> /\ steady = {}
  BY DEF WalkInit
<1>3. 1 .. Len(seen) = {} /\ seen \in Seq(Keys)
  BY <1>2
<1> QED
  BY <1>1, <1>2, <1>3 DEF ArrayFits, WalkInv, EachGivenOnce, GivenOnce, AllGiven

LEMMA WalkNextKeeps ==
  ASSUME IntsFit
  PROVE  Inv /\ ArrayFits /\ WalkInv /\ [WalkNext]_<<vars, walkvars>>
           => Inv' /\ ArrayFits' /\ WalkInv' /\ [walk = "on" => walk' # "error"]_walkvars
<1> SUFFICES ASSUME Inv, ArrayFits, WalkInv, [WalkNext]_<<vars, walkvars>>
             PROVE  /\ Inv' /\ ArrayFits' /\ WalkInv'
                    /\ [walk = "on" => walk' # "error"]_walkvars
  OBVIOUS
<1>1. [Next]_vars
  BY DEF WalkNext, WalkStart, WalkStep, UseTable, Finish
<1>2. Inv' /\ ArrayFits'
  BY <1>1, NextKeepsInv, NextKeepsArrayFitting
<1>3. CASE WalkStart \/ WalkStep
  BY <1>2, <1>3, StepKeepsWalk
<1>4. CASE UseTable
  BY <1>2, <1>4, UseKeepsWalk
<1>5. CASE Finish
  <2>1. /\ walk \in {"done", "error"} /\ walk' = "off" /\ last' = None /\ seen' = <<>>
        /\ steady' = {}
    BY <1>5 DEF Finish
  <2>2. 1 .. Len(seen') = {} /\ seen' \in Seq(Keys)
    BY <2>1
  <2>3. WalkInv'
    BY <2>1, <2>2 DEF WalkInv, EachGivenOnce, GivenOnce, AllGiven
  <2> QED
    BY <1>2, <2>1, <2>3
<1>6. CASE UNCHANGED <<vars, walkvars>>
  <2>1. /\ UNCHANGED <<walk, last, seen, steady, array, size, node, call>>
        /\ UNCHANGED walkvars
    BY <1>6 DEF walkvars, vars, parts
  <2>2. Layout' = Layout /\ Present' = Present
    BY <2>1 DEF Layout, Present, Slots, RawGet, InArray, NodeIndex, Matches, Reaches,
                Closed, MainPosition
  <2>3. Placed /\ Placed'
    BY <1>2, KeysArePlaced, PTL
  <2>4. Pos' = Pos /\ Positions' = Positions
    BY <2>1, <2>2, <2>3, SamePlaces
  <2>5. WalkInv'
    BY <2>1, <2>2, <2>4 DEF WalkInv, OnTrack, EachGivenOnce, GivenOnce, AllGiven
  <2> QED
    BY <1>2, <2>1, <2>5
<1> QED
  BY <1>3, <1>4, <1>5, <1>6 DEF WalkNext

(* hash-table-for-each visits every entry that stays once, and no entry    *)
(* twice, whatever the keys and their hashes and whatever is updated and   *)
(* removed meanwhile.                                                      *)
THEOREM EntriesGivenOnce ==
  ASSUME IntsFit
  PROVE  WalkSpec => []EachGivenOnce
<1>1. WalkInv => EachGivenOnce
  BY DEF WalkInv
<1> QED
  BY <1>1, WalkInitInv, WalkNextKeeps, PTL DEF WalkSpec

(* hash-table-next always finds the entry it gave last.                    *)
THEOREM WalkNeverLost ==
  ASSUME IntsFit
  PROVE  WalkSpec => NeverLost
<1> QED
  BY WalkInitInv, WalkNextKeeps, PTL DEF WalkSpec, NeverLost
=============================================================================
