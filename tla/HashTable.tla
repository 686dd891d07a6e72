------------------------------ MODULE HashTable ------------------------------
(***************************************************************************)
(* The hybrid table of scmtable.cpp: an array part for the integer keys    *)
(* 1..Len(array) and a node part in which the keys of one main position    *)
(* are chained through "next".  It is the object behind make-hash-table,   *)
(* every environment and every metatable.                                  *)
(*                                                                         *)
(* hash-table-set! is one action unless it has to rehash.  A rehash is a   *)
(* loop that feeds every old entry back through set(), which consults the  *)
(* __newindex handler each time; it is modelled one iteration per step, as *)
(* the loop runs, and nothing else is enabled until the write that caused  *)
(* it is done.                                                             *)
(***************************************************************************)
EXTENDS Integers, Sequences, FiniteSets

CONSTANTS
  IntKeys,    \* the integers used as keys
  OtherKeys,  \* all other keys: symbols, strings, characters...
  Vals,       \* the values stored
  HalfInt,    \* 2^31: a C int holds -HalfInt .. HalfInt-1
  MaxSize,    \* 2^SCMMAXBITS: the largest array part
  Mix,        \* the hash of a key as mainposition scrambles it, unmasked
  Claimed,    \* the keys whose writes the __newindex handler takes over
  LateHandler,\* may the handler be installed when the table is in use?
  None        \* the undefined value, the NULL pointer

Keys == IntKeys \union OtherKeys

(* numi(key) assigned to an int: a 64-bit integer cut down to 32 bits.     *)
AsInt(k) == ((k + HalfInt) % (2 * HalfInt)) - HalfInt

ASSUME KeysAssumption ==
  /\ IntKeys \subseteq Int
  /\ HalfInt \in Nat \ {0}
  /\ OtherKeys \intersect Int = {}
  /\ \A k \in IntKeys : AsInt(k) >= 1 => AsInt(k) \in IntKeys
  /\ Mix \in [Keys -> Nat]
  /\ MaxSize \in Nat
  /\ Claimed \subseteq Keys
  /\ LateHandler \in BOOLEAN

ASSUME NoneAssumption ==
  None \notin Keys \union Vals \union Int \union [key : Keys, val : Vals]

VARIABLES
  array,      \* the array part: array[i] is the value of the key i
  size,       \* the number of nodes, 0 while node is NULL
  node,       \* the node part, indexed from 0
  firstfree,  \* every node above this one is in use
  todo,       \* the old entries a running rehash still has to re-insert
  call,       \* the write that started the running rehash, None when idle
  handler,    \* has a metatable with __newindex been installed?
  other       \* what the __newindex handler was given for each key

parts == <<array, size, node, firstfree>>
vars == <<array, size, node, firstfree, todo, call, handler, other>>

Slots == 0 .. size - 1
FreeNode == [key |-> None, val |-> None, next |-> None]
Entry(k, v) == [key |-> k, val |-> v]
Used(n) == node[n].key # None
Live(n) == Used(n) /\ node[n].val # None

-----------------------------------------------------------------------------
(* Lookup.                                                                 *)

InArray(k) == k \in IntKeys /\ AsInt(k) \in 1 .. Len(array)

MainPosition(k) == Mix[k] % size

Closed(S) == \A n \in S : node[n].next # None => node[n].next \in S

(* Following "next" from node n one comes to node m: every set that holds  *)
(* n and is closed under next holds m, that is, none avoids m.             *)
Reaches(n, m) == \A S \in SUBSET (Slots \ {m}) : n \in S => ~Closed(S)

(* The nodes at which the walk from the main position of k finds k.        *)
Matches(k) == {n \in Slots : node[n].key = k /\ Reaches(MainPosition(k), n)}

NodeIndex(k) ==
  LET found == Matches(k) IN IF found = {} THEN None ELSE CHOOSE n \in found : TRUE

RawGet(k) ==
  IF InArray(k) THEN array[AsInt(k)]
  ELSE LET n == NodeIndex(k) IN IF n = None THEN None ELSE node[n].val

-----------------------------------------------------------------------------
(* Insertion of a key that has no node.                                    *)

(* The greatest element of a set of integers, if it has one.               *)
Highest(S) == {n \in S : \A m \in S : m <= n}

(* getfreepos scans down from firstfree.                                   *)
FreeBelow == {n \in Slots : n <= firstfree /\ ~Used(n)}

MustRehash(k) == size # 0 => Used(MainPosition(k)) /\ FreeBelow = {}

(* Mutant: go down even when the node at firstfree is still free.          *)
FixFirstFreeAlways(f, nodes) ==
  LET free == {n \in Slots : n < f /\ nodes[n].key = None}
  IN  IF free = {} THEN {f} ELSE Highest(free)

(* fixfirstfree, which runs after every insertion: when the node that      *)
(* firstfree (here f) designates is taken, go down to the next free one,   *)
(* if there is one.                                                        *)
FixFirstFree(f, nodes) ==
  LET free == {n \in Slots : n <= f /\ nodes[n].key = None}
  IN  IF free = {} THEN {f} ELSE Highest(free)

(* The three cases of insertkey: a free main position; one held by a key   *)
(* of the same chain, which the new key joins in a free node; one held by  *)
(* a key of another chain, which is moved out to the free node.            *)
InsertFree(k, v) ==
  LET mp == MainPosition(k)
  IN  /\ ~Used(mp)
      /\ node' = [node EXCEPT ![mp] = [key |-> k, val |-> v, next |-> node[mp].next]]
      /\ firstfree' \in FixFirstFree(firstfree, node')

(* Mutant: the new node does not take over the rest of the chain.          *)
InsertBehindCutting(k, v, freen) ==
  LET mp == MainPosition(k)
  IN  /\ Used(mp) /\ MainPosition(node[mp].key) = mp
      /\ node' = [node EXCEPT ![freen] = [key |-> k, val |-> v, next |-> None],
                              ![mp].next = freen]
      /\ firstfree' \in FixFirstFree(freen, node')

InsertBehind(k, v, freen) ==
  LET mp == MainPosition(k)
  IN  /\ Used(mp) /\ MainPosition(node[mp].key) = mp
      /\ node' = [node EXCEPT ![freen] = [key |-> k, val |-> v, next |-> node[mp].next],
                              ![mp].next = freen]
      /\ firstfree' \in FixFirstFree(freen, node')

Prior(n) ==
  CHOOSE m \in Slots : Reaches(MainPosition(node[n].key), m) /\ node[m].next = n

(* Mutant: mp->next is not cleared, the new key stays in the old chain.    *)
InsertMoveKeepingNext(k, v, freen) ==
  LET mp == MainPosition(k)
  IN  /\ Used(mp) /\ MainPosition(node[mp].key) # mp
      /\ node' = [node EXCEPT ![Prior(mp)].next = freen,
                              ![freen] = node[mp],
                              ![mp].key = k, ![mp].val = v]
      /\ firstfree' \in FixFirstFree(freen, node')

InsertMove(k, v, freen) ==
  LET mp == MainPosition(k)
  IN  /\ Used(mp) /\ MainPosition(node[mp].key) # mp
      /\ node' = [node EXCEPT ![Prior(mp)].next = freen,
                              ![freen] = node[mp],
                              ![mp] = [key |-> k, val |-> v, next |-> None]]
      /\ firstfree' \in FixFirstFree(freen, node')

InsertKey(k, v) ==
  \/ InsertFree(k, v)
  \/ \E freen \in Highest(FreeBelow) : InsertBehind(k, v, freen) \/ InsertMove(k, v, freen)

-----------------------------------------------------------------------------
(* set(), except that it leaves the case MustRehash to its callers.        *)

Absent(k) == ~InArray(k) /\ RawGet(k) = None

(* newindexfallback: does the handler take the write?                      *)
Diverts(k) == Absent(k) /\ handler /\ k \in Claimed

(* Mutant: set() does not look up the tombstone of a removed key.          *)
InsertsAgain(k) == Absent(k) /\ ~Diverts(k)

Inserts(k) == Absent(k) /\ ~Diverts(k) /\ Matches(k) = {}

WriteArray(k, v) ==
  /\ InArray(k)
  /\ array' = [array EXCEPT ![AsInt(k)] = v]
  /\ UNCHANGED <<size, node, firstfree, other>>

(* Mutant: rawget gives the value at the main position, not at the key.    *)
WriteHead(k, v) ==
  /\ ~InArray(k) /\ Matches(k) # {} /\ ~Diverts(k)
  /\ node' = [node EXCEPT ![MainPosition(k)].val = v]
  /\ UNCHANGED <<array, size, firstfree, other>>

(* A live key is updated in place, and so is the tombstone of a removed    *)
(* one unless the handler takes the write.                                 *)
WriteNode(k, v) ==
  /\ ~InArray(k) /\ Matches(k) # {} /\ ~Diverts(k)
  /\ node' = [node EXCEPT ![NodeIndex(k)].val = v]
  /\ UNCHANGED <<array, size, firstfree, other>>

NewIndexFallback(k, v) ==
  /\ Diverts(k)
  /\ other' = [other EXCEPT ![k] = v]
  /\ UNCHANGED parts

WriteNew(k, v) ==
  /\ Inserts(k) /\ ~MustRehash(k)
  /\ InsertKey(k, v)
  /\ UNCHANGED <<array, size, other>>

Put(k, v) ==
  WriteArray(k, v) \/ WriteNode(k, v) \/ NewIndexFallback(k, v) \/ WriteNew(k, v)

-----------------------------------------------------------------------------
(* Rehash: the new sizes, the entries to re-insert.                        *)

Pow2 == {s \in 1 .. MaxSize : \E l \in 0 .. s : s = 2^l}

(* Is k a candidate for the array part?  (arrayindex)                      *)
ArrayIndex(k) == IF k \in IntKeys /\ AsInt(k) \in 1 .. MaxSize THEN AsInt(k) ELSE -1

(* How many of the present entries have an array index of at most s.       *)
(* (numuse)                                                                *)
CountUpTo(s) ==
  Cardinality({i \in 1 .. Len(array) : i <= s /\ array[i] # None})
  + Cardinality({n \in Slots : Live(n) /\ ArrayIndex(node[n].key) \in 1 .. s})

Total ==
  Cardinality({i \in 1 .. Len(array) : array[i] # None})
  + Cardinality({n \in Slots : Live(n)})

(* The largest power of two that at least half fills, and whose upper half *)
(* is not empty.  (computesizes)                                           *)
ArraySizes ==
  {s \in Pow2 : /\ 2 * CountUpTo(s) >= s
                /\ CountUpTo(s) > (IF s = 1 THEN 0 ELSE CountUpTo(s \div 2))}

NewArraySizes == IF ArraySizes = {} THEN {0} ELSE Highest(ArraySizes)

Resized(n) == [i \in 1 .. n |-> IF i <= Len(array) THEN array[i] ELSE None]

(* Mutant: the loop over the old nodes stops above the lowest one.         *)
OldEntriesButOne(n) ==
  LET slice == IF Len(array) > n THEN Len(array) - n ELSE 0
  IN  [i \in 1 .. slice + (IF size = 0 THEN 0 ELSE size - 1) |->
         IF i <= slice THEN Entry(n + i, array[n + i])
         ELSE Entry(node[size - (i - slice)].key, node[size - (i - slice)].val)]

(* What resize re-inserts: the vanishing slice of the array going up, then *)
(* the old nodes going down.                                               *)
OldEntries(n) ==
  LET slice == IF Len(array) > n THEN Len(array) - n ELSE 0
  IN  [i \in 1 .. slice + size |->
         IF i <= slice THEN Entry(n + i, array[n + i])
         ELSE Entry(node[size - (i - slice)].key, node[size - (i - slice)].val)]

(* Mutant: no room is left for the write that started the rehash.          *)
IsNodeSizeTight(s, nhash) == s >= nhash /\ \A t \in Pow2 : t >= nhash => s <= t

(* The node part for nhash entries: 2^(log2i(nhash)+1) nodes, the next     *)
(* power of two.                                                           *)
IsNodeSize(s, nhash) == s > nhash /\ \A t \in Pow2 : t > nhash => s <= t

(* rehash() and the head of resize(), up to the first re-insertion.        *)
Rehash(k, v) ==
  /\ call' = Entry(k, v)
  /\ \E nasize \in NewArraySizes :
       /\ array' = Resized(nasize)
       /\ todo' = OldEntries(nasize)
       /\ \E s \in Pow2 :
            /\ IsNodeSize(s, Total - CountUpTo(nasize))
            /\ size' = s
            /\ node' = [n \in 0 .. s - 1 |-> FreeNode]
            /\ firstfree' = s - 1
  /\ UNCHANGED <<handler, other>>

-----------------------------------------------------------------------------
(* The operations of the table.                                            *)

Set(k, v) ==
  /\ call = None
  /\ \/ Put(k, v) /\ UNCHANGED <<todo, call, handler>>
     \/ Inserts(k) /\ MustRehash(k) /\ Rehash(k, v)

(* One iteration of resize's loops; entries without a value are skipped.   *)
Reinsert ==
  /\ todo # <<>>
  /\ todo' = Tail(todo)
  /\ LET e == Head(todo)
     IN  \/ e.val = None /\ UNCHANGED <<parts, other>>
         \/ e.val # None /\ Put(e.key, e.val)
  /\ UNCHANGED <<call, handler>>

(* The handler raises an error when resize hands it an entry: set() is     *)
(* left through rehash and resize, and what they still had to write is     *)
(* lost.  (Outside a rehash an error of the handler leaves the table as it *)
(* is.)                                                                    *)
HandlerFails ==
  /\ todo # <<>> /\ Head(todo).val # None /\ Diverts(Head(todo).key)
  /\ todo' = <<>> /\ call' = None
  /\ UNCHANGED <<parts, handler, other>>

(* Mutant: the new entry is written before the old ones are back.          *)
FinishSetFirst ==
  /\ call # None
  /\ Put(call.key, call.val)
  /\ call' = None
  /\ UNCHANGED <<todo, handler>>

(* set() calls itself for the write that triggered the rehash.             *)
FinishSet ==
  /\ call # None /\ todo = <<>>
  /\ Put(call.key, call.val)
  /\ call' = None
  /\ UNCHANGED <<todo, handler>>

Remove(k) ==
  /\ call = None
  /\ RawGet(k) # None
  /\ \/ /\ InArray(k)
        /\ array' = [array EXCEPT ![AsInt(k)] = None]
        /\ UNCHANGED node
     \/ /\ ~InArray(k)
        /\ node' = [node EXCEPT ![NodeIndex(k)].val = None]
        /\ UNCHANGED array
  /\ UNCHANGED <<size, firstfree, todo, call, handler, other>>

(* scm_set_global_metatable installs a metatable with __newindex; one that *)
(* claims no key changes nothing.                                          *)
SetMetatable ==
  /\ call = None /\ Claimed # {}
  /\ LateHandler \/ size = 0
  /\ handler' = TRUE
  /\ UNCHANGED <<parts, todo, call, other>>

Init ==
  /\ array = <<>> /\ size = 0 /\ node = [n \in Slots |-> FreeNode] /\ firstfree = 0
  /\ todo = <<>> /\ call = None
  /\ handler = FALSE
  /\ other = [k \in Keys |-> None]

Next ==
  \/ \E k \in Keys, v \in Vals : Set(k, v)
  \/ \E k \in Keys : Remove(k)
  \/ Reinsert
  \/ HandlerFails
  \/ FinishSet
  \/ SetMetatable

Spec == Init /\ [][Next]_vars

-----------------------------------------------------------------------------
(* Properties.                                                             *)

NodeType == [key : Keys \union {None}, val : Vals \union {None}, next : Slots \union {None}]

(* The shape of the state; in particular a node without a key is empty, as *)
(* initnodes leaves it.                                                    *)
TypeOK ==
  /\ array \in Seq(Vals \union {None})
  /\ \A i \in 1 .. Len(array) : array[i] # None => i \in IntKeys
  /\ size \in Nat /\ firstfree \in Nat
  /\ node \in [Slots -> NodeType]
  /\ \A n \in Slots : ~Used(n) => node[n] = FreeNode
  /\ todo \in Seq([key : Keys \union Int \union {None}, val : Vals \union {None}])
  /\ \A i \in 1 .. Len(todo) : todo[i].val # None => todo[i].key \in Keys
  /\ call \in [key : Keys, val : Vals] \union {None}
  /\ call = None => todo = <<>>
  /\ handler \in BOOLEAN
  /\ other \in [Keys -> Vals \union {None}]

(* getfreepos never looks above firstfree: no free node may be left there, *)
(* or the table would rehash with room to spare and lose the node.         *)
FirstFreeBound == \A n \in Slots : n > firstfree => Used(n)

(* The walk of rawget from a key's main position reaches the node of that  *)
(* key, whatever collisions moved nodes around: no entry is unreachable.   *)
EveryKeyFound == \A n \in Slots : Used(n) => Reaches(MainPosition(node[n].key), n)

(* The nodes of one chain hold keys of one main position, a node follows   *)
(* at most one other, and no link leads to a free node or back to itself.  *)
ChainShape ==
  \A n \in Slots : node[n].next # None =>
    /\ node[n].next # n /\ Used(node[n].next)
    /\ MainPosition(node[node[n].next].key) = MainPosition(node[n].key)
    /\ \A m \in Slots : node[m].next = node[n].next => m = n

(* A key is stored once: in one node, and never in a node when the array   *)
(* part has a slot for it (rawget would not look at the node).             *)
StoredOnce ==
  /\ \A m, n \in Slots : Used(m) /\ node[m].key = node[n].key => m = n
  /\ \A n \in Slots : Used(n) => ~InArray(node[n].key)

(* The sizes that rehash computes have room for every old entry and for    *)
(* the write it was started for: set() never rehashes inside a rehash, and *)
(* insertkey always gets its free node.                                    *)
RehashFits ==
  /\ todo # <<>> /\ Head(todo).val # None =>
       ~(Inserts(Head(todo).key) /\ MustRehash(Head(todo).key))
  /\ call # None /\ todo = <<>> =>
       ~(Inserts(call.key) /\ MustRehash(call.key))

(* What a rehash spends on the array part is at least half used.           *)
ArrayHalfUsed ==
  call # None /\ todo = <<>> =>
    2 * Cardinality({i \in 1 .. Len(array) : array[i] # None}) >= Len(array)

(* rehash chooses sizes that are large enough and not wasteful (numuse,    *)
(* computesizes, resize).                                                  *)
SizesAreRight == RehashFits /\ ArrayHalfUsed

(* The entry of a key: what rawget finds, or during a rehash what is still *)
(* waiting to be re-inserted.                                              *)
Lookup(k) ==
  LET waiting == {i \in 1 .. Len(todo) : todo[i].key = k /\ todo[i].val # None}
  IN  IF waiting = {} THEN RawGet(k) ELSE todo[CHOOSE i \in waiting : TRUE].val

entries == [k \in Keys |-> Lookup(k)]

WaitingKeys == {k \in Keys : \E i \in 1 .. Len(todo) : todo[i].key = k /\ todo[i].val # None}

Map == INSTANCE TableMap WITH map <- entries, pending <- call, Slotted <- IntKeys

(* Each operation of the table is the operation of the map of that name:   *)
(* set and remove change the entry of their own key and no other, a        *)
(* re-insertion changes nothing or hands the entry it is about, unaltered, *)
(* to the handler, the write that caused the rehash is the one that ends   *)
(* it, and an error of the handler loses the entries still waiting and no  *)
(* other.                                                                  *)
StepsMatch ==
  /\ \A k \in Keys, v \in Vals : Set(k, v) => Map!Set(k, v)
  /\ \A k \in Keys : Remove(k) => Map!Delete(k)
  /\ Reinsert => UNCHANGED <<entries, other, call, handler>> \/ Map!HandBack(Head(todo).key)
  /\ HandlerFails => Map!Abandon(WaitingKeys)
  /\ FinishSet => Map!Finish
  /\ SetMetatable => Map!Install

(* hash-table-set! and hash-table-delete! act on a map from keys to        *)
(* values, each on its own key.  From the start of a rehash to its end,    *)
(* however its steps fall, the map stays as it is, but for the entries the *)
(* handler takes or loses (HandBack and Abandon of TableMap, which need a  *)
(* claimed key that came in unasked).                                      *)
MapSpec == Map!Spec /\ [][StepsMatch]_vars
=============================================================================
