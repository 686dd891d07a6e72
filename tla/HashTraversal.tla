---------------------------- MODULE HashTraversal ----------------------------
(***************************************************************************)
(* hash-table-next and the loop of hash-table-for-each (init.scm): a walk  *)
(* keeps no position, only the last entry it was given, and asks the table *)
(* for the one after it.  The loop body runs between two calls and may do  *)
(* anything to the table.                                                  *)
(***************************************************************************)
EXTENDS HashTable

VARIABLES
  walk,     \* "off", "on", "done", "error", or "void" once a key has moved
  last,     \* the key of the last entry given, None before the first
  seen,     \* the keys given so far, in order
  steady    \* the keys that have had an entry ever since the walk began

walkvars == <<walk, last, seen, steady>>

Present == {k \in Keys : RawGet(k) # None}

(* Entries are numbered: the array part first, then the nodes.             *)
Positions == 1 .. Len(array) + size
KeyAt(p) == IF p <= Len(array) THEN p ELSE node[p - Len(array) - 1].key
Filled(p) == IF p <= Len(array) THEN array[p] # None ELSE Live(p - Len(array) - 1)

(* Mutant: the key of a removed entry is not found any more.               *)
PositionOfLive(k) ==
  IF k = None THEN 0
  ELSE IF ArrayIndex(k) \in 1 .. Len(array) THEN ArrayIndex(k)
  ELSE LET n == NodeIndex(k) IN IF n = None \/ ~Live(n) THEN None ELSE Len(array) + n + 1

(* The number of the last entry given: 0 at the start, None when its key   *)
(* is nowhere in the table.                                                *)
PositionOf(k) ==
  IF k = None THEN 0
  ELSE IF ArrayIndex(k) \in 1 .. Len(array) THEN ArrayIndex(k)
  ELSE LET n == NodeIndex(k) IN IF n = None THEN None ELSE Len(array) + n + 1

(* Which key is where, live or not.                                        *)
Layout == [n \in Slots |-> node[n].key]

(* Mutant: the scan starts at the last entry.                              *)
AfterOrAt(p) == {q \in Positions : q >= p /\ Filled(q)}

After(p) == {q \in Positions : q > p /\ Filled(q)}

(* hash-table-next with #f or the last entry.                              *)
Step ==
  LET p == PositionOf(last)
  IN  \/ /\ p = None
         /\ walk' = "error"
         /\ UNCHANGED <<last, seen>>
      \/ /\ p # None /\ After(p) = {}
         /\ walk' = "done"
         /\ UNCHANGED <<last, seen>>
      \/ /\ p # None /\ After(p) # {}
         /\ LET q == CHOOSE q \in After(p) : \A r \in After(p) : q <= r
            IN  /\ last' = KeyAt(q)
                /\ seen' = IF walk = "void" THEN <<>> ELSE Append(seen, KeyAt(q))
         /\ walk' = IF walk = "void" THEN "void" ELSE "on"

WalkStart ==
  /\ call = None /\ walk = "off"
  /\ Step
  /\ steady' = Present
  /\ UNCHANGED vars

WalkStep ==
  /\ call = None /\ walk \in {"on", "void"}
  /\ Step
  /\ UNCHANGED <<vars, steady>>

(* The loop body, or code outside the walk, uses the table.  Once a new    *)
(* key has been inserted or a rehash has run, the walk may go on but       *)
(* nothing is said of what it gives.                                       *)
UseTable ==
  /\ Next
  /\ \/ walk # "on" /\ UNCHANGED walkvars
     \/ /\ walk = "on" /\ Layout' = Layout
        /\ steady' = steady \intersect Present'
        /\ UNCHANGED <<walk, last, seen>>
     \/ /\ walk = "on" /\ Layout' # Layout
        /\ walk' = "void" /\ seen' = <<>> /\ steady' = {}
        /\ UNCHANGED last

Finish ==
  /\ walk \in {"done", "error"}
  /\ walk' = "off" /\ last' = None /\ seen' = <<>> /\ steady' = {}
  /\ UNCHANGED vars

WalkInit ==
  /\ Init
  /\ walk = "off" /\ last = None /\ seen = <<>> /\ steady = {}

WalkNext == WalkStart \/ WalkStep \/ UseTable \/ Finish

WalkSpec == WalkInit /\ [][WalkNext]_<<vars, walkvars>>

-----------------------------------------------------------------------------
(* "for-each visits every entry exactly once" (aftertest.scm), for a loop  *)
(* body that updates and removes entries, the current one included, and    *)
(* revives removed ones, but puts no key in a new place.                   *)

(* No entry is given twice.                                                *)
GivenOnce == \A i, j \in 1 .. Len(seen) : seen[i] = seen[j] => i = j

(* An entry that was there all along has been given when the walk ends.    *)
AllGiven == walk = "done" => steady \subseteq {seen[i] : i \in 1 .. Len(seen)}

(* Each entry that stays is given once, no entry twice.                    *)
EachGivenOnce == GivenOnce /\ AllGiven

(* Removing the entry a walk stands on leaves a tombstone that still tells *)
(* hash-table-next where to go on.                                         *)
NeverLost == [][walk = "on" => walk' # "error"]_walkvars
=============================================================================
