------------------------------ MODULE TableMap -------------------------------
(***************************************************************************)
(* What a hash table promises: a map from keys to values of which every    *)
(* operation changes the entry it names and no other.  A write may be kept *)
(* pending while the table is rebuilt; the map stays as it is meanwhile,   *)
(* and the write that ends the rebuilding is the one that began it.        *)
(*                                                                         *)
(* A __newindex handler takes over the write of a key it claims that has   *)
(* no entry.  The rebuilding, which writes every entry anew, asks it too:  *)
(* that is of no consequence unless an entry of a claimed key came into    *)
(* the map without a question, before the handler was there or into the    *)
(* slot of an integer.  Such an entry may be handed back to the handler,   *)
(* and be lost, with others, when the handler fails.                       *)
(***************************************************************************)
CONSTANTS
  Keys, Vals, None,
  Slotted,      \* the keys that may have a slot, which is written unasked
  Claimed,      \* the keys whose writes the handler takes over
  LateHandler   \* may the handler be installed when the map is in use?

VARIABLES
  map,
  other,        \* what the handler was given for each key
  handler,      \* is it installed?
  pending       \* the write that waits until the table is rebuilt, or None

Asks(k) == handler /\ k \in Claimed /\ map[k] = None

(* The claimed keys that may have an entry all the same.                   *)
Late == {k \in Claimed : LateHandler \/ k \in Slotted}

Write(k, v) ==
  /\ ~Asks(k) \/ k \in Slotted
  /\ map' = [map EXCEPT ![k] = v]
  /\ UNCHANGED <<other, pending>>

HandOver(k, v) ==
  /\ Asks(k)
  /\ other' = [other EXCEPT ![k] = v]
  /\ UNCHANGED <<map, pending>>

Defer(k, v) ==
  /\ map[k] = None /\ ~Asks(k)
  /\ pending' = [key |-> k, val |-> v]
  /\ UNCHANGED <<map, other>>

Set(k, v) ==
  /\ pending = None
  /\ Write(k, v) \/ HandOver(k, v) \/ Defer(k, v)
  /\ UNCHANGED handler

Finish ==
  /\ pending # None
  /\ map' = [map EXCEPT ![pending.key] = pending.val]
  /\ pending' = None
  /\ UNCHANGED <<other, handler>>

Delete(k) ==
  /\ pending = None /\ map[k] # None
  /\ map' = [map EXCEPT ![k] = None]
  /\ UNCHANGED <<other, handler, pending>>

HandBack(k) ==
  /\ pending # None /\ handler
  /\ k \in Late /\ map[k] # None
  /\ map' = [map EXCEPT ![k] = None]
  /\ other' = [other EXCEPT ![k] = map[k]]
  /\ UNCHANGED <<handler, pending>>

Abandon(lost) ==
  /\ pending # None /\ handler
  /\ lost \intersect Late # {} /\ \A k \in lost : map[k] # None
  /\ map' = [k \in Keys |-> IF k \in lost THEN None ELSE map[k]]
  /\ pending' = None
  /\ UNCHANGED <<other, handler>>

Install ==
  /\ pending = None /\ Claimed # {}
  /\ LateHandler \/ \A k \in Keys : map[k] = None
  /\ handler' = TRUE
  /\ UNCHANGED <<map, other, pending>>

Init ==
  /\ map = [k \in Keys |-> None]
  /\ other = [k \in Keys |-> None]
  /\ handler = FALSE
  /\ pending = None

Next ==
  \/ \E k \in Keys, v \in Vals : Set(k, v)
  \/ \E k \in Keys : Delete(k) \/ HandBack(k)
  \/ \E lost \in SUBSET Keys : Abandon(lost)
  \/ Finish
  \/ Install

Spec == Init /\ [][Next]_<<map, other, handler, pending>>
=============================================================================
