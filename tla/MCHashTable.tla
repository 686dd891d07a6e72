---------------------------- MODULE MCHashTable ------------------------------
(* Values of the constants of HashTable for TLC.                           *)
EXTENDS HashTable

CONSTANTS a, b

MCInts == 1 .. 3
MCOthers == {a, b}

(* 1, 3 and a share every main position of a table of up to four nodes, b  *)
(* and 2 one of two nodes: chains grow, and nodes are moved out of them.   *)
MCMix == [k \in Keys |-> IF k \in {1, 3, a} THEN 0 ELSE 2]
=============================================================================
