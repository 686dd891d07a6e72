--------------------------- MODULE MCHashTraversal ---------------------------
(* Values of the constants of HashTraversal for TLC.                       *)
EXTENDS HashTraversal

CONSTANTS a, b

WalkInts == {1, 2}
WalkOthers == {a, b}

(* Both atoms and 1 collide in every table of up to four nodes.            *)
WalkMix == [k \in Keys |-> IF k = 2 THEN 1 ELSE 0]
=============================================================================
