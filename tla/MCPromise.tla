------------------------------ MODULE MCPromise ------------------------------
(* Values of the constants of Promise for TLC.                             *)
EXTENDS Promise

CONSTANTS p, q, r, v, w

Three == {p, q, r}

(* p may have a promise as its value, q has a plain value; both may force  *)
(* themselves and each other while they are evaluated.  r forces p in tail *)
(* position, or has a value of its own.                                    *)
MCGives == [x \in Three |-> CASE x = p -> {q, v} [] x = q -> {v, w} [] x = r -> {w}]
MCForces == [x \in Three |-> IF x = r THEN {p} ELSE {p, q}]
=============================================================================
