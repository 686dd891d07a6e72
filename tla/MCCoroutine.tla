----------------------------- MODULE MCCoroutine -----------------------------
(* Values of the constants of Coroutine for TLC.                           *)
EXTENDS Coroutine

CONSTANTS c1, c2

MCCos == {c1, c2}
==============================================================================
