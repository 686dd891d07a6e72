---------------------------- MODULE CoroutineSpec ----------------------------
(***************************************************************************)
(* What coroutine-create, resume and yield promise ("resume is like a      *)
(* call, yield like a return; when the body ends, resume returns the final *)
(* value and status becomes dead", aftertest.scm): coroutines run in a     *)
(* stack, each resumed by the one below it, and what ends or suspends one  *)
(* is answered to the resume that ran it.                                  *)
(***************************************************************************)
EXTENDS Naturals, Sequences

CONSTANTS Cos, None

VARIABLES
  running,  \* the coroutines being run, each resumed by the one before it
  dead,     \* the coroutines that have ended
  result    \* what the last resume to return gave

Answer(c, what) == [from |-> c, what |-> what]

Top == running[Len(running)]
Pop == SubSeq(running, 1, Len(running) - 1)
IsRunning(c) == \E i \in 1 .. Len(running) : running[i] = c

Resume(c) ==
  /\ ~IsRunning(c) /\ c \notin dead
  /\ running' = Append(running, c)
  /\ UNCHANGED <<dead, result>>

(* Resuming a coroutine that is running or dead gives void.                *)
Refuse(c) ==
  /\ IsRunning(c) \/ c \in dead
  /\ result' = Answer(c, "void")
  /\ UNCHANGED <<running, dead>>

Yield ==
  /\ running # <<>>
  /\ running' = Pop
  /\ result' = Answer(Top, "yielded")
  /\ UNCHANGED dead

(* The body returns, or an error ends it: resume gives void then.          *)
End(what) ==
  /\ running # <<>>
  /\ running' = Pop
  /\ dead' = dead \union {Top}
  /\ result' = Answer(Top, what)

Init == running = <<>> /\ dead = {} /\ result = None

Next ==
  \/ \E c \in Cos : Resume(c) \/ Refuse(c)
  \/ Yield
  \/ End("final") \/ End("void")

Spec == Init /\ [][Next]_<<running, dead, result>>
=============================================================================
