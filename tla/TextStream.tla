----------------------------- MODULE TextStream -----------------------------
(***************************************************************************)
(* What an input port promises: the text of its file, character by         *)
(* character, to whatever mixture of read-char, peek-char and read, until  *)
(* the end is met or the port is closed.                                   *)
(***************************************************************************)
EXTENDS Naturals, Sequences

CONSTANTS
  Text,   \* the characters of the file
  End     \* the eof object

VARIABLES
  pos,    \* how many characters have been taken
  said,   \* the last answer
  ended,  \* the end was met, or the port was closed
  closed,
  reading \* a datum is being read

streamVars == <<pos, said, ended, closed, reading>>

(* The character at the position; the end is final once it is met.         *)
Ahead == IF ended \/ pos = Len(Text) THEN End ELSE Text[pos + 1]

Look ==
  /\ ~reading
  /\ said' = Ahead
  /\ ended' = (Ahead = End)
  /\ UNCHANGED <<pos, closed, reading>>

Take ==
  /\ ~reading
  /\ said' = Ahead
  /\ ended' = (Ahead = End)
  /\ pos' = IF Ahead = End THEN pos ELSE pos + 1
  /\ UNCHANGED <<closed, reading>>

(* read takes a datum, one character after the other: it looks at the      *)
(* first, passes from one to the next, and leaves the one behind the datum.*)
Start ==
  /\ ~reading /\ reading' = TRUE
  /\ ended' = (Ahead = End)
  /\ UNCHANGED <<pos, said, closed>>

Pass ==
  /\ reading /\ Ahead # End
  /\ pos' = pos + 1
  /\ ended' = (pos' = Len(Text))
  /\ UNCHANGED <<said, closed, reading>>

Leave ==
  /\ reading /\ reading' = FALSE
  /\ UNCHANGED <<pos, said, ended, closed>>

(* close-input-port drops what is left.                                    *)
Close ==
  /\ ~reading
  /\ closed' = TRUE /\ ended' = TRUE
  /\ pos' \in pos..Len(Text)
  /\ UNCHANGED <<said, reading>>

StreamInit ==
  /\ pos = 0 /\ said = End
  /\ ended = FALSE /\ closed = FALSE /\ reading = FALSE

StreamNext == Look \/ Take \/ Start \/ Pass \/ Leave \/ Close

StreamSpec == StreamInit /\ [][StreamNext]_streamVars
=============================================================================
