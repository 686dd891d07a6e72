------------------------------ MODULE MCRuntime ------------------------------
(* Parts of the runtime that do not share state with each other, on small  *)
(* instances: one of them runs, the others stay as they are.               *)
EXTENDS Loader, InputPort, Hooks, LineTable, Pack

CONSTANTS
  Parts,                                           \* the parts that may run
  t1, t2, d1,
  Texts                                            \* Datum

VARIABLES
  part,
  phase, rest, frames, literal, got, datum, todo, out

D == INSTANCE Datum WITH buff <- literal

ASSUME PartsAssumption ==
  HooksAssumption /\ LineTableAssumption /\ PackAssumption

-----------------------------------------------------------------------------
(* Modules app and lib.util; app is found under d1 and t1, lib.util under  *)
(* t2, which only the second and the fourth list names.                    *)
MCNames == {"app", "lib.util"}
MCDirOf == [name \in MCNames |-> IF name = "app" THEN "app" ELSE "lib/util"]
MCDefault == <<d1>>
MCGiven == {<<t1>>, <<Sep, Sep, t2>>, <<t1, Sep, Sep>>, <<t1, Sep, t2>>}
MCFiles == {<<t2, "lib/util">>, <<d1, "app">>, <<t1, "app">>}

(* A file of five characters, two of them in the buffer.                   *)
MCText == <<"a", "b", "c", "d", "a">>

(* A procedure whose instructions stand on two lines, the later first.     *)
MCLines == [p \in Procs |-> <<2, 1>>]

(* 0, 128, 255, -1, -128, -129 and the limits of 64 bits.                  *)
LowByte(b, fill) == <<b>> \o [k \in 1 .. 7 |-> fill]
MCInts == {LowByte(0, 0), LowByte(128, 0), LowByte(255, 255), LowByte(128, 255),
           LowByte(127, 255), [k \in 1 .. 8 |-> IF k = 8 THEN 128 ELSE 0]}
MCStrings == {<<>>, <<7>>, <<7, 9, 255>>}
Op(op, n0) == [op |-> op, n |-> n0]
MCOptions ==
  {Op(op, 0) : op \in {"<", ">", "b", "B", "h", "J", "i", "x", "s", "z"}}
    \union {Op("i", 1), Op("I", 3), Op("c", 2), Op("s", 1), Op("X", 4)}
MCBefore == {<<>>, <<1, 2, 3, 4>>}

(* Three pieces in a row, also inside of a list, a vector and a string.    *)
TextPieces ==
  {<<"(">>, <<")">>, <<" ", ".", " ">>, <<" ">>, <<"'">>, <<",">>, <<"@">>, <<"#", "(">>,
   <<"#", "t">>, <<"#", "\\">>, <<"\"">>, <<"\\">>, <<"\n">>, <<"a">>, <<"-", "0", "1">>,
   <<";">>, <<"q", "u", "o", "t", "e">>, <<"STX">>}
InnerTexts == {s[1] \o s[2] \o s[3] : s \in [1 .. 3 -> TextPieces]}
MCTexts ==
  UNION {{s, <<"(">> \o s \o <<")">>, <<"#", "(">> \o s \o <<")">>,
          <<"\"">> \o s \o <<"\"">>} : s \in InnerTexts}
    \union {<<".", ";">>, <<"(", "a", ".", ";", "\n", ")">>, <<"(", ".", ";", "\n", ")">>}

-----------------------------------------------------------------------------
dVars == <<phase, rest, frames, literal, got, datum, todo, out>>

Runs(p) == part = p

(* Where a part does not run, what it could choose does not matter.        *)
Fixed(p, choice) == IF Runs(p) THEN TRUE ELSE choice

RuntimeInit ==
  /\ part \in Parts
  /\ D!DatumInit /\ Fixed("datum", rest = <<"a", "a", "a">>)
  /\ LoaderInit /\ Fixed("loader", given = <<t1>>)
  /\ PortInit /\ Fixed("port", terminal = FALSE)
  /\ LineInit /\ Fixed("lines", defline = 1)
  /\ HooksInit
  /\ PackInit

RuntimeNext ==
  \/ /\ Runs("loader") /\ LoaderNext
     /\ UNCHANGED <<part, portVars, hookVars, lineVars, packVars, dVars>>
  \/ /\ Runs("port") /\ PortNext
     /\ UNCHANGED <<part, loaderVars, hookVars, lineVars, packVars, dVars>>
  \/ /\ Runs("hooks") /\ HooksNext
     /\ UNCHANGED <<part, loaderVars, portVars, lineVars, packVars, dVars>>
  \/ /\ Runs("lines") /\ LineNext
     /\ UNCHANGED <<part, loaderVars, portVars, hookVars, packVars, dVars>>
  \/ /\ Runs("pack") /\ PackNext
     /\ UNCHANGED <<part, loaderVars, portVars, hookVars, lineVars, dVars>>
  \/ /\ Runs("datum") /\ D!DatumNext
     /\ UNCHANGED <<part, loaderVars, portVars, hookVars, lineVars, packVars>>

RuntimeSpec ==
  /\ RuntimeInit
  /\ [][RuntimeNext]_<<part, loaderVars, portVars, hookVars, lineVars, packVars, dVars>>
  /\ WF_dVars(Runs("datum") /\ D!DatumNext)

-----------------------------------------------------------------------------
(* Properties.                                                             *)

(* The variables of every part keep their types; more than that, the place *)
(* in an input buffer is where the lexer can give its character back       *)
(* (unreadchar), and the stacks of reader and printer are left empty when  *)
(* an error ends them.                                                     *)
RuntimeTypeOK ==
  /\ LoaderTypeOK /\ PortTypeOK /\ HooksTypeOK
  /\ LineTypeOK /\ PackTypeOK /\ D!DatumTypeOK

(* What write prints of a datum that was read, read gives back: Lexer and  *)
(* printvalue0 know the same escapes, names and abbreviations, but for the *)
(* cases that Misleading lists, a string with a character that neither     *)
(* prints nor has an escape among them.                                    *)
ReadBackIsSame == D!ReadBackIsSame

(* Every text is read, refused or printed in the end: neither the lexer    *)
(* nor the printer waits for something that does not come.  The fairness   *)
(* is that of a loop in C++ that nothing interrupts.                       *)
ComesToAnEnd == Runs("datum") ~> (phase \in D!Over)
=============================================================================
