------------------------------ MODULE LineTable ------------------------------
(***************************************************************************)
(* The line table of a procedure.  The compiler writes for every           *)
(* instruction the difference to the line of the instruction before it in  *)
(* one signed byte, or a mark and an entry of its own when the difference  *)
(* does not fit; the error messages and the debugger decode it, each with  *)
(* a loop of its own.                                                      *)
(***************************************************************************)
EXTENDS Integers, Sequences

CONSTANTS
  SourceLines,   \* the lines expressions stand on
  MaxCode        \* bound: instructions

LineTableAssumption == SourceLines \subseteq Nat /\ MaxCode \in Nat

VARIABLES
  defline,   \* the line of the procedure itself
  prevline,  \* SCompiler::prevline
  lines,     \* the byte of each instruction, by pc + 1
  abslines,  \* the entries of their own, in the order of their pcs
  emitted    \* history: the line each instruction was compiled with

lineVars == <<defline, prevline, lines, abslines, emitted>>

ABSLINE == -128
MLINEDIFF == 128

Abs(n) == IF n < 0 THEN -n ELSE n

(* The value a signed char holds after n was assigned to it.               *)
SignedByte(n) == ((n + 128) % 256) - 128

-----------------------------------------------------------------------------
(* putcode and saveline.                                                   *)
(* Mutant: a difference of 128 is taken to fit.                            *)
SaveLineInclusive(line) ==
  LET pc == Len(lines)
      diff == line - prevline
      far == Abs(diff) > MLINEDIFF
  IN /\ lines' = Append(lines, SignedByte(IF far THEN ABSLINE ELSE diff))
     /\ abslines' = IF far THEN Append(abslines, [pc |-> pc, line |-> line]) ELSE abslines
     /\ prevline' = line

SaveLine(line) ==
  LET pc == Len(lines)
      diff == line - prevline
      far == Abs(diff) >= MLINEDIFF
  IN /\ lines' = Append(lines, SignedByte(IF far THEN ABSLINE ELSE diff))
     /\ abslines' = IF far THEN Append(abslines, [pc |-> pc, line |-> line]) ELSE abslines
     /\ prevline' = line

PutCode(line) ==
  /\ Len(lines) < MaxCode
  /\ SaveLine(line)
  /\ emitted' = Append(emitted, line)
  /\ UNCHANGED defline

LineInit ==
  /\ defline \in SourceLines
  /\ prevline = defline
  /\ lines = <<>> /\ abslines = <<>> /\ emitted = <<>>

LineNext == \E line \in SourceLines : PutCode(line)

LineSpec == LineInit /\ [][LineNext]_lineVars

-----------------------------------------------------------------------------
(* getline decodes from the first instruction on; at[i] is the line and    *)
(* the place in abslines after i instructions.                             *)
Anchored(absi, pc) == absi <= Len(abslines) /\ abslines[absi].pc = pc

(* The first entry from absi on that is not before pc.                     *)
Advance(absi, pc) ==
  CHOOSE j \in absi .. Len(abslines) + 1 :
    /\ \A k \in absi .. j - 1 : abslines[k].pc < pc
    /\ j <= Len(abslines) => abslines[j].pc >= pc

(* One instruction of getline's loop, and nextline of the debugger.        *)
NextLine(pc, at) ==
  IF lines[pc + 1] # ABSLINE
  THEN [at EXCEPT !.line = @ + lines[pc + 1]]
  ELSE LET absi == Advance(at.absi, pc)
       IN [line |-> IF Anchored(absi, pc) THEN abslines[absi].line ELSE at.line,
           absi |-> absi]

Decoded ==
  LET at[i \in 0 .. Len(lines)] ==
        IF i = 0 THEN [line |-> defline, absi |-> 1] ELSE NextLine(i - 1, at[i - 1])
  IN at

GetLine(pc) ==
  IF pc < 0 \/ pc >= Len(lines) THEN defline ELSE Decoded[pc + 1].line

(* lastinstrline and activelines.                                          *)
LastInstrLine ==
  CHOOSE m \in {Decoded[i].line : i \in DOMAIN Decoded} :
    \A i \in DOMAIN Decoded : Decoded[i].line <= m

ActiveLines == {Decoded[i].line : i \in DOMAIN Decoded \ {0}}

-----------------------------------------------------------------------------
(* The variables hold values of their types.                               *)
LineTypeOK ==
  /\ \A i \in DOMAIN lines : lines[i] \in -128 .. 127
  /\ \A i \in DOMAIN abslines : abslines[i] \in [pc : Nat, line : SourceLines]

(* Every instruction is reported on the line it was compiled with, however *)
(* far the lines of neighbouring instructions are from each other.         *)
LinesComeBack ==
  /\ \A i \in DOMAIN emitted : GetLine(i - 1) = emitted[i]
  /\ ActiveLines = {emitted[i] : i \in DOMAIN emitted}
=============================================================================
