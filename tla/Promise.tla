------------------------------- MODULE Promise -------------------------------
(***************************************************************************)
(* delay and force.  A promise points to a cell, which holds the closure   *)
(* of the delayed expression until a value is known.  force calls that     *)
(* closure in a frame that remembers the promise; when the frame returns a *)
(* value, callrtnfrm stores it in the cell, and when it returns another    *)
(* promise, recallforce makes the first promise share the cell of the      *)
(* second and runs the closure of that cell in the same frame.             *)
(***************************************************************************)
EXTENDS Naturals, Sequences, FiniteSets

CONSTANTS
  Promises,   \* the promises; a cell is named after the promise made with it
  Vals,       \* the values delayed expressions may have
  Gives,      \* what the expression of each promise may evaluate to
  Forces,     \* the promises that the expression of each promise may force
  TailForces, \* the promises whose expression may do so in tail position
  MaxFrames,  \* bound: nested frames
  MaxKept,    \* bound: continuations kept
  None

ASSUME ConstantsAssumption ==
  /\ Gives \in [Promises -> SUBSET (Promises \union Vals)]
  /\ Forces \in [Promises -> SUBSET Promises]
  /\ TailForces \in SUBSET Promises
  /\ MaxFrames \in Nat \ {0} /\ MaxKept \in Nat
  /\ Promises \intersect Vals = {}
  /\ None \notin Promises \union Vals

VARIABLES
  cell,    \* PromiseObj::cell
  state,   \* PromiseCellObj::state, "lazy" or "eager"
  val,     \* PromiseCellObj::val
  stack,   \* the frames of the force calls under way, innermost last
  saved,   \* the frames of each continuation the program keeps
  answer   \* what force returned for each promise the last time

vars == <<cell, state, val, stack, saved, answer>>

Front(s) == SubSeq(s, 1, Len(s) - 1)
Top(s) == s[Len(s)]

(* A frame made by force: the promise in frm->force, the cell whose        *)
(* expression it evaluates, the promises whose force expressions get its   *)
(* value.                                                                  *)
Frame(p, asked) == [force |-> p, runs |-> cell[p], asked |-> asked]

(* force p is evaluated by the running expression, or at top level.        *)
Asks(p) == stack # <<>> => p \in Forces[Top(stack).runs]

Tell(ps, v) == answer' = [p \in Promises |-> IF p \in ps THEN v ELSE answer[p]]

-----------------------------------------------------------------------------
(* callforce: a known value is the result, otherwise the closure of the    *)
(* cell is called, in a new frame or in that of the tail caller            *)
(* (ctorclosurefrm), whose frm->force is overwritten.                      *)
ForceKnown(p) ==
  /\ Asks(p) /\ state[cell[p]] = "eager"
  /\ Tell({p}, val[cell[p]])
  /\ UNCHANGED <<cell, state, val, stack, saved>>

(* Mutant: the cell is marked before its expression is evaluated.          *)
ForceLazyMarking(p) ==
  /\ Asks(p) /\ state[cell[p]] = "lazy"
  /\ Len(stack) < MaxFrames
  /\ stack' = Append(stack, Frame(p, {p}))
  /\ state' = [state EXCEPT ![cell[p]] = "eager"]
  /\ UNCHANGED <<cell, val, saved, answer>>

ForceLazy(p) ==
  /\ Asks(p) /\ state[cell[p]] = "lazy"
  /\ Len(stack) < MaxFrames
  /\ stack' = Append(stack, Frame(p, {p}))
  /\ UNCHANGED <<cell, state, val, saved, answer>>

TailForceLazy(p) ==
  /\ stack # <<>> /\ Top(stack).runs \in TailForces
  /\ Asks(p) /\ state[cell[p]] = "lazy"
  /\ stack' = Append(Front(stack), Frame(p, Top(stack).asked \union {p}))
  /\ UNCHANGED <<cell, state, val, saved, answer>>

(* Mutant: the result is the value although another one is known.          *)
KnownIgnored(x) ==
  LET f == Top(stack)
  IN  /\ state[cell[f.force]] = "eager" /\ x \notin Promises
      /\ Tell(f.asked, x)
      /\ stack' = Front(stack)
      /\ UNCHANGED <<cell, state, val>>

(* callrtnfrm for a frame with a promise and the result x.  When the cell  *)
(* has got its value in the meantime, x is dropped.                        *)
Known(x) ==
  LET f == Top(stack)
  IN  /\ state[cell[f.force]] = "eager"
      /\ Tell(f.asked, val[cell[f.force]])
      /\ stack' = Front(stack)
      /\ UNCHANGED <<cell, state, val>>

RecallForce(x) ==
  LET f == Top(stack)
  IN  /\ state[cell[f.force]] = "lazy" /\ x \in Promises
      /\ cell' = [cell EXCEPT ![f.force] = cell[x]]
      /\ stack' = Append(Front(stack), Frame(x, f.asked))
      /\ UNCHANGED <<state, val, answer>>

(* Mutants: a value that is already there is replaced; the result is       *)
(* stored without looking whether it is a promise.                         *)
FulfilAgain(x) ==
  LET f == Top(stack)
  IN  /\ x \notin Promises
      /\ val' = [val EXCEPT ![cell[f.force]] = x]
      /\ state' = [state EXCEPT ![cell[f.force]] = "eager"]
      /\ Tell(f.asked, x)
      /\ stack' = Front(stack)
      /\ UNCHANGED cell

FulfilAny(x) ==
  LET f == Top(stack)
  IN  /\ state[cell[f.force]] = "lazy"
      /\ val' = [val EXCEPT ![cell[f.force]] = x]
      /\ state' = [state EXCEPT ![cell[f.force]] = "eager"]
      /\ Tell(f.asked, x)
      /\ stack' = Front(stack)
      /\ UNCHANGED cell

Fulfil(x) ==
  LET f == Top(stack)
  IN  /\ state[cell[f.force]] = "lazy" /\ x \notin Promises
      /\ val' = [val EXCEPT ![cell[f.force]] = x]
      /\ state' = [state EXCEPT ![cell[f.force]] = "eager"]
      /\ Tell(f.asked, x)
      /\ stack' = Front(stack)
      /\ UNCHANGED cell

Return(x) ==
  /\ Known(x) \/ RecallForce(x) \/ Fulfil(x)
  /\ UNCHANGED saved

(* The frames are captured; they run again as copies, whenever the program *)
(* calls one of the continuations it keeps.                                *)
CallCC ==
  /\ stack # <<>> /\ Cardinality(saved \union {stack}) <= MaxKept
  /\ saved' = saved \union {stack}
  /\ UNCHANGED <<cell, state, val, stack, answer>>

Throw ==
  /\ stack' \in saved
  /\ UNCHANGED <<cell, state, val, saved, answer>>

(* An error leaves all frames, to a pcall around the outermost force.      *)
Fail ==
  /\ stack # <<>>
  /\ stack' = <<>>
  /\ UNCHANGED <<cell, state, val, saved, answer>>

Init ==
  /\ cell = [p \in Promises |-> p]
  /\ state = [c \in Promises |-> "lazy"]
  /\ val = [c \in Promises |-> None]
  /\ stack = <<>> /\ saved = {}
  /\ answer = [p \in Promises |-> None]

Next ==
  \/ \E p \in Promises : ForceKnown(p) \/ ForceLazy(p) \/ TailForceLazy(p)
  \/ stack # <<>> /\ \E x \in Gives[Top(stack).runs] : Return(x)
  \/ CallCC \/ Throw \/ Fail

Spec == Init /\ [][Next]_vars

-----------------------------------------------------------------------------
(* Properties.                                                             *)

FrameType == [force : Promises, runs : Promises, asked : SUBSET Promises]

TypeOK ==
  /\ cell \in [Promises -> Promises]
  /\ state \in [Promises -> {"lazy", "eager"}]
  /\ val \in [Promises -> Vals \union {None}]
  /\ stack \in Seq(FrameType) /\ saved \subseteq Seq(FrameType)
  /\ answer \in [Promises -> Vals \union {None}]

(* A cell has a value exactly when it is eager: force never hands out an   *)
(* undefined value, whatever jumps and errors interrupted the expression.  *)
EagerHasValue == \A c \in Promises : state[c] = "eager" <=> val[c] # None

(* The value of a cell, once known, stays: an expression that is evaluated *)
(* again, because it forces its own promise or is re-entered through a     *)
(* continuation, does not replace it.                                      *)
FirstValueStays ==
  [][\A c \in Promises : state[c] = "eager" => state'[c] = "eager" /\ val'[c] = val[c]]_vars

(* The promises whose value is stored where they point.  The frame of a    *)
(* force in tail position remembers the promise forced last only, so the   *)
(* value goes to that one; of a chain of promises the first does not point *)
(* to the cell of the last; and an expression that gives another promise   *)
(* when a continuation enters it again takes the first from its cell.      *)
Plain == {q \in Promises : Gives[q] \intersect Promises = {}}

Stored ==
  {p \in Promises :
     /\ p \notin TailForces /\ Gives[p] \intersect TailForces = {}
     /\ Gives[p] \intersect Promises \subseteq Plain
     /\ \A x, y \in Gives[p] \intersect Promises : x = y}

(* A promise whose value has been handed out points to a cell that holds   *)
(* this value: its expression is not evaluated again.                      *)
AnswerIsKept ==
  \A p \in Stored :
    answer[p] # None => state[cell[p]] = "eager" /\ val[cell[p]] = answer[p]

(* An answer once given stays: the promise keeps a cell with that value,   *)
(* and every later force gives it again (recallforce, callforce;           *)
(* r4rstest.scm forces p again after changing what its expression would    *)
(* give now).                                                              *)
AnswersStay ==
  [][/\ AnswerIsKept'
     /\ \A p \in Stored : answer[p] # None => answer'[p] = answer[p]]_vars
=============================================================================
