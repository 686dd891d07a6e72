---------------------------- MODULE PromiseProofs ----------------------------
(***************************************************************************)
(* Theorems about delay and force, for any promises, any results of their  *)
(* expressions, any forces between them, tail forces or not.               *)
(***************************************************************************)
EXTENDS Promise, TLAPS

(* The innermost of some frames is a frame, and so are the others.         *)
LEMMA FramesStayFrames ==
  ASSUME NEW S, NEW s \in Seq(S), s # <<>>
  PROVE  Front(s) \in Seq(S) /\ Top(s) \in S
<1>1. Len(s) \in Nat /\ Len(s) # 0
  OBVIOUS
<1>2. Len(s) - 1 \in Nat /\ Len(s) - 1 <= Len(s) /\ Len(s) \in 1..Len(s)
  BY <1>1
<1>3. \A i \in 1..(Len(s) - 1) : s[i] \in S
  BY <1>1
<1>4. SubSeq(s, 1, Len(s) - 1) \in Seq(S)
  BY <1>2, <1>3
<1> QED
  BY <1>2, <1>4 DEF Front, Top

(* Every step keeps the shape of cells and frames.                         *)
LEMMA StepKeepsTypes ==
  ASSUME TypeOK, [Next]_vars
  PROVE  TypeOK'
<1> USE ConstantsAssumption
<1>1. ASSUME NEW p \in Promises, NEW ps \in SUBSET Promises
      PROVE  Frame(p, ps) \in FrameType
  BY <1>1 DEF TypeOK, Frame, FrameType
<1>2. ASSUME NEW ps, NEW v \in Vals \union {None}, Tell(ps, v)
      PROVE  answer' \in [Promises -> Vals \union {None}]
  BY <1>2 DEF TypeOK, Tell
<1>3. stack # <<>> => Front(stack) \in Seq(FrameType) /\ Top(stack) \in FrameType
  BY FramesStayFrames DEF TypeOK
<1>4. ASSUME NEW p \in Promises, ForceKnown(p)
      PROVE  TypeOK'
  <2>1. val[cell[p]] \in Vals \union {None}
    BY DEF TypeOK
  <2> QED
    BY <1>4, <1>2, <2>1 DEF ForceKnown, TypeOK
<1>5. ASSUME NEW p \in Promises, ForceLazy(p)
      PROVE  TypeOK'
  <2>1. Append(stack, Frame(p, {p})) \in Seq(FrameType)
    BY <1>1 DEF TypeOK
  <2> QED
    BY <1>5, <2>1 DEF ForceLazy, TypeOK
<1>6. ASSUME NEW p \in Promises, TailForceLazy(p)
      PROVE  TypeOK'
  <2>1. Top(stack).asked \union {p} \in SUBSET Promises
    BY <1>6, <1>3 DEF TailForceLazy, FrameType
  <2>2. Append(Front(stack), Frame(p, Top(stack).asked \union {p})) \in Seq(FrameType)
    BY <1>6, <1>1, <1>3, <2>1 DEF TailForceLazy
  <2> QED
    BY <1>6, <2>2 DEF TailForceLazy, TypeOK
<1>7. ASSUME NEW x \in Gives[Top(stack).runs], stack # <<>>, Return(x)
      PROVE  TypeOK'
  <2>1. /\ Top(stack).force \in Promises /\ Top(stack).asked \in SUBSET Promises
        /\ cell[Top(stack).force] \in Promises
        /\ x \in Promises \union Vals
    BY <1>7, <1>3 DEF FrameType, TypeOK
  <2>2. saved' \subseteq Seq(FrameType)
    BY <1>7 DEF Return, TypeOK
  <2>3. CASE Known(x)
    BY <1>7, <1>3, <1>2, <2>1, <2>2, <2>3 DEF Known, TypeOK
  <2>4. CASE RecallForce(x)
    <3>1. Append(Front(stack), Frame(x, Top(stack).asked)) \in Seq(FrameType)
      BY <1>7, <1>1, <1>3, <2>1, <2>4 DEF RecallForce
    <3>2. cell' \in [Promises -> Promises]
      BY <2>1, <2>4 DEF RecallForce, TypeOK
    <3> QED
      BY <3>1, <3>2, <2>2, <2>4 DEF RecallForce, TypeOK
  <2>5. CASE Fulfil(x)
    <3>1. x \in Vals
      BY <2>1, <2>5 DEF Fulfil
    <3>2. answer' \in [Promises -> Vals \union {None}]
      BY <1>2, <3>1, <2>5 DEF Fulfil
    <3> QED
      BY <1>7, <1>3, <2>1, <2>2, <2>5, <3>1, <3>2 DEF Fulfil, TypeOK
  <2> QED
    BY <1>7, <2>3, <2>4, <2>5 DEF Return
<1>8. CASE CallCC \/ Throw \/ Fail
  <2>1. <<>> \in Seq(FrameType)
    OBVIOUS
  <2>2. CASE CallCC \/ Throw
    BY <2>2 DEF CallCC, Throw, TypeOK
  <2>3. CASE Fail
    BY <2>1, <2>3 DEF Fail, TypeOK
  <2> QED
    BY <1>8, <2>2, <2>3
<1>9. CASE UNCHANGED vars
  BY <1>9 DEF vars, TypeOK
<1> QED
  BY <1>4, <1>5, <1>6, <1>7, <1>8, <1>9 DEF Next

(* Cells and frames have the shape that callforce, callrtnfrm and          *)
(* recallforce rely on, whatever the expressions force and give.           *)
THEOREM TypeCorrect == Spec => []TypeOK
<1>1. Init => TypeOK
  BY ConstantsAssumption DEF Init, TypeOK
<1>2. TypeOK /\ [Next]_vars => TypeOK'
  BY StepKeepsTypes
<1> QED
  BY <1>1, <1>2, PTL DEF Spec

(* A step gives a value to at most one cell, which has none, and marks it  *)
(* in the same step.                                                       *)
LEMMA StepGivesOneValue ==
  ASSUME TypeOK, [Next]_vars
  PROVE  \/ UNCHANGED <<state, val>>
         \/ \E c \in Promises, x \in Vals :
              /\ state[c] = "lazy"
              /\ state' = [state EXCEPT ![c] = "eager"]
              /\ val' = [val EXCEPT ![c] = x]
<1> DEFINE SomeCellSet == \E c \in Promises, x \in Vals :
                       /\ state[c] = "lazy"
                       /\ state' = [state EXCEPT ![c] = "eager"]
                       /\ val' = [val EXCEPT ![c] = x]
<1>1. ASSUME NEW x \in Gives[Top(stack).runs], stack # <<>>, Fulfil(x)
      PROVE  SomeCellSet
  <2>1. Top(stack) \in FrameType
    BY <1>1, FramesStayFrames DEF TypeOK
  <2>2. /\ cell[Top(stack).force] \in Promises
        /\ x \in Vals
    BY <1>1, <2>1, ConstantsAssumption DEF FrameType, TypeOK, Fulfil
  <2> QED
    BY <1>1, <2>2 DEF Fulfil
<1>2. CASE UNCHANGED vars
  BY <1>2 DEF vars
<1>3. CASE \E p \in Promises : ForceKnown(p) \/ ForceLazy(p) \/ TailForceLazy(p)
  BY <1>3 DEF ForceKnown, ForceLazy, TailForceLazy
<1>4. CASE stack # <<>> /\ \E x \in Gives[Top(stack).runs] : Return(x)
  BY <1>1, <1>4 DEF Return, Known, RecallForce
<1>5. CASE CallCC \/ Throw \/ Fail
  BY <1>5 DEF CallCC, Throw, Fail
<1> QED
  BY <1>2, <1>3, <1>4, <1>5 DEF Next

(* A cell is marked eager exactly when it holds a value: force never       *)
(* answers with a value that nothing computed.                             *)
THEOREM MarkedMeansKnown == Spec => []EagerHasValue
<1>1. Init => EagerHasValue
  BY DEF Init, EagerHasValue
<1>2. ASSUME TypeOK, EagerHasValue, [Next]_vars
      PROVE  EagerHasValue'
  <2>1. CASE UNCHANGED <<state, val>>
    BY <1>2, <2>1 DEF EagerHasValue
  <2>2. ASSUME NEW c \in Promises, NEW x \in Vals,
               state' = [state EXCEPT ![c] = "eager"],
               val' = [val EXCEPT ![c] = x]
        PROVE  EagerHasValue'
    BY <1>2, <2>2, ConstantsAssumption DEF EagerHasValue, TypeOK
  <2> QED
    BY <1>2, <2>1, <2>2, StepGivesOneValue
<1> QED
  BY <1>1, <1>2, TypeCorrect, PTL DEF Spec

(* The first value of a cell is final: a second evaluation of the same     *)
(* expression, by a recursive force or a re-entered continuation, does not *)
(* replace it.                                                             *)
THEOREM ValuesAreFinal == Spec => FirstValueStays
<1>1. ASSUME TypeOK, [Next]_vars
      PROVE  \A c \in Promises :
               state[c] = "eager" => state'[c] = "eager" /\ val'[c] = val[c]
  <2>1. ASSUME NEW c \in Promises, NEW x \in Vals, state[c] = "lazy",
               state' = [state EXCEPT ![c] = "eager"],
               val' = [val EXCEPT ![c] = x]
        PROVE  \A d \in Promises :
                 state[d] = "eager" => state'[d] = "eager" /\ val'[d] = val[d]
    BY <1>1, <2>1 DEF TypeOK
  <2> QED
    BY <1>1, <2>1, StepGivesOneValue
<1>2. TypeOK /\ [Next]_vars
        => [\A c \in Promises :
              state[c] = "eager" => state'[c] = "eager" /\ val'[c] = val[c]]_vars
  BY <1>1
<1> QED
  BY <1>2, TypeCorrect, PTL DEF Spec, FirstValueStays

-----------------------------------------------------------------------------
(* Answers stay.                                                           *)

(* A frame of a plain promise runs its own expression; one of a stored     *)
(* promise that, or the one it was given; and a stored promise that waits  *)
(* for the answer of a frame is the one it forces, or shares its cell.     *)
Minds(f) ==
  /\ f.force \in Plain => f.runs = f.force
  /\ f.force \in Stored => f.runs = f.force \/ f.runs \in Gives[f.force]
  /\ \A p \in f.asked \intersect Stored :
       f.force = p \/ (f.force \in Gives[p] /\ cell[p] = f.force)

FramesIn(s) == {s[i] : i \in 1 .. Len(s)}

AnswerInv ==
  /\ \A q \in Plain : cell[q] = q
  /\ \A p \in Stored : cell[p] = p \/ cell[p] \in Gives[p]
  /\ \A f \in FramesIn(stack) : Minds(f)
  /\ \A s \in saved : \A f \in FramesIn(s) : Minds(f)
  /\ AnswerIsKept

LEMMA FramesOfTop ==
  ASSUME NEW S, NEW s \in Seq(S), s # <<>>
  PROVE  Top(s) \in FramesIn(s) /\ FramesIn(Front(s)) \subseteq FramesIn(s)
<1>1. Len(s) \in Nat /\ Len(s) # 0 /\ Len(s) \in 1 .. Len(s)
  OBVIOUS
<1>2. Len(Front(s)) = Len(s) - 1 /\ \A i \in 1 .. Len(s) - 1 : Front(s)[i] = s[i]
  <2> DEFINE n == Len(s) - 1
  <2>1. n \in Nat /\ n <= Len(s) /\ \A i \in 1 .. n : i \in 1 .. Len(s) /\ s[i] \in S
    BY <1>1
  <2> HIDE DEF n
  <2>2. Len(SubSeq(s, 1, n)) = n /\ \A i \in 1 .. n : SubSeq(s, 1, n)[i] = s[i]
    BY <2>1
  <2> QED
    BY <2>2 DEF Front, n
<1>3. \A i \in 1 .. Len(s) - 1 : i \in 1 .. Len(s)
  BY <1>1
<1> QED
  BY <1>1, <1>2, <1>3 DEF Top, FramesIn

LEMMA FramesOfAppend ==
  ASSUME NEW S, NEW s \in Seq(S), NEW f \in S
  PROVE  FramesIn(Append(s, f)) \subseteq FramesIn(s) \union {f}
<1>1. Len(Append(s, f)) = Len(s) + 1 /\ Append(s, f)[Len(s) + 1] = f
      /\ \A i \in 1 .. Len(s) : Append(s, f)[i] = s[i]
  OBVIOUS
<1>2. \A i \in 1 .. Len(s) + 1 : i = Len(s) + 1 \/ i \in 1 .. Len(s)
  OBVIOUS
<1> QED
  BY <1>1, <1>2 DEF FramesIn

LEMMA StoredFacts ==
  ASSUME NEW p \in Stored
  PROVE  /\ p \in Promises /\ p \notin TailForces
         /\ \A x \in Gives[p] : x \in Promises => x \in Plain /\ x \notin TailForces
         /\ \A x, y \in Gives[p] : x \in Promises /\ y \in Promises => x = y
BY DEF Stored

LEMMA PlainGivesNone ==
  ASSUME NEW q \in Plain, NEW x \in Gives[q]
  PROVE  x \notin Promises
BY DEF Plain

(* While no cell changes place, frames keep minding what they mind.        *)
LEMMA SteadyCells ==
  ASSUME AnswerInv, UNCHANGED cell, AnswerIsKept',
         \A f \in FramesIn(stack') : f \in FramesIn(stack) \/ Minds(f)
                                       \/ \E s \in saved : f \in FramesIn(s),
         \A s \in saved' : s \in saved \/ s = stack
  PROVE  AnswerInv'
<1>1. \A f : Minds(f) => Minds(f)'
  BY DEF Minds
<1>2. \A f \in FramesIn(stack)' : Minds(f)'
  BY <1>1 DEF AnswerInv, FramesIn
<1>3. \A s \in saved' : \A f \in FramesIn(s) : Minds(f)'
  BY <1>1 DEF AnswerInv
<1>4. \A s \in saved' : \A f \in FramesIn(s)' : Minds(f)'
  BY <1>3 DEF FramesIn
<1> QED
  BY <1>2, <1>4 DEF AnswerInv

(* What a frame answers is in the cell of every stored promise that waits  *)
(* for it.                                                                 *)
LEMMA AskedShareCell ==
  ASSUME TypeOK, AnswerInv, NEW f \in FrameType, Minds(f), NEW p \in f.asked, p \in Stored
  PROVE  cell[p] = cell[f.force]
<1>1. CASE f.force = p
  BY <1>1
<1>2. CASE f.force \in Gives[p] /\ cell[p] = f.force
  <2>1. f.force \in Plain
    BY <1>2, StoredFacts DEF FrameType
  <2> QED
    BY <1>2, <2>1 DEF AnswerInv
<1> QED
  BY <1>1, <1>2 DEF Minds

LEMMA TellsWhom ==
  ASSUME TypeOK, NEW ps \in SUBSET Promises, NEW v, Tell(ps, v), NEW p \in Promises
  PROVE  answer'[p] = IF p \in ps THEN v ELSE answer[p]
BY DEF Tell

(* What a step does to answers that are kept.                              *)
KeepsAnswers ==
  AnswerIsKept' /\ \A p \in Stored : answer[p] # None => answer'[p] = answer[p]

LEMMA OthersKeep ==
  ASSUME AnswerIsKept, UNCHANGED <<cell, state, val, answer>>
  PROVE  KeepsAnswers
BY DEF AnswerIsKept, KeepsAnswers

LEMMA ForceKnownKeeps ==
  ASSUME TypeOK, AnswerInv, NEW p \in Promises, ForceKnown(p)
  PROVE  AnswerInv' /\ KeepsAnswers
<1>1. /\ state[cell[p]] = "eager" /\ UNCHANGED <<cell, state, val, stack, saved>>
      /\ \A q \in Promises : answer'[q] = IF q = p THEN val[cell[p]] ELSE answer[q]
  BY DEF ForceKnown, Tell
<1>2. KeepsAnswers
  BY <1>1, StoredFacts DEF AnswerInv, AnswerIsKept, KeepsAnswers
<1> QED
  BY <1>1, <1>2, SteadyCells DEF KeepsAnswers

LEMMA NewFrameMinds ==
  ASSUME TypeOK, AnswerInv, NEW p \in Promises
  PROVE  Minds(Frame(p, {p}))
<1>1. p \in Plain => cell[p] = p
  BY DEF AnswerInv
<1>2. p \in Stored => cell[p] = p \/ cell[p] \in Gives[p]
  BY DEF AnswerInv
<1> QED
  BY <1>1, <1>2 DEF Minds, Frame

LEMMA ForceLazyKeeps ==
  ASSUME TypeOK, AnswerInv, NEW p \in Promises, ForceLazy(p)
  PROVE  AnswerInv' /\ KeepsAnswers
<1>1. UNCHANGED <<cell, state, val, saved, answer>> /\ stack' = Append(stack, Frame(p, {p}))
  BY DEF ForceLazy
<1>2. KeepsAnswers
  BY <1>1, OthersKeep DEF AnswerInv
<1>3. Frame(p, {p}) \in FrameType /\ stack \in Seq(FrameType)
  BY DEF Frame, FrameType, TypeOK
<1>4. \A f \in FramesIn(stack') : f \in FramesIn(stack) \/ Minds(f)
  BY <1>1, <1>3, FramesOfAppend, NewFrameMinds
<1> QED
  BY <1>1, <1>2, <1>4, SteadyCells DEF KeepsAnswers

(* No stored promise waits for a frame whose expression forces in tail     *)
(* position.                                                               *)
LEMMA TailForceLazyKeeps ==
  ASSUME TypeOK, AnswerInv, NEW p \in Promises, TailForceLazy(p)
  PROVE  AnswerInv' /\ KeepsAnswers
<1> DEFINE f == Top(stack)
           g == Frame(p, f.asked \union {p})
<1>1. /\ UNCHANGED <<cell, state, val, saved, answer>> /\ stack # <<>>
      /\ stack' = Append(Front(stack), g) /\ f.runs \in TailForces
  BY DEF TailForceLazy
<1>2. KeepsAnswers
  BY <1>1, OthersKeep DEF AnswerInv
<1>3. /\ stack \in Seq(FrameType) /\ f \in FrameType /\ Front(stack) \in Seq(FrameType)
      /\ f \in FramesIn(stack) /\ FramesIn(Front(stack)) \subseteq FramesIn(stack)
  BY <1>1, FramesStayFrames, FramesOfTop DEF TypeOK
<1>4. Minds(f)
  BY <1>3 DEF AnswerInv
<1>5. g \in FrameType
  BY <1>3 DEF Frame, FrameType, TypeOK
<1> HIDE DEF f
<1>6. f.asked \intersect Stored = {}
  <2>1. ASSUME NEW q \in f.asked, q \in Stored
        PROVE  FALSE
    <3>1. CASE f.force = q
      <4>1. f.runs = q \/ f.runs \in Gives[q]
        BY <1>4, <2>1, <3>1 DEF Minds
      <4> QED
        BY <1>1, <1>3, <2>1, <4>1, StoredFacts DEF FrameType
    <3>2. CASE f.force \in Gives[q]
      <4>1. f.force \in Plain /\ f.force \notin TailForces
        BY <1>3, <2>1, <3>2, StoredFacts DEF FrameType
      <4> QED
        BY <1>1, <1>4, <4>1 DEF Minds
    <3> QED
      BY <1>4, <2>1, <3>1, <3>2 DEF Minds
  <2> QED
    BY <2>1
<1>7. Minds(g)
  <2>1. Minds(Frame(p, {p}))
    BY NewFrameMinds
  <2>2. \A q \in (f.asked \union {p}) \intersect Stored : q = p
    BY <1>6
  <2> QED
    BY <2>1, <2>2 DEF Minds, Frame
<1> HIDE DEF g
<1>8. \A h \in FramesIn(stack') : h \in FramesIn(stack) \/ Minds(h)
  BY <1>1, <1>3, <1>5, <1>7, FramesOfAppend
<1> QED
  BY <1>1, <1>2, <1>8, SteadyCells DEF KeepsAnswers

LEMMA TopMinds ==
  ASSUME TypeOK, AnswerInv, stack # <<>>
  PROVE  /\ Top(stack) \in FrameType /\ Minds(Top(stack)) /\ Front(stack) \in Seq(FrameType)
         /\ Top(stack).force \in Promises /\ cell[Top(stack).force] \in Promises
         /\ Top(stack).runs \in Promises
         /\ Top(stack).asked \in SUBSET Promises
         /\ FramesIn(Front(stack)) \subseteq FramesIn(stack)
<1>1. Top(stack) \in FrameType /\ Front(stack) \in Seq(FrameType)
      /\ Top(stack) \in FramesIn(stack) /\ FramesIn(Front(stack)) \subseteq FramesIn(stack)
  BY FramesStayFrames, FramesOfTop DEF TypeOK
<1>2. Top(stack).force \in Promises /\ Top(stack).asked \in SUBSET Promises /\ Top(stack).runs \in Promises
  BY <1>1 DEF FrameType
<1>3. cell[Top(stack).force] \in Promises
  BY <1>2 DEF TypeOK
<1> QED
  BY <1>1, <1>2, <1>3 DEF AnswerInv

LEMMA KnownKeeps ==
  ASSUME TypeOK, AnswerInv, stack # <<>>, NEW x, Known(x), UNCHANGED saved
  PROVE  AnswerInv' /\ KeepsAnswers
<1> DEFINE f == Top(stack)
<1>1. /\ state[cell[f.force]] = "eager" /\ stack' = Front(stack) /\ UNCHANGED <<cell, state, val>>
      /\ \A q \in Promises : answer'[q] = IF q \in f.asked THEN val[cell[f.force]] ELSE answer[q]
  BY DEF Known, Tell
<1>2. \A p \in f.asked \intersect Stored : cell[p] = cell[f.force]
  BY TopMinds, AskedShareCell
<1>3. FramesIn(stack') \subseteq FramesIn(stack)
  BY <1>1, TopMinds
<1> HIDE DEF f
<1>4. KeepsAnswers
  BY <1>1, <1>2, StoredFacts DEF AnswerInv, AnswerIsKept, KeepsAnswers
<1> QED
  BY <1>1, <1>3, <1>4, SteadyCells DEF KeepsAnswers

LEMMA FulfilKeeps ==
  ASSUME TypeOK, AnswerInv, stack # <<>>, NEW x, Fulfil(x), UNCHANGED saved
  PROVE  AnswerInv' /\ KeepsAnswers
<1> DEFINE f == Top(stack)
           c == cell[f.force]
<1>1. /\ state[c] = "lazy" /\ stack' = Front(stack) /\ UNCHANGED cell
      /\ val' = [val EXCEPT ![c] = x] /\ state' = [state EXCEPT ![c] = "eager"]
      /\ \A q \in Promises : answer'[q] = IF q \in f.asked THEN x ELSE answer[q]
  BY DEF Fulfil, Tell
<1>2. \A p \in f.asked \intersect Stored : cell[p] = c
  BY TopMinds, AskedShareCell
<1>3. FramesIn(stack') \subseteq FramesIn(stack) /\ c \in Promises
  BY <1>1, TopMinds
<1> HIDE DEF f, c
<1>4. /\ val'[c] = x /\ state'[c] = "eager"
      /\ \A d \in Promises : d # c => val'[d] = val[d] /\ state'[d] = state[d]
  BY <1>1, <1>3 DEF TypeOK
<1>5. ASSUME NEW p \in Stored
      PROVE  /\ answer'[p] # None => state'[cell[p]] = "eager" /\ val'[cell[p]] = answer'[p]
             /\ answer[p] # None => answer'[p] = answer[p]
  <2>1. p \in Promises /\ cell[p] \in Promises
    BY StoredFacts DEF TypeOK
  <2>2. answer[p] # None => state[cell[p]] = "eager" /\ val[cell[p]] = answer[p] /\ cell[p] # c
    BY <1>1 DEF AnswerInv, AnswerIsKept
  <2>3. CASE p \in f.asked
    BY <1>1, <1>2, <1>4, <2>1, <2>2, <2>3
  <2>4. CASE p \notin f.asked
    BY <1>1, <1>4, <2>1, <2>2, <2>4
  <2> QED
    BY <2>3, <2>4
<1>6. KeepsAnswers
  BY <1>1, <1>5 DEF AnswerIsKept, KeepsAnswers
<1> QED
  BY <1>1, <1>3, <1>6, SteadyCells DEF KeepsAnswers

(* Only a stored promise's own expression gives a promise, and only one;   *)
(* so when its cell is changed, it was its own cell or is the same.        *)
LEMMA RecallForceKeeps ==
  ASSUME TypeOK, AnswerInv, stack # <<>>, NEW x \in Gives[Top(stack).runs], RecallForce(x),
         UNCHANGED saved
  PROVE  AnswerInv' /\ KeepsAnswers
<1>0. PICK f, g : f = Top(stack) /\ g = Frame(x, f.asked)
  OBVIOUS
<1>1. /\ state[cell[f.force]] = "lazy" /\ x \in Promises /\ UNCHANGED <<state, val, answer>>
      /\ cell' = [cell EXCEPT ![f.force] = cell[x]] /\ stack' = Append(Front(stack), g)
      /\ x \in Gives[f.runs]
  BY <1>0 DEF RecallForce
<1>2. /\ f \in FrameType /\ Minds(f) /\ Front(stack) \in Seq(FrameType)
      /\ f.force \in Promises /\ f.runs \in Promises /\ f.asked \in SUBSET Promises
      /\ FramesIn(Front(stack)) \subseteq FramesIn(stack)
  BY <1>0, TopMinds
<1>3. g \in FrameType
  BY <1>0, <1>1, <1>2 DEF Frame, FrameType, TypeOK
<1>4. f.force \notin Plain
  BY <1>1, <1>2, PlainGivesNone DEF Minds
<1>5. f.force \in Stored => /\ f.runs = f.force /\ x \in Gives[f.force] /\ x \in Plain
                            /\ cell[x] = x /\ x # f.force
  <2> HAVE f.force \in Stored
  <2>1. f.runs = f.force
    BY <1>1, <1>2, StoredFacts, PlainGivesNone DEF Minds
  <2>2. x \in Gives[f.force] /\ x \in Plain
    BY <1>1, <2>1, StoredFacts
  <2> QED
    BY <1>4, <2>1, <2>2 DEF AnswerInv
<1>6. /\ cell'[f.force] = cell[x]
      /\ \A q \in Promises : q # f.force => cell'[q] = cell[q]
  BY <1>1, <1>2 DEF TypeOK
<1>7. \A q \in Plain : cell'[q] = q
  BY <1>4, <1>6 DEF AnswerInv, Plain
<1>8. \A p \in Stored : cell'[p] = p \/ cell'[p] \in Gives[p]
  BY <1>5, <1>6, StoredFacts DEF AnswerInv
<1>9. ASSUME NEW h, Minds(h)
      PROVE  Minds(h)'
  <2>1. ASSUME NEW p \in h.asked \intersect Stored
        PROVE  h.force = p \/ (h.force \in Gives[p] /\ cell'[p] = h.force)
    <3>1. CASE p = f.force /\ h.force # p
      <4>1. h.force \in Gives[p] /\ cell[p] = h.force /\ p \in Promises
        BY <1>9, <2>1, <3>1, StoredFacts DEF Minds
      <4>2. h.force \in Promises
        BY <4>1 DEF TypeOK
      <4>3. h.force = x
        BY <1>1, <1>5, <2>1, <3>1, <4>1, <4>2, StoredFacts
      <4> QED
        BY <1>5, <1>6, <2>1, <3>1, <4>1, <4>3
    <3>2. CASE p # f.force
      BY <1>6, <1>9, <2>1, <3>2, StoredFacts DEF Minds
    <3> QED
      BY <3>1, <3>2
  <2> QED
    BY <1>9, <2>1 DEF Minds
<1>10. Minds(g)'
  <2>1. g.force = x /\ g.runs = cell[x] /\ g.asked = f.asked
    BY <1>0 DEF Frame
  <2>2. x \in Plain => cell[x] = x
    BY DEF AnswerInv
  <2>3. x \in Stored => cell[x] = x \/ cell[x] \in Gives[x]
    BY DEF AnswerInv
  <2>4. ASSUME NEW p \in f.asked \intersect Stored
        PROVE  x = p \/ (x \in Gives[p] /\ cell'[p] = x)
    <3>1. CASE f.force = p
      BY <1>5, <1>6, <2>4, <3>1
    <3>2. CASE f.force \in Gives[p]
      <4>1. f.force \in Plain
        BY <1>2, <2>4, <3>2, StoredFacts
      <4> QED
        BY <1>4, <4>1
    <3> QED
      BY <1>2, <2>4, <3>1, <3>2 DEF Minds
  <2> QED
    BY <2>1, <2>2, <2>3, <2>4 DEF Minds
<1>11. \A h \in FramesIn(stack)' : Minds(h)'
  <2>1. FramesIn(stack') \subseteq FramesIn(stack) \union {g}
    BY <1>1, <1>2, <1>3, FramesOfAppend
  <2>2. FramesIn(stack)' = FramesIn(stack')
    BY DEF FramesIn
  <2> QED
    BY <1>9, <1>10, <2>1, <2>2 DEF AnswerInv
<1>12. \A s \in saved' : \A h \in FramesIn(s)' : Minds(h)'
  <2>1. \A s \in saved' : \A h \in FramesIn(s) : Minds(h)'
    BY <1>9 DEF AnswerInv
  <2> QED
    BY <2>1 DEF FramesIn
<1>13. KeepsAnswers
  <2>1. ASSUME NEW p \in Stored, answer[p] # None
        PROVE  cell'[p] = cell[p]
    BY <1>1, <1>6, <2>1, StoredFacts DEF AnswerInv, AnswerIsKept
  <2> QED
    BY <1>1, <2>1 DEF AnswerInv, AnswerIsKept, KeepsAnswers
<1> QED
  BY <1>7, <1>8, <1>11, <1>12, <1>13 DEF AnswerInv, KeepsAnswers

LEMMA StepKeepsAnswers ==
  ASSUME TypeOK, AnswerInv, [Next]_vars
  PROVE  AnswerInv' /\ KeepsAnswers
<1>1. CASE \E p \in Promises : ForceKnown(p) \/ ForceLazy(p) \/ TailForceLazy(p)
  BY <1>1, ForceKnownKeeps, ForceLazyKeeps, TailForceLazyKeeps
<1>2. CASE stack # <<>> /\ \E x \in Gives[Top(stack).runs] : Return(x)
  BY <1>2, KnownKeeps, RecallForceKeeps, FulfilKeeps DEF Return
<1>3. CASE CallCC \/ Throw \/ Fail \/ UNCHANGED vars
  <2>1. /\ UNCHANGED <<cell, state, val, answer>>
        /\ stack' = stack \/ stack' \in saved \/ stack' = <<>>
        /\ saved' = saved \/ saved' = saved \union {stack}
    BY <1>3 DEF CallCC, Throw, Fail, vars
  <2>2. KeepsAnswers
    BY <2>1, OthersKeep DEF AnswerInv
  <2>3. FramesIn(<<>>) = {}
    BY DEF FramesIn
  <2>4. \A f \in FramesIn(stack') : f \in FramesIn(stack) \/ \E s \in saved : f \in FramesIn(s)
    BY <2>1, <2>3
  <2> QED
    BY <2>1, <2>2, <2>4, SteadyCells DEF KeepsAnswers
<1> QED
  BY <1>1, <1>2, <1>3 DEF Next

(* A promise that was answered keeps a cell with that value, and no later  *)
(* force answers otherwise, for any expressions, nesting, errors and       *)
(* continuations, as long as the value of the promise is stored where it   *)
(* points: recallforce makes it share the cell of the promise its          *)
(* expression gave, callrtnfrm stores the value there.                     *)
THEOREM AnswersAreKept == Spec => AnswersStay
<1>1. Init => AnswerInv
  <2>1. Init => FramesIn(stack) = {}
    BY DEF Init, FramesIn
  <2> QED
    BY <2>1, StoredFacts DEF Init, AnswerInv, AnswerIsKept, Plain
<1>2. TypeOK /\ AnswerInv /\ [Next]_vars => AnswerInv'
  BY StepKeepsAnswers
<1>3. TypeOK /\ AnswerInv /\ [Next]_vars
        => [/\ AnswerIsKept'
            /\ \A p \in Stored : answer[p] # None => answer'[p] = answer[p]]_vars
  BY StepKeepsAnswers DEF KeepsAnswers
<1> QED
  BY <1>1, <1>2, <1>3, TypeCorrect, PTL DEF Spec, AnswersStay
=============================================================================
