--------------------------- MODULE CoroutineProofs ---------------------------
(***************************************************************************)
(* Theorems about coroutines, for any coroutines, any nesting of calls and *)
(* any depth of frames.                                                    *)
(***************************************************************************)
EXTENDS Coroutine, Integers, WellFoundedInduction, TLAPS

Chains == Seq(FrameKinds)

ActType ==
  [kind : {"main", "resume", "pcall"}, vm : VMs, of : Cos \union {None},
   below : Chains, slot : Answers]

-----------------------------------------------------------------------------
(* Sequences.                                                              *)

(* The last element of a sequence, and the others.                         *)
LEMMA LastAndFront ==
  ASSUME NEW S, NEW s \in Seq(S), s # <<>>
  PROVE  /\ Len(s) \in Nat \ {0}
         /\ Top(s) \in S
         /\ Front(s) \in Seq(S)
         /\ Len(Front(s)) = Len(s) - 1
         /\ \A i \in 1 .. Len(s) - 1 : Front(s)[i] = s[i]
<1>1. Len(s) \in Nat /\ Len(s) # 0
  OBVIOUS
<1>2. Len(s) - 1 \in Nat /\ Len(s) - 1 <= Len(s) /\ Len(s) \in 1 .. Len(s)
  BY <1>1
<1>3. \A i \in 1 .. Len(s) - 1 : s[i] \in S
  BY <1>1
<1>4. SubSeq(s, 1, Len(s) - 1) \in Seq(S)
  BY <1>2, <1>3
<1>5. \A n \in Nat : Len(SubSeq(s, 1, n)) = n
  OBVIOUS
<1>6. \A i \in 1 .. Len(s) - 1 : SubSeq(s, 1, Len(s) - 1)[i] = s[i]
  BY <1>2
<1>7. Len(SubSeq(s, 1, Len(s) - 1)) = Len(s) - 1
  BY <1>2, <1>5
<1> QED
  BY <1>1, <1>2, <1>4, <1>6, <1>7 DEF Front, Top

(* Induction over the natural numbers.                                     *)
LEMMA SetInduction ==
  ASSUME NEW T, 0 \in T, \A n \in Nat : n \in T => n + 1 \in T
  PROVE  Nat \subseteq T
<1> DEFINE U == Nat \ T
<1>1. PICK R : R = OpToRel(<, Nat) /\ IsWellFoundedOn(R, Nat)
  BY NatLessThanWellFounded
<1>2. \A x, y \in Nat : <<x, y>> \in R <=> x < y
  BY <1>1 DEF OpToRel
<1>3. U # {} => \E x \in U : \A y \in U : ~(<<y, x>> \in R)
  BY <1>1, WFMin
<1>4. ASSUME NEW x \in U, \A y \in U : ~(<<y, x>> \in R)
      PROVE  FALSE
  <2>1. x \in Nat /\ x \notin T /\ x # 0 /\ x - 1 \in Nat /\ (x - 1) + 1 = x /\ x - 1 < x
    OBVIOUS
  <2>2. x - 1 \notin U
    BY <1>2, <1>4, <2>1
  <2> QED
    BY <2>1, <2>2
<1> QED
  BY <1>3, <1>4

-----------------------------------------------------------------------------
(* Types.                                                                  *)

(* What the types rest on: only coroutines are resumed and have a caller.  *)
Typed ==
  /\ TypeOK
  /\ callerstk[Main] = None
  /\ \A i \in 1 .. Len(act) : act[i].kind = "resume" => act[i].vm \in Cos

(* A result is written to the slot of one call, whose kind and VM stay.    *)
LEMMA WriteKeepsActs ==
  ASSUME NEW s \in Seq(ActType), NEW c, NEW v \in Answers
  PROVE  /\ WriteSlot(s, c, v) \in Seq(ActType)
         /\ Len(WriteSlot(s, c, v)) = Len(s)
         /\ \A i \in 1 .. Len(s) :
              /\ WriteSlot(s, c, v)[i].kind = s[i].kind
              /\ WriteSlot(s, c, v)[i].vm = s[i].vm
              /\ WriteSlot(s, c, v)[i].of = s[i].of
              /\ WriteSlot(s, c, v)[i].below = s[i].below
              /\ WriteSlot(s, c, v)[i].slot = IF i = resslot[c] THEN v ELSE s[i].slot
<1> DEFINE r == resslot[c]
           w == WriteSlot(s, c, v)
           n == Len(s)
<1>1. w = [s EXCEPT ![r] = [s[r] EXCEPT !.slot = v]]
  BY DEF WriteSlot
<1>2. n \in Nat /\ s \in [1 .. n -> ActType] /\ DOMAIN s = 1 .. n
  OBVIOUS
<1>3. \A i \in 1 .. n : s[i] \in ActType
  BY <1>2
<1>4. ASSUME NEW i \in 1 .. n
      PROVE  w[i] = IF i = r THEN [s[i] EXCEPT !.slot = v] ELSE s[i]
  BY <1>1, <1>2
<1> HIDE DEF r, w
<1>5. \A i \in 1 .. n : [s[i] EXCEPT !.slot = v] \in ActType
  BY <1>3 DEF ActType
<1>6. \A i \in 1 .. n : w[i] \in ActType
  BY <1>3, <1>4, <1>5
<1>7. DOMAIN w = 1 .. n /\ w = [i \in 1 .. n |-> w[i]]
  BY <1>1, <1>2
<1>8. w \in [1 .. n -> ActType]
  BY <1>6, <1>7
<1>9. w \in Seq(ActType) /\ Len(w) = n
  BY <1>2, <1>8
<1>10. ASSUME NEW i \in 1 .. n
       PROVE  /\ w[i].kind = s[i].kind /\ w[i].vm = s[i].vm
              /\ w[i].of = s[i].of /\ w[i].below = s[i].below
              /\ w[i].slot = IF i = r THEN v ELSE s[i].slot
  BY <1>3, <1>4 DEF ActType
<1> QED
  BY <1>9, <1>10 DEF r, w

(* The C++ call on top, and what the VM that runs has.                     *)
LEMMA TopCall ==
  ASSUME Typed, act # <<>>
  PROVE  /\ act \in Seq(ActType) /\ Len(act) \in Nat \ {0}
         /\ Top(act) \in ActType /\ Top(act) = act[Len(act)]
         /\ vm \in VMs /\ chain[vm] \in Chains
         /\ Top(act).kind = "resume" => vm \in Cos
<1>1. act \in Seq(ActType)
  BY DEF Typed, TypeOK, ActType, Chains
<1>2. Len(act) \in Nat \ {0} /\ Top(act) \in ActType
  BY <1>1, LastAndFront
<1>3. Top(act) = act[Len(act)]
  BY DEF Top
<1>4. vm \in VMs
  BY <1>2 DEF vm, ActType
<1>5. chain[vm] \in Chains
  BY <1>4 DEF Typed, TypeOK, Chains
<1>6. Top(act).kind = "resume" => vm \in Cos
  BY <1>2, <1>3 DEF Typed, vm
<1> QED
  BY <1>1, <1>2, <1>3, <1>4, <1>5, <1>6

(* What the return of execute0 leaves has the right types.                 *)
LEMMA LeavingKeepsTypes ==
  ASSUME Typed, act # <<>>, NEW s \in Seq(ActType), NEW ch \in [VMs -> Chains],
         Len(s) = Len(act),
         \A i \in 1 .. Len(act) : s[i].kind = act[i].kind /\ s[i].vm = act[i].vm,
         LeaveExecute(s, ch)
  PROVE  /\ act' \in Seq(ActType)
         /\ \A i \in 1 .. Len(act') : act'[i].kind = "resume" => act'[i].vm \in Cos
         /\ chain' \in [VMs -> Chains]
         /\ result' \in Answers \union {None}
<1>1. Len(act) \in Nat \ {0} /\ s # <<>> /\ vm \in VMs
  BY TopCall
<1>2. /\ Top(s) \in ActType /\ act' \in Seq(ActType)
      /\ Len(act') = Len(act) - 1
      /\ \A i \in 1 .. Len(act) - 1 : act'[i] = s[i]
  BY <1>1, LastAndFront DEF LeaveExecute
<1>3. \A i \in 1 .. Len(act') : act'[i].kind = "resume" => act'[i].vm \in Cos
  BY <1>1, <1>2 DEF Typed
<1>4. Top(s).slot \in Answers /\ Top(s).below \in Chains
  BY <1>2 DEF ActType
<1>5. chain' \in [VMs -> Chains]
  BY <1>1, <1>4 DEF LeaveExecute
<1>6. result' \in Answers \union {None}
  BY <1>4 DEF LeaveExecute, Typed, TypeOK
<1> QED
  BY <1>2, <1>3, <1>5, <1>6

(* A call of execute0 that begins.                                         *)
LEMMA NewActIsAct ==
  ASSUME NEW k \in {"main", "resume", "pcall"}, NEW v \in VMs,
         NEW c \in Cos \union {None}, NEW b \in Chains
  PROVE  Act(k, v, c, b) \in ActType
BY DEF Act, Answer, ActType, Answers

(* The frames that a call, a return or a jump leaves.                      *)
LEMMA ChainsStayChains ==
  ASSUME NEW ch \in Chains, ch # <<>>
  PROVE  /\ Front(ch) \in Chains /\ Frozen(ch) \in Chains
         /\ Append(ch, "own") \in Chains
         /\ Append(Front(ch), "own") \in Chains
         /\ Len(ch) > 1 =>
              Append(Front(Front(ch)),
                     IF Top(Front(ch)) = "frozen" THEN "own" ELSE Top(Front(ch))) \in Chains
<1>1. {"own", "frozen", "c0"} \subseteq FrameKinds
  BY DEF FrameKinds
<1>2. /\ Front(ch) \in Chains /\ Len(Front(ch)) = Len(ch) - 1
      /\ Len(ch) \in Nat \ {0}
  BY LastAndFront DEF Chains
<1>3. Frozen(ch) \in Chains
  BY <1>1, <1>2 DEF Frozen, Chains
<1>4. Append(ch, "own") \in Chains /\ Append(Front(ch), "own") \in Chains
  BY <1>1, <1>2 DEF Chains
<1>5. ASSUME Len(ch) > 1
      PROVE  Append(Front(Front(ch)),
               IF Top(Front(ch)) = "frozen" THEN "own" ELSE Top(Front(ch))) \in Chains
  <2>1. Front(ch) # <<>>
    BY <1>2, <1>5
  <2>2. Front(Front(ch)) \in Chains /\ Top(Front(ch)) \in FrameKinds
    BY <1>2, <2>1, LastAndFront DEF Chains
  <2> QED
    BY <1>1, <2>2 DEF Chains
<1> QED
  BY <1>2, <1>3, <1>4, <1>5

LEMMA StepKeepsTypes ==
  ASSUME Typed, [Next]_vars
  PROVE  Typed'
<1> USE ConstantsAssumption
<1>1. /\ chain \in [VMs -> Chains] /\ saved \in Chains
      /\ act \in Seq(ActType) /\ result \in Answers \union {None}
      /\ <<>> \in Chains /\ <<"own">> \in Chains /\ <<"c0">> \in Chains
  BY DEF Typed, TypeOK, ActType, Chains, FrameKinds
<1>2. act # <<>> => /\ Len(act) \in Nat \ {0}
                    /\ vm \in VMs /\ chain[vm] \in Chains
                    /\ Top(act).kind = "resume" => vm \in Cos
  BY TopCall
<1>3. Main \in VMs /\ None \notin VMs /\ Cos \subseteq VMs
  BY DEF VMs
<1>4. ASSUME NEW e \in ActType, act' = Append(act, e), e.kind = "resume" => e.vm \in Cos
      PROVE  /\ act' \in Seq(ActType)
             /\ \A i \in 1 .. Len(act') : act'[i].kind = "resume" => act'[i].vm \in Cos
  <2>1. /\ act' \in Seq(ActType) /\ Len(act') = Len(act) + 1
        /\ \A i \in 1 .. Len(act) : act'[i] = act[i]
        /\ act'[Len(act) + 1] = e /\ Len(act) \in Nat
    BY <1>1, <1>4
  <2> QED
    BY <1>4, <2>1 DEF Typed
<1>5. ASSUME act # <<>>, NEW ch \in [VMs -> Chains], NEW s, LeaveExecute(s, ch),
             s = act \/ \E c \in VMs, v \in Answers : s = WriteSlot(act, c, v)
      PROVE  /\ act' \in Seq(ActType)
             /\ \A i \in 1 .. Len(act') : act'[i].kind = "resume" => act'[i].vm \in Cos
             /\ chain' \in [VMs -> Chains]
             /\ result' \in Answers \union {None}
  BY <1>1, <1>5, LeavingKeepsTypes, WriteKeepsActs
<1>6. ASSUME NEW a \in Cos \union {None}, NEW w \in {"procedure", "yielded", "final", "void"}
      PROVE  Answer(a, w) \in Answers
  BY DEF Answer, Answers
<1>7. ASSUME /\ state' \in [VMs -> {"none", "ok", "suspended", "dead"}] /\ state'[Main] = "ok"
             /\ chain' \in [VMs -> Chains]
             /\ callerstk' \in [VMs -> VMs \union {None}] /\ callerstk'[Main] = None
             /\ resslot' \in [VMs -> Nat]
             /\ act' \in Seq(ActType)
             /\ \A i \in 1 .. Len(act') : act'[i].kind = "resume" => act'[i].vm \in Cos
             /\ saved' \in Chains /\ result' \in Answers \union {None}
      PROVE  Typed'
  BY <1>7 DEF Typed, TypeOK, ActType, Chains
<1>8. /\ state \in [VMs -> {"none", "ok", "suspended", "dead"}] /\ state[Main] = "ok"
      /\ callerstk \in [VMs -> VMs \union {None}] /\ callerstk[Main] = None
      /\ resslot \in [VMs -> Nat]
      /\ \A i \in 1 .. Len(act) : act[i].kind = "resume" => act[i].vm \in Cos
  BY DEF Typed, TypeOK
<1>a. CASE TopLevel
  <2>1. /\ act' = <<Act("main", Main, None, <<>>)>> /\ act' \in Seq(ActType)
        /\ Act("main", Main, None, <<>>).kind = "main"
    BY <1>1, <1>3, <1>a, NewActIsAct DEF TopLevel, Act
  <2>2. \A i \in 1 .. Len(act') : act'[i].kind = "main"
    BY <2>1
  <2> QED
    BY <1>1, <1>3, <1>7, <1>8, <1>a, <2>1, <2>2 DEF TopLevel
<1>b. CASE Call \/ Return \/ Throw
  <2>1. act # <<>> /\ chain[vm] # <<>> /\ vm \in VMs /\ chain[vm] \in Chains
    BY <1>2, <1>b DEF Call, Return, Throw, Runs
  <2>2. saved # <<>> => Append(Front(saved), "own") \in Chains
    BY <1>1, ChainsStayChains
  <2>3. chain' \in [VMs -> Chains]
    BY <1>1, <1>b, <2>1, <2>2, ChainsStayChains DEF Call, Return, Throw
  <2> QED
    BY <1>1, <1>7, <1>8, <1>b, <2>3 DEF Call, Return, Throw
<1>c. CASE CallCC
  <2>1. act # <<>> /\ chain[vm] # <<>> /\ vm \in VMs /\ chain[vm] \in Chains
    BY <1>2, <1>c DEF CallCC, Runs
  <2>2. Frozen(chain[vm]) \in Chains
    BY <2>1, ChainsStayChains
  <2>3. Frozen(chain[vm]) # <<>>
    <3>1. Len(chain[vm]) \in Nat \ {0}
      BY <2>1, LastAndFront DEF Chains
    <3>2. 1 \in DOMAIN Frozen(chain[vm])
      BY <3>1 DEF Frozen
    <3> QED
      BY <3>2
  <2>4. Append(Front(Frozen(chain[vm])), "own") \in Chains
    BY <2>2, <2>3, ChainsStayChains
  <2> QED
    BY <1>1, <1>7, <1>8, <1>c, <2>1, <2>2, <2>4 DEF CallCC
<1>d. CASE PCall
  <2>1. act # <<>> /\ vm \in VMs /\ chain[vm] \in Chains
    BY <1>2, <1>d DEF PCall, Runs
  <2>2. /\ Act("pcall", vm, None, chain[vm]) \in ActType
        /\ Act("pcall", vm, None, chain[vm]).kind = "pcall"
    BY <2>1, NewActIsAct DEF Act
  <2>3. /\ act' \in Seq(ActType)
        /\ \A i \in 1 .. Len(act') : act'[i].kind = "resume" => act'[i].vm \in Cos
    BY <1>4, <1>d, <2>2 DEF PCall
  <2> QED
    BY <1>1, <1>7, <1>8, <1>d, <2>1, <2>3 DEF PCall
<1>e. CASE ReturnRoot
  <2>1. act # <<>> /\ vm \in VMs /\ [chain EXCEPT ![vm] = <<>>] \in [VMs -> Chains]
    BY <1>1, <1>2, <1>e DEF ReturnRoot, Runs
  <2>2. CASE callerstk[vm] # None /\ Top(chain[vm]) = "c0"
    <3>1. vm \in Cos
      BY <1>8, <2>1, <2>2 DEF VMs
    <3>2. Answer(vm, "final") \in Answers
      BY <1>6, <3>1
    <3> QED
      BY <1>1, <1>3, <1>5, <1>7, <1>8, <1>e, <2>1, <2>2, <3>1, <3>2, ZenonT(60) DEF ReturnRoot
  <2>3. CASE ~(callerstk[vm] # None /\ Top(chain[vm]) = "c0")
    BY <1>1, <1>5, <1>7, <1>8, <1>e, <2>1, <2>3 DEF ReturnRoot
  <2> QED
    BY <2>2, <2>3
<1>f. CASE Error
  <2>1. act # <<>> /\ vm \in VMs /\ [chain EXCEPT ![vm] = <<>>] \in [VMs -> Chains]
    BY <1>1, <1>2, <1>f DEF Error
  <2>2. CASE Top(act).kind = "resume"
    <3>1. vm \in Cos
      BY <1>2, <2>1, <2>2
    <3>2. Answer(vm, "void") \in Answers
      BY <1>6, <3>1
    <3> QED
      BY <1>1, <1>3, <1>5, <1>7, <1>8, <1>f, <2>1, <2>2, <3>1, <3>2 DEF Error
  <2>3. CASE Top(act).kind # "resume"
    <3>1. LeaveExecute(act, [chain EXCEPT ![vm] = <<>>])
      BY <1>f, <2>3 DEF Error
    <3> QED
      BY <1>1, <1>5, <1>7, <1>8, <1>f, <2>1, <2>3, <3>1 DEF Error
  <2> QED
    BY <2>2, <2>3
<1>g. CASE Yield
  <2>1. act # <<>> /\ vm \in VMs /\ vm \in Cos
    BY <1>2, <1>g DEF Yield, Runs, VMs
  <2>2. Answer(vm, "yielded") \in Answers
    BY <1>6, <2>1
  <2> QED
    BY <1>1, <1>3, <1>5, <1>7, <1>8, <1>g, <2>1, <2>2 DEF Yield
<1>h. ASSUME NEW c \in Cos, Create(c) \/ Refuse(c)
      PROVE  Typed'
  <2>1. Answer(c, "void") \in Answers
    BY <1>6
  <2>2. c \in VMs /\ c # Main
    BY <1>3
  <2>3. CASE Create(c)
    BY <1>1, <1>7, <1>8, <2>2, <2>3 DEF Create
  <2>4. CASE Refuse(c)
    BY <1>1, <1>7, <1>8, <2>1, <2>2, <2>4 DEF Refuse
  <2> QED
    BY <1>h, <2>3, <2>4
<1>i. ASSUME NEW c \in Cos, Resume(c)
      PROVE  Typed'
  <2>1. act # <<>> /\ vm \in VMs /\ c \in VMs /\ c # Main
    BY <1>2, <1>3, <1>i DEF Resume, Runs
  <2>2. /\ Act("resume", c, c, <<>>) \in ActType
        /\ Act("resume", c, c, <<>>).kind = "resume" /\ Act("resume", c, c, <<>>).vm = c
    BY <1>1, <2>1, NewActIsAct DEF Act
  <2>3. /\ act' \in Seq(ActType)
        /\ \A i \in 1 .. Len(act') : act'[i].kind = "resume" => act'[i].vm \in Cos
    BY <1>4, <1>i, <2>2 DEF Resume
  <2>4. Len(act) + 1 \in Nat
    BY <1>2, <2>1
  <2> QED
    BY <1>1, <1>7, <1>8, <1>i, <2>1, <2>3, <2>4 DEF Resume
<1>j. ASSUME NEW c \in Cos, ResumeBadArity(c)
      PROVE  Typed'
  <2>1. /\ act # <<>> /\ vm \in VMs /\ c \in VMs /\ c # Main
        /\ [chain EXCEPT ![vm] = <<>>] \in [VMs -> Chains]
    BY <1>1, <1>2, <1>3, <1>j DEF ResumeBadArity, Runs
  <2>2. CASE Top(act).kind = "resume"
    <3>1. vm \in Cos
      BY <1>2, <2>1, <2>2
    <3>2. Answer(vm, "void") \in Answers
      BY <1>6, <3>1
    <3> QED
      BY <1>1, <1>3, <1>5, <1>7, <1>8, <1>j, <2>1, <2>2, <3>1, <3>2 DEF ResumeBadArity
  <2>3. CASE Top(act).kind # "resume"
    <3>1. LeaveExecute(act, [chain EXCEPT ![vm] = <<>>])
      BY <1>j, <2>3 DEF ResumeBadArity
    <3>2. /\ state' \in [VMs -> {"none", "ok", "suspended", "dead"}]
          /\ state'[Main] = "ok"
      <4>1. state' = [state EXCEPT ![c] = "ok", ![vm] = state[vm]]
        BY <1>j, <2>3 DEF ResumeBadArity
      <4>2. state[vm] \in {"none", "ok", "suspended", "dead"}
        BY <1>8, <2>1
      <4> QED
        BY <1>3, <1>8, <2>1, <4>1, <4>2
    <3>3. /\ callerstk' \in [VMs -> VMs \union {None}] /\ callerstk'[Main] = None
          /\ resslot' \in [VMs -> Nat]
      BY <1>8, <1>j, <2>1 DEF ResumeBadArity
    <3>4. /\ act' \in Seq(ActType) /\ chain' \in [VMs -> Chains]
          /\ \A i \in 1 .. Len(act') : act'[i].kind = "resume" => act'[i].vm \in Cos
          /\ result' \in Answers \union {None}
      BY <1>5, <2>1, <3>1
    <3> QED
      BY <1>1, <1>7, <1>8, <1>j, <3>2, <3>3, <3>4 DEF ResumeBadArity
  <2> QED
    BY <2>2, <2>3
<1>k. CASE UNCHANGED vars
  BY <1>1, <1>7, <1>8, <1>k DEF vars
<1> QED
  BY <1>a, <1>b, <1>c, <1>d, <1>e, <1>f, <1>g, <1>h, <1>i, <1>j, <1>k DEF Next

(* Coroutines, frames and C++ calls keep their shape, whatever is captured,*)
(* raised, resumed and yielded, and no other VM than a coroutine is ever   *)
(* resumed (coresume, coyield, execute0).                                  *)
THEOREM TypeCorrect == Spec => []TypeOK
<1>1. Init => Typed
  BY ConstantsAssumption DEF Init, Typed, TypeOK, VMs
<1>2. Typed /\ [Next]_vars => Typed'
  BY StepKeepsTypes
<1>3. Typed => TypeOK
  BY DEF Typed
<1> QED
  BY <1>1, <1>2, <1>3, PTL DEF Spec
-----------------------------------------------------------------------------
(* Nesting.  The invariant behind ResumesNest and StateIsTrue, for programs *)
(* that do not yield inside a pcall.                                       *)

YieldsInResume == "nested yield" \notin Uses

(* The C++ calls: the main program first, a pcall on the VM below it, a    *)
(* resume on a coroutine that does not run below it, which knows its       *)
(* resumer and the slot of the resume.                                     *)
CallsNest ==
  /\ act # <<>> => act[1].kind = "main" /\ act[1].vm = Main
  /\ \A i \in 2 .. Len(act) :
       /\ act[i].kind \in {"resume", "pcall"}
       /\ act[i].kind = "pcall" => act[i].vm = act[i - 1].vm
       /\ act[i].kind = "resume" =>
            /\ callerstk[act[i].vm] = act[i - 1].vm
            /\ resslot[act[i].vm] = i
            /\ \A j \in 1 .. i - 1 : act[j].vm # act[i].vm

(* What runs or waits is neither suspended nor dead.                       *)
RunningIsOk == \A i \in 1 .. Len(act) : state[act[i].vm] = "ok"

FramesFitState ==
  \A c \in Cos :
    /\ state[c] \in {"none", "dead"} => chain[c] = <<>>
    /\ state[c] = "suspended" => chain[c] # <<>>

(* The root of a coroutine is only in the frames its resume runs, and not  *)
(* in those of a pcall: the frame that ends a coroutine ends its resume.   *)
NoRoot(ch) == \A i \in 1 .. Len(ch) : ch[i] # "c0"

RootsApart ==
  /\ NoRoot(chain[Main]) /\ NoRoot(saved)
  /\ \A i \in 2 .. Len(act) :
       act[i].kind = "pcall" =>
         /\ NoRoot(chain[act[i].vm])
         /\ act[i - 1].kind # "resume" => NoRoot(act[i].below)

Nested == Typed /\ CallsNest /\ RunningIsOk /\ FramesFitState /\ RootsApart

(* What the return of execute0 leaves.                                     *)
LEMMA Leaving ==
  ASSUME Typed, act # <<>>, NEW ch, NEW s, LeaveExecute(s, ch),
         s = act \/ \E c \in VMs, v \in Answers : s = WriteSlot(act, c, v)
  PROVE  /\ Len(act') = Len(act) - 1
         /\ \A i \in 1 .. Len(act) - 1 : /\ act'[i].kind = act[i].kind /\ act'[i].vm = act[i].vm
                                         /\ act'[i].below = act[i].below
         /\ chain' = IF Top(act).kind = "pcall" THEN [ch EXCEPT ![vm] = Top(act).below] ELSE ch
         /\ result' = IF Top(act).kind = "resume" THEN Top(s).slot ELSE result
<1>1. act \in Seq(ActType) /\ Len(act) \in Nat \ {0}
  BY TopCall
<1>2. /\ s \in Seq(ActType) /\ Len(s) = Len(act)
      /\ \A i \in 1 .. Len(act) : /\ s[i].kind = act[i].kind /\ s[i].vm = act[i].vm
                                  /\ s[i].below = act[i].below
  BY <1>1, WriteKeepsActs
<1>3. /\ Len(act') = Len(act) - 1
      /\ \A i \in 1 .. Len(act) - 1 : act'[i] = s[i]
  <2>1. s # <<>>
    BY <1>1, <1>2
  <2>2. /\ Len(Front(s)) = Len(s) - 1
        /\ \A i \in 1 .. Len(s) - 1 : Front(s)[i] = s[i]
    BY <1>2, <2>1, LastAndFront
  <2> QED
    BY <1>2, <2>2 DEF LeaveExecute
<1>4. Len(act) \in 1 .. Len(act) /\ Top(s) = s[Len(act)] /\ Top(act) = act[Len(act)]
  BY <1>1, <1>2 DEF Top
<1>5. Top(s).kind = Top(act).kind /\ Top(s).below = Top(act).below
  BY <1>2, <1>4
<1>6. \A i \in 1 .. Len(act) - 1 : /\ act'[i].kind = act[i].kind /\ act'[i].vm = act[i].vm
                                   /\ act'[i].below = act[i].below
  BY <1>1, <1>2, <1>3
<1>7. /\ chain' = IF Top(act).kind = "pcall" THEN [ch EXCEPT ![vm] = Top(act).below] ELSE ch
      /\ result' = IF Top(act).kind = "resume" THEN Top(s).slot ELSE result
  BY <1>5 DEF LeaveExecute
<1> QED
  BY <1>3, <1>6, <1>7

(* The coroutine of the innermost resume runs nowhere else.                *)
LEMMA TopRunsOnce ==
  ASSUME Nested, act # <<>>, Top(act).kind = "resume"
  PROVE  \A j \in 1 .. Len(act) - 1 : act[j].vm # vm
<1>1. Len(act) \in Nat \ {0} /\ Top(act) = act[Len(act)]
  BY TopCall DEF Nested
<1>2. Len(act) \in 2 .. Len(act)
  BY <1>1 DEF Nested, CallsNest
<1> QED
  BY <1>1, <1>2 DEF Nested, CallsNest, vm

(* What runs is ok, and so runs on no other VM than a live one.            *)
LEMMA TopIsOk ==
  ASSUME Nested, act # <<>>
  PROVE  /\ Len(act) \in Nat \ {0} /\ vm = act[Len(act)].vm
         /\ Len(act) \in 1 .. Len(act)
         /\ vm \in VMs /\ state[vm] = "ok"
         /\ \A i \in 1 .. Len(act) : act[i].vm \in VMs
<1>1. act \in Seq(ActType) /\ Len(act) \in Nat \ {0} /\ Top(act) = act[Len(act)] /\ vm \in VMs
  BY TopCall DEF Nested
<1>2. Len(act) \in 1 .. Len(act)
  BY <1>1
<1>3. \A i \in 1 .. Len(act) : act[i] \in ActType
  BY <1>1
<1>4. \A i \in 1 .. Len(act) : act[i].vm \in VMs
  BY <1>3 DEF ActType
<1> QED
  BY <1>1, <1>2, <1>4 DEF Nested, RunningIsOk, vm

LEMMA LeavingKeepsCalls ==
  ASSUME Nested, act # <<>>, Len(act') = Len(act) - 1,
         \A i \in 1 .. Len(act) - 1 : /\ act'[i].kind = act[i].kind /\ act'[i].vm = act[i].vm
                                      /\ act'[i].below = act[i].below,
         \A i \in 1 .. Len(act) : /\ callerstk'[act[i].vm] = callerstk[act[i].vm]
                                  /\ resslot'[act[i].vm] = resslot[act[i].vm],
         act' \in Seq(ActType)
  PROVE  CallsNest'
<1> DEFINE n == Len(act)
<1>1. n \in Nat \ {0}
  BY TopIsOk
<1>2. act' # <<>> => n - 1 > 0
  <2>1. act' # <<>> => Len(act') \in Nat \ {0}
    BY LastAndFront
  <2> QED
    BY <1>1, <2>1
<1>3. act' # <<>> => act'[1].kind = "main" /\ act'[1].vm = Main
  BY <1>1, <1>2 DEF Nested, CallsNest
<1>4. ASSUME NEW i \in 2 .. n - 1
      PROVE  /\ act'[i].kind \in {"resume", "pcall"}
             /\ act'[i].kind = "pcall" => act'[i].vm = act'[i - 1].vm
             /\ act'[i].kind = "resume" =>
                  /\ callerstk'[act'[i].vm] = act'[i - 1].vm
                  /\ resslot'[act'[i].vm] = i
                  /\ \A j \in 1 .. i - 1 : act'[j].vm # act'[i].vm
  <2>1. i \in 2 .. n /\ i \in 1 .. n /\ i \in 1 .. n - 1 /\ i - 1 \in 1 .. n - 1
        /\ \A j \in 1 .. i - 1 : j \in 1 .. n - 1
    BY <1>1
  <2> QED
    BY <2>1 DEF Nested, CallsNest
<1> QED
  BY <1>1, <1>3, <1>4 DEF CallsNest

LEMMA LeavingKeepsRoots ==
  ASSUME Nested, act # <<>>, Len(act') = Len(act) - 1, saved' = saved,
         \A i \in 1 .. Len(act) - 1 : /\ act'[i].kind = act[i].kind /\ act'[i].vm = act[i].vm
                                      /\ act'[i].below = act[i].below,
         NEW ch \in {chain, [chain EXCEPT ![vm] = <<>>]},
         chain' = IF Top(act).kind = "pcall" THEN [ch EXCEPT ![vm] = Top(act).below] ELSE ch
  PROVE  RootsApart'
<1> DEFINE n == Len(act)
<1>1. /\ n \in Nat \ {0} /\ vm \in VMs /\ vm = act[n].vm /\ Top(act) = act[n]
      /\ \A i \in 1 .. n : act[i].vm \in VMs
  BY TopIsOk DEF Top
<1>2. chain \in [VMs -> Chains] /\ ch \in [VMs -> Chains]
  <2>1. chain \in [VMs -> Chains] /\ <<>> \in Chains
    BY DEF Nested, Typed, TypeOK, Chains
  <2> QED
    BY <2>1
<1>3. NoRoot(<<>>)
  BY DEF NoRoot
<1>4. \A v \in VMs : v # vm => chain'[v] = chain[v]
  BY <1>1, <1>2
<1>5. \A v \in VMs : NoRoot(chain[v]) /\ Top(act).kind # "pcall" => NoRoot(chain'[v])
  BY <1>1, <1>2, <1>3
<1>6. Top(act).kind = "pcall" => /\ chain'[vm] = act[n].below /\ n \in 2 .. n
                                 /\ act[n - 1].vm = vm
                                 /\ n - 1 \in 1 .. n - 1
                                 /\ act[n - 1].kind # "resume" => NoRoot(act[n].below)
  BY <1>1, <1>2 DEF Nested, CallsNest, RootsApart
<1>7. \A i \in 1 .. n : act[i].kind = "resume" => act[i].vm # Main
  BY ConstantsAssumption DEF Nested, Typed
<1>8. NoRoot(chain'[Main])
  <2>1. Main \in VMs
    BY DEF VMs
  <2>2. CASE vm = Main /\ Top(act).kind = "pcall"
    <3>1. n - 1 \in 1 .. n
      BY <1>1, <1>6, <2>2
    <3> QED
      BY <1>6, <1>7, <2>2, <3>1
  <2>3. CASE vm # Main \/ Top(act).kind # "pcall"
    BY <1>4, <1>5, <2>1, <2>3 DEF Nested, RootsApart
  <2> QED
    BY <2>2, <2>3
<1>9. ASSUME NEW i \in 2 .. n - 1, act[i].kind = "pcall"
      PROVE  NoRoot(chain'[act[i].vm])
  <2>1. i \in 2 .. n /\ i \in 1 .. n - 1 /\ act[i].vm \in VMs
    BY <1>1
  <2>2. NoRoot(chain[act[i].vm])
    BY <1>9, <2>1 DEF Nested, RootsApart
  <2>3. CASE act[i].vm # vm \/ Top(act).kind # "pcall"
    BY <1>4, <1>5, <2>1, <2>2, <2>3
  <2>4. CASE act[i].vm = vm /\ Top(act).kind = "pcall"
    <3>1. act[n - 1].kind # "resume"
      <4>1. CASE i = n - 1
        BY <1>9, <4>1
      <4>2. CASE i # n - 1
        <5>1. n - 1 \in 2 .. n /\ i \in 1 .. (n - 1) - 1
          BY <1>1, <2>1, <4>2
        <5> QED
          BY <1>6, <2>4, <5>1 DEF Nested, CallsNest
      <4> QED
        BY <4>1, <4>2
    <3> QED
      BY <1>6, <2>4, <3>1
  <2> QED
    BY <2>3, <2>4
<1>10. ASSUME NEW i \in 2 .. n - 1, act'[i].kind = "pcall"
       PROVE  /\ NoRoot(chain'[act'[i].vm])
              /\ act'[i - 1].kind # "resume" => NoRoot(act'[i].below)
  <2>1. i \in 2 .. n /\ i \in 1 .. n - 1 /\ i - 1 \in 1 .. n - 1
    BY <1>1
  <2>2. act[i].kind = "pcall" /\ act'[i].vm = act[i].vm /\ act'[i].below = act[i].below
        /\ act'[i - 1].kind = act[i - 1].kind
    BY <1>10, <2>1
  <2> QED
    BY <1>9, <2>1, <2>2 DEF Nested, RootsApart
<1>11. NoRoot(saved)'
  BY DEF Nested, RootsApart, NoRoot
<1>12. NoRoot(chain[Main])'
  BY <1>8 DEF NoRoot
<1>13. \A i \in 2 .. Len(act') : act'[i].kind = "pcall" =>
         /\ NoRoot(chain'[act'[i].vm])
         /\ act'[i - 1].kind # "resume" => NoRoot(act'[i].below)
  BY <1>1, <1>10
<1> QED
  BY <1>11, <1>12, <1>13 DEF RootsApart, NoRoot

(* A return of execute0 after which what still runs is ok.                 *)
LEMMA LeavingKeepsNested ==
  ASSUME Nested, Typed', act # <<>>, saved' = saved,
         NEW ch \in {chain, [chain EXCEPT ![vm] = <<>>]}, NEW s, LeaveExecute(s, ch),
         s = act \/ \E c \in VMs, v \in Answers : s = WriteSlot(act, c, v),
         \A i \in 1 .. Len(act) : /\ callerstk'[act[i].vm] = callerstk[act[i].vm]
                                  /\ resslot'[act[i].vm] = resslot[act[i].vm],
         \A i \in 1 .. Len(act) - 1 : state'[act[i].vm] = "ok",
         FramesFitState'
  PROVE  Nested'
<1>1. /\ Len(act') = Len(act) - 1
      /\ \A i \in 1 .. Len(act) - 1 : /\ act'[i].kind = act[i].kind /\ act'[i].vm = act[i].vm
                                      /\ act'[i].below = act[i].below
      /\ chain' = IF Top(act).kind = "pcall" THEN [ch EXCEPT ![vm] = Top(act).below] ELSE ch
  BY Leaving DEF Nested
<1>2. act' \in Seq(ActType)
  BY DEF Typed, TypeOK, ActType, Chains
<1>3. CallsNest'
  BY <1>1, <1>2, LeavingKeepsCalls
<1>4. RootsApart'
  BY <1>1, LeavingKeepsRoots
<1>5. RunningIsOk'
  BY <1>1 DEF RunningIsOk
<1> QED
  BY <1>3, <1>4, <1>5 DEF Nested

(* What a coroutine that ends or suspends leaves fits its state, and the   *)
(* pcall that ends puts frames back that fit.                              *)
LEMMA LeavingKeepsFit ==
  ASSUME Nested, act # <<>>,
         NEW ch \in {chain, [chain EXCEPT ![vm] = <<>>]},
         chain' = IF Top(act).kind = "pcall" THEN [ch EXCEPT ![vm] = Top(act).below] ELSE ch,
         \A c \in Cos : c # vm /\ state'[c] # "ok" => state'[c] = state[c],
         \/ state'[vm] = "ok"
         \/ Top(act).kind # "pcall" /\ state'[vm] = "dead" /\ ch[vm] = <<>>
         \/ Top(act).kind # "pcall" /\ state'[vm] = "suspended" /\ ch[vm] # <<>>
  PROVE  FramesFitState'
<1>1. vm \in VMs /\ chain \in [VMs -> Chains] /\ Cos \subseteq VMs
  BY TopIsOk DEF Nested, Typed, TypeOK, Chains, VMs
<1>2. \A v \in VMs : v # vm => chain'[v] = chain[v]
  BY <1>1
<1>3. ASSUME NEW c \in Cos
      PROVE  /\ state'[c] \in {"none", "dead"} => chain'[c] = <<>>
             /\ state'[c] = "suspended" => chain'[c] # <<>>
  <2>1. CASE c # vm
    BY <1>1, <1>2, <2>1 DEF Nested, FramesFitState
  <2>2. CASE c = vm
    BY <2>2
  <2> QED
    BY <2>1, <2>2
<1> QED
  BY <1>3 DEF FramesFitState

(* A step that changes only the frames of the VM that runs.                *)
LEMMA FramesChange ==
  ASSUME Nested, Typed', act # <<>>, NEW fs,
         chain' = [chain EXCEPT ![vm] = fs],
         UNCHANGED <<state, callerstk, resslot, act>>, NoRoot(saved)',
         NoRoot(chain[vm]) => NoRoot(fs)
  PROVE  Nested'
<1>1. vm \in VMs /\ vm = act[Len(act)].vm /\ chain \in [VMs -> Chains] /\ Cos \subseteq VMs
      /\ \A i \in 1 .. Len(act) : act[i].vm \in VMs
      /\ Main \in VMs /\ Len(act) \in 1 .. Len(act) /\ state[vm] = "ok"
      /\ Len(act) \in Nat
  BY TopIsOk DEF Nested, Typed, TypeOK, Chains, VMs
<1>2. CallsNest'
  BY DEF Nested, CallsNest
<1>3. RunningIsOk'
  BY DEF Nested, RunningIsOk
<1>4. FramesFitState'
  BY <1>1 DEF Nested, FramesFitState
<1>5. \A v \in VMs : NoRoot(chain[v]) => NoRoot(chain'[v])
  BY <1>1
<1>6. \A i \in 2 .. Len(act) : act[i].kind = "pcall" => NoRoot(chain'[act[i].vm])
  <2>1. \A i \in 2 .. Len(act) : i \in 1 .. Len(act)
    BY <1>1
  <2> QED
    BY <1>1, <1>5, <2>1 DEF Nested, RootsApart
<1>7. NoRoot(chain'[Main])
  BY <1>1, <1>5 DEF Nested, RootsApart
<1>8. RootsApart'
  BY <1>6, <1>7 DEF Nested, RootsApart, NoRoot
<1> QED
  BY <1>2, <1>3, <1>4, <1>8 DEF Nested

(* No frame that a call, a return or a jump makes is the root.             *)
LEMMA NoRootMade ==
  ASSUME NEW ch \in Chains, ch # <<>>
  PROVE  /\ NoRoot(Frozen(ch))
         /\ NoRoot(ch) => NoRoot(Append(ch, "own")) /\ NoRoot(Front(ch))
<1>1. Len(ch) \in Nat \ {0} /\ Len(Front(ch)) = Len(ch) - 1
      /\ \A i \in 1 .. Len(ch) - 1 : Front(ch)[i] = ch[i]
  BY LastAndFront DEF Chains
<1>2. NoRoot(Frozen(ch))
  BY <1>1 DEF NoRoot, Frozen
<1>3. NoRoot(ch) => NoRoot(Append(ch, "own"))
  BY <1>1 DEF NoRoot, Chains
<1>4. NoRoot(ch) => NoRoot(Front(ch))
  BY <1>1 DEF NoRoot
<1> QED
  BY <1>2, <1>3, <1>4

LEMMA NoRootAppended ==
  ASSUME NEW ch \in Chains, NoRoot(ch), NEW f \in FrameKinds \ {"c0"}
  PROVE  NoRoot(Append(ch, f))
<1>1. /\ Len(ch) \in Nat /\ Len(Append(ch, f)) = Len(ch) + 1
      /\ \A i \in 1 .. Len(ch) : Append(ch, f)[i] = ch[i]
      /\ Append(ch, f)[Len(ch) + 1] = f
  BY DEF Chains
<1>2. ASSUME NEW i \in 1 .. Len(ch) + 1
      PROVE  Append(ch, f)[i] # "c0"
  BY <1>1 DEF NoRoot
<1> QED
  BY <1>1, <1>2 DEF NoRoot

LEMMA StepKeepsNested ==
  ASSUME Nested, [Next]_vars, YieldsInResume
  PROVE  Nested'
<1> USE ConstantsAssumption
<1>1. Typed'
  BY StepKeepsTypes DEF Nested
<1>7. chain \in [VMs -> Chains] /\ saved \in Chains /\ act \in Seq(ActType)
  BY DEF Nested, Typed, TypeOK, ActType, Chains
<1>8. Main \in VMs /\ None \notin VMs /\ Cos \subseteq VMs /\ Main \notin Cos
      /\ \A v \in VMs : v \in Cos \/ v = Main
  BY DEF VMs
<1>2. /\ state \in [VMs -> {"none", "ok", "suspended", "dead"}]
      /\ callerstk \in [VMs -> VMs \union {None}] /\ callerstk[Main] = None
      /\ resslot \in [VMs -> Nat] /\ state[Main] = "ok"
      /\ Len(act) \in Nat
  BY DEF Nested, Typed, TypeOK
<1>3. act # <<>> => /\ Len(act) \in Nat \ {0} /\ Len(act) \in 1 .. Len(act)
                    /\ vm \in VMs /\ vm = act[Len(act)].vm
                    /\ state[vm] = "ok" /\ Top(act) = act[Len(act)]
                    /\ Top(act).kind = "resume" => vm \in Cos
                    /\ \A i \in 1 .. Len(act) : act[i].vm \in VMs /\ state[act[i].vm] = "ok"
  BY TopIsOk, TopCall DEF Nested, RunningIsOk
<1>4. act # <<>> /\ Top(act).kind = "resume" => \A j \in 1 .. Len(act) - 1 : act[j].vm # vm
  BY TopRunsOnce
<1>5. NoRoot(<<"own">>)
  <2>1. \A i \in 1 .. 1 : <<"own">>[i] = "own"
    OBVIOUS
  <2> QED
    BY <2>1 DEF NoRoot
<1>6. NoRoot(saved) /\ (UNCHANGED saved => NoRoot(saved)')
  BY DEF Nested, RootsApart, NoRoot
<1>a. CASE TopLevel
  <2>1. /\ act' = <<Act("main", Main, None, <<>>)>> /\ Len(act') = 1 /\ act'[1].vm = Main
        /\ act'[1].kind = "main"
    BY <1>a DEF TopLevel, Act
  <2>2. chain' = [chain EXCEPT ![Main] = <<"own">>] /\ UNCHANGED <<state, callerstk, resslot, saved>>
    BY <1>a DEF TopLevel
  <2>3. CallsNest'
    BY <2>1 DEF CallsNest
  <2>7. RunningIsOk'
    <3>1. \A i \in 1 .. 1 : i = 1
      OBVIOUS
    <3> QED
      BY <1>2, <2>1, <2>2, <3>1 DEF RunningIsOk
  <2>4. FramesFitState'
    BY <1>2, <1>7, <1>8, <2>2 DEF Nested, FramesFitState
  <2>5. NoRoot(chain[Main])'
    BY <1>2, <1>7, <1>8, <1>5, <2>2 DEF NoRoot
  <2>6. RootsApart'
    <3>1. \A i \in 2 .. Len(act') : FALSE
      BY <2>1
    <3> QED
      BY <1>6, <2>2, <2>5, <3>1 DEF RootsApart
  <2> QED
    BY <1>1, <2>3, <2>4, <2>6, <2>7 DEF Nested
<1>b. CASE Call \/ Return \/ Throw \/ CallCC
  <2>1. act # <<>> /\ chain[vm] # <<>> /\ chain[vm] \in Chains
    BY <1>2, <1>7, <1>8, <1>3, <1>b DEF Call, Return, Throw, CallCC, Runs
  <2>2. CASE Call
    BY <1>1, <1>6, <2>1, <2>2, NoRootMade, FramesChange DEF Call
  <2>3. CASE Return
    <3> DEFINE o == Front(chain[vm])
               f == IF Top(o) = "frozen" THEN "own" ELSE Top(o)
    <3>1. Len(chain[vm]) > 1 /\ chain' = [chain EXCEPT ![vm] = Append(Front(o), f)]
      BY <2>3 DEF Return
    <3>2. Len(chain[vm]) \in Nat /\ o \in Chains /\ Len(o) = Len(chain[vm]) - 1
      BY <2>1, LastAndFront DEF Chains
    <3>3. Len(o) \in Nat \ {0} /\ o # <<>>
      <4>1. \A m \in Nat : m > 1 => m - 1 \in Nat \ {0}
        OBVIOUS
      <4> HIDE DEF o
      <4>2. Len(o) \in Nat \ {0}
        BY <3>1, <3>2, <4>1
      <4> QED
        BY <4>2
    <3>4. /\ Top(o) = o[Len(o)] /\ Len(o) \in 1 .. Len(o)
          /\ Front(o) \in Chains
      <4> HIDE DEF o
      <4> QED
        BY <3>2, <3>3, LastAndFront DEF Chains, Top
    <3>5. ASSUME NoRoot(chain[vm])
          PROVE  NoRoot(Append(Front(o), f))
      <4>1. NoRoot(o) /\ NoRoot(Front(o))
        BY <2>1, <3>2, <3>3, <3>5, NoRootMade
      <4>2. o[Len(o)] # "c0" /\ o[Len(o)] \in FrameKinds
        BY <3>2, <3>4, <4>1 DEF NoRoot, Chains
      <4>3. f \in FrameKinds \ {"c0"}
        BY <3>4, <4>2 DEF FrameKinds
      <4> QED
        BY <3>4, <4>1, <4>3, NoRootAppended
    <3> QED
      BY <1>1, <1>6, <2>1, <2>3, <3>1, <3>5, FramesChange DEF Return
  <2>4. CASE Throw
    <3>1. saved # <<>> /\ chain' = [chain EXCEPT ![vm] = Append(Front(saved), "own")]
      BY <2>4 DEF Throw
    <3>2. Front(saved) \in Chains /\ NoRoot(Front(saved))
      BY <1>2, <1>7, <1>8, <1>6, <3>1, NoRootMade, ChainsStayChains
    <3>3. NoRoot(Append(Front(saved), "own"))
      BY <3>2, NoRootAppended DEF FrameKinds
    <3> QED
      BY <1>1, <1>6, <2>1, <2>4, <3>1, <3>3, FramesChange DEF Throw
  <2>5. CASE CallCC
    <3> DEFINE z == Frozen(chain[vm])
    <3>1. saved' = z /\ chain' = [chain EXCEPT ![vm] = Append(Front(z), "own")]
      BY <1>2, <1>7, <1>8, <1>3, <2>1, <2>5 DEF CallCC
    <3>2. z \in Chains /\ NoRoot(z) /\ Len(chain[vm]) \in Nat \ {0}
      BY <2>1, NoRootMade, ChainsStayChains, LastAndFront DEF Chains
    <3>3. z # <<>>
      <4>1. 1 \in DOMAIN z
        BY <3>2 DEF Frozen
      <4> HIDE DEF z
      <4> QED
        BY <4>1
    <3>4. Front(z) \in Chains /\ NoRoot(Front(z))
      <4> HIDE DEF z
      <4> QED
        BY <3>2, <3>3, NoRootMade, ChainsStayChains
    <3>5. NoRoot(Append(Front(z), "own"))
      BY <3>4, NoRootAppended DEF FrameKinds
    <3>6. NoRoot(saved)'
      BY <3>1, <3>2 DEF NoRoot
    <3> QED
      BY <1>1, <2>1, <2>5, <3>1, <3>5, <3>6, FramesChange DEF CallCC
  <2> QED
    BY <1>b, <2>2, <2>3, <2>4, <2>5
<1>c. CASE PCall
  <2> DEFINE n == Len(act)
             e == Act("pcall", vm, None, chain[vm])
  <2>1. act # <<>> /\ act' = Append(act, e) /\ n \in Nat \ {0} /\ n \in 1 .. n
        /\ UNCHANGED <<state, callerstk, resslot, saved>>
        /\ chain' = [chain EXCEPT ![vm] = <<"own">>]
    BY <1>3, <1>c DEF PCall, Runs
  <2>2. e.kind = "pcall" /\ e.vm = vm /\ e.below = chain[vm]
    BY DEF Act
  <2> HIDE DEF e
  <2>3. /\ Len(act') = n + 1 /\ act'[n + 1] = e
        /\ \A i \in 1 .. n : act'[i] = act[i]
    BY <1>7, <2>1
  <2>4. CallsNest'
    <3>1. act'[1].kind = "main" /\ act'[1].vm = Main
      BY <2>1, <2>3 DEF Nested, CallsNest
    <3>2. ASSUME NEW i \in 2 .. n + 1
          PROVE  /\ act'[i].kind \in {"resume", "pcall"}
                 /\ act'[i].kind = "pcall" => act'[i].vm = act'[i - 1].vm
                 /\ act'[i].kind = "resume" =>
                      /\ callerstk'[act'[i].vm] = act'[i - 1].vm
                      /\ resslot'[act'[i].vm] = i
                      /\ \A j \in 1 .. i - 1 : act'[j].vm # act'[i].vm
      <4>1. CASE i = n + 1
        <5>1. act'[i] = e /\ act'[i - 1] = act[n]
          BY <2>1, <2>3, <4>1
        <5> QED
          BY <1>3, <2>1, <2>2, <5>1
      <4>2. CASE i \in 2 .. n
        <5>1. i \in 1 .. n /\ i - 1 \in 1 .. n /\ \A j \in 1 .. i - 1 : j \in 1 .. n
          BY <2>1, <4>2
        <5> QED
          BY <2>1, <2>3, <4>2, <5>1 DEF Nested, CallsNest
      <4> QED
        BY <2>1, <4>1, <4>2
    <3> QED
      BY <2>3, <3>1, <3>2 DEF CallsNest
  <2>5. RunningIsOk'
    BY <1>3, <2>1, <2>2, <2>3 DEF RunningIsOk
  <2>6. FramesFitState'
    BY <1>3, <1>7, <1>8, <2>1 DEF Nested, FramesFitState
  <2>7. \A v \in VMs : NoRoot(chain[v]) \/ v = vm => NoRoot(chain'[v])
    BY <1>5, <1>7, <2>1
  <2>8. act[n].kind # "resume" => NoRoot(chain[vm])
    <3>1. n = 1 => vm = Main
      BY <1>3, <2>1 DEF Nested, CallsNest
    <3>2. n # 1 => n \in 2 .. n
      BY <2>1
    <3> QED
      BY <1>3, <2>1, <3>1, <3>2 DEF Nested, CallsNest, RootsApart
  <2>9. ASSUME NEW i \in 2 .. n + 1, act'[i].kind = "pcall"
        PROVE  /\ NoRoot(chain'[act'[i].vm])
               /\ act'[i - 1].kind # "resume" => NoRoot(act'[i].below)
    <3>1. CASE i = n + 1
      <4>1. act'[i] = e /\ act'[i - 1] = act[n]
        BY <2>1, <2>3, <3>1
      <4> QED
        BY <1>3, <2>1, <2>2, <2>7, <2>8, <4>1
    <3>2. CASE i \in 2 .. n
      <4>1. i \in 1 .. n /\ i - 1 \in 1 .. n
        BY <2>1, <3>2
      <4> QED
        BY <1>3, <2>1, <2>3, <2>7, <2>9, <3>2, <4>1 DEF Nested, RootsApart
    <3> QED
      BY <2>1, <3>1, <3>2
  <2>10. NoRoot(chain'[Main])
    BY <1>8, <2>7 DEF Nested, RootsApart
  <2>11. RootsApart'
    BY <1>6, <2>1, <2>3, <2>9, <2>10 DEF RootsApart, NoRoot
  <2> QED
    BY <1>1, <2>4, <2>5, <2>6, <2>11 DEF Nested
<1>d. ASSUME NEW c \in Cos, Resume(c)
      PROVE  Nested'
  <2> DEFINE n == Len(act)
             e == Act("resume", c, c, <<>>)
  <2>1. act # <<>> /\ act' = Append(act, e) /\ n \in Nat \ {0} /\ n \in 1 .. n
        /\ state[c] = "suspended" /\ state' = [state EXCEPT ![c] = "ok"]
        /\ callerstk' = [callerstk EXCEPT ![c] = vm]
        /\ resslot' = [resslot EXCEPT ![c] = n + 1]
        /\ UNCHANGED <<chain, saved>>
    BY <1>3, <1>d DEF Resume, Runs
  <2>2. e.kind = "resume" /\ e.vm = c
    BY DEF Act
  <2> HIDE DEF e
  <2>3. /\ Len(act') = n + 1 /\ act'[n + 1] = e
        /\ \A i \in 1 .. n : act'[i] = act[i]
    BY <1>7, <2>1
  <2>4. \A i \in 1 .. n : /\ act[i].vm # c /\ act[i].vm \in VMs
                          /\ callerstk'[act[i].vm] = callerstk[act[i].vm]
                          /\ resslot'[act[i].vm] = resslot[act[i].vm]
                          /\ state'[act[i].vm] = "ok"
    BY <1>2, <1>3, <2>1
  <2>5. c \in VMs /\ callerstk'[c] = vm /\ resslot'[c] = n + 1 /\ state'[c] = "ok"
    BY <1>2, <1>8, <2>1
  <2>6. CallsNest'
    <3>1. act'[1].kind = "main" /\ act'[1].vm = Main
      BY <2>1, <2>3 DEF Nested, CallsNest
    <3>2. ASSUME NEW i \in 2 .. n + 1
          PROVE  /\ act'[i].kind \in {"resume", "pcall"}
                 /\ act'[i].kind = "pcall" => act'[i].vm = act'[i - 1].vm
                 /\ act'[i].kind = "resume" =>
                      /\ callerstk'[act'[i].vm] = act'[i - 1].vm
                      /\ resslot'[act'[i].vm] = i
                      /\ \A j \in 1 .. i - 1 : act'[j].vm # act'[i].vm
      <4>1. CASE i = n + 1
        <5>1. act'[i] = e /\ act'[i - 1] = act[n] /\ i - 1 = n
          BY <2>1, <2>3, <4>1
        <5> QED
          BY <1>3, <2>1, <2>2, <2>3, <2>4, <2>5, <4>1, <5>1
      <4>2. CASE i \in 2 .. n
        <5>1. i \in 1 .. n /\ i - 1 \in 1 .. n /\ \A j \in 1 .. i - 1 : j \in 1 .. n
          BY <2>1, <4>2
        <5> QED
          BY <2>3, <2>4, <4>2, <5>1 DEF Nested, CallsNest
      <4> QED
        BY <2>1, <4>1, <4>2
    <3> QED
      BY <2>3, <3>1, <3>2 DEF CallsNest
  <2>7. RunningIsOk'
    BY <2>1, <2>2, <2>3, <2>4, <2>5 DEF RunningIsOk
  <2>8. FramesFitState'
    BY <1>2, <1>8, <2>1 DEF Nested, FramesFitState
  <2>9. ASSUME NEW i \in 2 .. n + 1, act'[i].kind = "pcall"
        PROVE  /\ NoRoot(chain[act'[i].vm])
               /\ act'[i - 1].kind # "resume" => NoRoot(act'[i].below)
    <3>1. i # n + 1
      BY <2>2, <2>3, <2>9
    <3>2. i \in 2 .. n /\ i \in 1 .. n /\ i - 1 \in 1 .. n
      BY <2>1, <3>1
    <3> QED
      BY <2>3, <2>9, <3>2 DEF Nested, RootsApart
  <2>10. RootsApart'
    BY <1>6, <2>1, <2>3, <2>9 DEF Nested, RootsApart, NoRoot
  <2> QED
    BY <1>1, <2>6, <2>7, <2>8, <2>10 DEF Nested
<1>e. ASSUME NEW c \in Cos, Create(c)
      PROVE  Nested'
  <2>1. /\ c \in VMs /\ state[c] = "none"
        /\ state' = [state EXCEPT ![c] = "suspended"] /\ chain' = [chain EXCEPT ![c] = <<"c0">>]
        /\ UNCHANGED <<callerstk, resslot, act, saved>>
        /\ act # <<>>
    BY <1>8, <1>e DEF Create, Runs
  <2>2. \A i \in 1 .. Len(act) : /\ act[i].vm # c /\ act[i].vm \in VMs
                                 /\ state'[act[i].vm] = "ok"
                                 /\ chain'[act[i].vm] = chain[act[i].vm]
    BY <1>2, <1>3, <1>7, <2>1
  <2>3. CallsNest' /\ RunningIsOk'
    BY <2>1, <2>2 DEF Nested, CallsNest, RunningIsOk
  <2>4. FramesFitState'
    BY <1>2, <1>7, <1>8, <2>1 DEF Nested, FramesFitState
  <2>5. chain'[Main] = chain[Main]
    BY <1>7, <1>8, <2>1
  <2>6. \A i \in 2 .. Len(act) : i \in 1 .. Len(act)
    BY <1>2
  <2>7. RootsApart'
    <3>1. act' = act /\ saved' = saved
      BY <2>1
    <3>2. NoRoot(chain'[Main]) /\ NoRoot(saved')
      BY <2>5, <3>1 DEF Nested, RootsApart
    <3>3. ASSUME NEW i \in 2 .. Len(act), act[i].kind = "pcall"
          PROVE  /\ NoRoot(chain'[act[i].vm])
                 /\ act[i - 1].kind # "resume" => NoRoot(act[i].below)
      <4>1. chain'[act[i].vm] = chain[act[i].vm]
        BY <2>2, <2>6
      <4> QED
        BY <3>3, <4>1 DEF Nested, RootsApart
    <3> QED
      BY <3>1, <3>2, <3>3 DEF RootsApart, NoRoot
  <2> QED
    BY <1>1, <2>3, <2>4, <2>7 DEF Nested
<1>f. ASSUME NEW c \in Cos, Refuse(c)
      PROVE  Nested'
  BY <1>1, <1>f DEF Refuse, Nested, CallsNest, RunningIsOk, FramesFitState, RootsApart, NoRoot
<1>9. ASSUME act # <<>>, callerstk' = callerstk, resslot' = resslot, saved' = saved,
             Top(act).kind = "resume", NEW x \in {"dead", "suspended"},
             state' = [state EXCEPT ![vm] = x],
             NEW ch \in {chain, [chain EXCEPT ![vm] = <<>>]},
             x = "dead" => ch[vm] = <<>>,
             x = "suspended" => ch[vm] # <<>>,
             NEW v \in Answers, LeaveExecute(WriteSlot(act, vm, v), ch)
      PROVE  Nested'
  <2>1. \A i \in 1 .. Len(act) - 1 : state'[act[i].vm] = "ok"
    <3>1. \A i \in 1 .. Len(act) - 1 : i \in 1 .. Len(act)
      BY <1>2
    <3> QED
      BY <1>2, <1>3, <1>4, <1>9, <3>1
  <2>2. chain' = IF Top(act).kind = "pcall" THEN [ch EXCEPT ![vm] = Top(act).below] ELSE ch
    BY <1>3, <1>9, Leaving DEF Nested
  <2>3. FramesFitState'
    <3>1. \A c \in Cos : c # vm => state'[c] = state[c]
      BY <1>2, <1>8, <1>9
    <3>2. state'[vm] = x
      BY <1>2, <1>3, <1>9
    <3> QED
      BY <1>9, <2>2, <3>1, <3>2, LeavingKeepsFit
  <2> QED
    BY <1>1, <1>3, <1>9, <2>1, <2>3, LeavingKeepsNested
<1>10. ASSUME act # <<>>, callerstk' = callerstk, resslot' = resslot, saved' = saved,
              state' = state, LeaveExecute(act, [chain EXCEPT ![vm] = <<>>])
       PROVE  Nested'
  <2>1. \A i \in 1 .. Len(act) - 1 : state'[act[i].vm] = "ok"
    <3>1. \A i \in 1 .. Len(act) - 1 : i \in 1 .. Len(act)
      BY <1>2
    <3> QED
      BY <1>3, <1>10, <3>1
  <2>2. FramesFitState'
    <3>1. chain' = IF Top(act).kind = "pcall"
                   THEN [[chain EXCEPT ![vm] = <<>>] EXCEPT ![vm] = Top(act).below]
                   ELSE [chain EXCEPT ![vm] = <<>>]
      BY <1>10, Leaving DEF Nested
    <3> QED
      BY <1>3, <1>10, <3>1, LeavingKeepsFit
  <2> QED
    BY <1>1, <1>3, <1>10, <2>1, <2>2, LeavingKeepsNested
<1>11. ASSUME NEW a \in Cos, NEW w \in {"procedure", "yielded", "final", "void"}
       PROVE  Answer(a, w) \in Answers
  BY DEF Answer, Answers
<1>12. act # <<>> => [chain EXCEPT ![vm] = <<>>][vm] = <<>>
  BY <1>3, <1>7
<1>g. CASE ReturnRoot
  <2>1. act # <<>> /\ Len(chain[vm]) = 1 /\ UNCHANGED <<callerstk, resslot, saved>>
    BY <1>g DEF ReturnRoot, Runs
  <2>2. CASE callerstk[vm] # None /\ Top(chain[vm]) = "c0"
    <3>1. vm \in Cos
      BY <1>2, <1>3, <1>8, <2>1, <2>2
    <3>2. ~NoRoot(chain[vm])
      BY <2>1, <2>2 DEF NoRoot, Top
    <3>3. Top(act).kind = "resume"
      <4>1. Len(act) # 1
        BY <1>3, <1>8, <2>1, <3>1 DEF Nested, CallsNest
      <4>2. Len(act) \in 2 .. Len(act)
        <5>1. \A m \in Nat \ {0} : m # 1 => m \in 2 .. m
          OBVIOUS
        <5> QED
          BY <1>3, <2>1, <4>1, <5>1
      <4> QED
        BY <1>3, <2>1, <3>2, <4>2 DEF Nested, CallsNest, RootsApart
    <3>4. /\ state' = [state EXCEPT ![vm] = "dead"]
          /\ LeaveExecute(WriteSlot(act, vm, Answer(vm, "final")), [chain EXCEPT ![vm] = <<>>])
      BY <1>g, <2>2 DEF ReturnRoot
    <3> QED
      BY <1>9, <1>11, <1>12, <2>1, <3>1, <3>3, <3>4
  <2>3. CASE ~(callerstk[vm] # None /\ Top(chain[vm]) = "c0")
    BY <1>10, <1>g, <2>1, <2>3 DEF ReturnRoot
  <2> QED
    BY <2>2, <2>3
<1>h. CASE Error
  <2>1. CASE Top(act).kind = "resume"
    <3>1. act # <<>> /\ vm \in Cos
      BY <1>3, <1>h, <2>1 DEF Error
    <3>2. /\ state' = [state EXCEPT ![vm] = "dead"] /\ UNCHANGED <<callerstk, resslot, saved>>
          /\ LeaveExecute(WriteSlot(act, vm, Answer(vm, "void")), [chain EXCEPT ![vm] = <<>>])
      BY <1>h, <2>1 DEF Error
    <3> QED
      BY <1>9, <1>11, <1>12, <2>1, <3>1, <3>2
  <2>2. CASE Top(act).kind # "resume"
    BY <1>10, <1>h, <2>2 DEF Error
  <2> QED
    BY <2>1, <2>2
<1>i. CASE Yield
  <2>1. Top(act).kind = "resume"
    BY ZenonT(30), <1>i DEF Yield, YieldsInResume
  <2>2. /\ act # <<>> /\ chain[vm] # <<>> /\ UNCHANGED <<callerstk, resslot, saved>>
        /\ state' = [state EXCEPT ![vm] = "suspended"]
        /\ LeaveExecute(WriteSlot(act, vm, Answer(vm, "yielded")), chain)
    BY ZenonT(30), <1>i DEF Yield, Runs
  <2>3. vm \in Cos
    BY <1>3, <2>1, <2>2
  <2> QED
    BY <1>9, <1>11, <2>1, <2>2, <2>3
<1>j. ASSUME NEW c \in Cos, ResumeBadArity(c)
      PROVE  Nested'
  <2> DEFINE s == IF Top(act).kind = "resume" THEN WriteSlot(act, vm, Answer(vm, "void")) ELSE act
             ch == [chain EXCEPT ![vm] = <<>>]
  <2>1. /\ act # <<>> /\ state[c] = "suspended" /\ saved' = saved
        /\ callerstk' = [callerstk EXCEPT ![c] = vm]
        /\ resslot' = [resslot EXCEPT ![c] = 0]
        /\ LeaveExecute(s, ch)
    BY <1>j DEF ResumeBadArity, Runs
  <2>2. /\ c # vm /\ c \in VMs
        /\ \A i \in 1 .. Len(act) : /\ act[i].vm # c
                                    /\ callerstk'[act[i].vm] = callerstk[act[i].vm]
                                    /\ resslot'[act[i].vm] = resslot[act[i].vm]
    BY <1>2, <1>3, <1>8, <2>1
  <2>3. s = act \/ \E d \in VMs, v \in Answers : s = WriteSlot(act, d, v)
    BY <1>3, <1>11, <2>1
  <2>4. /\ \A d \in VMs : d # c /\ d # vm => state'[d] = state[d]
        /\ state'[c] = "ok"
        /\ state'[vm] = IF Top(act).kind = "resume" THEN "dead" ELSE "ok"
    <3>1. state' = [state EXCEPT ![c] = "ok",
                                 ![vm] = IF Top(act).kind = "resume" THEN "dead" ELSE state[vm]]
      BY <1>j DEF ResumeBadArity
    <3> QED
      BY <1>2, <1>3, <2>1, <2>2, <3>1
  <2>5. \A i \in 1 .. Len(act) - 1 : state'[act[i].vm] = "ok"
    <3>1. \A i \in 1 .. Len(act) - 1 : i \in 1 .. Len(act)
      BY <1>2
    <3>2. ASSUME NEW i \in 1 .. Len(act) - 1
          PROVE  state'[act[i].vm] = "ok"
      <4>1. i \in 1 .. Len(act) /\ act[i].vm \in VMs /\ act[i].vm # c /\ state[act[i].vm] = "ok"
        BY <1>3, <1>4, <2>2, <3>1
      <4>2. CASE act[i].vm # vm
        BY <2>4, <4>1, <4>2
      <4>3. CASE act[i].vm = vm
        BY <1>3, <1>4, <2>1, <2>4, <4>1, <4>3
      <4> QED
        BY <4>2, <4>3
    <3> QED
      BY <3>2
  <2>6. chain' = IF Top(act).kind = "pcall" THEN [ch EXCEPT ![vm] = Top(act).below] ELSE ch
    <3> HIDE DEF s, ch
    <3> QED
      BY <2>1, <2>3, Leaving DEF Nested
  <2>7. FramesFitState'
    <3>1. \A d \in Cos : d # vm /\ state'[d] # "ok" => state'[d] = state[d]
      BY <1>8, <2>4
    <3>2. ch[vm] = <<>> /\ ch \in {chain, [chain EXCEPT ![vm] = <<>>]}
      BY <1>12, <2>1
    <3> HIDE DEF ch
    <3> QED
      BY <2>1, <2>4, <2>6, <3>1, <3>2, LeavingKeepsFit
  <2> QED
    BY <1>1, <2>1, <2>2, <2>3, <2>5, <2>7, LeavingKeepsNested
<1>k. CASE UNCHANGED vars
  BY <1>1, <1>k DEF vars, Nested, CallsNest, RunningIsOk, FramesFitState, RootsApart, NoRoot
<1> QED
  BY <1>a, <1>b, <1>c, <1>d, <1>e, <1>f, <1>g, <1>h, <1>i, <1>j, <1>k DEF Next

LEMMA InitIsNested == Init => Nested
<1> SUFFICES ASSUME Init
             PROVE  Nested
  OBVIOUS
<1>1. Typed
  BY ConstantsAssumption DEF Init, Typed, TypeOK, VMs
<1>2. act = <<>> /\ saved = <<>> /\ chain = [v \in VMs |-> <<>>]
      /\ state = [v \in VMs |-> IF v = Main THEN "ok" ELSE "none"] /\ Len(<<>>) = 0
  BY DEF Init
<1>3. CallsNest /\ RunningIsOk
  BY <1>2 DEF CallsNest, RunningIsOk
<1>4. FramesFitState
  BY <1>2, ConstantsAssumption DEF FramesFitState, VMs
<1>5. RootsApart
  BY <1>2 DEF RootsApart, NoRoot, VMs
<1> QED
  BY <1>1, <1>3, <1>4, <1>5 DEF Nested

LEMMA AlwaysNested ==
  ASSUME YieldsInResume
  PROVE  Spec => []Nested
<1>1. Nested /\ [Next]_vars => Nested'
  BY StepKeepsNested
<1> QED
  BY <1>1, InitIsNested, PTL DEF Spec

LEMMA NestedIsStack == Nested => ResumesNest
<1> SUFFICES ASSUME Nested
             PROVE  ResumesNest
  OBVIOUS
<1>1. ASSUME NEW i \in Resumes
      PROVE  /\ i \in 2 .. Len(act)
             /\ callerstk[act[i].vm] = act[i - 1].vm
             /\ \A j \in 1 .. i - 1 : act[j].vm # act[i].vm
  <2>1. i \in 1 .. Len(act) /\ act[i].kind = "resume" /\ Len(act) \in Nat
    BY DEF Resumes, Nested, Typed, TypeOK
  <2>2. i # 1
    <3>1. act # <<>>
      BY <2>1
    <3> QED
      BY <2>1, <3>1 DEF Nested, CallsNest
  <2>3. i \in 2 .. Len(act)
    BY <2>1, <2>2
  <2> QED
    BY <2>1, <2>3 DEF Nested, CallsNest
<1>2. CallersWait
  BY <1>1 DEF CallersWait
<1>3. NotReentered
  <2>1. ASSUME NEW i \in Resumes, NEW j \in Resumes, act[i].vm = act[j].vm
        PROVE  ~(i < j)
    <3>1. i < j => i \in 1 .. j - 1
      BY <1>1
    <3> QED
      BY <1>1, <2>1, <3>1
  <2>2. \A i \in Resumes : i \in Nat
    BY <1>1
  <2> QED
    BY <2>1, <2>2 DEF NotReentered
<1> QED
  BY <1>2, <1>3 DEF ResumesNest

LEMMA NestedIsTrue == Nested => StateIsTrue
<1> SUFFICES ASSUME Nested
             PROVE  StateIsTrue
  OBVIOUS
<1>1. DeadIsOver
  BY DEF DeadIsOver, Nested, RunningIsOk, FramesFitState
<1>2. SuspendedIsResumable
  BY DEF SuspendedIsResumable, Nested, FramesFitState
<1>3. SelfIsRunning
  BY TopIsOk DEF SelfIsRunning, Runs, Status
<1> QED
  BY <1>1, <1>2, <1>3 DEF StateIsTrue

(* The coroutines that run form a stack: each is in it once, above the VM  *)
(* that resumed it and that it goes back to, whatever continuations,       *)
(* pcalls, errors and wrong argument counts do.  (A yield inside a pcall   *)
(* breaks it.)                                                             *)
THEOREM CoroutinesFormAStack ==
  ASSUME "nested yield" \notin Uses
  PROVE  Spec => []ResumesNest
<1>1. YieldsInResume
  BY Zenon DEF YieldsInResume
<1> QED
  BY <1>1, NestedIsStack, AlwaysNested, PTL

(* What a coroutine's state says is true of its frames: a dead one has     *)
(* none and runs nowhere, a suspended one has some to go on with, and one  *)
(* that asks for its own status is told that it runs.                      *)
THEOREM StateTellsTheTruth ==
  ASSUME "nested yield" \notin Uses
  PROVE  Spec => []StateIsTrue
<1>1. YieldsInResume
  BY Zenon DEF YieldsInResume
<1> QED
  BY <1>1, NestedIsTrue, AlwaysNested, PTL

-----------------------------------------------------------------------------
(* The stack of coroutines that CoroutineSpec speaks of.                   *)

(* f gives what Resumed computes for each prefix of s of up to m calls.    *)
Computes(f, s, m) ==
  f = [n \in 0 .. m |->
         IF n = 0 THEN <<>>
         ELSE IF s[n].kind = "resume" THEN Append(f[n - 1], s[n].vm)
         ELSE f[n - 1]]

LEMMA ComputedSomehow ==
  ASSUME NEW s
  PROVE  \A m \in Nat : \E f : Computes(f, s, m)
<1> DEFINE T == {m \in Nat : \E f : Computes(f, s, m)}
<1>1. 0 \in T
  <2>1. Computes([n \in 0 .. 0 |-> <<>>], s, 0)
    BY DEF Computes
  <2> QED
    BY <2>1
<1>2. ASSUME NEW m \in Nat, m \in T
      PROVE  m + 1 \in T
  <2>1. PICK f : Computes(f, s, m)
    BY <1>2
  <2> DEFINE x == IF s[m + 1].kind = "resume" THEN Append(f[m], s[m + 1].vm) ELSE f[m]
             g == [n \in 0 .. m + 1 |-> IF n = m + 1 THEN x ELSE f[n]]
  <2>2. \A n \in 0 .. m : f[n] = IF n = 0 THEN <<>>
                                 ELSE IF s[n].kind = "resume" THEN Append(f[n - 1], s[n].vm)
                                 ELSE f[n - 1]
    BY <2>1 DEF Computes
  <2>3. ASSUME NEW n \in 0 .. m + 1
        PROVE  g[n] = IF n = 0 THEN <<>>
                      ELSE IF s[n].kind = "resume" THEN Append(g[n - 1], s[n].vm)
                      ELSE g[n - 1]
    <3>1. CASE n = m + 1
      <4>1. n # 0 /\ n - 1 = m /\ m \in 0 .. m + 1 /\ m # m + 1
        BY <3>1
      <4>2. g[n] = x /\ g[n - 1] = f[m]
        BY <3>1, <4>1
      <4> QED
        BY <3>1, <4>1, <4>2
    <3>2. CASE n # m + 1
      <4>1. n \in 0 .. m /\ (n # 0 => n - 1 \in 0 .. m /\ n - 1 \in 0 .. m + 1 /\ n - 1 # m + 1)
        BY <3>2
      <4>2. g[n] = f[n] /\ (n # 0 => g[n - 1] = f[n - 1])
        BY <3>2, <4>1
      <4> HIDE DEF g
      <4> QED
        BY <2>2, <4>1, <4>2
    <3> QED
      BY <3>1, <3>2
  <2>4. g = [n \in 0 .. m + 1 |-> g[n]]
    OBVIOUS
  <2>5. Computes(g, s, m + 1)
    <3> HIDE DEF g
    <3> QED
      BY <2>3, <2>4 DEF Computes
  <2> QED
    BY <2>5
<1> HIDE DEF T
<1>3. Nat \subseteq T
  BY <1>1, <1>2, SetInduction
<1> QED
  BY <1>3 DEF T

LEMMA ComputedAlike ==
  ASSUME NEW s, NEW t, NEW f, NEW g, NEW m \in Nat, NEW k \in Nat, m <= k,
         Computes(f, s, m), Computes(g, t, k),
         \A i \in 1 .. m : s[i].kind = t[i].kind /\ s[i].vm = t[i].vm
  PROVE  \A n \in 0 .. m : f[n] = g[n]
<1> DEFINE T == {n \in Nat : n <= m => f[n] = g[n]}
<1>1. 0 \in T
  BY DEF Computes
<1>2. ASSUME NEW n \in Nat, n \in T
      PROVE  n + 1 \in T
  <2>1. CASE n + 1 <= m
    <3>1. /\ n + 1 \in 0 .. m /\ n + 1 \in 0 .. k /\ n + 1 # 0 /\ (n + 1) - 1 = n
          /\ n + 1 \in 1 .. m /\ n <= m
      BY <2>1
    <3>2. f[n + 1] = IF s[n + 1].kind = "resume" THEN Append(f[n], s[n + 1].vm) ELSE f[n]
      BY <3>1, ZenonT(60) DEF Computes
    <3>3. g[n + 1] = IF t[n + 1].kind = "resume" THEN Append(g[n], t[n + 1].vm) ELSE g[n]
      BY <3>1 DEF Computes
    <3>4. f[n] = g[n]
      BY <1>2, <3>1
    <3>5. s[n + 1].kind = t[n + 1].kind /\ s[n + 1].vm = t[n + 1].vm
      BY <3>1
    <3> QED
      BY <3>2, <3>3, <3>4, <3>5
  <2>2. CASE ~(n + 1 <= m)
    BY <2>2
  <2> QED
    BY <2>1, <2>2
<1> HIDE DEF T
<1>3. Nat \subseteq T
  BY <1>1, <1>2, SetInduction
<1> QED
  BY <1>3 DEF T

LEMMA ResumedIsComputed ==
  ASSUME NEW s, Len(s) \in Nat
  PROVE  \E f : Computes(f, s, Len(s)) /\ Resumed(s) = f[Len(s)]
<1> DEFINE up == CHOOSE f : Computes(f, s, Len(s))
<1>1. Computes(up, s, Len(s))
  BY ComputedSomehow
<1>2. Resumed(s) = up[Len(s)]
  BY DEF Resumed, Computes
<1> QED
  BY <1>1, <1>2

(* What the call of a resume adds, and what the call of a pcall leaves.    *)
LEMMA ResumedPop ==
  ASSUME NEW s, NEW t, Len(s) \in Nat, Len(t) = Len(s) + 1,
         \A i \in 1 .. Len(s) : s[i].kind = t[i].kind /\ s[i].vm = t[i].vm
  PROVE  Resumed(t) = IF t[Len(t)].kind = "resume"
                      THEN Append(Resumed(s), t[Len(t)].vm)
                      ELSE Resumed(s)
<1> DEFINE m == Len(s)
<1>1. PICK f : Computes(f, s, m) /\ Resumed(s) = f[m]
  BY ResumedIsComputed
<1>2. m + 1 \in Nat /\ m <= m + 1 /\ m + 1 # 0 /\ (m + 1) - 1 = m /\ m + 1 \in 0 .. m + 1
  OBVIOUS
<1>3. PICK g : Computes(g, t, m + 1) /\ Resumed(t) = g[m + 1]
  BY <1>2, ResumedIsComputed
<1>4. f[m] = g[m]
  <2>1. m \in 0 .. m
    OBVIOUS
  <2>2. \A n \in 0 .. m : f[n] = g[n]
    <3>1. /\ m \in Nat /\ m + 1 \in Nat /\ m <= m + 1
          /\ \A i \in 1 .. m : s[i].kind = t[i].kind /\ s[i].vm = t[i].vm
      BY <1>2
    <3> HIDE DEF m
    <3> QED
      BY <1>1, <1>3, <3>1, ComputedAlike
  <2> QED
    BY <2>1, <2>2
<1>5. g[m + 1] = IF t[m + 1].kind = "resume" THEN Append(g[m], t[m + 1].vm) ELSE g[m]
  BY <1>2, <1>3 DEF Computes
<1> QED
  BY <1>1, <1>3, <1>4, <1>5

LEMMA ResumedAlike ==
  ASSUME NEW s, NEW t, Len(s) \in Nat, Len(t) = Len(s),
         \A i \in 1 .. Len(s) : s[i].kind = t[i].kind /\ s[i].vm = t[i].vm
  PROVE  Resumed(t) = Resumed(s)
<1>1. PICK f : Computes(f, s, Len(s)) /\ Resumed(s) = f[Len(s)]
  BY ResumedIsComputed
<1>2. PICK g : Computes(g, t, Len(s)) /\ Resumed(t) = g[Len(s)]
  BY ResumedIsComputed
<1>3. \A n \in 0 .. Len(s) : f[n] = g[n]
  BY <1>1, <1>2, ComputedAlike
<1> QED
  BY <1>1, <1>2, <1>3

(* It holds the VMs of the resumes, and nothing else.                      *)
Occurs(c, s) == \E i \in 1 .. Len(s) : s[i] = c
RunByResume(c, s) == \E i \in 1 .. Len(s) : s[i].kind = "resume" /\ s[i].vm = c

LEMMA ResumedHolds ==
  ASSUME NEW S, NEW s, Len(s) \in Nat,
         \A i \in 1 .. Len(s) : s[i].kind = "resume" => s[i].vm \in S
  PROVE  /\ Resumed(s) \in Seq(S)
         /\ \A c \in S : Occurs(c, Resumed(s)) <=> RunByResume(c, s)
<1>1. PICK f : Computes(f, s, Len(s)) /\ Resumed(s) = f[Len(s)]
  BY ResumedIsComputed
<1> DEFINE Holds(n) == /\ f[n] \in Seq(S)
                       /\ \A c \in S : (\E i \in 1 .. Len(f[n]) : f[n][i] = c)
                                         <=> \E i \in 1 .. n : s[i].kind = "resume" /\ s[i].vm = c
           T == {n \in Nat : n <= Len(s) => Holds(n)}
<1>2. 0 \in T
  <2>1. f[0] = <<>>
    BY <1>1 DEF Computes
  <2>2. f[0] \in Seq(S) /\ Len(f[0]) = 0
    BY <2>1
  <2>3. \A i : i \notin 1 .. 0
    OBVIOUS
  <2>4. Holds(0)
    BY <2>2, <2>3
  <2> QED
    BY <2>4
<1>3. ASSUME NEW n \in Nat, n \in T
      PROVE  n + 1 \in T
  <2>1. CASE n + 1 <= Len(s)
    <3>1. n + 1 \in 0 .. Len(s) /\ n + 1 # 0 /\ (n + 1) - 1 = n /\ n <= Len(s) /\ n + 1 \in 1 .. Len(s)
      BY <2>1
    <3>2. f[n + 1] = IF s[n + 1].kind = "resume" THEN Append(f[n], s[n + 1].vm) ELSE f[n]
      BY <1>1, <3>1 DEF Computes
    <3>3. Holds(n)
      BY <1>3, <3>1
    <3>4. \A i : i \in 1 .. n + 1 <=> i \in 1 .. n \/ i = n + 1
      OBVIOUS
    <3>5. CASE s[n + 1].kind = "resume"
      <4> DEFINE e == s[n + 1].vm
                 a == f[n]
                 b == f[n + 1]
      <4>1. e \in S /\ a \in Seq(S) /\ b = Append(a, e)
        BY <3>1, <3>2, <3>3, <3>5
      <4>2. \A c \in S : (\E i \in 1 .. Len(a) : a[i] = c)
                           <=> \E i \in 1 .. n : s[i].kind = "resume" /\ s[i].vm = c
        BY <3>3
      <4>3. \A c \in S : (\E i \in 1 .. n + 1 : s[i].kind = "resume" /\ s[i].vm = c)
                           <=> (\E i \in 1 .. n : s[i].kind = "resume" /\ s[i].vm = c) \/ c = e
        BY <3>4, <3>5
      <4> HIDE DEF a, b, e
      <4>4. /\ b \in Seq(S) /\ Len(b) = Len(a) + 1 /\ Len(a) \in Nat
            /\ \A i \in 1 .. Len(a) : b[i] = a[i]
            /\ b[Len(a) + 1] = e
        BY <4>1
      <4>5. \A c \in S : (\E i \in 1 .. Len(b) : b[i] = c) <=> (\E i \in 1 .. Len(a) : a[i] = c) \/ c = e
        <5>1. \A i : i \in 1 .. Len(b) <=> i \in 1 .. Len(a) \/ i = Len(a) + 1
          BY <4>4
        <5> QED
          BY <4>4, <5>1
      <4>6. Holds(n + 1)
        BY <4>2, <4>3, <4>4, <4>5 DEF b
      <4> QED
        BY <4>6
    <3>6. CASE s[n + 1].kind # "resume"
      <4>1. f[n + 1] = f[n]
        BY <3>2, <3>6
      <4>2. Holds(n + 1)
        BY <3>3, <3>4, <3>6, <4>1
      <4> QED
        BY <4>2
    <3> QED
      BY <3>5, <3>6
  <2>2. CASE ~(n + 1 <= Len(s))
    BY <2>2
  <2> QED
    BY <2>1, <2>2
<1> HIDE DEF T
<1>4. Nat \subseteq T
  BY <1>2, <1>3, SetInduction
<1>5. Holds(Len(s))
  BY <1>4 DEF T
<1>6. ASSUME NEW c \in S
      PROVE  Occurs(c, f[Len(s)]) <=> RunByResume(c, s)
  BY <1>5 DEF Occurs, RunByResume
<1> QED
  BY <1>1, <1>5, <1>6

-----------------------------------------------------------------------------
(* Who waits.                                                              *)

(* What runs in a coroutine runs in its resume, and a coroutine that is ok *)
(* and has frames is run by some call.                                     *)
Awake ==
  /\ \A i \in 1 .. Len(act) :
       act[i].vm \in Cos => \E j \in 1 .. i : act[j].kind = "resume" /\ act[j].vm = act[i].vm
  /\ \A c \in Cos :
       state[c] = "ok" /\ chain[c] # <<>> => \E i \in 1 .. Len(act) : act[i].vm = c

(* After a return of execute0 that ends or suspends the coroutine whose    *)
(* resume returns, or leaves it without frames.                            *)
LEMMA LeavingKeepsAwake ==
  ASSUME Nested, Awake, act # <<>>, NEW ch, NEW s, LeaveExecute(s, ch),
         s = act \/ \E c \in VMs, v \in Answers : s = WriteSlot(act, c, v),
         ch \in {chain, [chain EXCEPT ![vm] = <<>>]},
         \A c \in Cos : c # vm /\ state'[c] = "ok" => state[c] = "ok",
         Top(act).kind = "resume" => state'[vm] # "ok" \/ ch[vm] = <<>>
  PROVE  Awake'
<1> DEFINE n == Len(act)
<1>1. /\ Len(act') = n - 1
      /\ \A i \in 1 .. n - 1 : act'[i].kind = act[i].kind /\ act'[i].vm = act[i].vm
      /\ chain' = IF Top(act).kind = "pcall" THEN [ch EXCEPT ![vm] = Top(act).below] ELSE ch
  BY Leaving DEF Nested
<1>2. /\ n \in Nat \ {0} /\ vm \in VMs /\ vm = act[n].vm /\ Top(act) = act[n]
      /\ chain \in [VMs -> Chains] /\ Cos \subseteq VMs
  BY TopIsOk DEF Nested, Typed, TypeOK, Chains, VMs, Top
<1>3. ASSUME NEW i \in 1 .. n - 1, act'[i].vm \in Cos
      PROVE  \E j \in 1 .. i : act'[j].kind = "resume" /\ act'[j].vm = act'[i].vm
  <2>1. i \in 1 .. n /\ \A j \in 1 .. i : j \in 1 .. n - 1
    BY <1>2
  <2> QED
    BY <1>1, <1>3, <2>1 DEF Awake
<1>4. ASSUME NEW c \in Cos, state'[c] = "ok", chain'[c] # <<>>
      PROVE  \E i \in 1 .. n - 1 : act'[i].vm = c
  <2>1. CASE c # vm
    <3>1. state[c] = "ok" /\ chain[c] # <<>>
      BY <1>1, <1>2, <1>4, <2>1
    <3>2. PICK i \in 1 .. n : act[i].vm = c
      BY <3>1 DEF Awake
    <3>3. i \in 1 .. n - 1
      BY <1>2, <2>1, <3>2
    <3> QED
      BY <1>1, <3>2, <3>3
  <2>2. CASE c = vm
    <3>1. Top(act).kind # "resume"
      BY <1>1, <1>2, <1>4, <2>2
    <3>2. n # 1
      BY <1>2, <2>2, ConstantsAssumption DEF Nested, CallsNest
    <3>3. n \in 2 .. n /\ n - 1 \in 1 .. n - 1
      <4>1. \A m \in Nat \ {0} : m # 1 => m \in 2 .. m /\ m - 1 \in 1 .. m - 1
        OBVIOUS
      <4> QED
        BY <1>2, <3>2, <4>1
    <3>4. act[n - 1].vm = vm
      BY <1>2, <3>1, <3>3 DEF Nested, CallsNest
    <3> QED
      BY <1>1, <2>2, <3>3, <3>4
  <2> QED
    BY <2>1, <2>2
<1> QED
  BY <1>1, <1>3, <1>4 DEF Awake

(* A call of execute0 that begins.                                         *)
LEMMA CallingKeepsAwake ==
  ASSUME Nested, Awake, act # <<>>, NEW e \in ActType, act' = Append(act, e),
         e.kind # "resume" => e.vm = vm,
         \A c \in Cos : c # e.vm /\ state'[c] = "ok" => state[c] = "ok",
         \A c \in Cos : c # e.vm => chain'[c] = chain[c]
  PROVE  Awake'
<1> DEFINE n == Len(act)
<1>1. /\ n \in Nat \ {0} /\ n \in 1 .. n /\ vm = act[n].vm /\ act \in Seq(ActType)
  BY TopIsOk, TopCall DEF Nested
<1>2. Len(act') = n + 1 /\ act'[n + 1] = e /\ \A i \in 1 .. n : act'[i] = act[i]
  BY <1>1
<1>3. ASSUME NEW i \in 1 .. n + 1, act'[i].vm \in Cos
      PROVE  \E j \in 1 .. i : act'[j].kind = "resume" /\ act'[j].vm = act'[i].vm
  <2>1. CASE i = n + 1 /\ e.kind = "resume"
    <3>1. i \in 1 .. i
      BY <1>1
    <3> QED
      BY <1>2, <2>1, <3>1
  <2>2. CASE i = n + 1 /\ e.kind # "resume"
    <3>1. PICK j \in 1 .. n : act[j].kind = "resume" /\ act[j].vm = act[n].vm
      BY <1>1, <1>2, <1>3, <2>2 DEF Awake
    <3>2. j \in 1 .. i
      BY <1>1, <2>2
    <3> QED
      BY <1>1, <1>2, <2>2, <3>1, <3>2
  <2>3. CASE i \in 1 .. n
    <3>1. \A j \in 1 .. i : j \in 1 .. n
      BY <1>1, <2>3
    <3> QED
      BY <1>2, <1>3, <2>3, <3>1 DEF Awake
  <2> QED
    BY <1>1, <2>1, <2>2, <2>3
<1>4. ASSUME NEW c \in Cos, state'[c] = "ok", chain'[c] # <<>>
      PROVE  \E i \in 1 .. n + 1 : act'[i].vm = c
  <2>1. CASE c = e.vm
    <3>1. n + 1 \in 1 .. n + 1
      BY <1>1
    <3> QED
      BY <1>2, <2>1, <3>1
  <2>2. CASE c # e.vm
    <3>1. PICK i \in 1 .. n : act[i].vm = c
      BY <1>4, <2>2 DEF Awake
    <3>2. i \in 1 .. n + 1
      BY <1>1
    <3> QED
      BY <1>2, <3>1, <3>2
  <2> QED
    BY <2>1, <2>2
<1> QED
  BY <1>2, <1>3, <1>4 DEF Awake

LEMMA StepKeepsAwake ==
  ASSUME Nested, Awake, [Next]_vars, YieldsInResume, "arity" \notin Uses
  PROVE  Awake'
<1>1. /\ chain \in [VMs -> Chains] /\ state \in [VMs -> {"none", "ok", "suspended", "dead"}]
  BY DEF Nested, Typed, TypeOK, Chains
<1>2. Cos \subseteq VMs /\ Main \in VMs /\ Main \notin Cos
  BY ConstantsAssumption DEF VMs
<1>3. act # <<>> => /\ vm \in VMs /\ vm = act[Len(act)].vm /\ Len(act) \in 1 .. Len(act)
                    /\ Top(act).kind = "resume" => vm \in Cos
  BY TopIsOk, TopCall DEF Nested
<1>4. act # <<>> => [chain EXCEPT ![vm] = <<>>][vm] = <<>>
  BY <1>1, <1>3
<1>5. ASSUME NEW a \in Cos, NEW w \in {"yielded", "final", "void"}
      PROVE  Answer(a, w) \in Answers
  BY DEF Answer, Answers
<1>a. CASE TopLevel
  <2>1. /\ act' = <<Act("main", Main, None, <<>>)>> /\ Len(act') = 1 /\ act'[1].vm = Main
        /\ act = <<>> /\ UNCHANGED state
        /\ chain' = [chain EXCEPT ![Main] = <<"own">>]
    BY <1>a DEF TopLevel, Act
  <2>2. \A c \in Cos : chain'[c] = chain[c]
    BY <1>1, <1>2, <2>1
  <2>3. \A i \in 1 .. Len(act) : FALSE
    BY <2>1
  <2>4. \A i \in 1 .. 1 : i = 1
    OBVIOUS
  <2> QED
    BY <1>2, <2>1, <2>2, <2>3, <2>4 DEF Awake
<1>b. CASE Call \/ Return \/ Throw \/ CallCC
  <2>1. /\ UNCHANGED <<state, act>> /\ act # <<>>
        /\ \A c \in Cos : c # vm => chain'[c] = chain[c]
    BY <1>1, <1>2, <1>b DEF Call, Return, Throw, CallCC, Runs
  <2> QED
    BY <1>3, <2>1 DEF Awake
<1>c. CASE PCall
  <2>1. /\ act # <<>> /\ act' = Append(act, Act("pcall", vm, None, chain[vm]))
        /\ UNCHANGED state /\ \A c \in Cos : c # vm => chain'[c] = chain[c]
    BY <1>1, <1>2, <1>c DEF PCall, Runs
  <2>2. /\ Act("pcall", vm, None, chain[vm]) \in ActType
        /\ Act("pcall", vm, None, chain[vm]).vm = vm
    BY <1>1, <1>3, <2>1, NewActIsAct DEF Act
  <2> QED
    BY <2>1, <2>2, CallingKeepsAwake
<1>d. ASSUME NEW c \in Cos, Resume(c)
      PROVE  Awake'
  <2>1. /\ act # <<>> /\ act' = Append(act, Act("resume", c, c, <<>>))
        /\ UNCHANGED chain /\ \A d \in Cos : d # c => state'[d] = state[d]
    BY <1>1, <1>2, <1>d DEF Resume, Runs
  <2>2. /\ Act("resume", c, c, <<>>) \in ActType
        /\ Act("resume", c, c, <<>>).vm = c /\ Act("resume", c, c, <<>>).kind = "resume"
    <3>1. <<>> \in Chains
      BY DEF Chains
    <3> QED
      BY <1>2, <3>1, NewActIsAct DEF Act
  <2> QED
    BY <2>1, <2>2, CallingKeepsAwake
<1>e. ASSUME NEW c \in Cos, Create(c) \/ Refuse(c)
      PROVE  Awake'
  <2>1. CASE Create(c)
    <3>1. UNCHANGED act /\ state'[c] = "suspended"
          /\ \A d \in Cos : d # c => state'[d] = state[d] /\ chain'[d] = chain[d]
      BY <1>1, <1>2, <2>1 DEF Create
    <3> QED
      BY <3>1 DEF Awake
  <2>2. CASE Refuse(c)
    BY <2>2 DEF Refuse, Awake
  <2> QED
    BY <1>e, <2>1, <2>2
<1>6. ASSUME act # <<>>, vm \in Cos, NEW x \in {"dead", "suspended"}, NEW w \in {"yielded", "final", "void"},
             state' = [state EXCEPT ![vm] = x], NEW ch \in {chain, [chain EXCEPT ![vm] = <<>>]},
             LeaveExecute(WriteSlot(act, vm, Answer(vm, w)), ch)
      PROVE  Awake'
  <2>1. state'[vm] = x /\ \A c \in Cos : c # vm => state'[c] = state[c]
    BY <1>1, <1>2, <1>6
  <2>2. Answer(vm, w) \in Answers
    BY <1>5, <1>6
  <2> QED
    BY <1>3, <1>6, <2>1, <2>2, LeavingKeepsAwake
<1>7. ASSUME act # <<>>, UNCHANGED state, LeaveExecute(act, [chain EXCEPT ![vm] = <<>>])
      PROVE  Awake'
  BY <1>4, <1>7, LeavingKeepsAwake
<1>f. CASE ReturnRoot
  <2>1. act # <<>>
    BY <1>f DEF ReturnRoot, Runs
  <2>2. CASE callerstk[vm] # None /\ Top(chain[vm]) = "c0"
    <3>1. vm \in Cos
      BY <1>3, <2>1, <2>2 DEF Nested, Typed, VMs
    <3> QED
      BY <1>6, <1>f, <2>1, <2>2, <3>1 DEF ReturnRoot
  <2>3. CASE ~(callerstk[vm] # None /\ Top(chain[vm]) = "c0")
    BY <1>7, <1>f, <2>1, <2>3 DEF ReturnRoot
  <2> QED
    BY <2>2, <2>3
<1>g. CASE Error
  <2>1. CASE Top(act).kind = "resume"
    BY <1>3, <1>6, <1>g, <2>1 DEF Error
  <2>2. CASE Top(act).kind # "resume"
    BY <1>7, <1>g, <2>2 DEF Error
  <2> QED
    BY <2>1, <2>2
<1>h. CASE Yield
  <2>1. /\ act # <<>> /\ state' = [state EXCEPT ![vm] = "suspended"] /\ vm # Main
        /\ LeaveExecute(WriteSlot(act, vm, Answer(vm, "yielded")), chain)
    BY ZenonT(30), <1>h DEF Yield, Runs
  <2>2. vm \in Cos
    BY <1>3, <2>1 DEF VMs
  <2> QED
    BY <1>6, <2>1, <2>2
<1>i. CASE UNCHANGED vars
  BY <1>i DEF vars, Awake
<1> QED
  BY <1>a, <1>b, <1>c, <1>d, <1>e, <1>f, <1>g, <1>h, <1>i DEF Next, ResumeBadArity

LEMMA AlwaysAwake ==
  ASSUME YieldsInResume, "arity" \notin Uses
  PROVE  Spec => [](Nested /\ Awake)
<1>1. Init => Awake
  <2> SUFFICES ASSUME Init
               PROVE  Awake
    OBVIOUS
  <2>1. act = <<>> /\ Len(<<>>) = 0 /\ \A v \in VMs : chain[v] = <<>>
    BY DEF Init
  <2> QED
    BY <2>1 DEF Awake, VMs
<1>2. Nested /\ Awake /\ [Next]_vars => Awake'
  BY StepKeepsAwake
<1> QED
  BY <1>1, <1>2, AlwaysNested, PTL DEF Spec

LEMMA AwakeIsWaiting == Nested /\ Awake => NormalIsWaiting
<1> SUFFICES ASSUME Nested, Awake, act # <<>>, NEW c \in Cos, Status(c) = "normal"
             PROVE  \E i \in Resumes : act[i].vm = c
  BY DEF NormalIsWaiting
<1>1. state[c] = "ok" /\ chain[c] # <<>>
  BY DEF Status
<1>2. PICK i \in 1 .. Len(act) : act[i].vm = c
  BY <1>1 DEF Awake
<1>3. PICK j \in 1 .. i : act[j].kind = "resume" /\ act[j].vm = c
  BY <1>2 DEF Awake
<1>4. j \in 1 .. Len(act)
  BY <1>2, TopIsOk
<1> QED
  BY <1>3, <1>4 DEF Resumes

(* A coroutine called normal waits for one that it resumed, continuations  *)
(* and errors or not.  (It is called normal for ever after a resume with a *)
(* wrong number of arguments.)                                             *)
THEOREM NormalOnesWait ==
  ASSUME "nested yield" \notin Uses, "arity" \notin Uses
  PROVE  Spec => []NormalIsWaiting
<1>1. YieldsInResume
  BY Zenon DEF YieldsInResume
<1> QED
  BY <1>1, AwakeIsWaiting, AlwaysAwake, PTL

-----------------------------------------------------------------------------
(* Resume as a call.  Where no continuation is captured, the frames that a *)
(* resume runs start at the root of its coroutine until they end, and those*)
(* of a coroutine that can be resumed do; so the last return of a resume   *)
(* ends its coroutine, and a coroutine that is ok is one that runs.        *)

NoContinuations == "callcc" \notin Uses

HasRoot(ch) == ch # <<>> /\ ch[1] = "c0"

Rooted ==
  /\ saved = <<>>
  /\ \A c \in Cos : /\ state[c] = "suspended" => HasRoot(chain[c])
                    /\ state[c] = "ok" => \E i \in 1 .. Len(act) : act[i].vm = c
  /\ \A i \in 1 .. Len(act) :
       act[i].kind = "resume" /\ (\A j \in i + 1 .. Len(act) : act[j].vm # act[i].vm)
         => HasRoot(chain[act[i].vm])
  /\ \A i \in 2 .. Len(act) :
       act[i].kind = "pcall" /\ act[i - 1].kind = "resume" => HasRoot(act[i].below)

(* A call adds a frame above the root, a return takes away one above it.   *)
LEMMA RootStays ==
  ASSUME NEW ch \in Chains, HasRoot(ch)
  PROVE  /\ HasRoot(Append(ch, "own"))
         /\ Len(ch) > 1 =>
              HasRoot(Append(Front(Front(ch)),
                        IF Top(Front(ch)) = "frozen" THEN "own" ELSE Top(Front(ch))))
<1>1. ch # <<>> /\ ch[1] = "c0" /\ Len(ch) \in Nat \ {0}
  BY LastAndFront DEF HasRoot, Chains
<1>2. HasRoot(Append(ch, "own"))
  <2>1. Append(ch, "own")[1] = ch[1] /\ Len(Append(ch, "own")) = Len(ch) + 1
    BY <1>1 DEF Chains
  <2>2. Append(ch, "own") # <<>>
    BY <1>1, <2>1
  <2> QED
    BY <1>1, <2>1, <2>2 DEF HasRoot
<1>3. ASSUME Len(ch) > 1
      PROVE  HasRoot(Append(Front(Front(ch)),
                       IF Top(Front(ch)) = "frozen" THEN "own" ELSE Top(Front(ch))))
  <2> DEFINE o == Front(ch)
             f == IF Top(o) = "frozen" THEN "own" ELSE Top(o)
             p == Front(o)
             a == Append(p, f)
  <2>1. /\ o \in Chains /\ Len(o) = Len(ch) - 1
        /\ \A i \in 1 .. Len(ch) - 1 : o[i] = ch[i]
    BY <1>1, LastAndFront DEF Chains
  <2>2. 1 \in 1 .. Len(ch) - 1 /\ Len(ch) - 1 \in Nat \ {0}
    <3>1. \A m \in Nat : m > 1 => 1 \in 1 .. m - 1 /\ m - 1 \in Nat \ {0}
      OBVIOUS
    <3> QED
      BY <1>1, <1>3, <3>1
  <2>3. o[1] = "c0" /\ Len(o) \in Nat \ {0}
    BY <1>1, <2>1, <2>2
  <2> HIDE DEF o
  <2>4. o # <<>>
    BY <2>3
  <2>5. /\ p \in Chains /\ Len(p) = Len(o) - 1
        /\ \A i \in 1 .. Len(o) - 1 : p[i] = o[i]
    BY <2>1, <2>4, LastAndFront DEF Chains
  <2>6. f \in FrameKinds /\ (Len(o) = 1 => f = "c0")
    <3>1. Top(o) \in FrameKinds /\ Top(o) = o[Len(o)]
      BY <2>1, <2>4, LastAndFront DEF Chains, Top
    <3> QED
      BY <2>3, <3>1 DEF FrameKinds
  <2>7. Len(o) # 1 => 1 \in 1 .. Len(o) - 1
    <3>1. \A m \in Nat \ {0} : m # 1 => 1 \in 1 .. m - 1
      OBVIOUS
    <3> QED
      BY <2>3, <3>1
  <2> HIDE DEF f, p
  <2>8. /\ Len(a) = Len(p) + 1 /\ a[Len(p) + 1] = f
        /\ \A i \in 1 .. Len(p) : a[i] = p[i]
    BY <2>5, <2>6 DEF Chains
  <2>9. a[1] = "c0"
    <3>1. CASE Len(o) = 1
      BY <2>5, <2>6, <2>8, <3>1
    <3>2. CASE Len(o) # 1
      BY <2>3, <2>5, <2>7, <2>8, <3>2
    <3> QED
      BY <3>1, <3>2
  <2>10. Len(a) \in Nat \ {0}
    BY <2>3, <2>5, <2>8
  <2> HIDE DEF a
  <2>11. a # <<>>
    BY <2>10
  <2>12. HasRoot(a)
    BY <2>9, <2>11 DEF HasRoot
  <2> QED
    BY <2>12 DEF a, f, p, o
<1> QED
  BY <1>2, <1>3

(* After a return of execute0 that ends or suspends the coroutine whose    *)
(* resume returns.                                                         *)
LEMMA LeavingKeepsRooted ==
  ASSUME Nested, Rooted, act # <<>>, saved' = saved,
         NEW ch \in {chain, [chain EXCEPT ![vm] = <<>>]}, NEW s, LeaveExecute(s, ch),
         s = act \/ \E c \in VMs, v \in Answers : s = WriteSlot(act, c, v),
         \A c \in Cos : c # vm => state'[c] = state[c],
         Top(act).kind # "resume" => state'[vm] = state[vm],
         Top(act).kind = "resume" => state'[vm] = "dead" \/ (state'[vm] = "suspended" /\ ch = chain)
  PROVE  Rooted'
<1> DEFINE n == Len(act)
<1>1. /\ Len(act') = n - 1
      /\ \A i \in 1 .. n - 1 : act'[i].kind = act[i].kind /\ act'[i].vm = act[i].vm
                               /\ act'[i].below = act[i].below
      /\ chain' = IF Top(act).kind = "pcall" THEN [ch EXCEPT ![vm] = Top(act).below] ELSE ch
  BY Leaving DEF Nested
<1>2. /\ n \in Nat \ {0} /\ vm \in VMs /\ vm = act[n].vm /\ Top(act) = act[n]
      /\ chain \in [VMs -> Chains] /\ Cos \subseteq VMs /\ state[vm] = "ok"
      /\ \A i \in 1 .. n : act[i].vm \in VMs
      /\ Main \notin Cos
  BY TopIsOk, ConstantsAssumption DEF Nested, Typed, TypeOK, Chains, VMs, Top
<1>3. /\ n = 1 => act[n].kind = "main" /\ vm = Main
      /\ n # 1 => n \in 2 .. n /\ n - 1 \in 1 .. n - 1
  <2>1. \A m \in Nat \ {0} : m # 1 => m \in 2 .. m /\ m - 1 \in 1 .. m - 1
    OBVIOUS
  <2> QED
    BY <1>2, <2>1 DEF Nested, CallsNest
<1>4. act[n].kind # "resume" => n = 1 \/ (act[n].kind = "pcall" /\ act[n - 1].vm = vm)
  BY <1>2, <1>3 DEF Nested, CallsNest
<1>5. \A v \in VMs : v # vm => chain'[v] = chain[v]
  BY <1>1, <1>2
<1>6. act[n].kind = "resume" => \A j \in 1 .. n - 1 : act[j].vm # vm
  BY <1>2, TopRunsOnce
<1>7. ASSUME NEW c \in Cos, state'[c] = "suspended"
      PROVE  HasRoot(chain'[c])
  <2>1. CASE c # vm
    BY <1>2, <1>5, <1>7, <2>1 DEF Rooted
  <2>2. CASE c = vm
    <3>1. act[n].kind = "resume" /\ ch = chain
      BY <1>2, <1>7, <2>2
    <3>2. \A j \in n + 1 .. n : FALSE
      BY <1>2
    <3>3. n \in 1 .. n
      BY <1>2
    <3> QED
      BY <1>1, <1>2, <2>2, <3>1, <3>2, <3>3 DEF Rooted
  <2> QED
    BY <2>1, <2>2
<1>8. ASSUME NEW c \in Cos, state'[c] = "ok"
      PROVE  \E i \in 1 .. n - 1 : act'[i].vm = c
  <2>1. CASE c # vm
    <3>1. PICK i \in 1 .. n : act[i].vm = c
      BY <1>8, <2>1 DEF Rooted
    <3>2. i \in 1 .. n - 1
      BY <1>2, <2>1, <3>1
    <3> QED
      BY <1>1, <3>1, <3>2
  <2>2. CASE c = vm
    <3>1. Top(act).kind # "resume"
      BY <1>8, <2>2
    <3>2. act[n].kind # "resume"
      BY <1>2, <3>1
    <3> QED
      BY <1>1, <1>2, <1>3, <1>4, <2>2, <3>2
  <2> QED
    BY <2>1, <2>2
<1>9. ASSUME NEW i \in 1 .. n - 1, act'[i].kind = "resume",
             \A j \in i + 1 .. n - 1 : act'[j].vm # act'[i].vm
      PROVE  HasRoot(chain'[act'[i].vm])
  <2>1. i \in 1 .. n /\ act[i].kind = "resume" /\ act'[i].vm = act[i].vm
    BY <1>1, <1>2, <1>9
  <2>2. \A j \in i + 1 .. n - 1 : act[j].vm # act[i].vm
    BY <1>1, <1>2, <1>9
  <2>3. CASE act[i].vm # vm
    <3>1. \A j \in i + 1 .. n : j = n \/ j \in i + 1 .. n - 1
      BY <1>2
    <3>2. \A j \in i + 1 .. n : act[j].vm # act[i].vm
      BY <1>2, <2>2, <2>3, <3>1
    <3> QED
      BY <1>2, <1>5, <2>1, <2>3, <3>2 DEF Rooted
  <2>4. CASE act[i].vm = vm
    <3>1. n # 1 /\ act[n].kind # "resume"
      BY <1>2, <1>6, <2>4
    <3>2. act[n].kind = "pcall" /\ act[n - 1].vm = vm
      BY <1>4, <3>1
    <3>3. i = n - 1
      <4>1. i # n - 1 => n - 1 \in i + 1 .. n - 1
        BY <1>2, <1>3, <3>1
      <4> QED
        BY <2>2, <2>4, <3>2, <4>1
    <3>4. HasRoot(act[n].below)
      BY <1>3, <2>1, <3>1, <3>2, <3>3 DEF Rooted
    <3>5. chain'[vm] = act[n].below
      BY <1>1, <1>2, <3>2
    <3> QED
      BY <2>1, <2>4, <3>4, <3>5
  <2> QED
    BY <2>3, <2>4
<1>10. ASSUME NEW i \in 2 .. n - 1, act'[i].kind = "pcall", act'[i - 1].kind = "resume"
       PROVE  HasRoot(act'[i].below)
  <2>1. i \in 2 .. n /\ i \in 1 .. n - 1 /\ i - 1 \in 1 .. n - 1
    BY <1>2
  <2> QED
    BY <1>1, <1>10, <2>1 DEF Rooted
<1>11. saved' = <<>>
  BY DEF Rooted
<1> QED
  BY <1>1, <1>7, <1>8, <1>9, <1>10, <1>11 DEF Rooted, HasRoot

(* The steps that return from execute0, where each coroutine starts at its *)
(* root: a resume that returns ends or suspends its coroutine.             *)
Ends(what) ==
  /\ act # <<>> /\ Top(act).kind = "resume"
  /\ state' = [state EXCEPT ![vm] = "dead"]
  /\ LeaveExecute(WriteSlot(act, vm, Answer(vm, what)), [chain EXCEPT ![vm] = <<>>])
  /\ UNCHANGED <<callerstk, resslot, saved>>

Suspends ==
  /\ act # <<>> /\ Top(act).kind = "resume"
  /\ state' = [state EXCEPT ![vm] = "suspended"]
  /\ LeaveExecute(WriteSlot(act, vm, Answer(vm, "yielded")), chain)
  /\ UNCHANGED <<callerstk, resslot, saved>>

Leaves ==
  /\ act # <<>> /\ Top(act).kind # "resume"
  /\ LeaveExecute(act, [chain EXCEPT ![vm] = <<>>])
  /\ UNCHANGED <<state, callerstk, resslot, saved>>

LEMMA ReturnsOfExecute ==
  ASSUME Nested, Rooted, YieldsInResume
  PROVE  /\ ReturnRoot => Ends("final") \/ Leaves
         /\ Error => Ends("void") \/ Leaves
         /\ Yield => Suspends
<1>1. act # <<>> => /\ Len(act) \in Nat \ {0} /\ vm \in VMs /\ vm = act[Len(act)].vm
                    /\ Top(act) = act[Len(act)] /\ Len(act) \in 1 .. Len(act)
                    /\ Top(act).kind = "resume" => vm \in Cos
                    /\ \A i \in 1 .. Len(act) : act[i].vm \in VMs
  BY TopIsOk, TopCall DEF Nested
<1>2. None \notin VMs
  BY ConstantsAssumption DEF VMs
<1>3. ASSUME ReturnRoot
      PROVE  Ends("final") \/ Leaves
  <2>1. act # <<>> /\ Len(chain[vm]) = 1 /\ UNCHANGED <<callerstk, resslot, saved>>
    BY <1>3 DEF ReturnRoot, Runs
  <2>2. CASE Top(act).kind = "resume"
    <3>1. Top(chain[vm]) = "c0"
      <4>1. \A j \in Len(act) + 1 .. Len(act) : FALSE
        BY <1>1, <2>1
      <4>2. HasRoot(chain[vm])
        BY <1>1, <2>1, <2>2, <4>1 DEF Rooted
      <4> QED
        BY <2>1, <4>2 DEF HasRoot, Top
    <3>2. callerstk[vm] # None
      <4>1. Len(act) # 1
        BY <1>1, <2>1, <2>2 DEF Nested, CallsNest
      <4>2. \A m \in Nat \ {0} : m # 1 => m \in 2 .. m /\ m - 1 \in 1 .. m
        OBVIOUS
      <4>3. Len(act) \in 2 .. Len(act) /\ Len(act) - 1 \in 1 .. Len(act)
        BY <1>1, <2>1, <4>1, <4>2
      <4> QED
        BY <1>1, <1>2, <2>1, <2>2, <4>3 DEF Nested, CallsNest
    <3> QED
      BY <1>3, <2>1, <2>2, <3>1, <3>2 DEF ReturnRoot, Ends
  <2>3. CASE Top(act).kind # "resume"
    <3>1. ~(callerstk[vm] # None /\ Top(chain[vm]) = "c0")
      <4>1. CASE Len(act) = 1
        BY <1>1, <2>1, <4>1 DEF Nested, CallsNest, Typed
      <4>2. CASE Len(act) # 1
        <5>1. \A m \in Nat \ {0} : m # 1 => m \in 2 .. m
          OBVIOUS
        <5>2. Len(act) \in 2 .. Len(act)
          BY <1>1, <2>1, <4>2, <5>1
        <5>3. NoRoot(chain[vm])
          BY <1>1, <2>1, <2>3, <5>2 DEF Nested, CallsNest, RootsApart
        <5> QED
          BY <2>1, <5>3 DEF NoRoot, Top
      <4> QED
        BY <4>1, <4>2
    <3> QED
      BY <1>3, <2>1, <2>3, <3>1 DEF ReturnRoot, Leaves
  <2> QED
    BY <2>2, <2>3
<1>4. ASSUME Error
      PROVE  Ends("void") \/ Leaves
  BY <1>4 DEF Error, Ends, Leaves
<1>5. ASSUME Yield
      PROVE  Suspends
  <2>1. Top(act).kind = "resume"
    BY ZenonT(30), <1>5 DEF Yield, YieldsInResume
  <2> QED
    BY ZenonT(30), <1>5, <2>1 DEF Yield, Runs, Suspends
<1> QED
  BY <1>3, <1>4, <1>5

LEMMA StepKeepsRooted ==
  ASSUME Nested, Rooted, [Next]_vars, YieldsInResume, "arity" \notin Uses, NoContinuations
  PROVE  Rooted'
<1>1. /\ chain \in [VMs -> Chains] /\ state \in [VMs -> {"none", "ok", "suspended", "dead"}]
      /\ act \in Seq(ActType)
  BY DEF Nested, Typed, TypeOK, Chains, ActType
<1>2. Cos \subseteq VMs /\ Main \in VMs /\ Main \notin Cos
  BY ConstantsAssumption DEF VMs
<1>3. act # <<>> => /\ Len(act) \in Nat \ {0} /\ vm \in VMs /\ vm = act[Len(act)].vm
                    /\ Top(act) = act[Len(act)] /\ Len(act) \in 1 .. Len(act)
                    /\ Top(act).kind = "resume" => vm \in Cos
                    /\ state[vm] = "ok" /\ chain[vm] \in Chains
                    /\ \A i \in 1 .. Len(act) : act[i].vm \in VMs /\ state[act[i].vm] = "ok"
  BY <1>1, TopIsOk, TopCall DEF Nested, RunningIsOk
<1>4. saved = <<>>
  BY DEF Rooted
<1>a. CASE TopLevel
  <2>1. /\ act' = <<Act("main", Main, None, <<>>)>> /\ Len(act') = 1 /\ act'[1].kind = "main"
        /\ act = <<>> /\ UNCHANGED <<state, saved>>
        /\ chain' = [chain EXCEPT ![Main] = <<"own">>]
    BY <1>a DEF TopLevel, Act
  <2>2. \A c \in Cos : chain'[c] = chain[c]
    BY <1>1, <1>2, <2>1
  <2>3. /\ \A i \in 1 .. Len(act) : FALSE
        /\ \A i \in 2 .. Len(act') : FALSE
        /\ \A i \in 1 .. Len(act') : i = 1
    BY <2>1
  <2>4. \A c \in Cos : /\ state'[c] = "suspended" => HasRoot(chain'[c])
                       /\ state'[c] # "ok"
    BY <2>1, <2>2, <2>3 DEF Rooted
  <2>5. \A i \in 1 .. Len(act') : act'[i].kind # "resume"
    BY <2>1, <2>3
  <2> QED
    BY <2>1, <2>3, <2>4, <2>5, <1>4 DEF Rooted, HasRoot
<1>5. ASSUME act # <<>>, UNCHANGED <<state, act, saved>>, NEW fs,
             chain' = [chain EXCEPT ![vm] = fs], HasRoot(chain[vm]) => HasRoot(fs)
      PROVE  Rooted'
  <2>1. \A v \in VMs : HasRoot(chain[v]) => HasRoot(chain'[v])
    BY <1>1, <1>3, <1>5
  <2>2. \A c \in Cos : state[c] = "suspended" => HasRoot(chain'[c])
    BY <1>2, <2>1 DEF Rooted
  <2>3. \A i \in 1 .. Len(act) :
          act[i].kind = "resume" /\ (\A j \in i + 1 .. Len(act) : act[j].vm # act[i].vm)
            => HasRoot(chain'[act[i].vm])
    BY <1>3, <1>5, <2>1 DEF Rooted
  <2> QED
    BY <1>5, <2>2, <2>3 DEF Rooted, HasRoot
<1>b. CASE Call
  <2>1. act # <<>> /\ chain' = [chain EXCEPT ![vm] = Append(chain[vm], "own")]
        /\ UNCHANGED <<state, act, saved>>
    BY <1>b DEF Call, Runs
  <2> QED
    BY <1>3, <1>5, <2>1, RootStays
<1>c. CASE Return
  <2> DEFINE o == Front(chain[vm])
             fs == Append(Front(o), IF Top(o) = "frozen" THEN "own" ELSE Top(o))
  <2>1. act # <<>> /\ Len(chain[vm]) > 1 /\ chain' = [chain EXCEPT ![vm] = fs]
        /\ UNCHANGED <<state, act, saved>>
    BY <1>c DEF Return, Runs
  <2>2. HasRoot(chain[vm]) => HasRoot(fs)
    BY <1>3, <2>1, RootStays
  <2> HIDE DEF fs
  <2> QED
    BY <1>5, <2>1, <2>2
<1>d. CASE PCall
  <2> DEFINE n == Len(act)
             e == Act("pcall", vm, None, chain[vm])
  <2>1. act # <<>> /\ act' = Append(act, e) /\ n \in Nat \ {0} /\ n \in 1 .. n
        /\ UNCHANGED <<state, saved>> /\ chain' = [chain EXCEPT ![vm] = <<"own">>]
    BY <1>3, <1>d DEF PCall, Runs
  <2>2. e.kind = "pcall" /\ e.vm = vm /\ e.below = chain[vm]
    BY DEF Act
  <2> HIDE DEF e
  <2>3. Len(act') = n + 1 /\ act'[n + 1] = e /\ \A i \in 1 .. n : act'[i] = act[i]
    BY <1>1, <2>1
  <2>4. \A v \in VMs : v # vm => chain'[v] = chain[v]
    BY <1>1, <2>1
  <2>5. ASSUME NEW c \in Cos
        PROVE  /\ state'[c] = "suspended" => HasRoot(chain'[c])
               /\ state'[c] = "ok" => \E i \in 1 .. n + 1 : act'[i].vm = c
    <3>1. state'[c] = "suspended" => c # vm
      BY <1>3, <2>1
    <3>2. \A i \in 1 .. n : i \in 1 .. n + 1
      BY <2>1
    <3> QED
      BY <1>2, <2>1, <2>3, <2>4, <3>1, <3>2 DEF Rooted
  <2>6. ASSUME NEW i \in 1 .. n + 1, act'[i].kind = "resume",
               \A j \in i + 1 .. n + 1 : act'[j].vm # act'[i].vm
        PROVE  HasRoot(chain'[act'[i].vm])
    <3>1. i # n + 1
      BY <2>2, <2>3, <2>6
    <3>2. i \in 1 .. n /\ n + 1 \in i + 1 .. n + 1 /\ \A j \in i + 1 .. n : j \in i + 1 .. n + 1 /\ j \in 1 .. n
      BY <2>1, <3>1
    <3>3. act[i].vm # vm /\ act'[i] = act[i] /\ \A j \in i + 1 .. n : act[j].vm # act[i].vm
      BY <2>2, <2>3, <2>6, <3>2
    <3> QED
      BY <1>3, <2>1, <2>4, <2>6, <3>2, <3>3 DEF Rooted
  <2>7. ASSUME NEW i \in 2 .. n + 1, act'[i].kind = "pcall", act'[i - 1].kind = "resume"
        PROVE  HasRoot(act'[i].below)
    <3>1. CASE i = n + 1
      <4>1. act'[i] = e /\ act'[i - 1] = act[n]
        BY <2>1, <2>3, <3>1
      <4>2. \A j \in n + 1 .. n : FALSE
        BY <2>1
      <4> QED
        BY <1>3, <2>1, <2>2, <2>7, <4>1, <4>2 DEF Rooted
    <3>2. CASE i \in 2 .. n
      <4>1. i \in 1 .. n /\ i - 1 \in 1 .. n
        BY <2>1, <3>2
      <4> QED
        BY <2>3, <2>7, <3>2, <4>1 DEF Rooted
    <3> QED
      BY <2>1, <3>1, <3>2
  <2>8. saved' = <<>>
    BY <1>4, <2>1
  <2> QED
    BY <2>3, <2>5, <2>6, <2>7, <2>8 DEF Rooted, HasRoot
<1>e. ASSUME NEW c \in Cos, Resume(c)
      PROVE  Rooted'
  <2> DEFINE n == Len(act)
             e == Act("resume", c, c, <<>>)
  <2>1. act # <<>> /\ act' = Append(act, e) /\ n \in Nat \ {0} /\ n \in 1 .. n
        /\ state[c] = "suspended" /\ state' = [state EXCEPT ![c] = "ok"]
        /\ UNCHANGED <<chain, saved>>
    BY <1>3, <1>e DEF Resume, Runs
  <2>2. e.kind = "resume" /\ e.vm = c
    BY DEF Act
  <2> HIDE DEF e
  <2>3. Len(act') = n + 1 /\ act'[n + 1] = e /\ \A i \in 1 .. n : act'[i] = act[i]
    BY <1>1, <2>1
  <2>4. state'[c] = "ok" /\ \A d \in Cos : d # c => state'[d] = state[d]
    BY <1>1, <1>2, <2>1
  <2>5. ASSUME NEW d \in Cos
        PROVE  /\ state'[d] = "suspended" => HasRoot(chain[d])
               /\ state'[d] = "ok" => \E i \in 1 .. n + 1 : act'[i].vm = d
    <3>1. n + 1 \in 1 .. n + 1 /\ \A i \in 1 .. n : i \in 1 .. n + 1
      BY <2>1
    <3>2. CASE d = c
      BY <2>2, <2>3, <2>4, <3>1, <3>2
    <3>3. CASE d # c
      BY <2>3, <2>4, <3>1, <3>3 DEF Rooted
    <3> QED
      BY <3>2, <3>3
  <2>6. ASSUME NEW i \in 1 .. n + 1, act'[i].kind = "resume",
               \A j \in i + 1 .. n + 1 : act'[j].vm # act'[i].vm
        PROVE  HasRoot(chain[act'[i].vm])
    <3>1. CASE i = n + 1
      BY <2>1, <2>2, <2>3, <3>1 DEF Rooted
    <3>2. CASE i # n + 1
      <4>1. i \in 1 .. n /\ \A j \in i + 1 .. n : j \in i + 1 .. n + 1 /\ j \in 1 .. n
        BY <2>1, <3>2
      <4>2. act'[i] = act[i] /\ \A j \in i + 1 .. n : act[j].vm # act[i].vm
        BY <2>3, <2>6, <4>1
      <4> QED
        BY <2>6, <4>1, <4>2 DEF Rooted
    <3> QED
      BY <3>1, <3>2
  <2>7. ASSUME NEW i \in 2 .. n + 1, act'[i].kind = "pcall", act'[i - 1].kind = "resume"
        PROVE  HasRoot(act'[i].below)
    <3>1. i # n + 1
      BY <2>2, <2>3, <2>7
    <3>2. i \in 2 .. n /\ i \in 1 .. n /\ i - 1 \in 1 .. n
      BY <2>1, <3>1
    <3> QED
      BY <2>3, <2>7, <3>2 DEF Rooted
  <2>8. saved' = <<>>
    BY <1>4, <2>1
  <2> QED
    BY <2>1, <2>3, <2>5, <2>6, <2>7, <2>8 DEF Rooted, HasRoot
<1>f. ASSUME NEW c \in Cos, Create(c)
      PROVE  Rooted'
  <2>1. /\ state[c] = "none" /\ act # <<>> /\ UNCHANGED <<act, saved>>
        /\ state' = [state EXCEPT ![c] = "suspended"]
        /\ chain' = [chain EXCEPT ![c] = <<"c0">>]
    BY <1>f DEF Create, Runs
  <2>2. /\ state'[c] = "suspended" /\ chain'[c] = <<"c0">>
        /\ \A v \in VMs : v # c => state'[v] = state[v] /\ chain'[v] = chain[v]
    BY <1>1, <1>2, <2>1
  <2>3. HasRoot(<<"c0">>)
    <3>1. Len(<<"c0">>) = 1 /\ <<"c0">>[1] = "c0"
      OBVIOUS
    <3>2. <<"c0">> # <<>>
      BY <3>1
    <3> QED
      BY <3>1, <3>2 DEF HasRoot
  <2>4. \A d \in Cos : /\ state'[d] = "suspended" => HasRoot(chain'[d])
                       /\ state'[d] = "ok" => \E i \in 1 .. Len(act) : act[i].vm = d
    BY <1>2, <2>2, <2>3 DEF Rooted
  <2>5. \A i \in 1 .. Len(act) : act[i].vm \in VMs /\ chain'[act[i].vm] = chain[act[i].vm]
    <3>1. \A i \in 1 .. Len(act) : act[i].vm \in VMs /\ act[i].vm # c
      BY <1>3, <2>1
    <3> QED
      BY <2>2, <3>1
  <2>6. \A i \in 1 .. Len(act) :
          act[i].kind = "resume" /\ (\A j \in i + 1 .. Len(act) : act[j].vm # act[i].vm)
            => HasRoot(chain'[act[i].vm])
    BY <2>5 DEF Rooted
  <2> QED
    BY <2>1, <2>4, <2>6 DEF Rooted, HasRoot
<1>6. ASSUME NEW a \in Cos, NEW w \in {"yielded", "final", "void"}
      PROVE  Answer(a, w) \in Answers
  BY DEF Answer, Answers
<1>g. ASSUME NEW w \in {"final", "void"}, Ends(w)
      PROVE  Rooted'
  <2> DEFINE s == WriteSlot(act, vm, Answer(vm, w))
  <2>1. /\ act # <<>> /\ Top(act).kind = "resume" /\ saved' = saved
        /\ state' = [state EXCEPT ![vm] = "dead"]
        /\ LeaveExecute(s, [chain EXCEPT ![vm] = <<>>])
    BY <1>g DEF Ends
  <2>2. state'[vm] = "dead" /\ \A c \in Cos : c # vm => state'[c] = state[c]
    BY <1>1, <1>2, <1>3, <2>1
  <2>3. \E c \in VMs, v \in Answers : s = WriteSlot(act, c, v)
    BY <1>2, <1>3, <1>6, <2>1
  <2> HIDE DEF s
  <2> QED
    BY <2>1, <2>2, <2>3, LeavingKeepsRooted
<1>h. CASE Suspends
  <2> DEFINE s == WriteSlot(act, vm, Answer(vm, "yielded"))
  <2>1. /\ act # <<>> /\ Top(act).kind = "resume" /\ saved' = saved
        /\ state' = [state EXCEPT ![vm] = "suspended"]
        /\ LeaveExecute(s, chain)
    BY <1>h DEF Suspends
  <2>2. state'[vm] = "suspended" /\ \A c \in Cos : c # vm => state'[c] = state[c]
    BY <1>1, <1>2, <1>3, <2>1
  <2>3. \E c \in VMs, v \in Answers : s = WriteSlot(act, c, v)
    BY <1>2, <1>3, <1>6, <2>1
  <2> HIDE DEF s
  <2> QED
    BY <2>1, <2>2, <2>3, LeavingKeepsRooted
<1>i. CASE Leaves
  BY <1>i, LeavingKeepsRooted DEF Leaves
<1>j. ASSUME NEW c \in Cos, Refuse(c)
      PROVE  Rooted'
  BY <1>j DEF Refuse, Rooted
<1>k. CASE UNCHANGED vars
  BY <1>k DEF vars, Rooted
<1>l. CASE ReturnRoot \/ Error \/ Yield
  BY <1>g, <1>h, <1>i, <1>l, ReturnsOfExecute
<1> QED
  BY <1>4, <1>a, <1>b, <1>c, <1>d, <1>e, <1>f, <1>j, <1>k, <1>l
  DEF Next, ResumeBadArity, CallCC, Throw, NoContinuations

LEMMA AlwaysRooted ==
  ASSUME YieldsInResume, "arity" \notin Uses, NoContinuations
  PROVE  Spec => [](Nested /\ Rooted)
<1>1. Init => Rooted
  <2> SUFFICES ASSUME Init
               PROVE  Rooted
    OBVIOUS
  <2>1. act = <<>> /\ saved = <<>> /\ Len(<<>>) = 0 /\ \A c \in Cos : state[c] = "none"
    BY ConstantsAssumption DEF Init, VMs
  <2> QED
    BY <2>1 DEF Rooted
<1>2. Nested /\ Rooted /\ [Next]_vars => Rooted'
  BY StepKeepsRooted
<1> QED
  BY <1>1, <1>2, AlwaysNested, PTL DEF Spec

(* The last element of a sequence that was appended to, and the others.    *)
LEMMA AppendedEnds ==
  ASSUME NEW S, NEW s \in Seq(S), NEW e \in S
  PROVE  /\ Append(s, e) # <<>>
         /\ Append(s, e)[Len(Append(s, e))] = e
         /\ SubSeq(Append(s, e), 1, Len(Append(s, e)) - 1) = s
<1> DEFINE a == Append(s, e)
           p == SubSeq(a, 1, Len(s))
<1>1. /\ a \in Seq(S) /\ Len(a) = Len(s) + 1 /\ Len(s) \in Nat /\ a[Len(s) + 1] = e
      /\ \A i \in 1 .. Len(s) : a[i] = s[i]
  OBVIOUS
<1>2. Len(a) - 1 = Len(s) /\ \A i \in 1 .. Len(s) : i \in 1 .. Len(a)
  BY <1>1
<1> HIDE DEF a
<1>3. a # <<>>
  BY <1>1
<1>4. /\ p \in Seq(S) /\ Len(p) = Len(s)
      /\ \A i \in 1 .. Len(s) : p[i] = a[i]
  BY <1>1, <1>2
<1>5. p = s
  BY <1>1, <1>4
<1> QED
  BY <1>1, <1>2, <1>3, <1>5 DEF a

(* What the abstract stack and the result are after a resume returns.      *)
LEMMA ResumeReturns ==
  ASSUME Nested, act # <<>>, Top(act).kind = "resume",
         NEW w \in {"yielded", "final", "void"}, NEW ch,
         LeaveExecute(WriteSlot(act, vm, Answer(vm, w)), ch)
  PROVE  /\ Resumed(act) # <<>>
         /\ Resumed(act)[Len(Resumed(act))] = vm
         /\ Resumed(act') = SubSeq(Resumed(act), 1, Len(Resumed(act)) - 1)
         /\ result' = Answer(vm, w)
<1> DEFINE n == Len(act)
           v == Answer(vm, w)
           s == WriteSlot(act, vm, v)
<1>1. /\ n \in Nat \ {0} /\ vm \in Cos /\ vm \in VMs /\ vm = act[n].vm
      /\ Top(act) = act[n] /\ act \in Seq(ActType) /\ n \in 1 .. n
  BY TopIsOk, TopCall DEF Nested
<1>2. v \in Answers
  BY <1>1 DEF Answer, Answers
<1>3. /\ Len(act') = n - 1
      /\ \A i \in 1 .. n - 1 : act'[i].kind = act[i].kind /\ act'[i].vm = act[i].vm
      /\ result' = Top(s).slot
  <2> HIDE DEF s, v
  <2>1. \E c \in VMs, u \in Answers : s = WriteSlot(act, c, u)
    BY <1>1, <1>2 DEF s
  <2>2. LeaveExecute(s, ch)
    BY DEF s, v
  <2> QED
    BY <1>1, <2>1, <2>2, Leaving DEF Nested
<1>4. result' = v
  <2>1. n # 1
    BY <1>1 DEF Nested, CallsNest
  <2>2. \A m \in Nat \ {0} : m # 1 => m \in 2 .. m
    OBVIOUS
  <2>3. resslot[vm] = n
    BY <1>1, <2>1, <2>2 DEF Nested, CallsNest
  <2> HIDE DEF v
  <2>4. s[n].slot = v /\ Len(s) = n
    BY <1>1, <1>2, <2>3, WriteKeepsActs
  <2> QED
    BY <1>3, <2>4 DEF Top
<1>5. /\ Len(act') \in Nat /\ Len(act) = Len(act') + 1
      /\ \A i \in 1 .. Len(act') : act'[i].kind = act[i].kind /\ act'[i].vm = act[i].vm
      /\ \A i \in 1 .. Len(act') : i \in 1 .. n
  BY <1>1, <1>3
<1>6. Resumed(act) = Append(Resumed(act'), vm)
  BY <1>1, <1>5, ResumedPop
<1>7. Resumed(act') \in Seq(Cos)
  <2>1. \A i \in 1 .. Len(act') : act'[i].kind = "resume" => act'[i].vm \in Cos
    BY <1>5 DEF Nested, Typed
  <2> QED
    BY <1>5, <2>1, ResumedHolds
<1> HIDE DEF v
<1> QED
  BY <1>1, <1>4, <1>6, <1>7, AppendedEnds DEF v

(* The stack holds the coroutines that run or wait.                        *)
LEMMA OnStack ==
  ASSUME Nested, NEW c \in Cos
  PROVE  Nesting!IsRunning(c) <=> RunByResume(c, act)
<1>1. Len(act) \in Nat /\ \A i \in 1 .. Len(act) : act[i].kind = "resume" => act[i].vm \in Cos
  BY DEF Nested, Typed, TypeOK
<1>2. Occurs(c, Resumed(act)) <=> RunByResume(c, act)
  BY <1>1, ResumedHolds
<1>3. Nesting!IsRunning(c) <=> Occurs(c, Resumed(act))
  BY DEF Nesting!IsRunning, Occurs
<1> QED
  BY <1>2, <1>3

LEMMA StepIsNesting ==
  ASSUME Nested, Awake, Rooted, [Next]_vars, YieldsInResume, "arity" \notin Uses, NoContinuations
  PROVE  [Nesting!Next]_<<Resumed(act), {c \in Cos : state[c] = "dead"}, result>>
<1> DEFINE ended == {c \in Cos : state[c] = "dead"}
           ended2 == {c \in Cos : state'[c] = "dead"}
<1>1. /\ chain \in [VMs -> Chains] /\ state \in [VMs -> {"none", "ok", "suspended", "dead"}]
      /\ act \in Seq(ActType) /\ Len(act) \in Nat
      /\ Cos \subseteq VMs /\ saved = <<>>
  BY DEF Nested, Rooted, Typed, TypeOK, Chains, ActType, VMs
<1>2. act # <<>> => /\ Len(act) \in Nat \ {0} /\ vm \in VMs /\ vm = act[Len(act)].vm
                    /\ Top(act) = act[Len(act)] /\ Len(act) \in 1 .. Len(act)
                    /\ Top(act).kind = "resume" => vm \in Cos
  BY <1>1, TopIsOk, TopCall DEF Nested
<1>3. ASSUME act' = act
      PROVE  Resumed(act') = Resumed(act)
  BY <1>3
<1>4. ASSUME Resumed(act') = Resumed(act), ended2 = ended, result' = result
      PROVE  UNCHANGED <<Resumed(act), {c \in Cos : state[c] = "dead"}, result>>
  BY <1>4
<1>5. ASSUME NEW e, act' = Append(act, e)
      PROVE  /\ e.kind = "resume" => Resumed(act') = Append(Resumed(act), e.vm)
             /\ e.kind # "resume" => Resumed(act') = Resumed(act)
  <2>1. Len(act') = Len(act) + 1 /\ act'[Len(act')] = e /\ \A i \in 1 .. Len(act) : act'[i] = act[i]
    BY <1>1, <1>5
  <2> QED
    BY <1>1, <2>1, ResumedPop
<1>a. CASE TopLevel
  <2>1. act' = Append(act, Act("main", Main, None, <<>>)) /\ UNCHANGED <<state, result>>
    BY <1>a DEF TopLevel
  <2>2. Act("main", Main, None, <<>>).kind = "main"
    BY DEF Act
  <2>3. Resumed(act') = Resumed(act)
    BY <1>5, <2>1, <2>2
  <2> QED
    BY <1>4, <2>1, <2>3
<1>b. CASE Call \/ Return
  BY <1>3, <1>4, <1>b DEF Call, Return
<1>c. CASE PCall
  <2>1. act' = Append(act, Act("pcall", vm, None, chain[vm])) /\ UNCHANGED <<state, result>>
    BY <1>c DEF PCall
  <2>2. Act("pcall", vm, None, chain[vm]).kind = "pcall"
    BY DEF Act
  <2>3. Resumed(act') = Resumed(act)
    BY <1>5, <2>1, <2>2
  <2> QED
    BY <1>4, <2>1, <2>3
<1>d. ASSUME NEW c \in Cos, Create(c)
      PROVE  UNCHANGED <<Resumed(act), {d \in Cos : state[d] = "dead"}, result>>
  <2>1. state[c] = "none" /\ state' = [state EXCEPT ![c] = "suspended"] /\ UNCHANGED <<act, result>>
    BY <1>d DEF Create
  <2>2. ended2 = ended
    BY <1>1, <2>1
  <2> QED
    BY <1>3, <1>4, <2>1, <2>2
<1>e. ASSUME NEW c \in Cos, Resume(c)
      PROVE  Nesting!Resume(c)
  <2>1. /\ state[c] = "suspended" /\ state' = [state EXCEPT ![c] = "ok"]
        /\ act' = Append(act, Act("resume", c, c, <<>>)) /\ UNCHANGED result
    BY <1>e DEF Resume
  <2>2. Act("resume", c, c, <<>>).kind = "resume" /\ Act("resume", c, c, <<>>).vm = c
    BY DEF Act
  <2>3. Resumed(act') = Append(Resumed(act), c)
    BY <1>5, <2>1, <2>2
  <2>4. ended2 = ended /\ c \notin ended
    BY <1>1, <2>1
  <2>5. ~Nesting!IsRunning(c)
    BY <2>1, OnStack DEF Nested, RunningIsOk, RunByResume
  <2> QED
    BY <2>1, <2>3, <2>4, <2>5 DEF Nesting!Resume
<1>f. ASSUME NEW c \in Cos, Refuse(c)
      PROVE  Nesting!Refuse(c)
  <2>1. state[c] \in {"ok", "dead"} /\ result' = Answer(c, "void") /\ UNCHANGED <<state, act>>
    BY <1>f DEF Refuse
  <2>2. ASSUME state[c] = "ok"
        PROVE  Nesting!IsRunning(c)
    <3>1. PICK i \in 1 .. Len(act) : act[i].vm = c
      BY <2>2 DEF Rooted
    <3>2. PICK j \in 1 .. i : act[j].kind = "resume" /\ act[j].vm = c
      BY <3>1 DEF Awake
    <3>3. j \in 1 .. Len(act)
      BY <1>1, <3>1
    <3> QED
      BY <3>2, <3>3, OnStack DEF RunByResume
  <2>3. c \in ended \/ Nesting!IsRunning(c)
    BY <2>1, <2>2
  <2> QED
    BY <1>3, <2>1, <2>3 DEF Nesting!Refuse, Nesting!Answer, Answer
<1>g. ASSUME NEW w \in {"final", "void"}, Ends(w)
      PROVE  Nesting!End(w)
  <2>1. /\ act # <<>> /\ Top(act).kind = "resume"
        /\ state' = [state EXCEPT ![vm] = "dead"]
        /\ LeaveExecute(WriteSlot(act, vm, Answer(vm, w)), [chain EXCEPT ![vm] = <<>>])
    BY <1>g DEF Ends
  <2>2. /\ Resumed(act) # <<>> /\ Nesting!Top = vm /\ Resumed(act') = Nesting!Pop
        /\ result' = Answer(vm, w)
    <3> DEFINE ch == [chain EXCEPT ![vm] = <<>>]
    <3> HIDE DEF ch
    <3>1. LeaveExecute(WriteSlot(act, vm, Answer(vm, w)), ch)
      BY <2>1 DEF ch
    <3> QED
      BY <2>1, <3>1, ResumeReturns DEF Nesting!Top, Nesting!Pop
  <2>3. ended2 = ended \union {vm}
    BY <1>1, <1>2, <2>1
  <2> QED
    BY <2>2, <2>3 DEF Nesting!End, Nesting!Answer, Answer
<1>h. ASSUME Suspends
      PROVE  Nesting!Yield
  <2>1. /\ act # <<>> /\ Top(act).kind = "resume"
        /\ state' = [state EXCEPT ![vm] = "suspended"]
        /\ LeaveExecute(WriteSlot(act, vm, Answer(vm, "yielded")), chain)
    BY <1>h DEF Suspends
  <2>2. /\ Resumed(act) # <<>> /\ Nesting!Top = vm /\ Resumed(act') = Nesting!Pop
        /\ result' = Answer(vm, "yielded")
    BY <2>1, ResumeReturns DEF Nesting!Top, Nesting!Pop
  <2>3. state[vm] = "ok"
    BY <2>1, TopIsOk
  <2>4. ended2 = ended
    BY <1>1, <1>2, <2>1, <2>3
  <2> QED
    BY <2>2, <2>4 DEF Nesting!Yield, Nesting!Answer, Answer
<1>i. ASSUME Leaves
      PROVE  UNCHANGED <<Resumed(act), {c \in Cos : state[c] = "dead"}, result>>
  <2>1. /\ act # <<>> /\ Top(act).kind # "resume" /\ UNCHANGED state
        /\ LeaveExecute(act, [chain EXCEPT ![vm] = <<>>])
    BY <1>i DEF Leaves
  <2>2. /\ Len(act') = Len(act) - 1 /\ result' = result
        /\ \A i \in 1 .. Len(act) - 1 : act'[i].kind = act[i].kind /\ act'[i].vm = act[i].vm
    BY <2>1, Leaving DEF Nested
  <2>3. Len(act') \in Nat /\ Len(act) = Len(act') + 1
    BY <1>2, <2>1, <2>2
  <2>4. \A i \in 1 .. Len(act') : act'[i].kind = act[i].kind /\ act'[i].vm = act[i].vm
    BY <2>2
  <2>5. Resumed(act) = Resumed(act')
    BY <1>2, <2>1, <2>3, <2>4, ResumedPop
  <2> QED
    BY <1>4, <2>1, <2>2, <2>5
<1>j. CASE UNCHANGED vars
  BY <1>3, <1>4, <1>j DEF vars
<1>k. CASE ReturnRoot \/ Error \/ Yield
  BY <1>g, <1>h, <1>i, <1>k, ReturnsOfExecute DEF Nesting!Next
<1> QED
  BY <1>1, <1>a, <1>b, <1>c, <1>d, <1>e, <1>f, <1>j, <1>k
  DEF Next, Nesting!Next, ResumeBadArity, CallCC, Throw, NoContinuations

LEMMA InitIsNesting == Init => Nesting!Init
<1> SUFFICES ASSUME Init
             PROVE  Nesting!Init
  OBVIOUS
<1>1. act = <<>> /\ result = None /\ \A c \in Cos : state[c] = "none"
  BY ConstantsAssumption DEF Init, VMs
<1>2. Resumed(<<>>) = <<>>
  <2>1. Len(<<>>) = 0 /\ 0 \in 0 .. 0
    OBVIOUS
  <2>2. PICK f : Computes(f, <<>>, 0) /\ Resumed(<<>>) = f[0]
    BY <2>1, ResumedIsComputed
  <2> QED
    BY <2>1, <2>2 DEF Computes
<1>3. {c \in Cos : state[c] = "dead"} = {}
  BY <1>1
<1> QED
  BY <1>1, <1>2, <1>3 DEF Nesting!Init

(* Resume is like a call and yield like a return: the coroutines nest, and *)
(* each resume is answered once, by the coroutine that it ran, with what   *)
(* that one yielded or returned, or void if it failed, whatever pcalls and *)
(* errors do.  (A captured continuation, a yield inside a pcall and a wrong*)
(* number of arguments break it.)                                          *)
THEOREM ResumeLikeCall ==
  ASSUME "nested yield" \notin Uses, "arity" \notin Uses, "callcc" \notin Uses
  PROVE  Spec => ResumeIsCall
<1>1. YieldsInResume /\ NoContinuations
  BY Zenon DEF YieldsInResume, NoContinuations
<1>2. Init => Nesting!Init
  BY InitIsNesting
<1>3. Nested /\ Awake /\ Rooted /\ [Next]_vars
        => [Nesting!Next]_<<Resumed(act), {c \in Cos : state[c] = "dead"}, result>>
  BY <1>1, StepIsNesting
<1>4. Spec => [](Nested /\ Awake) /\ [](Nested /\ Rooted)
  BY <1>1, AlwaysAwake, AlwaysRooted
<1> QED
  BY <1>2, <1>3, <1>4, PTL DEF Spec, ResumeIsCall, Nesting!Spec
=============================================================================
