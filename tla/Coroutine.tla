------------------------------ MODULE Coroutine ------------------------------
(***************************************************************************)
(* Coroutines of the VM.  Each coroutine is a VM object of its own with a  *)
(* chain of frames; resume runs it in a C++ call of execute0, and yield    *)
(* returns from that call.  The C++ calls nest, and pcall adds one more    *)
(* execute0 on the VM it is called in, whose frames start a chain of their *)
(* own (ReserveStack).  Which C++ call returns, and which frames it leaves *)
(* behind, is what this module is about; of a frame it keeps only whether  *)
(* it is the root the coroutine was created with, and whether a            *)
(* continuation has captured it, since a captured frame is copied before   *)
(* it runs again.                                                          *)
(***************************************************************************)
EXTENDS Naturals, Sequences

CONSTANTS
  Cos,        \* the coroutines
  Main,       \* the main VM
  None,
  Uses,       \* what the Scheme program does: see Features
  MaxFrames,  \* bound: frames in a chain
  MaxActs     \* bound: nested C++ calls of execute0

(* Capture continuations, call pcall, yield inside a pcall, give a         *)
(* coroutine the wrong number of arguments.                                *)
Features == {"callcc", "pcall", "nested yield", "arity"}

ASSUME ConstantsAssumption ==
  /\ Main \notin Cos /\ None \notin Cos \union {Main}
  /\ Uses \subseteq Features
  /\ MaxFrames \in Nat \ {0} /\ MaxActs \in Nat \ {0}

VMs == Cos \union {Main}

VARIABLES
  state,      \* CoState of each VM, "none" before coroutine-create
  chain,      \* the frames from the root to curfrm, of each VM
  callerstk,  \* the VM that resumed it last
  resslot,    \* where the resume waits whose result slot was handed over
  act,        \* the nested calls of execute0, the running one last
  saved,      \* the frames of the one continuation the program keeps
  result      \* what the last resume expression to end evaluated to

vars == <<state, chain, callerstk, resslot, act, saved, result>>

(* A frame: the root object c0, one that a continuation holds, another.    *)
FrameKinds == {"c0", "frozen", "own"}

Front(s) == SubSeq(s, 1, Len(s) - 1)
Top(s) == s[Len(s)]
Answer(c, what) == [from |-> c, what |-> what]

(* A call of execute0 for vm.  "below" are the frames ReserveStack set     *)
(* aside, "of" the coroutine a resume asked for, "slot" the call-site slot *)
(* of the resume expression, which holds the called procedure until a      *)
(* result is written to it.                                                *)
Act(kind, vm, of, below) ==
  [kind |-> kind, vm |-> vm, of |-> of, below |-> below, slot |-> Answer(of, "procedure")]

vm == Top(act).vm

(* A program step: execute0 is running some frame.                         *)
Runs == act # <<>> /\ chain[vm] # <<>>

(* Mutant: the result is not written.                                      *)
WriteNoSlot(s, c, v) == s

(* Write v through the pointer resslot of c, in the call stack s.          *)
WriteSlot(s, c, v) == [s EXCEPT ![resslot[c]].slot = v]

(* The running execute0 returns, with the call stack s and the chains ch:  *)
(* a resume expression ends with what its slot holds, a pcall puts back    *)
(* the frames it had set aside.                                            *)
LeaveExecute(s, ch) ==
  /\ act' = Front(s)
  /\ result' = IF Top(s).kind = "resume" THEN Top(s).slot ELSE result
  /\ chain' = IF Top(s).kind = "pcall" THEN [ch EXCEPT ![vm] = Top(s).below] ELSE ch

-----------------------------------------------------------------------------
(* Calls, returns, continuations.                                          *)

TopLevel ==
  /\ act = <<>>
  /\ act' = <<Act("main", Main, None, <<>>)>>
  /\ chain' = [chain EXCEPT ![Main] = <<"own">>]
  /\ UNCHANGED <<state, callerstk, resslot, saved, result>>

Call ==
  /\ Runs /\ Len(chain[vm]) < MaxFrames
  /\ chain' = [chain EXCEPT ![vm] = Append(@, "own")]
  /\ UNCHANGED <<state, callerstk, resslot, act, saved, result>>

(* callrtnfrm with an owner: a captured owner is replaced by a copy.       *)
Return ==
  /\ Runs /\ Len(chain[vm]) > 1
  /\ LET owners == Front(chain[vm])
     IN  chain' = [chain EXCEPT ![vm] =
                     Append(Front(owners), IF Top(owners) = "frozen" THEN "own" ELSE Top(owners))]
  /\ UNCHANGED <<state, callerstk, resslot, act, saved, result>>

(* callrtnfrm without one: the coroutine is over if this was its root.     *)
ReturnRoot ==
  /\ Runs /\ Len(chain[vm]) = 1
  /\ IF callerstk[vm] # None /\ Top(chain[vm]) = "c0"
     THEN /\ state' = [state EXCEPT ![vm] = "dead"]
          /\ LeaveExecute(WriteSlot(act, vm, Answer(vm, "final")), [chain EXCEPT ![vm] = <<>>])
     ELSE /\ LeaveExecute(act, [chain EXCEPT ![vm] = <<>>])
          /\ UNCHANGED state
  /\ UNCHANGED <<callerstk, resslot, saved>>

(* All frames are captured, and the running one goes on as a copy.         *)
Frozen(ch) == [i \in 1 .. Len(ch) |-> "frozen"]
CallCC ==
  /\ Runs /\ "callcc" \in Uses
  /\ saved' = Frozen(chain[vm])
  /\ chain' = [chain EXCEPT ![vm] = Append(Front(Frozen(@)), "own")]
  /\ UNCHANGED <<state, callerstk, resslot, act, result>>

(* Whichever VM the continuation was captured in, this one runs it.        *)
Throw ==
  /\ Runs /\ saved # <<>>
  /\ chain' = [chain EXCEPT ![vm] = Append(Front(saved), "own")]
  /\ UNCHANGED <<state, callerstk, resslot, act, saved, result>>

PCall ==
  /\ Runs /\ "pcall" \in Uses /\ Len(act) < MaxActs
  /\ act' = Append(act, Act("pcall", vm, None, chain[vm]))
  /\ chain' = [chain EXCEPT ![vm] = <<"own">>]
  /\ UNCHANGED <<state, callerstk, resslot, saved, result>>

(* Mutant: the frames of the coroutine that failed are kept.               *)
ErrorKeepingFrames ==
  /\ act # <<>>
  /\ IF Top(act).kind = "resume"
     THEN /\ state' = [state EXCEPT ![vm] = "dead"]
          /\ LeaveExecute(WriteSlot(act, vm, Answer(vm, "void")), chain)
     ELSE /\ LeaveExecute(act, [chain EXCEPT ![vm] = <<>>])
          /\ UNCHANGED state
  /\ UNCHANGED <<callerstk, resslot, saved>>

(* An error unwinds to the innermost C++ handler: the pcall, the resume    *)
(* boundary (the coroutine dies), or the end of the program.               *)
Error ==
  /\ act # <<>>
  /\ IF Top(act).kind = "resume"
     THEN /\ state' = [state EXCEPT ![vm] = "dead"]
          /\ LeaveExecute(WriteSlot(act, vm, Answer(vm, "void")), [chain EXCEPT ![vm] = <<>>])
     ELSE /\ LeaveExecute(act, [chain EXCEPT ![vm] = <<>>])
          /\ UNCHANGED state
  /\ UNCHANGED <<callerstk, resslot, saved>>

-----------------------------------------------------------------------------
(* Coroutines.                                                             *)

Create(c) ==
  /\ Runs /\ state[c] = "none"
  /\ state' = [state EXCEPT ![c] = "suspended"]
  /\ chain' = [chain EXCEPT ![c] = <<"c0">>]
  /\ UNCHANGED <<callerstk, resslot, act, saved, result>>

(* A coroutine that is not suspended is not resumed.                       *)
Refuse(c) ==
  /\ Runs /\ state[c] \in {"ok", "dead"}
  /\ result' = Answer(c, "void")
  /\ UNCHANGED <<state, chain, callerstk, resslot, act, saved>>

(* Mutant: a coroutine that runs is resumed.                               *)
ResumeRunning(c) ==
  /\ Runs /\ state[c] \in {"suspended", "ok"}
  /\ chain[c] # <<>>
  /\ Len(act) < MaxActs
  /\ state' = [state EXCEPT ![c] = "ok"]
  /\ callerstk' = [callerstk EXCEPT ![c] = vm]
  /\ resslot' = [resslot EXCEPT ![c] = Len(act) + 1]
  /\ act' = Append(act, Act("resume", c, c, <<>>))
  /\ UNCHANGED <<chain, saved, result>>

Resume(c) ==
  /\ Runs /\ state[c] = "suspended"
  /\ chain[c] # <<>>
  /\ Len(act) < MaxActs
  /\ state' = [state EXCEPT ![c] = "ok"]
  /\ callerstk' = [callerstk EXCEPT ![c] = vm]
  /\ resslot' = [resslot EXCEPT ![c] = Len(act) + 1]
  /\ act' = Append(act, Act("resume", c, c, <<>>))
  /\ UNCHANGED <<chain, saved, result>>

(* The first resume of a coroutine with the wrong number of arguments      *)
(* fails in placefirstargs, after the state has been set, in the resumer.  *)
ResumeBadArity(c) ==
  /\ Runs /\ "arity" \in Uses
  /\ state[c] = "suspended" /\ callerstk[c] = None
  /\ state' = [state EXCEPT ![c] = "ok",
                            ![vm] = IF Top(act).kind = "resume" THEN "dead" ELSE @]
  /\ callerstk' = [callerstk EXCEPT ![c] = vm]
  /\ resslot' = [resslot EXCEPT ![c] = 0]
  /\ LeaveExecute(IF Top(act).kind = "resume" THEN WriteSlot(act, vm, Answer(vm, "void")) ELSE act,
                  [chain EXCEPT ![vm] = <<>>])
  /\ UNCHANGED saved

(* Mutants: the main program may yield; the state is not set.              *)
YieldAnywhere ==
  /\ Runs /\ state[vm] = "ok"
  /\ Top(act).kind # "resume" => "nested yield" \in Uses \/ vm = Main
  /\ state' = [state EXCEPT ![vm] = "suspended"]
  /\ LeaveExecute(IF vm = Main THEN act ELSE WriteSlot(act, vm, Answer(vm, "yielded")), chain)
  /\ UNCHANGED <<callerstk, resslot, saved>>

YieldUnmarked ==
  /\ Runs /\ vm # Main /\ state[vm] = "ok"
  /\ Top(act).kind # "resume" => "nested yield" \in Uses
  /\ LeaveExecute(WriteSlot(act, vm, Answer(vm, "yielded")), chain)
  /\ UNCHANGED <<state, callerstk, resslot, saved>>

(* Yield writes the result slot of the resume and leaves the innermost     *)
(* execute0, whichever call that is.                                       *)
Yield ==
  /\ Runs /\ vm # Main /\ state[vm] = "ok"
  /\ Top(act).kind # "resume" => "nested yield" \in Uses
  /\ state' = [state EXCEPT ![vm] = "suspended"]
  /\ LeaveExecute(WriteSlot(act, vm, Answer(vm, "yielded")), chain)
  /\ UNCHANGED <<callerstk, resslot, saved>>

Init ==
  /\ state = [v \in VMs |-> IF v = Main THEN "ok" ELSE "none"]
  /\ chain = [v \in VMs |-> <<>>]
  /\ callerstk = [v \in VMs |-> None]
  /\ resslot = [v \in VMs |-> 0]
  /\ act = <<>> /\ saved = <<>> /\ result = None

Next ==
  \/ TopLevel \/ Call \/ Return \/ ReturnRoot
  \/ CallCC \/ Throw \/ PCall \/ Error
  \/ \E c \in Cos : Create(c) \/ Refuse(c) \/ Resume(c) \/ ResumeBadArity(c)
  \/ Yield

Spec == Init /\ [][Next]_vars

-----------------------------------------------------------------------------
(* Properties.                                                             *)

Answers == [from : Cos \union {None}, what : {"procedure", "yielded", "final", "void"}]

TypeOK ==
  /\ state \in [VMs -> {"none", "ok", "suspended", "dead"}]
  /\ state[Main] = "ok"
  /\ chain \in [VMs -> Seq(FrameKinds)]
  /\ callerstk \in [VMs -> VMs \union {None}]
  /\ resslot \in [VMs -> Nat]
  /\ act \in Seq([kind : {"main", "resume", "pcall"}, vm : VMs, of : Cos \union {None},
                  below : Seq(FrameKinds), slot : Answers])
  /\ saved \in Seq(FrameKinds)
  /\ result \in Answers \union {None}

(* The call stack positions at which a coroutine is being run by a resume. *)
Resumes == {i \in 1 .. Len(act) : act[i].kind = "resume"}

(* coroutine-status, asked by the running code (costatename).              *)
Status(c) ==
  CASE state[c] = "suspended" -> "suspended"
    [] state[c] = "dead" -> "dead"
    [] c = vm -> "running"
    [] c # vm /\ state[c] = "ok" /\ chain[c] # <<>> -> "normal"
    [] OTHER -> "suspended"

(* The VMs of the resumes in a call stack, outermost first.                *)
Resumed(s) ==
  LET upto[n \in 0 .. Len(s)] ==
        IF n = 0 THEN <<>>
        ELSE IF s[n].kind = "resume" THEN Append(upto[n - 1], s[n].vm)
        ELSE upto[n - 1]
  IN  upto[Len(s)]

(* Resume is like a call and yield like a return: coroutines nest, each    *)
(* resume is answered once, by the coroutine it ran, with what that one    *)
(* yielded or returned, and the one that ended is dead.                    *)
Nesting ==
  INSTANCE CoroutineSpec WITH
    running <- Resumed(act),
    dead <- {c \in Cos : state[c] = "dead"}
ResumeIsCall == Nesting!Spec

(* No coroutine is resumed while it runs or waits for one it resumed.      *)
NotReentered == \A i, j \in Resumes : act[i].vm = act[j].vm => i = j

(* Each resume hands its own VM to the coroutine as the one to go back to, *)
(* and that VM is the one running below it.                                *)
CallersWait == \A i \in Resumes : i > 1 /\ callerstk[act[i].vm] = act[i - 1].vm

(* "checking self = running" (aftertest.scm): a coroutine that asks for    *)
(* its own status is told that it runs.                                    *)
SelfIsRunning == Runs /\ vm # Main => Status(vm) = "running"

(* "nested-and-suspended = normal" (aftertest.scm): a coroutine called     *)
(* normal is waiting for a coroutine it resumed.                           *)
NormalIsWaiting ==
  act # <<>> => \A c \in Cos : Status(c) = "normal" => \E i \in Resumes : act[i].vm = c

(* A dead coroutine has no frames left, and nothing runs on it.            *)
DeadIsOver ==
  \A c \in Cos : state[c] = "dead" => chain[c] = <<>> /\ \A i \in 1 .. Len(act) : act[i].vm # c

(* A suspended coroutine has the frame that yielded: resume can go on.     *)
SuspendedIsResumable == \A c \in Cos : state[c] = "suspended" => chain[c] # <<>>

(* "When the body ends, resume returns the final value" (aftertest.scm): a *)
(* resume expression never evaluates to what its slot held before.         *)
ResumeGivesValue == result # None => result.what # "procedure"

(* Coroutines that run form a stack: each is in it once, and above the one *)
(* that resumed it (coresume, callerstk).                                  *)
ResumesNest == NotReentered /\ CallersWait

(* What a coroutine's state says is true of its frames: the dead one has   *)
(* none and runs nowhere, the suspended one can go on, the one that asks   *)
(* runs (costatename, coresume).                                           *)
StateIsTrue == DeadIsOver /\ SuspendedIsResumable /\ SelfIsRunning
=============================================================================
