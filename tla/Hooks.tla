-------------------------------- MODULE Hooks --------------------------------
(***************************************************************************)
(* The hook engine: call, return, line and count events of the interpreter *)
(* loop are reported to a C function or to a Scheme procedure.  A hook     *)
(* interrupts the program between two steps of one instruction.  Its own   *)
(* instructions run on a frame chain of their own, like those of a thunk   *)
(* under pcall: a chain stands for one activation of the interpreter with  *)
(* the frames ReserveStack detached below it.  What the instructions of a  *)
(* procedure do is arbitrary; its line table is given.                     *)
(***************************************************************************)
EXTENDS Integers, Sequences, FiniteSets

CONSTANTS
  Procs,       \* the procedures
  Lines,       \* the line of each instruction of a procedure, by pc + 1
  Masks,       \* the masks programs install
  Counts,      \* the counts they install
  Vals,        \* what procedures return
  MaxChains,   \* bound: activations of the interpreter
  MaxFrames,   \* bound: frames in one of them
  NoValue

HooksAssumption ==
  /\ \A p \in Procs : Lines[p] \in Seq(Nat) \ {<<>>}
  /\ Masks \subseteq SUBSET {"call", "ret", "line", "count"}
  /\ Counts \subseteq Nat
  /\ MaxChains \in Nat /\ MaxFrames \in Nat

VARIABLES
  hook,      \* DebugState::hook # NULL, a C hook is installed
  hookfn,    \* VM::hookfn is not null, a Scheme hook is installed
  mask, count, basecount, allowhook,
  pausedfrm, \* the chain under inspection, 0 for NULL
  ac0,
  chains,    \* the activations, innermost last
  raising,   \* an error is on its way out
  kept,      \* the frames of a continuation the program keeps
  since      \* history: instructions of the program since the last event, with
             \* count as the only event

hookVars == <<hook, hookfn, mask, count, basecount, allowhook, pausedfrm, ac0,
              chains, raising, kept, since>>
engine == <<hook, hookfn, mask, basecount>>
guarded == <<allowhook, pausedfrm>>

(* told is history: the line a hook was last told for this frame.          *)
NewFrame(p) == [proc |-> p, pc |-> Len(Lines[p]) - 1, oldpc |-> -1, told |-> NoValue]
Line(frm, pc) == Lines[frm.proc][pc + 1]

Chain(kind, frames) ==
  [kind |-> kind, frames |-> frames, phase |-> "fetch", savedac |-> NoValue,
   savedfrm |-> 0, value |-> NoValue]

Depth == Len(chains)
Live == chains[Depth]
Beneath == SubSeq(chains, 1, Depth - 1)
HookChains == {i \in DOMAIN chains : chains[i].kind \in {"hook", "C hook"}}
InHook == HookChains # {}

TopOf(c) == c.frames[Len(c.frames)]
WithTop(c, frm) == [c EXCEPT !.frames[Len(c.frames)] = frm]
Replace(c) == [chains EXCEPT ![Depth] = c]
Ready(phase) == ~raising /\ Live.frames # <<>> /\ Live.phase = phase

-----------------------------------------------------------------------------
(* dochook for an event of the live chain, which goes on as c afterwards.  *)
Bit(event) == IF event = "tail-call" THEN "call" ELSE event
Heard(event) == allowhook /\ Bit(event) \in mask /\ (hook \/ hookfn)

(* HookGuard and, for a Scheme hook, the chain of its own.                 *)
HookChain ==
  [Chain(IF hook THEN "C hook" ELSE "hook", <<>>)
     EXCEPT !.savedac = ac0, !.savedfrm = pausedfrm]

Fire(event, c) ==
  IF Heard(event)
  THEN \E p \in IF hook THEN {NoValue} ELSE Procs :
         /\ chains' = Append(Replace(c), [HookChain EXCEPT
              !.frames = IF hook THEN <<>> ELSE <<NewFrame(p)>>])
         /\ allowhook' = FALSE /\ pausedfrm' = Depth
  ELSE chains' = Replace(c) /\ UNCHANGED guarded

(* traceexec, its first half: the count event.                             *)
Counting == "count" \in mask /\ basecount > 0

CountDown ==
  /\ Ready("fetch")
  /\ since' = IF ~InHook /\ Counting /\ mask = {"count"}
              THEN IF count <= 1 /\ Heard("count") THEN 0 ELSE since + 1
              ELSE since
  /\ IF Counting /\ count <= 1
     THEN count' = basecount /\ Fire("count", [Live EXCEPT !.phase = "counted"])
     ELSE /\ count' = IF Counting THEN count - 1 ELSE count
          /\ chains' = Replace([Live EXCEPT !.phase =
               IF mask \intersect {"line", "count"} = {} THEN "exec" ELSE "counted"])
          /\ UNCHANGED guarded
  /\ UNCHANGED <<engine, ac0, raising, kept>>

(* Its second half: a line event for a new line, a jump back and a frame   *)
(* that has just started.                                                  *)
NewLine(frm) ==
  \/ frm.oldpc < 0
  \/ frm.pc > frm.oldpc
  \/ Line(frm, frm.pc) # Line(frm, frm.oldpc)

LineCheck ==
  /\ Ready("counted")
  /\ LET frm == TopOf(Live)
         seen == [frm EXCEPT !.oldpc = frm.pc]
         told == [seen EXCEPT !.told = Line(frm, frm.pc)]
         on(f) == [WithTop(Live, f) EXCEPT !.phase = "exec"]
     IN IF "line" \in mask /\ NewLine(frm)
        THEN Fire("line", on(IF Heard("line") THEN told ELSE seen))
        ELSE /\ chains' = Replace(on(IF "line" \in mask THEN seen ELSE frm))
             /\ UNCHANGED guarded
  /\ UNCHANGED <<engine, count, ac0, raising, kept, since>>

-----------------------------------------------------------------------------
(* The instruction itself.  pcnext: the next lower pc.                     *)
MayStep == Ready("exec") /\ TopOf(Live).pc > 0
Next1(frm) == [frm EXCEPT !.pc = frm.pc - 1]
Stepped == [WithTop(Live, Next1(TopOf(Live))) EXCEPT !.phase = "fetch"]

Plain ==
  /\ MayStep
  /\ chains' = Replace(Stepped)
  /\ UNCHANGED <<engine, count, guarded, ac0, raising, kept, since>>

Jump ==
  /\ MayStep
  /\ \E pc \in 0 .. Len(Lines[TopOf(Live).proc]) - 1 :
       chains' = Replace([WithTop(Live, [TopOf(Live) EXCEPT !.pc = pc])
                            EXCEPT !.phase = "fetch"])
  /\ UNCHANGED <<engine, count, guarded, ac0, raising, kept, since>>

Call(p) ==
  /\ MayStep /\ Len(Live.frames) < MaxFrames
  /\ Fire("call", [Live EXCEPT !.frames = Append(@, NewFrame(p)), !.phase = "fetch"])
  /\ UNCHANGED <<engine, count, ac0, raising, kept, since>>

TailCall(p) ==
  /\ MayStep
  /\ Fire("tail-call", [WithTop(Live, NewFrame(p)) EXCEPT !.phase = "fetch"])
  /\ UNCHANGED <<engine, count, ac0, raising, kept, since>>

(* retlab: the event, then callrtnfrm.                                     *)
Return(v) ==
  /\ Ready("exec") /\ TopOf(Live).pc = 0
  /\ ac0' = v
  /\ IF Heard("ret")
     THEN \E p \in IF hook THEN {NoValue} ELSE Procs :
            /\ chains' = Append(Replace([Live EXCEPT !.phase = "leave", !.value = v]),
                 [HookChain EXCEPT !.savedac = v,
                    !.frames = IF hook THEN <<>> ELSE <<NewFrame(p)>>])
            /\ allowhook' = FALSE /\ pausedfrm' = Depth
     ELSE /\ chains' = Replace([Live EXCEPT !.phase = "leave", !.value = v])
          /\ UNCHANGED guarded
  /\ UNCHANGED <<engine, count, raising, kept, since>>

Leave ==
  /\ Ready("leave")
  /\ LET outer == SubSeq(Live.frames, 1, Len(Live.frames) - 1)
         left == [Live EXCEPT !.frames = outer, !.phase = "fetch", !.value = NoValue]
     IN chains' = Replace(IF outer = <<>> THEN left ELSE WithTop(left, Next1(TopOf(left))))
  /\ UNCHANGED <<engine, count, guarded, ac0, raising, kept, since>>

-----------------------------------------------------------------------------
(* pcall: the thunk runs in a nested activation; what it returns, or its   *)
(* error, is the value of the instruction that called pcall.               *)
Pcall(p) ==
  /\ MayStep /\ Depth < MaxChains
  /\ chains' = Append(chains, Chain("pcall", <<NewFrame(p)>>))
  /\ UNCHANGED <<engine, count, guarded, ac0, raising, kept, since>>

PcallDone ==
  /\ Live.kind = "pcall"
  /\ raising \/ Live.frames = <<>>
  /\ LET caller == Beneath[Depth - 1]
     IN chains' = [Beneath EXCEPT ![Depth - 1] =
                     [WithTop(caller, Next1(TopOf(caller))) EXCEPT !.phase = "fetch"]]
  /\ raising' = FALSE
  /\ UNCHANGED <<engine, count, guarded, ac0, kept, since>>

(* Mutant: the accumulator is left as the hook made it.                    *)
HookDoneRaw ==
  /\ Live.kind \in {"hook", "C hook"}
  /\ raising \/ Live.frames = <<>>
  /\ chains' = Beneath
  /\ allowhook' = TRUE
  /\ pausedfrm' = Live.savedfrm
  /\ UNCHANGED <<engine, count, ac0, raising, kept, since>>

(* ~HookGuard, when the hook has returned and when it has raised; then the *)
(* error goes on in the program.                                           *)
HookDone ==
  /\ Live.kind \in {"hook", "C hook"}
  /\ raising \/ Live.frames = <<>>
  /\ chains' = Beneath
  /\ ac0' = Live.savedac
  /\ allowhook' = TRUE
  /\ pausedfrm' = Live.savedfrm
  /\ UNCHANGED <<engine, count, raising, kept, since>>

Raise ==
  /\ ~raising /\ (Ready("exec") \/ Live.kind = "C hook")
  /\ raising' = TRUE
  /\ UNCHANGED <<engine, count, guarded, ac0, chains, kept, since>>

(* The host prints what reached it and evaluates another form.             *)
HostEval(p) ==
  /\ Depth = 1
  /\ raising \/ Live.frames = <<>>
  /\ chains' = <<Chain("main", <<NewFrame(p)>>)>>
  /\ raising' = FALSE
  /\ UNCHANGED <<engine, count, guarded, ac0, kept, since>>

-----------------------------------------------------------------------------
(* call/cc keeps the frames of the chain; invoking the continuation puts   *)
(* them in the place of the frames of the chain that runs then, and they   *)
(* go on after the instruction that captured them.                         *)
Capture ==
  /\ MayStep /\ ~InHook /\ kept = <<>>
  /\ kept' = Live.frames
  /\ chains' = Replace(Stepped)
  /\ UNCHANGED <<engine, count, guarded, ac0, raising, since>>

Invoke ==
  /\ MayStep /\ kept # <<>>
  /\ LET there == [Live EXCEPT !.frames = kept, !.phase = "fetch"]
     IN chains' = Replace(WithTop(there, Next1(TopOf(there))))
  /\ kept' = <<>>
  /\ UNCHANGED <<engine, count, guarded, ac0, raising, since>>

-----------------------------------------------------------------------------
(* seedlinehistory walks the chain of curfrm, which a C hook has in common *)
(* with the program it interrupts.                                         *)
Seeded(c) == [c EXCEPT !.frames = [i \in DOMAIN c.frames |->
  [c.frames[i] EXCEPT !.oldpc = c.frames[i].pc,
                      !.told = Line(c.frames[i], c.frames[i].pc)]]]

SetHook(byC, m, n) ==
  /\ hook' = byC /\ hookfn' = ~byC
  /\ mask' = m /\ basecount' = n /\ count' = n /\ since' = 0

(* debug-sethook, and a native procedure of the host that calls sethook.   *)
Install(byC, m, n) ==
  /\ MayStep
  /\ SetHook(byC, m, n)
  /\ LET at == IF "line" \in m THEN Seeded(Live) ELSE Live
     IN chains' = Replace([WithTop(at, Next1(TopOf(at))) EXCEPT !.phase = "fetch"])
  /\ UNCHANGED <<guarded, ac0, raising, kept>>

(* A C hook installs another hook.                                         *)
CHookInstalls(byC, m, n) ==
  /\ Live.kind = "C hook" /\ ~raising
  /\ SetHook(byC, m, n)
  /\ chains' = IF "line" \in m
               THEN [chains EXCEPT ![Depth - 1] = Seeded(chains[Depth - 1])]
               ELSE chains
  /\ UNCHANGED <<guarded, ac0, raising, kept>>

(* debug-sethook without a procedure: clearhook.                           *)
Clear ==
  /\ MayStep
  /\ hook' = FALSE /\ hookfn' = FALSE /\ mask' = {}
  /\ basecount' = 0 /\ count' = 0 /\ since' = 0
  /\ chains' = Replace(Stepped)
  /\ UNCHANGED <<guarded, ac0, raising, kept>>

HooksInit ==
  /\ hook = FALSE /\ hookfn = FALSE /\ mask = {}
  /\ count = 0 /\ basecount = 0 /\ allowhook = TRUE /\ pausedfrm = 0
  /\ ac0 = NoValue /\ raising = FALSE /\ kept = <<>> /\ since = 0
  /\ \E p \in Procs : chains = <<Chain("main", <<NewFrame(p)>>)>>

HooksNext ==
  \/ CountDown \/ LineCheck \/ Plain \/ Jump \/ Leave
  \/ PcallDone \/ HookDone \/ Raise \/ Capture \/ Invoke \/ Clear
  \/ \E p \in Procs : Call(p) \/ TailCall(p) \/ Pcall(p) \/ HostEval(p)
  \/ \E v \in Vals : Return(v)
  \/ \E byC \in BOOLEAN, m \in Masks, n \in Counts :
       /\ "count" \in m => n > 0
       /\ Install(byC, m, n) \/ CHookInstalls(byC, m, n)

HooksSpec == HooksInit /\ [][HooksNext]_hookVars

-----------------------------------------------------------------------------
(* The variables hold values of their types.                               *)
HooksTypeOK ==
  /\ {hook, hookfn, allowhook, raising} \subseteq BOOLEAN
  /\ mask \in Masks \union {{}} /\ {count, basecount, since} \subseteq Nat
  /\ ac0 \in Vals \union {NoValue}
  /\ \A i \in DOMAIN chains : \A frm \in {chains[i].frames[j] : j \in DOMAIN chains[i].frames} :
       /\ frm.proc \in Procs /\ frm.pc \in 0 .. Len(Lines[frm.proc]) - 1
       /\ frm.oldpc \in -1 .. Len(Lines[frm.proc]) - 1

(* Whatever a hook does - return, raise, install, clear, run pcall, invoke *)
(* a continuation of the program - no hook is called inside of a hook,     *)
(* hooks are on again as soon as it is left, and the chain the inspection  *)
(* procedures look at is the interrupted one exactly while it runs.        *)
HooksRunAlone ==
  /\ Cardinality(HookChains) <= 1
  /\ allowhook <=> ~InHook
  /\ IF InHook THEN pausedfrm + 1 \in HookChains ELSE pausedfrm = 0

(* The value a procedure returns is still in the accumulator when the ret  *)
(* hook is through.                                                        *)
ReturnValueKept == Ready("leave") => ac0 = Live.value

(* When count is the only event, the program never executes more than the  *)
(* given number of instructions without it, although the instructions of   *)
(* hooks are counted too.  (With further events a hook may be running when *)
(* the count runs out, and that event is lost.)                            *)
CountIsDue == mask = {"count"} => since <= basecount

(* While line events are on, no instruction of the program is executed on  *)
(* a line that no hook was told of in this frame.                          *)
LineIsTold ==
  (Ready("exec") /\ "line" \in mask /\ ~InHook) =>
     TopOf(Live).told = Line(TopOf(Live), TopOf(Live).pc)

(* The event after a hook is handled as if the hook had not been there, as *)
(* HookGuard promises.                                                     *)
HooksAreExact == HooksRunAlone /\ ReturnValueKept /\ CountIsDue /\ LineIsTold
=============================================================================
