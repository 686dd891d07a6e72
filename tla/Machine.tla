------------------------------- MODULE Machine ------------------------------
(***************************************************************************)
(* The virtual machine: execute0 on the code of Compiler.tla, with the     *)
(* frames, stack segments and continuations of vm.cpp.  A frame is a       *)
(* window of slots on a segment; the arguments a caller has put down are   *)
(* the first slots of the callee's window.  A continuation does not copy   *)
(* the stack: it freezes the segments of the frames it holds, and a frozen *)
(* frame that would be written is copied first (cowfrm).                   *)
(*                                                                         *)
(* Slots are numbered from the frame's base; slot 0 is the closure, slots  *)
(* 1.. the locals, the rest are temporaries.                               *)
(***************************************************************************)
EXTENDS Syntax, Integers, FiniteSets, SequencesExt, TLC

CONSTANTS
  SegSize,       \* SEGMENT_SLOTS_SIZE
  Show(_, _)     \* what is printed of a value, with the lists on the heap

ASSUME SegSizeAssumption == SegSize \in Nat \ {0}

VARIABLES
  code,      \* per top-level form: the lambdas its compilation gave
  form,      \* the form being run
  mode,      \* "idle", "run", "call" (in callproc), "ret" (at retlab), "error", "done"
  frames, segs, cur,   \* CallFrame and StackSegment objects; vm->curfrm
  reg,       \* the frame in whose window the base of execute0 points
  app,       \* the call that callproc is about to make
  heap,      \* closures, boxes, pairs, continuations, ports
  genv,      \* the global environment
  results    \* what each form gave

machineVars == <<code, form, mode, frames, segs, cur, reg, app, heap, genv, results>>

NewSegment == [frozen |-> 0, slots |-> [i \in 0 .. SegSize - 1 |-> Void]]
EmptyHeap == [clos |-> <<>>, boxes |-> <<>>, pairs |-> <<>>, conts |-> <<>>, ports |-> <<>>]

CloRef(id)  == [t |-> "clo", id |-> id]
ContRef(id) == [t |-> "cont", id |-> id]
BoxRef(id)  == [t |-> "box", id |-> id]
PairRef(id) == [t |-> "pair", id |-> id]
PortRef(id) == [t |-> "port", id |-> id]
Bad         == [t |-> "bad"]       \* singlevalue raises

\* A call in progress: the slot of the procedure, the number of arguments, and
\* the CallAppState the complex natives leave for the next round.
Call(k, len, istail) == [k |-> k, len |-> len, istail |-> istail, fromapply |-> FALSE,
                         callcc |-> FALSE, unwind |-> "none"]
NoCall == Call(1, 0, FALSE)

MachineInit(compiled) ==
  /\ code = compiled
  /\ form = 0 /\ mode = "idle"
  /\ frames = <<>> /\ segs = <<>> /\ cur = 0 /\ reg = 0 /\ app = NoCall
  /\ heap = EmptyHeap
  /\ genv = [x \in {} |-> Void]
  /\ results = <<>>

-----------------------------------------------------------------------------
(* Lists on the heap *)

ConsOn(h, a, d) ==
  [heap |-> [h EXCEPT !.pairs = Append(@, [a |-> a, d |-> d])],
   v |-> PairRef(Len(h.pairs) + 1)]

ListOn(h, s, tail) ==
  LET n == Len(s)
      first == Len(h.pairs)
      cell(i) == [a |-> s[n + 1 - i], d |-> IF i = 1 THEN tail ELSE PairRef(first + i - 1)]
  IN  [heap |-> [h EXCEPT !.pairs = @ \o [i \in 1 .. n |-> cell(i)]],
       v |-> IF n = 0 THEN tail ELSE PairRef(first + n)]

\* What is left of a list after some of its pairs.
RestOf(h, v) == IF v.t = "pair" THEN h.pairs[v.id].d ELSE v
Rests(h, v) ==
  LET rest[i \in 0 .. Len(h.pairs)] == IF i = 0 THEN v ELSE RestOf(h, rest[i - 1])
  IN  rest
PairCount(rest) == Cardinality({i \in DOMAIN rest : rest[i].t = "pair"})

\* The items of a list; Bad comes last when it is not one.
ItemsOf(h, v) ==
  LET rest == Rests(h, v)
      n    == PairCount(rest)
  IN  [i \in 1 .. n |-> h.pairs[rest[i - 1].id].a]
        \o IF rest[Len(h.pairs)].t = "nil" THEN <<>> ELSE <<Bad>>
IsListOn(h, v) == Rests(h, v)[Len(h.pairs)].t = "nil"

\* SCM::append: the last pair of the first list is made to point to the second
\* one.  The first list is the one given, not a copy.
LastPair(h, v) == LET rest == Rests(h, v) IN rest[PairCount(rest) - 1].id
AppendOn(h, v, tail) ==
  CASE v.t = "nil"  -> [heap |-> h, v |-> tail]
    [] v.t = "pair" -> [heap |-> [h EXCEPT !.pairs[LastPair(h, v)].d = tail], v |-> v]
    [] OTHER        -> [heap |-> h, v |-> Bad]

\* Several values are one object with the list of them.
ValuesRef(l) == [t |-> "values", l |-> l]
SingleValue(h, v) ==
  LET items == ItemsOf(h, v.l)
  IN  IF v.t # "values" THEN v ELSE IF Len(items) = 1 THEN items[1] ELSE Bad

-----------------------------------------------------------------------------
(* Frames.  m is the part of the state a call changes.                      *)

M == [frames |-> frames, segs |-> segs, cur |-> cur, heap |-> heap]
Top(m) == m.frames[m.cur]
At(m, k) == m.segs[Top(m).seg].slots[Top(m).base + k]
Put(m, k, v) == [m EXCEPT !.segs[Top(m).seg].slots[Top(m).base + k] = v]
LambdaOf(h, clo) == code[h.clos[clo.id].lam[1]].lams[h.clos[clo.id].lam[2]]

Slot(k) == At(M, k)
Lam == LambdaOf(heap, Slot(0))
Ins == Lam.code[frames[cur].pc + 1]
RetSlot(lam) == 1 + Len(lam.local)

AddSegment(m) == [m EXCEPT !.segs = Append(@, NewSegment)]

\* CallFrame::copy, and a segment of its own when the original's is frozen.
CowFrame(m, f) ==
  LET src == m.frames[f]
      n   == src.top - src.base
      m1  == AddSegment(m)
      s   == Len(m1.segs)
      dst == [src EXCEPT !.seg = s, !.base = 0, !.top = n]
      id  == Len(m.frames) + 1
  IN  IF m.segs[src.seg].frozen > 0
      THEN [m |-> [m1 EXCEPT !.frames = Append(@, dst),
                             !.segs[s].slots = [i \in 0 .. SegSize - 1 |->
                                IF i < n THEN m.segs[src.seg].slots[src.base + i] ELSE Void]],
            id |-> id]
      ELSE [m |-> [m EXCEPT !.frames = Append(@, src)], id |-> id]

\* newfrm, from the call site at slot k: the callee's window begins there, unless
\* the segment is frozen or full.
NewFrame(m, k, argnum, arity) ==
  LET f    == Top(m)
      slot == f.base + k
      id   == Len(m.frames) + 1
      new(seg, base) == [pc |-> -1, seg |-> seg, prev |-> m.cur,
                         start |-> [seg |-> f.seg, off |-> slot],
                         base |-> base, top |-> base + 1 + arity, unwind |-> "none"]
      m1   == AddSegment(m)
      s    == Len(m1.segs)
      args == [i \in 0 .. argnum |-> m.segs[f.seg].slots[slot + i]]
  IN  IF m.segs[f.seg].frozen > 0 \/ slot + 1 + arity >= SegSize
      THEN [m1 EXCEPT !.frames = Append(@, new(s, 0)), !.segs[s].slots = args @@ @, !.cur = id]
      ELSE [m EXCEPT !.frames = Append(@, new(f.seg, slot)), !.cur = id]

\* A variable that is assigned, or captured by an inner lambda, is in a box.
Boxed(lam, i) == lam.local[i].capture \/ lam.local[i].assigned

\* setvoid over the locals and temporaries, then boxcapturedlocals: a box is kept
\* for every local, the slots of the boxed ones point to theirs.
ClearAndBox(m, lam) ==
  LET f == Top(m)
      n == Len(lam.local)
      clear(slots, i) == IF f.base + lam.argnum < i /\ i < f.top THEN Void ELSE slots[i]
      boxed(i) == i - f.base \in 1 .. n /\ Boxed(lam, i - f.base)
      old == m.segs[f.seg].slots
  IN  [m EXCEPT !.heap.boxes = @ \o [i \in 1 .. n |-> clear(old, f.base + i)],
                !.segs[f.seg].slots = [i \in 0 .. SegSize - 1 |->
                   IF boxed(i) THEN BoxRef(Len(m.heap.boxes) + i - f.base) ELSE clear(old, i)]]

\* ensurearity: the arguments in slots k+1.., the rest ones gathered in a list.
\* With apply they arrive as one list.  FALSE when they do not fit.
ArityOk(n, argnum, rest) == IF rest THEN n >= argnum - 1 ELSE n = argnum

PutAll(m, k, vals) ==   \* in the slots after k
  LET at == Top(m).base + k
  IN  [m EXCEPT !.segs[Top(m).seg].slots = [i \in 0 .. SegSize - 1 |->
         IF i - at \in 1 .. Len(vals) THEN vals[i - at] ELSE @[i]]]

PlaceArgs(m, k, args, argnum, rest) ==
  LET gathered == ListOn(m.heap, SubSeq(args, argnum, Len(args)), Nil)
  IN  IF rest THEN PutAll([m EXCEPT !.heap = gathered.heap], k,
                          Append(SubSeq(args, 1, argnum - 1), gathered.v))
      ELSE PutAll(m, k, args)

-----------------------------------------------------------------------------
(* callproc                                                                  *)

Outcome(m, act) == [m |-> m, act |-> act]

Args(m, c) ==
  IF c.fromapply THEN ItemsOf(m.heap, At(m, c.k + 1))
  ELSE [i \in 1 .. c.len |-> SingleValue(m.heap, At(m, c.k + i))]
RawArgs(m, c) ==
  IF c.fromapply THEN ItemsOf(m.heap, At(m, c.k + 1)) ELSE [i \in 1 .. c.len |-> At(m, c.k + i)]

\* ctorclosurefrm.  A tail call keeps the frame, its start and its unwind; on a
\* frozen or full segment the frame moves to a new one.
TailFrame(m, k, argnum, arity) ==
  LET f    == Top(m)
      move == m.segs[f.seg].frozen > 0 \/ f.base + 1 + arity >= SegSize
      seg  == IF move THEN Len(m.segs) + 1 ELSE f.seg
      base == IF move THEN 0 ELSE f.base
      args == [i \in base .. base + argnum |-> m.segs[f.seg].slots[f.base + k + (i - base)]]
      moved == [f EXCEPT !.seg = seg, !.base = base, !.top = base + 1 + arity]
  IN  [(IF move THEN AddSegment(m) ELSE m) EXCEPT !.frames[m.cur] = moved,
                                                  !.segs[seg].slots = args @@ @]

EnterClosure(m, lam, unwind) ==
  LET entered == [Top(m) EXCEPT !.pc = Len(lam.code) - 1,
                                !.unwind = IF unwind # "none" THEN unwind ELSE @]
  IN  IF Top(m).top >= SegSize THEN Outcome(m, "error")
      ELSE Outcome(ClearAndBox([m EXCEPT !.frames[m.cur] = entered], lam), "enter")

CtorClosureFrame(m, c, lam, args) ==
  LET m1 == PlaceArgs(m, c.k, args, lam.argnum, lam.argrest)
  IN  IF Bad \in ToSet(args) \/ ~ArityOk(Len(args), lam.argnum, lam.argrest)
      THEN Outcome(m, "error")
      ELSE EnterClosure(IF c.istail THEN TailFrame(m1, c.k, lam.argnum, lam.top)
                        ELSE NewFrame(m1, c.k, lam.argnum, lam.top),
                        lam, c.unwind)

\* closeoport and closeoportstr, with the window at base k of the frame.
ClosePort(m, f, k, kind) ==
  LET fr == m.frames[f]
      v  == m.segs[fr.seg].slots[fr.base + k + 1]
      p  == IF v.t = "pair" THEN m.heap.pairs[v.id].a ELSE v
      port == [m.heap.ports[p.id] EXCEPT !.open = FALSE, !.closes = @ + 1]
      str  == [t |-> "str", text |-> port.text]
      closed(to) == [m EXCEPT !.heap.ports[p.id] = to]
  IN  IF p.t # "port" THEN Outcome(m, "error")
      ELSE IF kind = "str"
      THEN Outcome([closed([port EXCEPT !.text = <<>>]) EXCEPT
                      !.segs[fr.start.seg].slots[fr.start.off] = str], "done")
      ELSE Outcome(closed(port), "done")

\* callnativeproc, for the natives that only compute and for write.
Natives == [plus  |-> [argnum |-> 1, rest |-> TRUE],
            list  |-> [argnum |-> 1, rest |-> TRUE],
            zerop |-> [argnum |-> 1, rest |-> FALSE],
            write |-> [argnum |-> 2, rest |-> TRUE]]
PlainNatives == {"+", "list", "zero?", "write"}
NativeOf(p) == CASE p = "+" -> Natives.plus  [] p = "list" -> Natives.list
                 [] p = "zero?" -> Natives.zerop  [] p = "write" -> Natives.write

Total(args) == FoldLeft(LAMBDA acc, a : acc + a.v, 0, args)

NativeResult(m, p, args) ==
  LET fail  == [m |-> m, v |-> Bad]
      lst   == ListOn(m.heap, args, Nil)
  IN CASE p = "+" -> IF \E i \in DOMAIN args : args[i].t # "num" THEN fail
                     ELSE [m |-> m, v |-> Num(Total(args))]
       [] p = "zero?" -> IF args[1].t # "num" THEN fail
                         ELSE [m |-> m, v |-> Bool(args[1].v = 0)]
       [] p = "list"  -> [m |-> [m EXCEPT !.heap = lst.heap], v |-> lst.v]
       [] p = "write" ->
            IF Len(args) # 2 \/ args[2].t # "port" THEN fail
            ELSE [m |-> IF m.heap.ports[args[2].id].open
                        THEN [m EXCEPT !.heap.ports[args[2].id].text =
                                Append(@, Show(m.heap, args[1]))]
                        ELSE m,
                  v |-> Void]

NativeDone(m, c, v, act) ==
  CASE v = Bad -> Outcome(m, "error")
    [] v # Bad /\ c.unwind = "none" -> Outcome(Put(m, c.k, v), act)
    [] v # Bad /\ c.unwind # "none" ->
         [ClosePort(Put(m, c.k, v), m.cur, c.k, c.unwind) EXCEPT
            !.act = IF @ = "error" THEN @ ELSE act]

CallNative(m, c, act, p, args) ==
  LET res == NativeResult(m, p, args)
  IN  IF Bad \in ToSet(args) \/ ~ArityOk(Len(args), NativeOf(p).argnum, NativeOf(p).rest)
      THEN Outcome(m, "error")
      ELSE NativeDone(res.m, c, res.v, act)

\* The chain of frames from f down.
CallerOf(fs, f) == IF f = 0 THEN 0 ELSE fs[f].prev
Chain(fs, f) ==
  LET down[i \in 0 .. Len(fs)] == IF i = 0 THEN f ELSE CallerOf(fs, down[i - 1])
  IN  {down[i] : i \in 0 .. Len(fs)} \ {0}

\* Mutant: only the segment of the innermost frame is frozen.
FreezeTopOnly(m, f) == [m EXCEPT !.segs[m.frames[f].seg].frozen = @ + 1]

\* The ContinuationObj constructor: a segment is frozen once per frame on it.
Freeze(m, f) ==
  LET held(s) == Cardinality({g \in Chain(m.frames, f) : m.frames[g].seg = s})
  IN  [m EXCEPT !.segs = [s \in DOMAIN m.segs |->
                            [m.segs[s] EXCEPT !.frozen = @ + held(s)]]]

\* The procedures that call/cc and the port procedures accept.
TakesOne(m, v) ==
  CASE v.t = "clo" -> LET lam == LambdaOf(m.heap, v)
                      IN  lam.argnum = 1 \/ (lam.argnum = 2 /\ lam.argrest)
    [] v.t = "prim" /\ v.p \in PlainNatives ->
         NativeOf(v.p).argnum = 1 \/ (NativeOf(v.p).argnum = 2 /\ NativeOf(v.p).rest)
    [] OTHER -> FALSE

RestCallee(m, v) == \/ v.t = "clo"  /\ LambdaOf(m.heap, v).argrest
                    \/ v.t = "prim" /\ NativeOf(v.p).rest

\* checkcallcc: the continuation keeps the frame as it is, the computation goes
\* on in a copy of it.
AfterCapture(cow, c) ==
  [m |-> [cow.m EXCEPT !.cur = cow.id], act |-> "recall",
   c |-> [c EXCEPT !.callcc = TRUE, !.fromapply = FALSE]]

CallCC(m, c, args) ==
  LET cc   == args[1]
      cont == [frm |-> m.cur, k |-> c.k, tail |-> c.istail]
      rest == RestCallee(m, cc)
      m1   == Freeze([m EXCEPT !.heap.conts = Append(@, cont)], m.cur)
      m2   == Put(Put(m1, c.k, cc), c.k + 1, ContRef(Len(m.heap.conts) + 1))
  IN  IF Len(args) # 1 THEN Outcome(m, "error")
      ELSE IF ~TakesOne(m, cc) THEN Outcome(m, "error")
      ELSE AfterCapture(CowFrame(IF rest THEN Put(m2, c.k + 2, Nil) ELSE m2, m.cur), c)

\* shrinkapplyarity and flatshrinkapplyarity: the procedure moves to slot k, all
\* its arguments into one list.
CallApply(m, c, args) ==
  LET n   == Len(args)
      lst == ListOn(m.heap, SubSeq(args, 2, n - 1) \o ItemsOf(m.heap, args[n]), Nil)
  IN  IF n < 2 THEN Outcome(m, "error")
      ELSE IF ~IsListOn(m.heap, args[n]) THEN Outcome(m, "error")
      ELSE [m |-> Put(Put([m EXCEPT !.heap = lst.heap], c.k, args[1]), c.k + 1, lst.v),
            act |-> "recall", c |-> [c EXCEPT !.len = 1, !.fromapply = TRUE]]

\* callwithoutputstr (one argument) and callwithoutputfile (name and procedure).
CallWithPort(m, c, kind, args) ==
  LET proc == args[Len(args)]
      port == [open |-> TRUE, text |-> <<>>, closes |-> 0]
  IN  IF Len(args) # (IF kind = "str" THEN 1 ELSE 2) THEN Outcome(m, "error")
      ELSE IF proc.t # "cont" /\ ~TakesOne(m, proc) THEN Outcome(m, "error")
      ELSE [m |-> Put(Put([m EXCEPT !.heap.ports = Append(@, port)], c.k, proc),
                      c.k + 1, PortRef(Len(m.heap.ports) + 1)),
            act |-> "recall",
            c |-> [c EXCEPT !.len = 1, !.fromapply = FALSE, !.unwind = kind]]

\* A call of a continuation: its frame is copied, not entered.
Throw(m, c, cont) ==
  LET cow == CowFrame(m, cont.frm)
  IN  IF c.len # 1 THEN Outcome(m, "error")
      ELSE Outcome(Put([cow.m EXCEPT !.cur = cow.id], cont.k, At(m, c.k + 1)),
                   IF cont.tail THEN "cctailret" ELSE "done")

\* The list that was applied is taken as it is.
CallValues(m, c) ==
  LET lst == ListOn(m.heap, RawArgs(m, c), Nil)
  IN  IF c.fromapply THEN Put(Put(m, c.k, ValuesRef(At(m, c.k + 1))), c.k + 1, Void)
      ELSE PutAll(Put([m EXCEPT !.heap = lst.heap], c.k, ValuesRef(lst.v)), c.k,
                  [i \in 1 .. c.len |-> Void])

ValuesToList(m, c) ==
  LET v == At(m, c.k + 1)
      one == ListOn(m.heap, <<v>>, Nil)
      put(h, l) == Put(Put([m EXCEPT !.heap = h], c.k + 1, Void), c.k, l)
  IN  CASE v.t = "values" -> put(m.heap, v.l)
        [] v.t = "nil"    -> put(m.heap, Nil)
        [] OTHER          -> put(one.heap, one.v)

\* One round of callproc.  "recall" is another one: call/cc, apply and the port
\* procedures put the procedure they call in their place.
CallRound(m, c) ==
  LET proc == At(m, c.k)
      act  == IF c.istail THEN "tailret" ELSE "done"
  IN CASE proc.t = "clo"  ->
            CtorClosureFrame(m, c, LambdaOf(m.heap, proc), Args(m, c))
       [] proc.t = "cont" -> Throw(m, c, m.heap.conts[proc.id])
       [] proc.t = "prim" ->
            (CASE proc.p = "call/cc" -> CallCC(m, c, RawArgs(m, c))
               [] proc.p = "apply"   -> CallApply(m, c, RawArgs(m, c))
               [] proc.p = "call-with-output-string" ->
                    CallWithPort(m, c, "str", RawArgs(m, c))
               [] proc.p = "call-with-output-file"   ->
                    CallWithPort(m, c, "file", RawArgs(m, c))
               [] proc.p = "values"  -> Outcome(CallValues(m, c), act)
               [] proc.p = "%values->list" ->
                    IF c.fromapply \/ c.len # 1 THEN Outcome(m, "error")
                    ELSE Outcome(ValuesToList(m, c), act)
               [] proc.p \in PlainNatives -> CallNative(m, c, act, proc.p, Args(m, c))
               [] OTHER -> Outcome(m, "error"))
       [] OTHER -> Outcome(m, "error")

\* callrtnfrm: the value goes to the call site, which lies in the owner's window;
\* a frozen owner is copied first.  Then rtnfrm.
OwnerCopied(m, cow, own) ==
  LET start == [seg |-> cow.m.frames[cow.id].seg,
                off |-> cow.m.frames[cow.id].base + (Top(m).start.off - m.frames[own].base)]
  IN  [cow.m EXCEPT !.frames[m.cur] = [@ EXCEPT !.prev = cow.id, !.start = start]]

UnshareOwner(m, own) ==
  IF /\ own # 0
     /\ m.segs[m.frames[own].seg].frozen > 0
     /\ m.frames[own].seg = Top(m).start.seg
     /\ m.frames[own].base <= Top(m).start.off /\ Top(m).start.off < m.frames[own].top
  THEN OwnerCopied(m, CowFrame(m, own), own)
  ELSE m

Deliver(m, v) ==
  IF Top(m).prev = 0 THEN m
  ELSE [m EXCEPT !.segs[Top(m).start.seg].slots[Top(m).start.off] = v]

\* rtnfrm: what the frame owes, then back to the caller.
Leave(o, v, f) ==
  IF o.act = "error" THEN o
  ELSE [m |-> [o.m EXCEPT !.frames[o.m.cur].unwind = "none", !.cur = Top(o.m).prev],
        act |-> "done",
        v |-> IF f.unwind = "str" THEN o.m.segs[f.start.seg].slots[f.start.off] ELSE v]
Settle(m, v) ==
  Leave(IF Top(m).unwind = "none" THEN Outcome(m, "done")
        ELSE ClosePort(m, m.cur, 0, Top(m).unwind),
        v, Top(m))

ReturnFrom(m, v) == Settle(Deliver(UnshareOwner(m, Top(m).prev), v), v)

-----------------------------------------------------------------------------
(* Steps *)

SetMReg(m, r) == /\ frames' = m.frames /\ segs' = m.segs /\ cur' = m.cur /\ heap' = m.heap
                 /\ reg' = r
SetM(m) == SetMReg(m, m.cur)

Running(ops) == mode = "run" /\ frames[cur].pc >= 0 /\ Ins.op \in ops

\* The end of an instruction that goes on with the next one.
NextPc(m) == SetM([m EXCEPT !.frames[m.cur].pc = @ - 1])
KeepRest == UNCHANGED <<code, form, app, genv, results, mode>>
Raise(m) == /\ SetM(m) /\ mode' = "error" /\ UNCHANGED <<code, form, app, genv, results>>

\* dolex: a frame for the next form, its closure holding only the environment.
StartForm ==
  /\ mode = "idle" /\ form < Len(code)
  /\ ~code[form + 1].err
  /\ LET lam == code[form + 1].lams[1]
         id  == Len(heap.clos) + 1
         fr  == [pc |-> Len(lam.code) - 1, seg |-> Len(segs) + 1, prev |-> 0,
                 start |-> [seg |-> Len(segs) + 1, off |-> 0],
                 base |-> 0, top |-> 1 + lam.top, unwind |-> "none"]
     IN /\ form' = form + 1 /\ mode' = "run"
        /\ heap' = [heap EXCEPT !.clos = Append(@, [lam |-> <<form + 1, 1>>, outers |-> <<>>])]
        /\ segs' = Append(segs, [NewSegment EXCEPT !.slots[0] = CloRef(id)])
        /\ frames' = Append(frames, fr) /\ cur' = Len(frames) + 1 /\ reg' = cur'
        /\ UNCHANGED <<code, app, genv, results>>

\* A compile error or the end of the program.
StopLoading ==
  /\ mode = "idle"
  /\ \/ form = Len(code) /\ UNCHANGED results
     \/ /\ form < Len(code)
        /\ code[form + 1].err
        /\ results' = Append(results, [t |-> "error"])
  /\ mode' = "done"
  /\ UNCHANGED <<code, form, genv, frames, segs, cur, reg, app, heap>>

\* pc < 0: execute0 returns without a value.
FallOff ==
  /\ mode = "run" /\ frames[cur].pc < 0
  /\ mode' = "idle" /\ results' = Append(results, Void)
  /\ UNCHANGED <<code, form, genv, frames, segs, cur, reg, app, heap>>

\* The constants of a lambda are atoms here; a quoted list would be on the heap.
ExecMove ==
  /\ Running({"ASSIGN", "REFLOCAL", "REFBVAR", "REFBOX", "REFOUT0"})
  /\ LET outers == heap.clos[Slot(0).id].outers
     IN \/ Ins.op = "ASSIGN"   /\ NextPc(Put(M, Ins.a, Ins.b))
        \/ Ins.op = "REFLOCAL" /\ NextPc(Put(M, Ins.a, Slot(1 + Ins.b)))
        \/ Ins.op = "REFBOX"   /\ NextPc(Put(M, Ins.a, heap.boxes[Slot(1 + Ins.b).id]))
        \/ Ins.op = "REFBVAR"  /\ NextPc(Put(M, Ins.a, heap.boxes[outers[Ins.b]]))
        \/ /\ Ins.op = "REFOUT0" /\ Ins.b \in DOMAIN genv
           /\ NextPc(Put(M, Ins.a, genv[Ins.b]))
  /\ KeepRest

UndefinedGlobal ==
  /\ Running({"REFOUT0"}) /\ Ins.b \notin DOMAIN genv
  /\ Raise(M)

\* define and set! of a local slot, a box of the frame, a box of the closure.
ExecStore ==
  /\ Running({"DEFLOCAL", "SETLOCAL", "SETBOX", "SETBVAR"})
  /\ LET v == SingleValue(heap, Slot(Ins.b))
         box(id) == [M EXCEPT !.heap.boxes[id] = v]
     IN IF v = Bad THEN Raise(M)
        ELSE /\ \/ Ins.op \in {"DEFLOCAL", "SETLOCAL"} /\ NextPc(Put(M, Ins.a + 1, v))
                \/ Ins.op = "SETBOX"  /\ NextPc(box(Slot(1 + Ins.a).id))
                \/ Ins.op = "SETBVAR" /\ NextPc(box(heap.clos[Slot(0).id].outers[Ins.a]))
             /\ KeepRest

ExecStoreGlobal ==
  /\ Running({"DEFOUT0", "SETOUT0"})
  /\ LET v == SingleValue(heap, Slot(Ins.b))
     IN IF v = Bad \/ (Ins.op = "SETOUT0" /\ Ins.a \notin DOMAIN genv) THEN Raise(M)
        ELSE /\ genv' = (Ins.a :> v) @@ genv
             /\ NextPc(Put(M, Ins.b, Void))
             /\ UNCHANGED <<code, form, app, results, mode>>

ListMade(made) ==
  IF made.v = Bad THEN Raise(M)
  ELSE NextPc(Put([M EXCEPT !.heap = made.heap], Ins.a, made.v)) /\ KeepRest

ExecList ==
  /\ Running({"CONS", "CONSEXT", "LIST", "LISTK", "LIST2VEC", "APPEND", "APPENDEXT"})
  /\ LET a == Slot(Ins.a)
         made ==
           CASE Ins.op = "CONS"    -> ConsOn(heap, a, Slot(Ins.a + 1))
             [] Ins.op = "CONSEXT" -> ConsOn(heap, Slot(Ins.b), Slot(Ins.c))
             [] Ins.op = "LIST"    -> ListOn(heap, <<a>>, Nil)
             [] Ins.op = "LISTK"   -> ListOn(heap, <<Ins.b, a>>, Nil)
             [] Ins.op = "LIST2VEC" ->
                  IF IsListOn(heap, a) THEN [heap |-> heap, v |-> Vector(ItemsOf(heap, a))]
                  ELSE [heap |-> heap, v |-> Bad]
             [] Ins.op = "APPEND"    -> AppendOn(heap, a, Slot(Ins.a + 1))
             [] Ins.op = "APPENDEXT" -> AppendOn(heap, Slot(Ins.b), Slot(Ins.c))
     IN ListMade(made)

ExecJump ==
  /\ Running({"JUMPLABEL", "IFFALSEJUMP"})
  /\ LET v == IF Ins.op = "JUMPLABEL" THEN Bool(FALSE) ELSE SingleValue(heap, Slot(Ins.b))
     IN IF v = Bad THEN Raise(M)
        ELSE /\ IF IsFalse(v) THEN SetM([M EXCEPT !.frames[cur].pc = Ins.a]) ELSE NextPc(M)
             /\ KeepRest

\* initouters: a captured variable of this frame gives its box, one of an outer
\* frame the box this closure holds.
ExecLambda ==
  /\ Running({"LAMBDA"})
  /\ LET lam == code[heap.clos[Slot(0).id].lam[1]].lams[Ins.b]
         mine == heap.clos[Slot(0).id]
         outers == [i \in 1 .. Len(lam.bvar) |->
                      IF lam.bvar[i].islocal THEN Slot(1 + lam.bvar[i].idx).id
                      ELSE mine.outers[lam.bvar[i].idx]]
         m == [M EXCEPT !.heap.clos = Append(@, [lam |-> <<mine.lam[1], Ins.b>>,
                                                 outers |-> <<>> \o outers])]
     IN NextPc(Put(m, Ins.a, CloRef(Len(heap.clos) + 1)))
  /\ KeepRest

ExecPromise ==
  /\ Running({"PROMISE"})
  /\ NextPc(Put(M, Ins.a, [t |-> "promise", clo |-> Slot(Ins.a)]))
  /\ KeepRest

ExecCall ==
  /\ Running({"CALLAPP", "TAILCALLAPP"})
  /\ app' = Call(Ins.a, Ins.b, Ins.op = "TAILCALLAPP") /\ mode' = "call"
  /\ UNCHANGED <<code, form, genv, results, frames, segs, cur, reg, heap>>

Called(o) ==
  \/ o.act = "error"     /\ Raise(o.m)
  \/ o.act = "enter"     /\ SetM(o.m) /\ mode' = "run" /\ app' = NoCall
  \/ o.act = "done"      /\ NextPc(o.m) /\ mode' = "run" /\ app' = NoCall
  \/ o.act = "recall"    /\ SetMReg(o.m, reg) /\ app' = o.c /\ UNCHANGED mode
  \/ o.act = "tailret"       \* base is not read again from the frame
     /\ SetMReg(o.m, reg) /\ mode' = "ret" /\ app' = NoCall
  \/ o.act = "cctailret" /\ SetM(o.m) /\ mode' = "ret" /\ app' = NoCall

\* A round of the loop of callproc.
CallProc ==
  /\ mode = "call"
  /\ Called(CallRound(M, app))
  /\ UNCHANGED <<code, form, genv, results>>

ExecReturn ==
  /\ Running({"RETURN"})
  /\ mode' = "ret"
  /\ UNCHANGED <<code, form, genv, results, frames, segs, cur, reg, app, heap>>

\* retlab
Returned(o) ==
  IF o.act = "error" THEN Raise(o.m)
  ELSE /\ IF o.m.cur = 0
          THEN /\ SetM(o.m) /\ mode' = "idle"
               /\ results' = Append(results, Show(o.m.heap, o.v))
          ELSE NextPc(o.m) /\ mode' = "run" /\ UNCHANGED results
       /\ UNCHANGED <<code, form, app, genv>>

\* The value is read through base.
ReturnFrame ==
  /\ mode = "ret"
  /\ Returned(ReturnFrom(M, At([M EXCEPT !.cur = reg], RetSlot(Lam))))

\* Mutant: the handler looks at the frame that raised only.
TearDownTop(m, f) ==
  IF m.frames[f].unwind = "none" THEN m ELSE ClosePort(m, f, 0, m.frames[f].unwind).m

\* The handler of execute: teardowndeadframes runs what the frames still owe, top
\* frame first; a callback that raises leaves the handler.
TearDown(m, f) ==
  LET one(o) ==
        LET fr  == o.m.frames[o.f]
            unw == ClosePort(o.m, o.f, 0, fr.unwind)
        IN  IF o.f = 0 THEN o
            ELSE IF fr.unwind = "none" THEN [m |-> o.m, f |-> fr.prev]
            ELSE [m |-> [unw.m EXCEPT !.frames[o.f].unwind = "none"],
                  f |-> IF unw.act = "error" THEN 0 ELSE fr.prev]
      torn[i \in 0 .. Len(m.frames)] ==
        IF i = 0 THEN [m |-> m, f |-> f] ELSE one(torn[i - 1])
  IN  torn[Len(m.frames)].m

HandleError ==
  /\ mode = "error"
  /\ SetM([TearDown(M, cur) EXCEPT !.cur = 0])
  /\ mode' = "done"
  /\ results' = Append(results, [t |-> "error"])
  /\ UNCHANGED <<code, form, app, genv>>

MachineNext ==
  \/ StartForm \/ StopLoading \/ FallOff
  \/ ExecMove \/ UndefinedGlobal \/ ExecStore \/ ExecStoreGlobal \/ ExecList \/ ExecJump
  \/ ExecLambda \/ ExecPromise \/ ExecCall \/ CallProc \/ ExecReturn \/ ReturnFrame
  \/ HandleError
-----------------------------------------------------------------------------
(* Properties *)

\* No instruction reaches past the segment its frame lies on: a caller's
\* temporaries and the lists under construction have their room.
Reached ==
  IF Ins.op \in {"ASSIGN", "CONS", "LIST", "LISTK", "APPEND"} THEN Ins.a
  ELSE IF Ins.op \in {"CALLAPP", "TAILCALLAPP"} THEN Ins.a + Ins.b ELSE 0
NoOverrun ==
  mode = "run" /\ frames[cur].pc >= 0 => frames[cur].base + Reached < SegSize

\* A call is made from inside the window of its frame: top, which the compiler
\* counts, leaves room for every temporary.
CallsInWindow ==
  mode = "call" => /\ app.k \in Nat
                   /\ frames[cur].base + app.k < frames[cur].top

\* The string of a port goes to the frame's start, which callrtnfrm has made safe
\* to write only when the frame returns to a caller.  Where the frame has none, or
\* a native procedure was given the port, start is not on a frozen segment.
StringsAreSafe ==
  /\ mode = "call" /\ app.unwind = "str" /\ Slot(app.k).t = "prim"
       => segs[frames[cur].start.seg].frozen = 0
  /\ mode = "ret" /\ frames[cur].unwind = "str" /\ frames[cur].prev = 0
       => segs[frames[cur].start.seg].frozen = 0

\* A reference to a continuation is to one that was captured.
ContinuationsExist ==
  mode = "call" /\ Slot(app.k).t = "cont" => Slot(app.k).id \in DOMAIN heap.conts

\* The windows lie on their segments and the owner of a frame is an older one.
MachineTypeOK ==
  /\ mode \in {"idle", "run", "call", "ret", "error", "done"}
  /\ {cur, reg} \subseteq 0 .. Len(frames)
  /\ \A i \in DOMAIN frames :
       /\ frames[i].seg \in DOMAIN segs
       /\ 0 <= frames[i].base /\ frames[i].base < frames[i].top /\ frames[i].top < SegSize
       /\ frames[i].prev \in 0 .. Len(frames)
  /\ NoOverrun /\ CallsInWindow /\ StringsAreSafe /\ ContinuationsExist

\* What a continuation holds stays as it was when it was captured: whatever the
\* program does afterwards, it does in copies (README: copy-on-write frames).
\* Only the error handler, after which nothing runs, takes the ports to close from
\* captured frames as well.
Captured == UNION {Chain(frames, heap.conts[c].frm) : c \in DOMAIN heap.conts}
Window(fs, ss, f) == [i \in fs[f].base .. fs[f].top - 1 |-> ss[fs[f].seg].slots[i]]
CapturedFramesKeep ==
  [][mode # "error" =>
       \A f \in Captured : /\ frames'[f] = frames[f]
                           /\ Window(frames', segs', f) = Window(frames, segs, f)]_machineVars

\* When loading ends, every port has been closed, and only once.
PortsClosedOnce == mode = "done" => \A p \in DOMAIN heap.ports : heap.ports[p].closes = 1
=============================================================================
