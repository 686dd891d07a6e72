------------------------------ MODULE Compiler ------------------------------
(***************************************************************************)
(* The compiler of scmcompiler.cpp.  Code is emitted BACKWARDS: putcode    *)
(* appends, execution starts at the last instruction and counts down, so   *)
(* every compile function emits the last thing to be executed first and a  *)
(* forward jump goes to a position already known.                          *)
(*                                                                         *)
(* A compilation cs is the sequence lams of the LambdaObj built so far,    *)
(* each with its variables and with the SCompiler that builds it (enclose, *)
(* defs), and err, set by compileassert.  me is the lambda that receives   *)
(* code; number 1 is the top-level one, whose vars is NULL.  A constant is *)
(* an operand itself, not an index of ks.  What the compile functions still*)
(* have to do when one of them calls another, the rest of their bodies, is *)
(* the sequence jobs of cs.                                                *)
(***************************************************************************)
EXTENDS Syntax, Integers, FiniteSets, SequencesExt

Snext == [to |-> "next"]
Sreturn == [to |-> "return"]
Label(pc) == [to |-> "label", pc |-> pc]

NewLambda(enclose) ==
  [code |-> <<>>, local |-> <<>>, bvar |-> <<>>, defs |-> {}, enclose |-> enclose,
   top |-> 0, argnum |-> 0, argrest |-> FALSE]

HasVars(cs, me) == cs.lams[me].enclose # 0
CompileError(cs) == [cs EXCEPT !.err = TRUE]

\* putcode.  lambda->code[pc] is code[pc + 1] here.
Put(cs, me, op, a, b) ==
  [cs EXCEPT !.lams[me].code = Append(@, [op |-> op, a |-> a, b |-> b])]

CodeStart(lam) == Len(lam.code) - 1

CompileLink(cs, me, link) ==
  CASE link.to = "next"   -> cs
    [] link.to = "return" -> Put(cs, me, "RETURN", 0, 0)
    [] link.to = "label"  -> Put(cs, me, "JUMPLABEL", link.pc, 0)

\* Mutant: the size of the frame is that of its locals.
TopOfLocals(cs, me, target) == [cs EXCEPT !.lams[me].top = Len(cs.lams[me].local)]

RaiseTop(cs, me, target) ==
  [cs EXCEPT !.lams[me].top = IF target > @ THEN target ELSE @]

-----------------------------------------------------------------------------
(* Variables: slots of the frame (local), boxes taken over from the         *)
(* enclosing closures (bvar, counted from 1 after the environment table).   *)

FirstWith(s, P(_)) ==
  LET at == {i \in 1 .. Len(s) : P(s[i])}
  IN  IF at = {} THEN 0 ELSE CHOOSE i \in at : \A j \in at : i <= j

LookLocal(lam, x) == FirstWith(lam.local, LAMBDA l : l.sym = x) - 1
LookBVar(lam, x) ==
  LET i == FirstWith(lam.bvar, LAMBDA b : b.name = x) IN IF i = 0 THEN -1 ELSE i

AddLocal(cs, me, x) ==
  [cs EXCEPT !.lams[me].local =
     Append(@, [sym |-> x, capture |-> FALSE, assigned |-> FALSE])]

AddBVar(cs, me, x, idx, islocal) ==
  LET cs1 == [cs EXCEPT !.lams[me].bvar =
                Append(@, [name |-> x, idx |-> idx, islocal |-> islocal])]
  IN  [cs |-> cs1, local |-> -1, bvar |-> Len(cs1.lams[me].bvar)]

RECURSIVE CompileRefSym(_, _, _)
CompileRefSym(cs, me, x) ==
  LET lam   == cs.lams[me]
      local == LookLocal(lam, x)
      bvar  == LookBVar(lam, x)
      outer == CompileRefSym(cs, lam.enclose, x)
  IN  CASE ~HasVars(cs, me) -> [cs |-> cs, local |-> -1, bvar |-> -1]
        [] HasVars(cs, me) /\ local >= 0 -> [cs |-> cs, local |-> local, bvar |-> -1]
        [] HasVars(cs, me) /\ local < 0 /\ bvar >= 0 ->
             [cs |-> cs, local |-> -1, bvar |-> bvar]
        [] OTHER ->
             CASE outer.local >= 0 ->
                    AddBVar([outer.cs EXCEPT
                               !.lams[lam.enclose].local[outer.local + 1].capture = TRUE],
                            me, x, outer.local, TRUE)
               [] outer.bvar >= 0 -> AddBVar(outer.cs, me, x, outer.bvar, FALSE)
               [] OTHER -> outer

CompileSym(cs, me, target, x, link) ==
  LET ref == CompileRefSym(CompileLink(cs, me, link), me, x)
  IN  CASE ref.local >= 0 -> Put(ref.cs, me, "REFLOCAL", target, ref.local)
        [] ref.bvar >= 0  -> Put(ref.cs, me, "REFBVAR", target, ref.bvar)
        [] OTHER          -> Put(ref.cs, me, "REFOUT0", target, x)

\* Mutant: only what an inner lambda captures is known to be in a box.
PatchCaptured(lam) ==
  LET patch(ins) ==
        CASE ins.op = "REFLOCAL" /\ lam.local[ins.b + 1].capture -> [ins EXCEPT !.op = "REFBOX"]
          [] ins.op \in {"DEFLOCAL", "SETLOCAL"} /\ lam.local[ins.a + 1].capture ->
               [ins EXCEPT !.op = "SETBOX"]
          [] OTHER -> ins
  IN  [lam EXCEPT !.code = <<>> \o [p \in 1 .. Len(lam.code) |-> patch(lam.code[p])]]

\* The captured and the assigned variables live in boxes: when the body is
\* compiled, the instructions that reach them are replaced.
PatchInstruction(lam) ==
  LET boxed(i) == lam.local[i + 1].capture \/ lam.local[i + 1].assigned
      patch(ins) ==
        CASE ins.op = "REFLOCAL" /\ boxed(ins.b) -> [ins EXCEPT !.op = "REFBOX"]
          [] ins.op \in {"DEFLOCAL", "SETLOCAL"} /\ boxed(ins.a) ->
               [ins EXCEPT !.op = "SETBOX"]
          [] OTHER -> ins
  IN  [lam EXCEPT !.code = <<>> \o [p \in 1 .. Len(lam.code) |-> patch(lam.code[p])]]

-----------------------------------------------------------------------------
(* The body of a lambda: its definitions become locals beforehand, begins   *)
(* are spliced and macro uses expanded in place.                            *)

CompileDefPre(cs, me, x) ==
  IF ~HasVars(cs, me) THEN cs
  ELSE IF x \in cs.lams[me].defs THEN CompileError(cs)
  ELSE LET cs1 == IF LookLocal(cs.lams[me], x) < 0 THEN AddLocal(cs, me, x) ELSE cs
       IN  [cs1 EXCEPT !.lams[me].defs = @ \cup {x}]

RECURSIVE CompileSeqPre(_, _, _)
CompileSeqPre(cs, me, es) ==
  IF es = <<>> THEN [cs |-> cs, es |-> es]
  ELSE LET e == es[1]
           keep(cs1) == LET rest == CompileSeqPre(cs1, me, Tail(es))
                        IN  [rest EXCEPT !.es = <<e>> \o @]
       IN  CASE e.op = "define" -> keep(CompileDefPre(cs, me, e.x))
             [] e.op = "begin"  -> CompileSeqPre(cs, me, e.es \o Tail(es))
             [] e.op = "macro"  -> CompileSeqPre(cs, me, <<e.e>> \o Tail(es))
             [] OTHER           -> keep(cs)

RECURSIVE AddLambdaParams(_, _, _)
AddLambdaParams(cs, me, ps) ==
  IF ps = <<>> THEN cs
  ELSE IF LookLocal(cs.lams[me], ps[1]) >= 0 THEN CompileError(cs)
  ELSE AddLambdaParams([AddLocal(cs, me, ps[1]) EXCEPT !.lams[me].argnum = @ + 1],
                       me, Tail(ps))

-----------------------------------------------------------------------------
(* Jobs, done in the order of the sequence.                                 *)

Expr(me, target, e, link, defok) ==
  [j |-> "expr", me |-> me, target |-> target, e |-> e, link |-> link, defok |-> defok]
Value(me, target, e) == Expr(me, target, e, Snext, FALSE)
Template(me, target, tmpl, depth) ==
  [j |-> "tmpl", me |-> me, target |-> target, tmpl |-> tmpl, depth |-> depth]
Emit(me, ins) == [j |-> "emit", me |-> me, ins |-> ins]
\* The two points where compileif reads the length of the code again.
Conseq(me, target, e, link, after) ==
  [j |-> "conseq", me |-> me, target |-> target, e |-> e, link |-> link, after |-> after]
Branch(me, target, branch) == [j |-> "branch", me |-> me, target |-> target, branch |-> branch]
Patch(me) == [j |-> "patch", me |-> me]

Then(cs, jobs) == [cs EXCEPT !.jobs = jobs \o @]

\* compileseq: the last expression first, and only that one gets the link.
SeqJobs(me, target, es, link, defok) ==
  Reverse([i \in DOMAIN es |->
             Expr(me, target, es[i], IF i = Len(es) THEN link ELSE Snext, defok)])

CompileLambda0(cs, me, target, ps, rest, body) ==
  LET new  == Len(cs.lams) + 1
      cs1  == Put([cs EXCEPT !.lams = Append(@, NewLambda(me))], me, "LAMBDA", target, new)
      cs2  == [AddLambdaParams(cs1, new, ps) EXCEPT !.lams[new].argrest = rest]
      pre  == CompileSeqPre(cs2, new, body)
      base == Len(pre.cs.lams[new].local) + 1
  IN  IF pre.es = <<>> THEN CompileError(pre.cs)
      ELSE Then(pre.cs, Append(SeqJobs(new, base, pre.es, Sreturn, TRUE), Patch(new)))

CompileDefine(cs, me, target, x, e, link) ==
  LET linked == CompileLink(cs, me, link)
      slot   == LookLocal(linked.lams[me], x)
      def    == IF HasVars(cs, me) THEN Put(linked, me, "DEFLOCAL", slot, target)
                ELSE Put(linked, me, "DEFOUT0", x, target)
  IN  IF HasVars(cs, me) /\ slot < 0 THEN CompileError(cs)
      ELSE Then(def, <<Value(me, target, e)>>)

CompileSet(cs, me, target, x, e, link) ==
  LET ref == CompileRefSym(CompileLink(cs, me, link), me, x)
      set == CASE ref.local >= 0 ->
                    Put([ref.cs EXCEPT !.lams[me].local[ref.local + 1].assigned = TRUE],
                        me, "SETLOCAL", ref.local, target + 1)
               [] ref.bvar >= 0 -> Put(ref.cs, me, "SETBVAR", ref.bvar, target + 1)
               [] OTHER -> Put(ref.cs, me, "SETOUT0", x, target + 1)
  IN  Then(set, <<Value(me, target + 1, e)>>)

\* compileif: alter, conseq with a jump over it, the branch, the test.
CompileIf(cs, me, target, e, link) ==
  Then(cs, <<Expr(me, target, e.a, link, FALSE),
             Conseq(me, target, e, link, Label(CodeStart(cs.lams[me])))>>)
CompileConseq(cs, j) ==
  Then(cs, <<Expr(j.me, j.target, j.e.t, IF j.link.to = "next" THEN j.after ELSE j.link, FALSE),
             Branch(j.me, j.target, CodeStart(cs.lams[j.me])), Value(j.me, j.target, j.e.c)>>)

\* compileapp and compileappargs: the last argument first, the operator last.
CompileApp(cs, me, target, f, args, link) ==
  LET len  == Len(args)
      call == IF link.to = "return" THEN Put(cs, me, "TAILCALLAPP", target, len)
              ELSE Put(CompileLink(cs, me, link), me, "CALLAPP", target, len)
  IN  Then(call, Append(Reverse([i \in 1 .. len |-> Value(me, target + i, args[i])]),
                        Value(me, target, f)))

CompileMacroUse(cs, me, target, e, link) ==
  LET pre == CompileSeqPre(cs, me, e.es)
  IN  IF HasVars(cs, me) /\ e.op = "begin"
      THEN Then(pre.cs, <<Expr(me, target, Begin(pre.es), link, TRUE)>>)
      ELSE Then(cs, <<Expr(me, target, e, link, TRUE)>>)

CompileDelay(cs, me, target, es, link) ==
  CompileLambda0(Put(CompileLink(cs, me, link), me, "PROMISE", target, 0),
                 me, target, <<>>, FALSE, es)

\* defok is TRUE only where a definition may stand.
CompilePair(cs, me, target, e, link, defok) ==
  CASE e.op = "define" /\ ~defok -> CompileError(cs)
    [] e.op = "define" /\ defok  -> CompileDefine(cs, me, target, e.x, e.e, link)
    [] e.op = "set"    -> CompileSet(cs, me, target, e.x, e.e, link)
    [] e.op = "begin"  -> Then(cs, SeqJobs(me, target, e.es, link, defok))
    [] e.op = "if"     -> CompileIf(cs, me, target, e, link)
    [] e.op = "lambda" ->
         CompileLambda0(CompileLink(cs, me, link), me, target, e.params, e.rest, e.body)
    [] e.op = "quasi"  ->
         Then(CompileLink(cs, me, link), <<Template(me, target, e.tmpl, 0)>>)
    [] e.op = "delay"  -> CompileDelay(cs, me, target, e.es, link)
    [] e.op = "macro"  -> CompileMacroUse(cs, me, target, e.e, link)
    [] e.op = "app"    -> CompileApp(cs, me, target, e.f, e.args, link)

Compile(cs, me, target, e, link, defok) ==
  LET cs1 == RaiseTop(cs, me, target)
  IN  CASE e.op = "var"   -> CompileSym(cs1, me, target, e.x, link)
        [] e.op = "const" -> Put(CompileLink(cs1, me, link), me, "ASSIGN", target, e.v)
        [] OTHER          -> CompilePair(cs1, me, target, e, link, defok)

-----------------------------------------------------------------------------
(* Quasiquotation.  The slots above target that it fills are not entered in *)
(* lambda->top, unless an unquoted expression is compiled there.            *)

AB(op, a, b) == [op |-> op, a |-> a, b |-> b]
Quoting(me, target, keyword) == Emit(me, AB("LISTK", target, Sym(keyword)))

CompileQQuoteCons(cs, me, target, a, d, depth) ==
  IF IsTNil(d)
  THEN Then(Put(cs, me, "LIST", target, 0), <<Template(me, target, a, depth)>>)
  ELSE Then(Put(cs, me, "CONS", target, 0),
            <<Template(me, target + 1, d, depth), Template(me, target, a, depth)>>)

\* A last splice at depth 1 asks for the line of the empty list, which has none:
\* the process ends there.
CompileQQuoteSplice(cs, me, target, a, d, depth) ==
  CASE depth = 0 /\ IsTNil(d) -> Then(cs, <<Value(me, target, a.e)>>)
    [] depth = 0 /\ ~IsTNil(d) ->
         Then(Put(cs, me, "APPEND", target, 0),
              <<Template(me, target + 1, d, 0), Value(me, target, a.e)>>)
    [] depth > 0 /\ IsTNil(d) -> CompileError(cs)
    [] depth > 0 /\ ~IsTNil(d) ->
         Then(Put(cs, me, "CONS", target, 0),
              <<Template(me, target + 1, d, depth), Quoting(me, target, "unquote-splicing"),
                Template(me, target, a.tmpl, depth - 1)>>)

\* compileqquotearray: the items are consed in front of the last one.
ItemJobs(me, target, item, last, depth) ==
  LET at == IF last THEN target ELSE target + 1
      joined(op) == IF last THEN <<>>
                    ELSE <<Emit(me, [op |-> op, a |-> target, b |-> target + 1, c |-> target])>>
  IN  CASE item.q = "splice" /\ depth = 0 -> Append(joined("APPENDEXT"), Value(me, at, item.e))
        [] item.q = "splice" /\ depth > 0 ->
             joined("CONSEXT") \o <<Quoting(me, at, "unquote-splicing"),
                                    Template(me, at, item.tmpl, depth - 1)>>
        [] item.q # "splice" ->
             (IF last THEN <<Emit(me, AB("LIST", target, 0))>> ELSE joined("CONSEXT"))
               \o <<Template(me, at, item, depth)>>

CompileQQuoteArray(cs, me, target, items, depth) ==
  LET cs1 == Put(cs, me, "LIST2VEC", target, 0)
  IN  IF items = <<>> THEN Put(cs1, me, "ASSIGN", target, Nil)
      ELSE Then(cs1, FlattenSeq([i \in DOMAIN items |->
                       ItemJobs(me, target, items[i], i = Len(items), depth)]))

CompileQQuote(cs, me, target, tmpl, depth) ==
  CASE tmpl.q = "unquote" /\ depth = 0 -> Then(cs, <<Value(me, target, tmpl.e)>>)
    [] tmpl.q = "unquote" /\ depth > 0 ->
         Then(cs, <<Quoting(me, target, "unquote"), Template(me, target, tmpl.tmpl, depth - 1)>>)
    [] tmpl.q = "quasi" ->
         Then(cs, <<Quoting(me, target, "quasiquote"), Template(me, target, tmpl.tmpl, depth + 1)>>)
    [] tmpl.q = "pair" /\ tmpl.a.q = "splice" ->
         CompileQQuoteSplice(cs, me, target, tmpl.a, tmpl.d, depth)
    [] tmpl.q = "pair" /\ tmpl.a.q # "splice" ->
         CompileQQuoteCons(cs, me, target, tmpl.a, tmpl.d, depth)
    [] tmpl.q = "vec"   -> CompileQQuoteArray(cs, me, target, tmpl.items, depth)
    [] tmpl.q = "datum" -> Put(cs, me, "ASSIGN", target, tmpl.v)

-----------------------------------------------------------------------------
DoJob(cs, j) ==
  CASE j.j = "expr"   -> Compile(cs, j.me, j.target, j.e, j.link, j.defok)
    [] j.j = "tmpl"   -> CompileQQuote(cs, j.me, j.target, j.tmpl, j.depth)
    [] j.j = "emit"   -> [cs EXCEPT !.lams[j.me].code = Append(@, j.ins)]
    [] j.j = "conseq" -> CompileConseq(cs, j)
    [] j.j = "branch" -> Put(cs, j.me, "IFFALSEJUMP", j.branch, j.target)
    [] j.j = "patch"  -> [cs EXCEPT !.lams[j.me] = PatchInstruction(@)]

RECURSIVE DoJobs(_)
DoJobs(cs) ==
  IF cs.err \/ cs.jobs = <<>> THEN [lams |-> cs.lams, err |-> cs.err]
  ELSE DoJobs(DoJob([cs EXCEPT !.jobs = Tail(@)], cs.jobs[1]))

\* The lambdas of one top-level form, number 1 being the form itself (dolex):
\* target 1, link return.
CompileForm(e) ==
  DoJobs([lams |-> <<NewLambda(0)>>, err |-> FALSE,
          jobs |-> <<Expr(1, 1, e, Sreturn, TRUE)>>])
=============================================================================
