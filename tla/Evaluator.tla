----------------------------- MODULE Evaluator ------------------------------
(***************************************************************************)
(* What a program means: an evaluator in the manner of a CEK machine, with *)
(* a store of variables and continuations that are immutable sequences of  *)
(* pending work.  There is no stack to share, no slot to reuse and nothing *)
(* to copy, which is why the compiled code is compared with it             *)
(* (MCMachine.tla).  It follows the report the tests of the repository     *)
(* cite, with the order of evaluation of this compiler: operator first,    *)
(* then the arguments from left to right.                                  *)
(***************************************************************************)
EXTENDS Syntax, Integers, SequencesExt, Functions, TLC

VARIABLES ctl, kont, store, ports, globals, todo, answers

evalVars == <<ctl, kont, store, ports, globals, todo, answers>>

Eval(e, env) == [m |-> "eval", e |-> e, env |-> env]
Ret(v)       == [m |-> "ret", v |-> v]
Apply(f, args) == [m |-> "apply", f |-> f, args |-> args]
Idle         == [m |-> "idle"]
Stop         == [m |-> "stop"]

EvalInit(prog) ==
  /\ ctl = Idle /\ kont = <<>> /\ store = <<>> /\ ports = <<>>
  /\ globals = [x \in {} |-> Void]
  /\ todo = prog /\ answers = <<>>

\* Procedures have no printed form of their own in an answer.
RECURSIVE Shown(_)
Shown(v) ==
  CASE v.t = "pair" -> Pair(Shown(v.a), Shown(v.d))
    [] v.t = "vec"  -> Vector([i \in DOMAIN v.items |-> Shown(v.items[i])])
    [] v.t \in {"clo", "cont", "prim"} -> [t |-> "proc"]
    [] v.t = "promise" -> [t |-> "promise"]
    [] v.t = "values" -> [t |-> "values", l |-> [i \in DOMAIN v.l |-> Shown(v.l[i])]]
    [] OTHER -> v

RECURSIVE IsList(_)
IsList(v) == v.t = "nil" \/ (v.t = "pair" /\ IsList(v.d))

RECURSIVE Items(_)
Items(v) == IF v.t = "nil" THEN <<>> ELSE <<v.a>> \o Items(v.d)

-----------------------------------------------------------------------------
(* The internal definitions of a body: they name variables of the body.     *)
RECURSIVE Defined(_)
Defined(es) ==
  IF es = <<>> THEN <<>>
  ELSE LET e == es[1]
       IN  CASE e.op = "define" -> <<e.x>> \o Defined(Tail(es))
             [] e.op = "begin"  -> Defined(e.es \o Tail(es))
             [] e.op = "macro"  -> Defined(<<e.e>> \o Tail(es))
             [] OTHER           -> Defined(Tail(es))

\* What the syntax of the report refuses: a parameter or an internal definition
\* given twice, an empty body, a definition where an expression belongs.
RECURSIVE Legal(_, _)
Legal(e, defok) ==
  LET all(es, ok) == \A i \in DOMAIN es : Legal(es[i], ok)
  IN CASE e.op \in {"const", "var", "quasi"} -> TRUE
       [] e.op = "define" -> defok /\ Legal(e.e, FALSE)
       [] e.op = "set"    -> Legal(e.e, FALSE)
       [] e.op = "macro"  -> Legal(e.e, TRUE)
       [] e.op = "begin"  -> all(e.es, defok)
       [] e.op = "delay"  -> all(e.es, TRUE)
       [] e.op = "if"     -> all(<<e.c, e.t, e.a>>, FALSE)
       [] e.op = "app"    -> all(<<e.f>> \o e.args, FALSE)
       [] e.op = "lambda" -> /\ IsInjective(e.params) /\ IsInjective(Defined(e.body))
                             /\ e.body # <<>> /\ all(e.body, TRUE)

\* A quasiquotation is a list expression (R5RS 4.2.6).
Lists(f, es) == App(Const(Prim(f)), es)

RECURSIVE Build(_, _)
Build(tmpl, depth) ==
  CASE tmpl.q = "datum" -> Const(tmpl.v)
    [] tmpl.q = "unquote" ->
         IF depth = 0 THEN tmpl.e
         ELSE Lists("list", <<Const(Sym("unquote")), Build(tmpl.tmpl, depth - 1)>>)
    [] tmpl.q = "splice" ->
         Lists("list", <<Const(Sym("unquote-splicing")), Build(tmpl.tmpl, depth - 1)>>)
    [] tmpl.q = "quasi" ->
         Lists("list", <<Const(Sym("quasiquote")), Build(tmpl.tmpl, depth + 1)>>)
    [] tmpl.q = "pair" ->
         IF tmpl.a.q = "splice" /\ depth = 0
         THEN Lists("append", <<tmpl.a.e, Build(tmpl.d, depth)>>)
         ELSE Lists("cons", <<Build(tmpl.a, depth), Build(tmpl.d, depth)>>)
    [] tmpl.q = "vec" -> Lists("list->vector", <<Build(TList(tmpl.items), depth)>>)

-----------------------------------------------------------------------------
(* What a step leaves in place. *)
evalRest == <<kont, store, ports, globals, todo, answers>>
Becomes(c) == ctl' = c
Failed == /\ ctl' = Stop /\ answers' = Append(answers, [t |-> "error"])
          /\ UNCHANGED <<kont, store, ports, globals, todo>>

Push(k, c) == /\ kont' = <<k>> \o kont /\ ctl' = c
              /\ UNCHANGED <<store, ports, globals, todo, answers>>

NextForm ==
  /\ ctl.m = "idle"
  /\ IF todo = <<>> THEN Becomes(Stop) /\ UNCHANGED evalRest
     ELSE IF ~Legal(todo[1], TRUE) THEN Failed
     ELSE /\ Becomes(Eval(todo[1], [x \in {} |-> 0])) /\ todo' = Tail(todo)
          /\ UNCHANGED <<kont, store, ports, globals, answers>>

EvalExpr ==
  /\ ctl.m = "eval"
  /\ LET e == ctl.e   env == ctl.env
         go(c) == Becomes(c) /\ UNCHANGED evalRest
     IN CASE e.op = "const"  -> go(Ret(e.v))
          [] e.op = "quasi"  -> go(Eval(Build(e.tmpl, 0), env))
          [] e.op = "macro"  -> go(Eval(e.e, env))
          [] e.op = "lambda" -> go(Ret([t |-> "clo", lam |-> e, env |-> env]))
          [] e.op = "delay"  -> go(Ret([t |-> "promise"]))
          [] e.op = "var"    ->
               IF e.x \in DOMAIN env THEN go(Ret(store[env[e.x]]))
               ELSE IF e.x \in DOMAIN globals THEN go(Ret(globals[e.x]))
               ELSE Failed
          [] e.op \in {"set", "define"} ->
               Push([k |-> e.op, x |-> e.x, env |-> env], Eval(e.e, env))
          [] e.op = "if"     -> Push([k |-> "if", e |-> e, env |-> env], Eval(e.c, env))
          [] e.op = "begin"  ->
               IF e.es = <<>> THEN go(Ret(Void))
               ELSE Push([k |-> "seq", es |-> Tail(e.es), env |-> env], Eval(e.es[1], env))
          [] e.op = "app"    ->
               Push([k |-> "app", done |-> <<>>, args |-> e.args, env |-> env], Eval(e.f, env))

\* A value meets the pending work on top.
Single(v) == IF v.t = "values" THEN IF Len(v.l) = 1 THEN v.l[1] ELSE [t |-> "bad"] ELSE v

ReturnValue ==
  /\ ctl.m = "ret" /\ kont # <<>>
  /\ LET k == kont[1]   v == ctl.v   one == Single(v)
         pop(c) == /\ kont' = Tail(kont) /\ ctl' = c
                   /\ UNCHANGED <<store, ports, globals, todo, answers>>
     IN CASE k.k \in {"set", "define", "if"} /\ one.t = "bad" -> Failed
          [] k.k \in {"set", "define"} /\ one.t # "bad" /\ k.x \in DOMAIN k.env ->
               /\ store' = [store EXCEPT ![k.env[k.x]] = one]
               /\ kont' = Tail(kont) /\ ctl' = Ret(Void)
               /\ UNCHANGED <<ports, globals, todo, answers>>
          [] k.k \in {"set", "define"} /\ one.t # "bad" /\ k.x \notin DOMAIN k.env ->
               IF k.k = "set" /\ k.x \notin DOMAIN globals THEN Failed
               ELSE /\ globals' = (k.x :> one) @@ globals
                    /\ kont' = Tail(kont) /\ ctl' = Ret(Void)
                    /\ UNCHANGED <<store, ports, todo, answers>>
          [] k.k = "if" /\ one.t # "bad" ->
               pop(Eval(IF IsFalse(one) THEN k.e.a ELSE k.e.t, k.env))
          [] k.k = "seq" ->
               IF k.es = <<>> THEN pop(Ret(v))
               ELSE /\ kont' = <<[k EXCEPT !.es = Tail(k.es)]>> \o Tail(kont)
                    /\ ctl' = Eval(k.es[1], k.env)
                    /\ UNCHANGED <<store, ports, globals, todo, answers>>
          [] k.k = "app" ->
               LET done == Append(k.done, v)
               IN  IF k.args = <<>> THEN pop(Apply(done[1], Tail(done)))
                   ELSE /\ kont' = <<[k EXCEPT !.done = done, !.args = Tail(k.args)]>>
                                   \o Tail(kont)
                        /\ ctl' = Eval(k.args[1], k.env)
                        /\ UNCHANGED <<store, ports, globals, todo, answers>>
          [] k.k = "port" ->
               /\ ports' = [ports EXCEPT ![k.id].open = FALSE]
               /\ kont' = Tail(kont)
               /\ ctl' = Ret(IF ports[k.id].str
                             THEN [t |-> "str", text |-> ports[k.id].text] ELSE v)
               /\ UNCHANGED <<store, globals, todo, answers>>

FormDone ==
  /\ ctl.m = "ret" /\ kont = <<>>
  /\ ctl' = Idle /\ answers' = Append(answers, Shown(ctl.v))
  /\ UNCHANGED <<kont, store, ports, globals, todo>>

-----------------------------------------------------------------------------
ArityFits(lam, n) == IF lam.rest THEN n >= Len(lam.params) - 1 ELSE n = Len(lam.params)

ApplyClosure ==
  /\ ctl.m = "apply" /\ ctl.f.t = "clo"
  /\ LET lam  == ctl.f.lam
         args == [i \in DOMAIN ctl.args |-> Single(ctl.args[i])]
         n    == Len(lam.params)
         vals == IF lam.rest
                 THEN Append(SubSeq(args, 1, n - 1), ListOf(SubSeq(args, n, Len(args))))
                 ELSE args
         body == SelectSeq(Defined(lam.body),
                           LAMBDA x : \A i \in 1 .. n : lam.params[i] # x)
         names == lam.params \o body
         at == Len(store)
         env == [x \in {names[i] : i \in DOMAIN names} |->
                   at + (CHOOSE i \in DOMAIN names : names[i] = x)]
     IN IF ~ArityFits(lam, Len(args)) \/ (\E i \in DOMAIN args : args[i].t = "bad")
        THEN Failed
        ELSE /\ store' = store \o vals \o [i \in DOMAIN body |-> Void]
             /\ ctl' = Eval(Begin(lam.body), env @@ ctl.f.env)
             /\ UNCHANGED <<kont, ports, globals, todo, answers>>

ApplyContinuation ==
  /\ ctl.m = "apply" /\ ctl.f.t = "cont"
  /\ IF Len(ctl.args) # 1 THEN Failed
     ELSE /\ kont' = ctl.f.k /\ ctl' = Ret(ctl.args[1])
          /\ UNCHANGED <<store, ports, globals, todo, answers>>

Sum(args) == FoldLeft(LAMBDA acc, a : acc + a.v, 0, args)

\* The results of the primitives that only compute; "bad" is an error.
PrimResult(p, args) ==
  LET bad == [t |-> "bad"]  n == Len(args)
  IN IF \E i \in 1 .. n : args[i].t = "bad" THEN bad
     ELSE CASE p = "+" -> IF \E i \in 1 .. n : args[i].t # "num" THEN bad ELSE Num(Sum(args))
            [] p = "zero?" -> IF n # 1 \/ args[1].t # "num" THEN bad ELSE Bool(args[1].v = 0)
            [] p = "list"  -> ListOf(args)
            [] p = "cons"  -> Pair(args[1], args[2])
            [] p = "append" -> IF ~IsList(args[1]) THEN bad ELSE ListTo(Items(args[1]), args[2])
            [] p = "list->vector" -> IF ~IsList(args[1]) THEN bad ELSE Vector(Items(args[1]))
            [] OTHER -> bad

ApplyPrim ==
  /\ ctl.m = "apply" /\ ctl.f.t = "prim"
  /\ LET p == ctl.f.p   args == ctl.args   n == Len(args)
         one == [i \in DOMAIN args |-> Single(args[i])]
         go(c) == Becomes(c) /\ UNCHANGED evalRest
         spread == SubSeq(args, 2, n - 1) \o Items(args[n])
     IN CASE p = "call/cc" ->
               IF n # 1 THEN Failed
               ELSE go(Apply(args[1], <<[t |-> "cont", k |-> kont]>>))
          [] p = "apply" ->
               IF n < 2 \/ ~IsList(args[n]) THEN Failed ELSE go(Apply(args[1], spread))
          [] p = "values" -> go(Ret([t |-> "values", l |-> args]))
          [] p = "%values->list" ->
               IF n # 1 THEN Failed
               ELSE go(Ret(IF args[1].t = "values" THEN ListOf(args[1].l)
                           ELSE ListOf(args)))
          [] p \in {"call-with-output-string", "call-with-output-file"} ->
               /\ ports' = Append(ports, [open |-> TRUE, text |-> <<>>,
                                          str |-> p = "call-with-output-string"])
               /\ kont' = <<[k |-> "port", id |-> Len(ports) + 1]>> \o kont
               /\ ctl' = Apply(args[n], <<[t |-> "port", id |-> Len(ports) + 1]>>)
               /\ UNCHANGED <<store, globals, todo, answers>>
          [] p = "write" ->
               IF n # 2 THEN Failed
               ELSE IF one[2].t # "port" THEN Failed
               ELSE /\ ports' = IF ports[one[2].id].open
                                THEN [ports EXCEPT ![one[2].id].text = Append(@, Shown(one[1]))]
                                ELSE ports
                    /\ ctl' = Ret(Void)
                    /\ UNCHANGED <<kont, store, globals, todo, answers>>
          [] OTHER ->
               IF PrimResult(p, one).t = "bad" THEN Failed ELSE go(Ret(PrimResult(p, one)))

ApplyOther == /\ ctl.m = "apply" /\ ctl.f.t \notin {"clo", "cont", "prim"} /\ Failed

EvalNext == \/ NextForm \/ EvalExpr \/ ReturnValue \/ FormDone
            \/ ApplyClosure \/ ApplyContinuation \/ ApplyPrim \/ ApplyOther
=============================================================================
