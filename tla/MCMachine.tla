----------------------------- MODULE MCMachine ------------------------------
(***************************************************************************)
(* Compiled code on the machine against the evaluator: a program is chosen,*)
(* compiled and run; then the evaluator runs it, and the answers of all    *)
(* its forms are compared.                                                 *)
(***************************************************************************)
EXTENDS Machine, Evaluator

CONSTANTS Suite      \* which programs

C == INSTANCE Compiler

\* The value as data, procedures having no form of their own.
RECURSIVE ShowValue(_, _)
ShowValue(h, v) ==
  CASE v.t = "pair" -> Pair(ShowValue(h, h.pairs[v.id].a), ShowValue(h, h.pairs[v.id].d))
    [] v.t = "vec"  -> Vector([i \in DOMAIN v.items |-> ShowValue(h, v.items[i])])
    [] v.t \in {"clo", "cont", "prim"} -> [t |-> "proc"]
    [] v.t = "promise" -> [t |-> "promise"]
    [] v.t = "values" -> LET items == ItemsOf(h, v.l)
                         IN  [t |-> "values", l |-> [i \in DOMAIN items |-> ShowValue(h, items[i])]]
    [] OTHER -> v

x == Var("x")   y == Var("y")   z == Var("z")
N(i) == Const(Num(i))
Call1(p, e) == App(Const(Prim(p)), <<e>>)
CallP(p, es) == App(Const(Prim(p)), es)
L(ps, body) == Lambda(ps, FALSE, body)

\* (call/cc (lambda (c) (set! k c) e)): the continuation is kept in the global k.
Grab(e) == Call1("call/cc", L(<<"c">>, <<SetVar("k", Var("c")), e>>))

\* Contexts for an expression, in the body of (lambda (x) ...).
Contexts == 1 .. 13
In(i, e) ==
  CASE i = 1  -> CallP("list", <<x, e, x>>)
    [] i = 2  -> App(Var("g"), <<e, x>>)
    [] i = 3  -> Let("y", e, <<CallP("list", <<x, y>>)>>)
    [] i = 4  -> If(Call1("zero?", e), CallP("list", <<x>>), x)
    [] i = 5  -> App(L(<<>>, <<App(L(<<>>, <<CallP("list", <<x, e>>)>>), <<>>)>>), <<>>)
    [] i = 6  -> CallP("apply", <<Var("g"), CallP("list", <<e, x>>)>>)
    [] i = 7  -> Begin(<<SetVar("x", CallP("+", <<x, N(1)>>)), CallP("list", <<x, e>>)>>)
    [] i = 8  -> CallP("apply", <<Const(Prim("list")), N(3),
                   Call1("%values->list", CallP("values", <<e, x>>))>>)
    [] i = 9  -> App(Lambda(<<"y", "z">>, TRUE, <<CallP("list", <<y, z>>)>>), <<x, e, x>>)
    [] i = 10 -> Quasi(TList(<<Datum(Num(9)), Unquote(e, Datum(Nil)),
                               Splice(CallP("list", <<x, x>>), Datum(Nil)), Datum(Sym("s"))>>))
    [] i = 11 -> CallP("apply", <<Const(Prim("call/cc")),
                   CallP("list", <<L(<<"d">>, <<App(Var("d"), <<e>>)>>)>>)>>)
    [] i = 12 -> App(L(<<>>, <<Define("y", e), Define("h", L(<<>>, <<y>>)),
                               CallP("list", <<App(Var("h"), <<>>), x>>)>>), <<>>)
    [] i = 13 -> MacroUse(Begin(<<x, If(Const(Bool(TRUE)), e, x)>>))

\* Everything before and after: f runs the body, k re-enters it twice.
G == Define("g", L(<<"a", "b">>, <<CallP("list", <<Var("b"), Var("a")>>)>>))
Program(body) ==
  <<Define("k", Const(Bool(FALSE))), G,
    Define("f", L(<<"x">>, <<body>>)),
    CallP("list", <<N(8), App(Var("f"), <<N(2)>>), Var("k")>>),
    App(Var("k"), <<N(0)>>),
    App(Var("k"), <<N(5)>>)>>

Reentries == {Program(In(i, Grab(x))) : i \in Contexts}
Nestings  == {Program(In(i, In(j, Grab(x)))) : i, j \in Contexts}
Triples   == {Program(In(i, In(j, In(l, Grab(x))))) :
                i \in {2, 3, 5}, j \in {1, 3, 7, 12}, l \in {5, 7, 11}}

\* A continuation per global, entered in turn.
GrabIn(j, e) == Call1("call/cc", L(<<"c">>, <<SetVar(j, Var("c")), e>>))
PingPong(body) ==
  <<Define("k", N(0)), Define("j", N(0)), Define("f", L(<<"x">>, body)),
    CallP("list", <<App(Var("f"), <<N(1)>>), N(9)>>),
    App(Var("k"), <<N(2)>>), App(Var("j"), <<N(3)>>),
    App(Var("k"), <<N(4)>>), App(Var("j"), <<N(5)>>)>>
Twice ==
  {PingPong(<<Let("y", GrabIn("k", x), <<Let("z", GrabIn("j", x),
                <<CallP("list", <<x, y, z>>)>>)>>)>>),
   PingPong(<<SetVar("x", GrabIn("k", x)),
              CallP("list", <<x, GrabIn("j", x), L(<<>>, <<x>>)>>)>>),
   PingPong(<<Define("y", GrabIn("k", x)), SetVar("y", CallP("list", <<y, GrabIn("j", y)>>)),
              Define("h", L(<<>>, <<CallP("list", <<x, y>>)>>)), App(Var("h"), <<>>)>>)}

\* Loops, recursion over several segments, counters, escapes.
Down(i) == CallP("+", <<i, N(-1)>>)
F(ps, body, use) == <<Define("k", N(0)), Define("f", L(ps, body))>> \o use
Shapes ==
  {F(<<"x", "y">>, <<If(Call1("zero?", x), y, App(Var("f"), <<Down(x), CallP("list", <<x, y>>)>>))>>,
     <<App(Var("f"), <<N(3), N(0)>>)>>),
   F(<<"x">>, <<If(Call1("zero?", x), Grab(N(0)), CallP("+", <<x, App(Var("f"), <<Down(x)>>), x>>))>>,
     <<CallP("list", <<App(Var("f"), <<N(4)>>)>>), App(Var("k"), <<N(10)>>), App(Var("k"), <<N(20)>>)>>),
   F(<<"x">>, <<L(<<>>, <<SetVar("x", CallP("+", <<x, N(1)>>)),
                         CallP("list", <<x, Grab(x)>>)>>)>>,
     <<Define("g", App(Var("f"), <<N(0)>>)), App(Var("g"), <<>>), App(Var("g"), <<>>),
       App(Var("k"), <<N(7)>>), App(Var("g"), <<>>)>>),
   F(<<"x", "y">>, <<SetVar("x", CallP("+", <<x, Grab(N(1))>>)), SetVar("y", CallP("list", <<x, y>>)),
                     CallP("list", <<x, y>>)>>,
     <<CallP("list", <<App(Var("f"), <<N(1), N(0)>>)>>), App(Var("k"), <<N(10)>>), App(Var("k"), <<N(20)>>)>>),
   F(<<"x">>, <<CallP("list", <<x, Call1("call/cc", L(<<"c">>, <<CallP("list", <<App(Var("c"), <<N(4)>>), x>>)>>))>>)>>,
     <<App(Var("f"), <<N(1)>>), CallP("list", <<App(Var("f"), <<N(2)>>)>>)>>),
   F(<<"x">>, <<Define("g", L(<<"y">>, <<L(<<>>, <<SetVar("x", y), SetVar("y", x), CallP("list", <<x, y>>)>>)>>)),
                App(App(Var("g"), <<N(6)>>), <<>>)>>,
     <<App(Var("f"), <<N(1)>>), Begin(<<Define("h", N(3)), SetVar("h", N(4)), Var("h")>>),
       Begin(<<>>), Delay(<<Var("h")>>)>>)}

\* Quasiquotations: nested, in vectors, spliced, dotted.
T(v) == Datum(Num(v))
Unq(e) == Unquote(e, T(0))
Spl(e) == Splice(e, T(0))
Fresh == CallP("list", <<N(5), x>>)
Deep == Unquote(x, TList(<<T(3), Unquote(x, Unq(x)), Spl(Fresh)>>))
Templates ==
  {TList(<<T(1), Unq(x), T(2)>>), TPair(T(1), Unq(x)), TList(<<Spl(Fresh), Spl(Fresh), T(3)>>),
   TList(<<Unq(Grab(x)), Spl(Fresh)>>), TVector(<<Unq(x), Spl(Fresh), T(4)>>), TVector(<<>>),
   TVector(<<T(1), Unq(x), Spl(Fresh)>>), TVector(<<Unq(Grab(x))>>),
   Nested(TList(<<T(1), Deep>>)), TList(<<T(2), Nested(TList(<<Deep, Splice(Fresh, Unq(x)), T(1)>>))>>),
   Nested(TVector(<<Splice(Fresh, Unq(x)), Splice(Fresh, T(7)), T(2)>>)),
   TList(<<TList(<<Unq(x)>>), TVector(<<Spl(Fresh), T(1), TList(<<Spl(Fresh)>>)>>)>>)}
Quotings == {F(<<"x">>, <<Quasi(q)>>, <<CallP("list", <<App(Var("f"), <<N(8)>>), N(1)>>)>>) : q \in Templates}

\* Procedures on ports, left by returning or by an error.
Str(body) == Call1("call-with-output-string", L(<<"p">>, body))
File(f) == CallP("call-with-output-file", <<Const(Sym("name")), f>>)
Write(e) == CallP("write", <<e, Var("p")>>)
PortBodies ==
  {<<Str(<<Write(x), Write(N(2)), N(3)>>)>>, <<CallP("list", <<Str(<<Write(x), x>>), x>>)>>,
   <<Str(<<Write(x), Write(Str(<<Write(N(4)), x>>)), x>>)>>,
   <<CallP("list", <<File(L(<<"p">>, <<Write(x), Write(N(2)), x>>)), x>>)>>,
   <<File(Lambda(<<"p", "r">>, TRUE, <<Write(Var("r")), x>>))>>,
   <<File(Const(Prim("list")))>>,
   <<CallP("apply", <<Const(Prim("call-with-output-string")),
                      CallP("list", <<L(<<"p">>, <<Write(x), x>>)>>)>>)>>,
   <<Str(<<Write(Var("nowhere")), x>>)>>,
   <<CallP("list", <<File(L(<<"p">>, <<Str(<<App(N(1), <<x>>), x>>), x>>))>>)>>}
PortUses == {F(<<"x">>, body, <<App(Var("f"), <<N(8)>>), N(1)>>) : body \in PortBodies}

\* What raises, at run time and at compile time.
Errors ==
  {Var("nowhere"), SetVar("nowhere", N(1)), App(N(1), <<>>), App(L(<<"x">>, <<x>>), <<>>),
   App(Lambda(<<"x", "y">>, TRUE, <<x>>), <<>>), Call1("+", Const(Nil)), CallP("apply", <<N(1)>>),
   CallP("apply", <<Const(Prim("+")), N(1)>>), CallP("zero?", <<N(1), N(2)>>), Call1("call/cc", N(1)),
   Call1("call/cc", L(<<>>, <<N(1)>>)), If(CallP("values", <<N(1), N(2)>>), N(1), N(2)),
   Let("x", N(1), <<SetVar("x", CallP("values", <<>>)), x>>), Define("h", CallP("values", <<>>)),
   If(CallP("values", <<N(1)>>), N(1), N(2)), Call1("call-with-output-string", N(1)),
   Let("x", N(1), <<Quasi(TVector(<<Spl(x)>>))>>), Quasi(TList(<<Spl(N(1)), T(2)>>)),
   L(<<"x", "x">>, <<x>>), L(<<>>, <<Define("x", N(1)), Define("x", N(2))>>), L(<<>>, <<>>),
   App(Const(Prim("list")), <<Define("h", N(1))>>), Call1("%values->list", N(1)), CallP("write", <<N(1), N(2)>>),
   MacroUse(Begin(<<Define("h", N(1)), Var("h")>>))}
Raisings == {<<Define("f", N(1)), CallP("list", <<N(2), e>>), N(3)>> : e \in Errors \ {Define("h", CallP("values", <<>>))}}
              \cup {<<e, N(3)>> : e \in Errors}

Pass == Reentries \cup Nestings \cup Triples \cup Twice \cup Shapes \cup Quotings
          \cup PortUses \cup Raisings

\* Quasiquotations that splice the user's own list, and that end a list or a
\* vector with a splice at depth 1.
Splicings ==
  {F(<<"x">>, <<Quasi(q)>>, <<Define("h", CallP("list", <<N(1), N(2)>>)),
      App(Var("f"), <<Var("h")>>), App(Var("f"), <<Var("h")>>), Var("h")>>) :
     q \in {TList(<<T(0), Spl(x), T(3)>>), Nested(TList(<<T(0), Splice(x, T(7))>>)),
            Nested(TVector(<<T(0), Splice(x, T(7))>>))}}

\* call/cc as a tail call of a procedure that is not a closure.
TailCaptures ==
  {F(<<"x">>, <<Call1("call/cc", Const(Prim(p)))>>, <<CallP("list", <<App(Var("f"), <<N(1)>>)>>)>>) :
     p \in {"list", "zero?"}}

MCPrograms == CASE Suite = "pass" -> Pass
                [] Suite = "splice" -> Splicings
                [] Suite = "tail" -> TailCaptures

Compiled(prog) == [i \in DOMAIN prog |-> C!CompileForm(prog[i])]

MCInit == \E prog \in MCPrograms : MachineInit(Compiled(prog)) /\ EvalInit(prog)

MCNext == \/ MachineNext /\ UNCHANGED evalVars
          \/ mode = "done" /\ EvalNext /\ UNCHANGED machineVars

MCSpec == MCInit /\ [][MCNext]_<<machineVars, evalVars>>

\* The compiled program gives the answers the program has.
Agreement == mode = "done" /\ ctl.m = "stop" => results = answers
=============================================================================
