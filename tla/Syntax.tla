------------------------------- MODULE Syntax -------------------------------
(***************************************************************************)
(* The programs that the compiler (Compiler.tla) translates and that the   *)
(* reference evaluator (Evaluator.tla) runs directly: what the reader has  *)
(* produced, with the keyword of each form already told apart the way      *)
(* compilepair tells it.  A program is a sequence of top-level forms; the  *)
(* loader compiles and runs one after the other (dolex).                   *)
(***************************************************************************)
EXTENDS Naturals, Sequences

\* Values.  Both machines share the first-order ones.
Num(n)   == [t |-> "num", v |-> n]
Bool(b)  == [t |-> "bool", b |-> b]
Sym(s)   == [t |-> "sym", s |-> s]
Prim(p)  == [t |-> "prim", p |-> p]
Nil      == [t |-> "nil"]
Void     == [t |-> "void"]
Pair(a, d) == [t |-> "pair", a |-> a, d |-> d]
Vector(items) == [t |-> "vec", items |-> items]

IsFalse(v) == v = Bool(FALSE)

\* The Scheme list of the values of a sequence, ended by tail.
ListTo(s, tail) ==
  LET from[i \in 1 .. Len(s) + 1] ==
        IF i > Len(s) THEN tail ELSE Pair(s[i], from[i + 1])
  IN  from[1]

ListOf(s) == ListTo(s, Nil)

\* Expressions.
Const(v)          == [op |-> "const", v |-> v]
Var(x)            == [op |-> "var", x |-> x]
SetVar(x, e)      == [op |-> "set", x |-> x, e |-> e]
Define(x, e)      == [op |-> "define", x |-> x, e |-> e]
Lambda(ps, rest, body) ==
  [op |-> "lambda", params |-> ps, rest |-> rest, body |-> body]
If(c, t, a)       == [op |-> "if", c |-> c, t |-> t, a |-> a]
Begin(es)         == [op |-> "begin", es |-> es]
App(f, args)      == [op |-> "app", f |-> f, args |-> args]
Delay(es)         == [op |-> "delay", es |-> es]
Quasi(tmpl)       == [op |-> "quasi", tmpl |-> tmpl]
\* A use of a syntax-rules macro that expands to e (the expander itself is
\* modelled in Macros.tla).
MacroUse(e)       == [op |-> "macro", e |-> e]

Let(x, e, body)   == App(Lambda(<<x>>, FALSE, body), <<e>>)

\* Templates of a quasiquotation: a datum, a pair, a vector, a nested
\* quasiquotation, and an unquotation, which carries both the datum it is (tmpl)
\* and the expression it stands for at depth 0 (e).
Datum(v)          == [q |-> "datum", v |-> v]
TPair(a, d)       == [q |-> "pair", a |-> a, d |-> d]
TVector(items)    == [q |-> "vec", items |-> items]
Nested(tmpl)      == [q |-> "quasi", tmpl |-> tmpl]
Unquote(e, tmpl)  == [q |-> "unquote", e |-> e, tmpl |-> tmpl]
Splice(e, tmpl)   == [q |-> "splice", e |-> e, tmpl |-> tmpl]

TList(s) ==
  LET from[i \in 1 .. Len(s) + 1] ==
        IF i > Len(s) THEN Datum(Nil) ELSE TPair(s[i], from[i + 1])
  IN  from[1]

IsTNil(tmpl) == tmpl = Datum(Nil)
=============================================================================
