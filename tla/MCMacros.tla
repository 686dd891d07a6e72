------------------------------ MODULE MCMacros ------------------------------
(***************************************************************************)
(* The expander against a definition of what syntax-rules means: a use     *)
(* matches a pattern when it is an instance of it, and the template is     *)
(* instantiated with the parts.  The macros are those of init.scm and some *)
(* with nested, inner and custom ellipses.                                 *)
(***************************************************************************)
EXTENDS Macros

CONSTANT Longest    \* arguments of a use (one more of the macros in Long)

S(name) == Sym(name)

\* A list as it is read: () is annotated, the end of a longer list is not.
E(items) == IF items = <<>> THEN Empty ELSE ListOf(items)
Dots == S("...")
a == S("a")  b == S("b")  x == S("x")  y == S("y")  k == S("_")
One == Num(1)  Two == Num(2)  Three == Num(3)  Four == Num(4)

Rule(p, t) == [patn |-> p, tmpl |-> t]
Macro(keyword, literals, rules) ==
  [keyword |-> keyword, literals |-> literals, ellipsis |-> "", bound |-> {}, rules |-> rules]

And == Macro("and", {}, <<
  Rule(E(<<k>>), S("#t")),
  Rule(E(<<k, x>>), x),
  Rule(E(<<k, x, y, Dots>>), E(<<S("if"), x, E(<<S("and"), y, Dots>>), S("#f")>>))>>)

Or == Macro("or", {}, <<
  Rule(E(<<k>>), S("#f")),
  Rule(E(<<k, a>>), a),
  Rule(E(<<k, a, b, Dots>>),
       E(<<S("let"), E(<<E(<<x, a>>)>>), E(<<S("if"), x, x, E(<<S("or"), b, Dots>>)>>)>>))>>)

LetMacro == Macro("let", {}, <<
  Rule(E(<<k, Empty, b, Dots>>), E(<<E(<<S("lambda"), Empty, b, Dots>>)>>)),
  Rule(E(<<k, E(<<E(<<x, a>>), Dots>>), b, Dots>>),
       ListTo(<<E(<<S("lambda"), E(<<x, Dots>>), b, Dots>>), a, Dots>>, Nil)),
  Rule(E(<<k, y, E(<<E(<<x, a>>), Dots>>), b, Dots>>),
       E(<<E(<<S("letrec"), E(<<E(<<y, E(<<S("lambda"), E(<<x, Dots>>), b, Dots>>)>>)>>), y>>), a, Dots>>))>>)

LetStar == Macro("let*", {}, <<
  Rule(E(<<k, Empty, b, Dots>>), E(<<S("let"), Empty, b, Dots>>)),
  Rule(E(<<k, E(<<E(<<x, a>>), y, Dots>>), b, Dots>>),
       E(<<S("let"), E(<<E(<<x, a>>)>>), E(<<k, E(<<y, Dots>>), b, Dots>>)>>))>>)

Cond == Macro("cond", {"else", "=>"}, <<
  Rule(E(<<k, E(<<S("else"), a, b, Dots>>)>>), E(<<S("begin"), a, b, Dots>>)),
  Rule(E(<<k, E(<<x, S("=>"), a>>)>>),
       E(<<S("let"), E(<<E(<<S("temp"), x>>)>>), E(<<S("if"), S("temp"), E(<<a, S("temp")>>)>>)>>)),
  Rule(E(<<k, E(<<x, a, b, Dots>>), y, Dots>>),
       E(<<S("if"), x, E(<<S("begin"), a, b, Dots>>), E(<<k, y, Dots>>)>>))>>)

\* A rule about nested ellipses, one each way: the outer repetition holds a
\* variable of its own, or only repetitions.
Rows == Macro("rows", {}, <<
  Rule(E(<<k, E(<<a, b, Dots>>), Dots>>),
       E(<<S("list"), E(<<a, E(<<a, b>>), Dots>>), Dots, E(<<a, Dots>>)>>))>>)
Columns == Macro("columns", {}, <<
  Rule(E(<<k, E(<<b, Dots>>), Dots>>), E(<<S("list"), E(<<b, Dots>>), Dots>>))>>)
Deep == Macro("deep", {}, <<
  Rule(E(<<k, E(<<a, E(<<x, y, Dots>>), Dots>>), Dots>>),
       E(<<E(<<a, E(<<x, a, y, Dots>>), Dots, a>>), Dots, S("end")>>))>>)

\* Ellipses followed by more, and dotted patterns.
PeelLast == Macro("peel", {}, <<
  Rule(E(<<k>>), S("done")),
  Rule(E(<<k, x, Dots, y>>), E(<<S("begin"), y, E(<<k, x, Dots>>)>>))>>)
Inner == Macro("inner", {}, <<
  Rule(E(<<k, a, E(<<x, y>>), Dots, E(<<b>>)>>), E(<<S("list"), a, E(<<x, Dots>>), b, y, Dots>>)),
  Rule(ListTo(<<k, a>>, b), E(<<S("cons"), a, E(<<S("quote"), b>>)>>))>>)
DotTail == Macro("dot", {}, <<
  Rule(ListTo(<<k, a, Dots>>, b), E(<<S("list"), b, a, Dots>>))>>)

\* Several rules that may each fail inside an ellipsis, a string as a tag, a
\* custom ellipsis, a literal that is bound where the macro is used.
Pairs == Macro("pairs", {}, <<
  Rule(E(<<k, E(<<a, b>>), Dots>>), E(<<S("pairs-of"), a, Dots, S("to"), b, Dots>>)),
  Rule(E(<<k, a, Dots>>), E(<<S("others"), a, Dots>>))>>)
Step == Macro("step", {}, <<
  Rule(E(<<k, Str("step"), x>>), x),
  Rule(E(<<k, Str("step"), x, y>>), E(<<y, S("tmp"), x>>)),
  Rule(E(<<k, E(<<x, a, b, Dots>>), Dots>>),
       E(<<S("loop"), E(<<k, Str("step"), x, b, Dots>>), Dots>>))>>)
Custom == [Macro("custom", {"..."}, <<
  Rule(E(<<k, Dots, a, S(":::")>>), E(<<S("f"), a, S(":::"), Dots>>))>>)
  EXCEPT !.ellipsis = ":::"]
Shadowed == [Cond EXCEPT !.keyword = "cond", !.bound = {"else"}]
Swap == Macro("swap", {}, <<
  Rule(E(<<k, a, b>>),
       E(<<S("let"), E(<<E(<<S("tmp"), a>>)>>), E(<<S("set!"), a, b>>), E(<<S("set!"), b, S("tmp")>>)>>))>>)

\* Rules that are refused: a variable twice, a variable used too shallow, nothing
\* to repeat, two ellipses in one list, an ellipsis that comes first, a keyword
\* that is a literal.
Wrong == [wrong1 |-> Rule(E(<<k, a, a>>), a),
          wrong2 |-> Rule(E(<<k, a, Dots>>), a),
          wrong3 |-> Rule(E(<<k, a>>), E(<<One, Dots>>)),
          wrong4 |-> Rule(E(<<k, a, Dots, b, Dots>>), One),
          wrong5 |-> Rule(E(<<k, Dots, a>>), a),
          wrong6 |-> Rule(E(<<y, a>>), a)]

Good == [and |-> And, or |-> Or, let |-> LetMacro, lets |-> LetStar, cond |-> Cond, rows |-> Rows,
         columns |-> Columns, deep |-> Deep, peel |-> PeelLast, inner |-> Inner, dot |-> DotTail,
         pairs |-> Pairs, step |-> Step, custom |-> Custom, shadowed |-> Shadowed, swap |-> Swap]
MCMacros == Good @@ [w \in DOMAIN Wrong |-> Macro("wrong", {"y"}, <<Wrong[w]>>)]

\* The uses: up to Longest arguments out of a few, and a dotted use of some.
tmp == S("tmp")
Binding(v) == E(<<v, One>>)
Arguments ==
  [and |-> {One, tmp, Empty}, or |-> {One, tmp, x}, peel |-> {One, tmp, Empty},
   let |-> {Empty, tmp, E(<<Binding(tmp)>>), E(<<Binding(tmp), Binding(x)>>), E(<<tmp>>)},
   lets |-> {Empty, tmp, E(<<Binding(tmp)>>), E(<<Binding(tmp), Binding(x)>>)},
   cond |-> {E(<<S("else"), One>>), E(<<tmp, One, Two>>), E(<<tmp, S("=>"), x>>), E(<<tmp>>), One},
   shadowed |-> {E(<<S("else"), One>>), E(<<tmp, One>>)},
   rows |-> {E(<<One>>), E(<<One, tmp>>), E(<<One, Two, Three>>)},
   columns |-> {E(<<One>>), Empty},
   deep |-> {E(<<One>>), E(<<One, E(<<Two, tmp>>)>>), E(<<One, E(<<Two>>), E(<<tmp, Three, Four>>)>>)},
   inner |-> {One, E(<<One>>), E(<<One, tmp>>)},
   dot |-> {One, tmp, Empty},
   pairs |-> {E(<<One, Two>>), E(<<tmp, Two>>), E(<<One>>), x},
   step |-> {Str("step"), One, E(<<tmp, One, Two>>), E(<<x, Two>>)},
   custom |-> {One, Dots, x},
   swap |-> {tmp, x, E(<<S("car"), tmp>>)}]
Long == {"inner", "rows"}
Lists(m) == UNION {[1 .. n -> Arguments[m]] : n \in 0 .. Longest + (IF m \in Long THEN 1 ELSE 0)}
Dotted   == {"inner", "dot", "and"}
MCUses ==
  [m \in DOMAIN Good |->
     LET head == S(MCMacros[m].keyword)
     IN  {Pair(head, ListOf(<<>> \o s)) : s \in Lists(m)}
         \cup {Pair(head, ListTo(<<>> \o s, Two)) : s \in {t \in Lists(m) : m \in Dotted /\ Len(<<>> \o t) <= Longest}}]
    @@ [w \in DOMAIN Wrong |-> {}]

-----------------------------------------------------------------------------
(* What syntax-rules means.  The matches of e with p: a set with the one way to
   bind the variables of p, or the empty set.  A variable at the end of a list
   matches the rest, which the expander refuses when it is empty: endless tells
   whether it may be. *)
Leaf(e)  == [leaf |-> e]
Row(bs)  == [row |-> bs]
RECURSIVE VarsOf(_, _), Matches(_, _, _, _), Instance(_, _, _, _)
VarsOf(mac, p) == {s \in SymbolsOf(p) : s # mac.ellipsis /\ s \notin mac.literals}

Matches(mac, e, p, endless) ==
  LET Rest == Cars(p.d.d)
      n == Len(Cars(e)) - Len(Rest)
      each == [i \in 1 .. n |-> Matches(mac, Cars(e)[i], p.a, endless)]
      rows == [v \in VarsOf(mac, p.a) |->
                 Row([i \in 1 .. n |-> (CHOOSE m \in each[i] : TRUE)[v]])]
  IN
  IF IsSym(p) THEN
    IF IsLiteral(mac, p) THEN {m \in {<<>>} : MatchesLiteral(mac, e, p)}
    ELSE IF IsNull(e) THEN {m \in {p.s :> Leaf(Empty)} : endless}
    ELSE {p.s :> Leaf(e)}
  ELSE IF ~IsPair(p) THEN {m \in {<<>>} : Unannotated(e) = p}
  ELSE IF Repeats(mac, p) THEN
    IF n < 0 \/ \E i \in 1 .. n : each[i] = {} THEN {}
    ELSE {rows @@ m : m \in Matches(mac, IF n = 0 THEN e ELSE After(e, n), p.d.d, endless)}
  ELSE IF ~IsPair(e) THEN {}
  ELSE {m1 @@ m2 : m1 \in Matches(mac, e.a, p.a, endless), m2 \in Matches(mac, e.d, p.d, endless)}

\* The template with the bindings m in it.
Instance(mac, t, m, hy) ==
  LET under == {v \in VarsOf(mac, t.a) \cap DOMAIN m : DOMAIN m[v] = {"row"}}
      count == CHOOSE n \in {Len(m[v].row) : v \in under} :
                 \A v \in under : n <= Len(m[v].row)
      In(i) == [v \in DOMAIN m |-> IF v \in under THEN m[v].row[i] ELSE m[v]]
  IN
  IF IsSym(t) THEN IF IsLiteral(mac, t) THEN t
                   ELSE IF t.s \in DOMAIN m THEN m[t.s].leaf ELSE hy[t.s]
  ELSE IF ~IsPair(t) THEN t
  ELSE IF Repeats(mac, t)
  THEN ListTo([i \in 1 .. count |-> Instance(mac, t.a, In(i), hy)], Instance(mac, t.d.d, m, hy))
  ELSE Pair(Instance(mac, t.a, m, hy), Instance(mac, t.d, m, hy))

Mac == SyntaxRules(Macros[macro])
BindingsOf(i, endless) ==
  {(Mac.rules[i].patn.a.s :> Leaf(expr.a)) @@ m :
     m \in Matches(Mac, expr.d, Mac.rules[i].patn.d, endless)}
Applicable(endless) == {i \in DOMAIN Mac.rules : BindingsOf(i, endless) # {}}
Meaning(endless) ==
  LET i == CHOOSE j \in Applicable(endless) : \A l \in Applicable(endless) : j <= l
      m == CHOOSE m1 \in BindingsOf(i, endless) : TRUE
  IN  CopyStripAnno(Instance(Mac, Mac.rules[i].tmpl, m, Last(name2hy)))

-----------------------------------------------------------------------------
(* The properties. *)

RECURSIVE Size(_), RepeatsARepetition(_)
Size(e) == IF IsPair(e) THEN 1 + Size(e.a) + Size(e.d) ELSE 0

\* A variable has matched nothing, or nothing in one of the repetitions around it.
RECURSIVE EmptyRow(_)
EmptyRow(v) ==
  DOMAIN v = {"row"} /\ (v.row = <<>> \/ \E i \in DOMAIN v.row : EmptyRow(v.row[i]))

\* Somewhere in the template, what an ellipsis repeats is itself one repetition.
RepeatsARepetition(t) ==
  /\ IsPair(t)
  /\ \/ Repeats(Mac, t) /\ IsPair(t.a) /\ Repeats(Mac, t.a) /\ IsNull(t.a.d.d)
     \/ RepeatsARepetition(t.a)
     \/ RepeatsARepetition(t.d)

\* A use is expanded by the first rule it is an instance of, to the instance of
\* that rule's template, each introduced symbol under the name this compiler has
\* for it; and the expander finds no match only where there is none.  (A variable
\* at the end of a list is taken not to match an empty rest.)
RightExpansion ==
  /\ status = "expanded" => Applicable(FALSE) # {} /\ CopyStripAnno(form) = Meaning(FALSE)
  /\ status = "no match" => Applicable(FALSE) = {}

\* SyntaxRules::expand crashes or loops only where a variable under an ellipsis has
\* matched nothing, or where the template repeats a repetition and nothing else.
FaultsOnlyWhenEmpty ==
  status \in {"crashed", "looping"} =>
    \E i \in Applicable(FALSE) :
      \/ RepeatsARepetition(Mac.rules[i].tmpl)
      \/ \E m \in BindingsOf(i, FALSE) : \E v \in DOMAIN m : EmptyRow(m[v])

\* A name introduced by one compiler is never that of another one's symbol, nor the
\* same for two symbols: an introduced binding captures nothing of an enclosing or
\* an inner lambda (GlobalVM::getuniquesym, SCompiler::sym2hygiene).
NamesApart ==
  \A i, j \in DOMAIN name2hy :
    \A s \in DOMAIN name2hy[i], t \in DOMAIN name2hy[j] :
      name2hy[i][s] = name2hy[j][t] => i = j /\ s = t

\* Expansion ends: the uses that an expansion leaves behind are smaller than the
\* use they came from (of all macros of init.scm that use themselves).
UsesShrink ==
  status = "expanded" => \A e \in UsesIn(form) : Size(e) < Size(expr)

\* What the expander makes of a use is right, in the end, and where it fails it
\* is in the two known cases (SyntaxRules::expand, SyntaxRules::trymatch).
ExpansionIsRight == RightExpansion /\ FaultsOnlyWhenEmpty /\ UsesShrink

\* README.md:31: "syntax-rules hygienic macros": a use that is an instance of a
\* pattern, in the sense of R5RS, expands to the instance of the template.
AsR5RS ==
  status \in {"expanded", "no match", "crashed", "looping", "unknown"} /\ Applicable(TRUE) # {} =>
    status = "expanded" /\ CopyStripAnno(form) = Meaning(TRUE)
=============================================================================
