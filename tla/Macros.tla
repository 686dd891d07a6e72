------------------------------- MODULE Macros -------------------------------
(***************************************************************************)
(* The syntax-rules expander (the second half of scmcompiler.cpp): what a  *)
(* rule may look like, how a use is matched against the patterns, how the  *)
(* template of the first rule that matches is filled in, and how the       *)
(* symbols a template introduces are renamed, once per compiler, so that   *)
(* they capture nothing.                                                   *)
(*                                                                         *)
(* The reader wraps what it reads in annotations.  Only one consequence    *)
(* matters here: an expression () is an annotated null (Empty), the end of *)
(* a list a bare one (Nil), and the expander tells them apart.  Vectors in *)
(* patterns and templates are left out (README, "Not modelled").           *)
(***************************************************************************)
EXTENDS Integers, Syntax, SequencesExt

CONSTANTS
  Macros,      \* the macro definitions a program may make
  Uses,        \* [Macros -> SUBSET uses]: the expressions that use each
  MaxRepeats,  \* more than any list of a use is long
  MaxForms,    \* forms compiled in one run
  MaxLambdas   \* compilers inside one another

Levels == 0 .. 3    \* more than any ellipsis of a template is nested

VARIABLES
  macro,     \* SyntaxRules: the macro defined, or "none"
  status,    \* what became of the last form
  expr,      \* the expression expanded last
  form,      \* what SyntaxRules::expand made of it
  name2hy,   \* SCompiler::name2hystk of each compiler, the one at work last
  uniquen,   \* GlobalVM::uniquen
  forms      \* forms compiled so far

vars == <<macro, status, expr, form, name2hy, uniquen, forms>>

\* What a ValueT may also be: an annotated null, a string, a HygieneSymObj, the
\* array of the matches of a variable under an ellipsis, and undefined.
Empty      == [t |-> "empty"]
Str(s)     == [t |-> "str", s |-> s]
Hyg(s, n)  == [t |-> "hyg", s |-> s, n |-> n]
Array(items) == [t |-> "array", items |-> items]
Undefined  == [t |-> "undefined"]

\* What the expansion of a template may come to instead of an expression: a
\* compile error, a null reference, a loop that never ends.
Refused == [t |-> "refused"]
Crashed == [t |-> "crashed"]
Looping == [t |-> "looping"]
IsFault(v) == v.t \in {"refused", "crashed", "looping"}

IsSym(v)  == v.t = "sym"
IsPair(v) == v.t = "pair"
IsNull(v) == v.t = "nil"

\* annotatevt: what is under the annotation.
Unannotated(e) == IF e.t = "empty" THEN Nil ELSE e

\* SCM::copystripanno: a datum without its annotations.
RECURSIVE CopyStripAnno(_)
CopyStripAnno(e) ==
  IF IsPair(e) THEN Pair(CopyStripAnno(e.a), CopyStripAnno(e.d)) ELSE Unannotated(e)

\* The elements of a list, proper or not, and what follows the first n pairs.
RECURSIVE Cars(_), After(_, _)
Cars(e) == IF IsPair(e) THEN <<e.a>> \o Cars(e.d) ELSE <<>>
After(e, n) == IF n = 0 THEN e ELSE After(e.d, n - 1)

-----------------------------------------------------------------------------
(* What a rule may look like. *)

\* SyntaxRules::isliteral, isellipsis
IsLiteral(mac, v)  == IsSym(v) /\ v.s \in mac.literals
IsEllipsis(mac, v) == mac.ellipsis # "" /\ v = Sym(mac.ellipsis)
Repeats(mac, p)    == IsPair(p.d) /\ IsEllipsis(mac, p.d.a)

\* PatnTmpl::initpatn: the variables of a pattern with their depths, in order.
\* taken is the depth at which an ellipsis has been seen before in the same list,
\* or -1.  What may not be there is marked by the name "".
Misplaced == <<[x |-> "", depth |-> -1]>>
RECURSIVE InitPatn(_, _, _, _)
InitPatn(mac, p, depth, taken) ==
  CASE IsLiteral(mac, p) -> <<>>
    [] IsSym(p) /\ ~IsLiteral(mac, p) -> <<[x |-> p.s, depth |-> depth]>>
    [] ~IsSym(p) /\ ~IsPair(p) -> <<>>
    [] IsPair(p) ->
         IF IsEllipsis(mac, p.a) \/ IsEllipsis(mac, p.d) THEN Misplaced
         ELSE IF ~Repeats(mac, p)
         THEN InitPatn(mac, p.a, depth, taken) \o InitPatn(mac, p.d, depth, taken)
         ELSE (IF depth = taken THEN Misplaced ELSE <<>>)
              \o InitPatn(mac, p.a, depth + 1, -1) \o InitPatn(mac, p.d.d, depth, depth)

\* PatnTmpl::inittmpl: the variables a template uses, in order, where each outermost
\* repetition begins ("(") and where each repetition ends (")").
Mark(c) == <<[x |-> c, depth |-> -1]>>
RECURSIVE InitTmpl(_, _, _, _, _)
InitTmpl(mac, depths, t, depth, inside) ==
  CASE IsSym(t) -> IF IsLiteral(mac, t) \/ t.s \notin DOMAIN depths THEN <<>>
                   ELSE <<[x |-> t.s, depth |-> depth]>>
    [] ~IsSym(t) /\ ~IsPair(t) -> <<>>
    [] IsPair(t) ->
         IF IsEllipsis(mac, t.a) \/ IsEllipsis(mac, t.d) THEN Misplaced
         ELSE IF ~Repeats(mac, t)
         THEN InitTmpl(mac, depths, t.a, depth, inside) \o InitTmpl(mac, depths, t.d, depth, inside)
         ELSE (IF inside THEN <<>> ELSE Mark("(")) \o InitTmpl(mac, depths, t.a, depth + 1, TRUE)
              \o Mark(")") \o InitTmpl(mac, depths, t.d.d, depth, inside)

\* PatnTmpl::initpatn, addvar: the keyword is a symbol and no literal; no variable
\* is there twice.
PatnVars(mac, patn) == InitPatn(mac, patn, 0, -1)
PatnOK(mac, patn) ==
  LET vs == PatnVars(mac, patn)
  IN  /\ IsSym(patn.a) /\ ~IsLiteral(mac, patn.a)
      /\ \A i \in DOMAIN vs : vs[i].x # "" /\ \A j \in 1 .. i - 1 : vs[j].x # vs[i].x
Depths(mac, patn) ==
  LET vs == PatnVars(mac, patn)
  IN  [x \in {v.x : v \in Range(vs)} |-> (CHOOSE v \in Range(vs) : v.x = x).depth]

\* PatnTmpl::checktmplsym, inittmpl: a variable is used no shallower than it is
\* matched; a repetition repeats a variable, or one comes before it in the
\* outermost repetition it is in (usedpvd is one list for all of them).
TmplOK(mac, depths, tmpl) ==
  LET us == InitTmpl(mac, depths, tmpl, 0, FALSE)
  IN  \A i \in DOMAIN us :
        /\ us[i].x # ""
        /\ us[i].x \in DOMAIN depths => depths[us[i].x] <= us[i].depth
        /\ us[i].x = ")" => \E j \in 1 .. i : /\ us[j].x \in DOMAIN depths
                                              /\ \A k \in j .. i : us[k].x # "("

\* PatnTmpl::init
AcceptsRule(mac, rule) ==
  PatnOK(mac, rule.patn) /\ TmplOK(mac, Depths(mac, rule.patn), rule.tmpl)

\* SCompiler::compilesyntaxrules: the ellipsis is the one given, or ... unless
\* that is bound here; among the literals it is a literal.
SyntaxRules(d) ==
  LET ellipsis == IF d.ellipsis # "" THEN d.ellipsis
                  ELSE IF "..." \in d.bound THEN "" ELSE "..."
  IN  [literals |-> d.literals, bound |-> d.bound,
       ellipsis |-> IF ellipsis \in d.literals THEN "" ELSE ellipsis,
       rules    |-> [i \in DOMAIN d.rules |->
                       [patn |-> CopyStripAnno(d.rules[i].patn),
                        tmpl |-> CopyStripAnno(d.rules[i].tmpl)]]]
Accepts(mac) == \A i \in DOMAIN mac.rules : AcceptsRule(mac, mac.rules[i])

-----------------------------------------------------------------------------
(* Matching.  What trymatch does, in order: the variables it binds (addmatch),
   and the failure it ends with if it does; lost says that it has failed inside
   an ellipsis.  What comes after a failure does not count. *)
Binds(x, v) == [x |-> x, v |-> v]
Fails == <<[x |-> "", lost |-> FALSE]>>
Lost  == <<[x |-> "", lost |-> TRUE]>>
Failing(r)   == \E i \in DOMAIN r : r[i].x = ""
FailsLost(r) == \E i \in DOMAIN r : r[i].x = "" /\ r[i].lost /\ \A j \in 1 .. i - 1 : r[j].x # ""
Bindings(r)  == [x \in {b.x : b \in Range(r)} |-> (CHOOSE b \in Range(r) : b.x = x).v]

\* Mutant: no item for an iteration that has matched nothing.
MergeUnpadded(m, sub, i) ==
  [x \in DOMAIN sub |-> Array(Append(IF x \in DOMAIN m THEN m[x].items ELSE <<>>, sub[x]))] @@ m

\* MatchObj::merge: what iteration i has matched becomes item i of each array;
\* the iterations in which a variable has matched nothing are made up for.
Merge(m, sub, i) ==
  LET Before(x) == IF x \in DOMAIN m THEN m[x].items ELSE <<>>
      Padded(s) == s \o [k \in 1 .. (i - Len(s)) |-> Undefined]
  IN  [x \in DOMAIN sub |-> Array(Append(Padded(Before(x)), sub[x]))] @@ m

\* PatnTmpl::trymatchrepeat1: each is what the items of the list have come to; a
\* list that does not end in a null has failed when that is found out.
TryMatchRepeat1(list, each) ==
  LET m == FoldLeft(LAMBDA sofar, i : Merge(sofar, Bindings(each[i]), i - 1), <<>>,
                    [i \in DOMAIN each |-> i])
  IN  IF Len(each) = 0 THEN IF Unannotated(list) = Nil THEN <<>> ELSE Fails
      ELSE IF (\E i \in DOMAIN each : Failing(each[i])) \/ ~IsNull(After(list, Len(each))) THEN Lost
      ELSE SetToSeq({Binds(x, m[x]) : x \in DOMAIN m})

\* trymatch, of a literal: the symbol itself, renamed or not, unless it is bound.
MatchesLiteral(mac, e, p) == p.s \notin mac.bound /\ e.t \in {"sym", "hyg"} /\ e.s = p.s

\* The list without what follows its first n pairs (*suffix = Snullref).
CutOff(list, n) == ListTo(SubSeq(Cars(list), 1, n), Nil)

\* comptailneed: how many pairs the rest of a pattern after an ellipsis needs.
TailNeed(p) == Len(Cars(p.d.d))

\* PatnTmpl::trymatch, trymatchpair, trymatchrepeatwithtail (what follows the
\* repetition is matched first, and not less of it than it needs).
RECURSIVE TryMatch(_, _, _)
TryMatch(mac, e, p) ==
  LET Repeat(list) ==
        TryMatchRepeat1(list, [i \in DOMAIN Cars(list) |-> TryMatch(mac, Cars(list)[i], p.a)])
      more == Len(Cars(e)) - TailNeed(p)
  IN
  CASE IsSym(p) ->
         IF IsNull(e) THEN Fails
         ELSE IF ~IsLiteral(mac, p) THEN <<Binds(p.s, e)>>
         ELSE IF MatchesLiteral(mac, e, p) THEN <<>> ELSE Fails
    [] ~IsSym(p) /\ ~IsPair(p) -> IF p = Unannotated(e) THEN <<>> ELSE Fails
    [] IsPair(p) ->
         IF ~Repeats(mac, p) THEN
           IF IsPair(e) THEN TryMatch(mac, e.a, p.a) \o TryMatch(mac, e.d, p.d) ELSE Fails
         ELSE IF IsNull(p.d.d) THEN IF IsNull(e) THEN <<>> ELSE Repeat(e)
         ELSE IF IsNull(e) \/ more < 0 THEN Fails
         ELSE TryMatch(mac, IF more = 0 THEN e ELSE After(e, more), p.d.d)
              \o (IF more = 0 THEN <<>> ELSE Repeat(CutOff(e, more)))

-----------------------------------------------------------------------------
(* Expansion.  A context c holds the macro, the depths of the rule's variables,
   what they matched (m) and the names of introduced symbols (hy). *)

\* What a variable stands for in the iterations idx; initial is what out holds
\* when nothing was matched and expand leaves it alone.
PatnVar(c, x, depth, idx, initial) ==
  LET at[k \in 0 .. c.depths[x]] ==
        IF k = 0 THEN c.m[x]
        ELSE IF at[k - 1].t = "undefined" \/ idx[k - 1] >= Len(at[k - 1].items) THEN Undefined
        ELSE at[k - 1].items[idx[k - 1] + 1]
  IN  IF c.depths[x] > depth THEN Refused
      ELSE IF x \in DOMAIN c.m THEN at[c.depths[x]]
      ELSE IF c.depths[x] > 0 THEN initial ELSE Refused

\* PatnTmpl::expand, expandpair (vectorannotate2cons is ListTo).  A repetition
\* goes on until what it repeats comes out undefined.  To give a null in the
\* place of an element its annotation, the line is taken from what follows it.
PairOf(aout, dout) ==
  CASE IsFault(aout) -> aout
    [] ~IsFault(aout) /\ IsFault(dout) -> dout
    [] OTHER -> IF "undefined" \in {aout.t, dout.t} THEN Undefined
                ELSE IF ~IsNull(aout) THEN Pair(aout, dout)
                ELSE IF IsNull(dout) THEN Crashed
                ELSE Pair(Empty, dout)
Repeated(item, next) ==
  LET stops == {i \in DOMAIN item : item[i].t = "undefined" \/ IsFault(item[i])}
      n     == CHOOSE i \in stops : \A j \in stops : i <= j
  IN  IF stops = {} THEN Looping
      ELSE IF IsFault(item[n]) THEN item[n]
      ELSE IF IsFault(next) THEN next
      ELSE ListTo([i \in 1 .. n |-> item[i - 1]], next)
RECURSIVE Expand(_, _, _, _, _)
Expand(c, t, depth, idx, initial) ==
  CASE IsSym(t) -> IF IsLiteral(c.mac, t) THEN t
                   ELSE IF t.s \in DOMAIN c.depths THEN PatnVar(c, t.s, depth, idx, initial)
                   ELSE c.hy[t.s]
    [] IsNull(t) -> Empty
    [] IsPair(t) ->
         IF Repeats(c.mac, t)
         THEN Repeated([i \in 0 .. MaxRepeats |->
                          Expand(c, t.a, depth + 1, [idx EXCEPT ![depth] = i], Undefined)],
                       IF IsNull(t.d.d) THEN Nil ELSE Expand(c, t.d.d, depth, idx, Nil))
         ELSE PairOf(Expand(c, t.a, depth, idx, Nil),
                     IF IsNull(t.d) THEN Nil ELSE Expand(c, t.d, depth, idx, Nil))
    [] OTHER -> t

\* The symbols a template may introduce, and those an expansion has in it.
RECURSIVE SymbolsOf(_), HygOf(_)
SymbolsOf(t) == IF IsPair(t) THEN SymbolsOf(t.a) \cup SymbolsOf(t.d)
                ELSE IF IsSym(t) THEN {t.s} ELSE {}
HygOf(e) == IF IsPair(e) THEN HygOf(e.a) \cup HygOf(e.d)
            ELSE IF e.t = "hyg" THEN {e} ELSE {}

\* Mutant: names are not counted.
Sym2HygieneUncounted(s) ==
  IF s \in DOMAIN Last(name2hy) THEN Last(name2hy)[s] ELSE Hyg(s, 0)

\* SCompiler::sym2hygiene: the name this compiler has given the symbol before, or
\* a new one.
Sym2Hygiene(s) ==
  IF s \in DOMAIN Last(name2hy) THEN Last(name2hy)[s] ELSE Hyg(s, uniquen + 1)

\* The match of the use e with rule i.  The keyword is not matched: whatever
\* symbol the pattern has for it stands for the keyword of the use.
MatchRule(mac, i, e) ==
  <<Binds(mac.rules[i].patn.a.s, e.a)>> \o TryMatch(mac, e.d, mac.rules[i].patn.d)

\* SyntaxRules::expand: the first rule that matches, 0 if none does.  A match that
\* has failed inside an ellipsis leaves mstate.matches on an object that is gone:
\* what the next rule makes of the use is anybody's guess (-1).
FirstMatch(mac, e) ==
  LET good == {i \in DOMAIN mac.rules : ~Failing(MatchRule(mac, i, e))}
      lost == {i \in DOMAIN mac.rules : FailsLost(MatchRule(mac, i, e))}
      First(S) == CHOOSE i \in S : \A j \in S : i <= j
  IN  IF \E i \in lost : i < Len(mac.rules) /\ (good = {} \/ i < First(good)) THEN -1
      ELSE IF good = {} THEN 0
      ELSE First(good)

Expansion(mac, i, e) ==
  LET tmpl == mac.rules[i].tmpl
      c == [mac |-> mac, depths |-> Depths(mac, mac.rules[i].patn),
            m |-> Bindings(MatchRule(mac, i, e)),
            hy |-> [s \in SymbolsOf(tmpl) |-> Sym2Hygiene(s)]]
  IN  Expand(c, tmpl, 0, [k \in Levels |-> -1], Nil)

-----------------------------------------------------------------------------
Keyword == IF macro = "none" THEN "" ELSE Macros[macro].keyword

\* getsyntax: e is a use of the macro, by its name or by an introduced one.
IsUse(e) == IsPair(e) /\ e.a.t \in {"sym", "hyg"} /\ e.a.s = Keyword

\* What the compiler of the form meets on its way that is a use, too.
RECURSIVE UsesIn(_)
UsesIn(e) == IF ~IsPair(e) THEN {}
             ELSE IF IsUse(e) THEN {e} ELSE UsesIn(e.a) \cup UsesIn(e.d)

Init ==
  /\ macro = "none"
  /\ status = "none"
  /\ expr = Nil /\ form = Nil
  /\ name2hy = << <<>> >>
  /\ uniquen = 0
  /\ forms = 0

\* compiledefsyntax of definition d.
DefineSyntax(d) ==
  /\ status = "none"
  /\ macro' = d
  /\ status' = IF Accepts(SyntaxRules(Macros[d])) THEN "ready" ELSE "refused"
  /\ UNCHANGED <<expr, form, name2hy, uniquen, forms>>

\* compileapp, SyntaxRules::expand: e is expanded by the compiler at work.
ExpandUse(e) ==
  LET mac == SyntaxRules(Macros[macro])
      i   == FirstMatch(mac, e)
      out == IF i > 0 THEN Expansion(mac, i, e) ELSE Nil
      introduced == {g.s : g \in HygOf(out)}
  IN  /\ expr' = e
      /\ IF i > 0 /\ ~IsFault(out)
         THEN /\ form' = out
              /\ status' = "expanded"
              /\ name2hy' = [name2hy EXCEPT ![Len(name2hy)] =
                                [s \in introduced |-> Sym2Hygiene(s)] @@ @]
              /\ uniquen' = uniquen + (IF introduced \subseteq DOMAIN Last(name2hy) THEN 0 ELSE 1)
         ELSE /\ form' = Nil
              /\ status' = CASE i = -1 -> "unknown" [] i = 0 -> "no match" [] OTHER -> out.t
              /\ UNCHANGED <<name2hy, uniquen>>
      /\ UNCHANGED macro

\* The next form of the program is the use e.
NextForm(e) ==
  /\ status \in {"ready", "expanded"}
  /\ UsesIn(form) = {}
  /\ forms < MaxForms
  /\ forms' = forms + 1
  /\ ExpandUse(e)

\* Compiling the expansion meets another use.  The introduced name of the keyword
\* is put back to the name itself (*type0 = typeout).
Again ==
  /\ status = "expanded"
  /\ \E e \in UsesIn(form) : ExpandUse(Pair(Sym(e.a.s), e.d))
  /\ UNCHANGED forms

\* compilelambda0: a compiler of its own for a lambda, and its end.
EnterLambda ==
  /\ status \in {"ready", "expanded"} /\ UsesIn(form) = {}
  /\ Len(name2hy) <= MaxLambdas
  /\ name2hy' = Append(name2hy, <<>>)
  /\ status' = "ready" /\ form' = Nil
  /\ UNCHANGED <<macro, expr, uniquen, forms>>

LeaveLambda ==
  /\ status \in {"ready", "expanded"} /\ UsesIn(form) = {}
  /\ Len(name2hy) > 1
  /\ name2hy' = Front(name2hy)
  /\ status' = "ready" /\ form' = Nil
  /\ UNCHANGED <<macro, expr, uniquen, forms>>

Next ==
  \/ \E d \in DOMAIN Macros : DefineSyntax(d)
  \/ \E e \in (IF macro = "none" THEN {} ELSE Uses[macro]) : NextForm(e)
  \/ Again
  \/ EnterLambda
  \/ LeaveLambda

Spec == Init /\ [][Next]_vars
=============================================================================
