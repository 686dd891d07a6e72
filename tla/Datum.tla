-------------------------------- MODULE Datum --------------------------------
(***************************************************************************)
(* The printer (printvalue0) and the reader (Lexer) of data.  A text is    *)
(* read; if the reader accepts it, the datum is written and what was       *)
(* written is read again.  The calls of readValueT under way are a stack   *)
(* of frames, what is left to print is a stack of items.                   *)
(* A character is a string of length one, or a name for it.                *)
(***************************************************************************)
EXTENDS Integers, Sequences, SequencesExt, FiniteSetsExt

CONSTANT Texts   \* the texts that are read

VARIABLES
  phase,   \* "reading", "writing", "rereading", "done", or why it ended
  rest,    \* the text from curchar on
  frames,  \* the calls of readListT, readListT0, readVector and tokwform
  buff,    \* the string literal being read, or NoString
  got,     \* what readValueT has just returned, or NoDatum
  datum,   \* the datum read from the first text
  todo,    \* what printvalue0 has still to print
  out      \* what it has printed

datumVars == <<phase, rest, frames, buff, got, datum, todo, out>>

NoString == "none"
NoDatum == [k |-> "none"]

-----------------------------------------------------------------------------
(* Data.                                                                   *)

Atom(k, v) == [k |-> k, v |-> v]
Null == [k |-> "null"]
Eof == [k |-> "eof"]
Pair(a, d) == [k |-> "pair", car |-> a, cdr |-> d]
Vector(ds) == [k |-> "vector", items |-> ds]
Sym(cs) == Atom("symbol", cs)

IsPair(d) == d.k = "pair"

ListOf(ds, tail) == FoldRight(Pair, ds, tail)

(* The abbreviations of the forms with a keyword.                          *)
Quote == <<"q", "u", "o", "t", "e">>
Quasi == <<"q", "u", "a", "s", "i">> \o Quote
Unquote == <<"u", "n">> \o Quote
Splicing == Unquote \o <<"-", "s", "p", "l", "i", "c", "i", "n", "g">>

Abbreviation == {<<Quote, <<"'">>>>, <<Quasi, <<"backquote">>>>,
                 <<Unquote, <<",">>>>, <<Splicing, <<",", "@">>>>}
Keywords == {Sym(a[1]) : a \in Abbreviation}
ShortFor(kw) == (CHOOSE a \in Abbreviation : Sym(a[1]) = kw)[2]
LongFor(cs) == Sym((CHOOSE a \in Abbreviation : a[2] = cs)[1])

-----------------------------------------------------------------------------
(* The lexer.                                                              *)

Newlines == {"\n", "\r"}
Blanks == Newlines \union {" ", "\t"}
Digits == {"0", "1", "2"}
Brackets == {"[", "]", "{", "}"}

(* readSymbol, readNum and readChar stop at the same characters: not at an *)
(* opening parenthesis and not at a quotation mark.                        *)
Delimiters == Blanks \union {")", ";"}

(* The longest beginning of s without a character of D.                    *)
UpTo(s, D) ==
  LET stops == {i \in 1..Len(s) : s[i] \in D}
  IN  IF stops = {} THEN s ELSE SubSeq(s, 1, Min(stops) - 1)

From(s, n) == SubSeq(s, n, Len(s))

(* str2num, for what the texts contain: an integer, or not a number.       *)
Unsigned(cs) == IF cs # <<>> /\ Head(cs) \in {"+", "-"} THEN Tail(cs) ELSE cs
IsInteger(cs) == Unsigned(cs) # <<>> /\ Range(Unsigned(cs)) \subseteq Digits
Significant(ds) ==
  LET nz == {i \in 1..Len(ds) : ds[i] # "0"}
  IN  IF nz = {} THEN <<"0">> ELSE From(ds, Min(nz))
Normalized(cs) ==
  LET ds == Significant(Unsigned(cs))
  IN  IF Head(cs) = "-" /\ ds # <<"0">> THEN <<"-">> \o ds ELSE ds

(* Named characters: what the printer writes and the reader knows.         *)
CharNames == {<<"\n", <<"n", "e", "w", "l", "i", "n", "e">>>>,
              <<" ", <<"s", "p", "a", "c", "e">>>>,
              <<"\t", <<"t", "a", "b">>>>,
              <<"BEL", <<"a", "l", "a", "r", "m">>>>}
NamedBy(cs) == {c[1] : c \in {d \in CharNames : d[2] = cs}}
NameOf(ch) == {c[2] : c \in {d \in CharNames : d[1] = ch}}

(* Escapes in strings.                                                     *)
Escapes == {<<"n", "\n">>, <<"t", "\t">>, <<"a", "BEL">>}
Unescaped(ch) == IF \E e \in Escapes : e[1] = ch
                 THEN (CHOOSE e \in Escapes : e[1] = ch)[2] ELSE ch

(* A token: its type, its characters, how many characters it takes.        *)
Token(type, cs, takes) == [type |-> type, cs |-> cs, takes |-> takes]
NoToken == Token("unknown", <<>>, 1)
EndToken == Token("end", <<>>, 0)

Word(type, s) == LET w == UpTo(s, Delimiters) IN Token(type, w, Len(w))

(* readChar: the first character is taken whatever it is.                  *)
ReadChar(s) ==
  LET w == <<Head(s)>> \o UpTo(Tail(s), Delimiters)
      named == IF Len(w) = 1 THEN {w[1]} ELSE NamedBy(w)
  IN  IF s = <<>> \/ named = {} THEN NoToken
      ELSE Token("char", <<CHOOSE ch \in named : TRUE>>, 2 + Len(w))

(* readBool: t or f, and then a delimiter.                                 *)
ReadBool(s) ==
  IF Len(s) > 1 /\ s[2] \in Delimiters THEN Token("bool", <<s[1]>>, 2) ELSE NoToken

ReadHash(s) ==
  CASE s = <<>> -> NoToken
    [] s[1] = "\\" -> ReadChar(Tail(s))
    [] s[1] = "(" -> Token("vector", <<>>, 2)
    [] s[1] \in {"t", "f"} -> ReadBool(s)
    [] OTHER -> NoToken

(* A dot or a sign alone needs something behind it.                        *)
ReadDot(s) ==
  CASE Len(s) = 1 \/ s[2] \in Brackets \union {"(", ")"} -> NoToken
    [] s[2] \in Blanks -> Token("dot", <<>>, 1)
    [] s[2] \in Digits -> Word("number", s)
    [] OTHER -> Word("symbol", s)

ReadSign(s) ==
  CASE Len(s) = 1 -> NoToken
    [] s[2] \in Delimiters -> Token("symbol", <<s[1]>>, 1)
    [] OTHER -> Word("number", s)

(* dLex, from a character that is not blank.                               *)
NextToken(s) ==
  CASE s = <<>> -> EndToken
    [] s[1] \in {"'", "backquote"} -> Token("form", <<s[1]>>, 1)
    [] s[1] = "," -> IF Len(s) > 1 /\ s[2] = "@" THEN Token("form", <<",", "@">>, 2)
                     ELSE Token("form", <<",">>, 1)
    [] s[1] = "\"" -> Token("string", <<>>, 1)
    [] s[1] \in {"(", ")"} -> Token(s[1], <<>>, 1)
    [] s[1] \in Brackets -> NoToken
    [] s[1] = "." -> ReadDot(s)
    [] s[1] \in {"+", "-"} -> ReadSign(s)
    [] s[1] \in Digits -> Word("number", s)
    [] s[1] = "#" -> ReadHash(Tail(s))
    [] OTHER -> LET w == Tail(s)
                IN  Token("symbol", <<s[1]>> \o UpTo(w, Delimiters), 1 + Len(UpTo(w, Delimiters)))

-----------------------------------------------------------------------------
(* The reader.                                                             *)

Reading == phase \in {"reading", "rereading"}
Lexing == Reading /\ got = NoDatum /\ buff = NoString
AtToken == Lexing /\ ~(rest # <<>> /\ Head(rest) \in Blanks \union {";"})

InFrame(fs) == frames # <<>> /\ Last(frames).f \in fs
Top == Last(frames)
Push(f) == frames' = Append(frames, f)
Replace(f) == frames' = Append(Front(frames), f)
Pop == frames' = Front(frames)

Refuse ==
  /\ phase' = IF phase = "reading" THEN "refused" ELSE "unreadable"
  /\ rest' = <<>> /\ frames' = <<>> /\ buff' = NoString /\ got' = NoDatum
  /\ UNCHANGED <<datum, todo, out>>

Returns(d) == got' = d /\ UNCHANGED <<phase, buff, datum, todo, out>>
Enters == UNCHANGED <<phase, buff, got, datum, todo, out>>

(* Blanks and comments.                                                    *)
(* Mutant: a comment ends only at the end of a line.                       *)
SkipBlankEndless ==
  /\ Lexing /\ rest # <<>>
  /\ \/ Head(rest) \in Blanks /\ rest' = Tail(rest)
     \/ /\ Head(rest) = ";" /\ Range(rest) \intersect Newlines # {}
        /\ rest' = From(rest, Len(UpTo(rest, Newlines)) + 1)
  /\ UNCHANGED frames /\ Enters

SkipBlank ==
  /\ Lexing /\ rest # <<>>
  /\ \/ Head(rest) \in Blanks /\ rest' = Tail(rest)
     \/ Head(rest) = ";" /\ rest' = From(rest, Len(UpTo(rest, Newlines)) + 1)
  /\ UNCHANGED frames /\ Enters

(* Where a token may not stand: lexerror and lexassert.                    *)
AtomTypes == {"symbol", "char", "bool", "number"}

Wrong(t) ==
  IF InFrame({"last"}) THEN t.type # ")"
  ELSE CASE t.type = ")" -> ~InFrame({"list", "vector"})
         [] t.type = "dot" -> ~InFrame({"list"}) \/ Top.items = <<>>
         [] t.type = "end" -> frames # <<>> /\ ~InFrame({"form"})
         [] t.type = "number" -> ~IsInteger(t.cs)
         [] OTHER -> t.type = "unknown"

(* readValueT: an atom; at the end it leaves the end-of-file object that   *)
(* read has put into the result before.                                    *)
ReadAtom(t) ==
  /\ t.type \in AtomTypes \union {"end"}
  /\ Returns(CASE t.type = "end" -> Eof
               [] t.type = "number" -> Atom(t.type, Normalized(t.cs))
               [] OTHER -> Atom(t.type, t.cs))
  /\ UNCHANGED frames

(* A list, a vector, an abbreviation or a string begins.                   *)
Open(t) ==
  \/ /\ \/ t.type = "(" /\ Push([f |-> "list", items |-> <<>>])
        \/ t.type = "vector" /\ Push([f |-> "vector", items |-> <<>>])
        \/ t.type = "form" /\ Push([f |-> "form", kw |-> LongFor(t.cs)])
        \/ t.type = "dot" /\ Replace([f |-> "dot", items |-> Top.items])
     /\ Enters
  \/ /\ t.type = "string" /\ buff' = <<>>
     /\ UNCHANGED <<phase, frames, got, datum, todo, out>>

(* readListT, readListT0 and readVector at a closing parenthesis.          *)
Close(t) ==
  /\ t.type = ")"
  /\ Pop
  /\ Returns(CASE Top.f = "list" -> ListOf(Top.items, Null)
               [] Top.f = "last" -> ListOf(Top.items, Top.tail)
               [] Top.f = "vector" -> Vector(Top.items))

TakeToken ==
  LET t == NextToken(rest)
  IN  /\ AtToken
      /\ IF Wrong(t) THEN Refuse
         ELSE /\ ReadAtom(t) \/ Open(t) \/ Close(t)
              /\ rest' = From(rest, t.takes + 1)

(* An escaped end of line: plusline goes on to the next line, and readString *)
(* takes the first character of that line for the one just read.           *)
AfterNewline(s) ==
  LET n == IF Len(s) > 1 /\ s[2] \in Newlines \ {s[1]} THEN 3 ELSE 2
  IN  From(s, n + 1)

(* readString.                                                             *)
StringChar ==
  /\ Reading /\ buff # NoString /\ rest # <<>>
  /\ CASE rest[1] = "\"" ->
            /\ buff' = NoString /\ got' = Atom("string", buff)
            /\ rest' = Tail(rest)
            /\ UNCHANGED <<phase, frames, datum, todo, out>>
       [] rest[1] = "\\" /\ Len(rest) = 1 -> Refuse
       [] rest[1] = "\\" /\ Len(rest) > 1 ->
            /\ buff' = Append(buff, IF rest[2] \in Newlines THEN "\n" ELSE Unescaped(rest[2]))
            /\ rest' = IF rest[2] \in Newlines THEN AfterNewline(Tail(rest)) ELSE From(rest, 3)
            /\ UNCHANGED <<phase, frames, got, datum, todo, out>>
       [] OTHER ->
            /\ buff' = Append(buff, rest[1]) /\ rest' = Tail(rest)
            /\ UNCHANGED <<phase, frames, got, datum, todo, out>>

StringEnds == Reading /\ buff # NoString /\ rest = <<>> /\ Refuse

(* The datum goes to the call of readValueT's caller.                      *)
GiveBack ==
  /\ Reading /\ got # NoDatum /\ frames # <<>>
  /\ CASE Top.f = "form" -> Pop /\ got' = ListOf(<<Top.kw, got>>, Null)
       [] Top.f = "dot" ->
            Replace([f |-> "last", items |-> Top.items, tail |-> got]) /\ got' = NoDatum
       [] OTHER -> Replace([Top EXCEPT !.items = Append(@, got)]) /\ got' = NoDatum
  /\ UNCHANGED <<phase, rest, buff, datum, todo, out>>

-----------------------------------------------------------------------------
(* The printer.                                                            *)

Whole(d) == [it |-> "datum", d |-> d]
TailOf(d) == [it |-> "tail", d |-> d]
Chars(cs) == [it |-> "text", cs |-> cs]

(* readOne returns: the datum is written, or was read a second time.       *)
Finish ==
  /\ Reading /\ got # NoDatum /\ frames = <<>>
  /\ IF phase = "reading"
     THEN /\ phase' = "writing" /\ datum' = got /\ got' = NoDatum
          /\ todo' = <<Whole(got)>>
     ELSE phase' = "done" /\ UNCHANGED <<datum, got, todo>>
  /\ rest' = <<>>
  /\ UNCHANGED <<frames, buff, out>>

(* What isprint refuses and no escape is known for; a string shows it by   *)
(* its number, in decimal (STX is 2).  The lexer knows no such escape.     *)
Numbered == {<<"STX", <<"0", "0", "2">>>>}
Unprintable == {c[1] : c \in Numbered}

(* Mutant: the quotation mark in a string is not escaped.                  *)
EscapedButQuote(ch) ==
  CASE ch = "\\" -> <<"\\", ch>>
    [] \E e \in Escapes : e[2] = ch -> <<"\\", (CHOOSE e \in Escapes : e[2] = ch)[1]>>
    [] ch \in Unprintable -> <<"\\">> \o (CHOOSE c \in Numbered : c[1] = ch)[2]
    [] OTHER -> <<ch>>

(* printvalue0, atoms.                                                     *)
Escaped(ch) ==
  CASE ch \in {"\"", "\\"} -> <<"\\", ch>>
    [] \E e \in Escapes : e[2] = ch -> <<"\\", (CHOOSE e \in Escapes : e[2] = ch)[1]>>
    [] ch \in Unprintable -> <<"\\">> \o (CHOOSE c \in Numbered : c[1] = ch)[2]
    [] OTHER -> <<ch>>

AtomText(d) ==
  CASE d.k \in {"symbol", "number"} -> d.v
    [] d.k = "bool" -> <<"#">> \o d.v
    [] d.k = "char" -> <<"#", "\\">> \o (IF NameOf(d.v[1]) = {} THEN d.v
                                         ELSE CHOOSE w \in NameOf(d.v[1]) : TRUE)
    [] d.k = "string" -> <<"\"">> \o FlattenSeq([i \in 1..Len(d.v) |-> Escaped(d.v[i])]) \o <<"\"">>
    [] d.k = "null" -> <<"(", ")">>
    [] d.k = "eof" -> <<"<", "e", "o", "f", ">">>

(* checkpairform: a form with a keyword is abbreviated; with any other     *)
(* number of parts it raises, after what has been printed so far.          *)
IsForm(d) == IsPair(d) /\ d.car \in Keywords
BadForm(d) == ~(IsPair(d.cdr) /\ d.cdr.cdr = Null)

Items(ds) ==
  FlattenSeq([i \in 1..Len(ds) |->
    <<Whole(ds[i]), Chars(IF i = Len(ds) THEN <<>> ELSE <<" ">>)>>])

(* What is printed for an item at once, and what is left of it.            *)
Pieces(i) ==
  IF i.it = "text" THEN <<>>
  ELSE CASE i.it = "tail" /\ IsPair(i.d) -> <<Chars(<<" ">>), Whole(i.d.car), TailOf(i.d.cdr)>>
         [] i.it = "tail" /\ i.d = Null -> <<Chars(<<")">>)>>
         [] i.it = "tail" /\ ~IsPair(i.d) /\ i.d # Null ->
              <<Chars(<<" ", ".", " ">>), Whole(i.d), Chars(<<")">>)>>
         [] i.it = "datum" /\ IsForm(i.d) -> <<Chars(ShortFor(i.d.car)), Whole(i.d.cdr.car)>>
         [] i.it = "datum" /\ IsPair(i.d) /\ ~IsForm(i.d) ->
              <<Chars(<<"(">>), Whole(i.d.car), TailOf(i.d.cdr)>>
         [] i.it = "datum" /\ i.d.k = "vector" ->
              <<Chars(<<"#", "(">>)>> \o Items(i.d.items) \o <<Chars(<<")">>)>>
         [] OTHER -> <<Chars(AtomText(i.d))>>

WriteItem ==
  LET i == Head(todo)
  IN  /\ phase = "writing" /\ todo # <<>>
      /\ IF i.it = "datum" /\ IsForm(i.d) /\ BadForm(i.d)
         THEN phase' = "unwritable" /\ todo' = <<>> /\ out' = out
         ELSE /\ todo' = Pieces(i) \o Tail(todo)
              /\ out' = IF i.it = "text" THEN out \o i.cs ELSE out
              /\ UNCHANGED phase
      /\ UNCHANGED <<rest, frames, buff, got, datum>>

(* The text goes to a port, a blank follows, and the port is read.         *)
ReadBack ==
  /\ phase = "writing" /\ todo = <<>>
  /\ phase' = "rereading"
  /\ rest' = Append(out, " ")
  /\ UNCHANGED <<frames, buff, got, datum, todo, out>>

-----------------------------------------------------------------------------
DatumInit ==
  /\ phase = "reading" /\ rest \in Texts
  /\ frames = <<>> /\ buff = NoString /\ got = NoDatum
  /\ datum = NoDatum /\ todo = <<>> /\ out = <<>>

DatumNext ==
  \/ SkipBlank \/ TakeToken \/ StringChar \/ StringEnds \/ GiveBack \/ Finish
  \/ WriteItem \/ ReadBack

DatumSpec == DatumInit /\ [][DatumNext]_datumVars /\ WF_datumVars(DatumNext)

-----------------------------------------------------------------------------
(* Properties.                                                             *)

Over == {"done", "refused", "unwritable", "unreadable"}

(* A datum is only ready where some call of readValueT returned it, a text *)
(* is only left to print while printing.                                   *)
DatumTypeOK ==
  /\ phase \in Over \union {"reading", "writing", "rereading"}
  /\ \A i \in 1..Len(frames) : frames[i].f \in {"list", "dot", "last", "vector", "form"}
  /\ phase \notin {"reading", "rereading", "done"} => frames = <<>> /\ got = NoDatum
  /\ buff # NoString => got = NoDatum
  /\ phase # "writing" => todo = <<>>

(* A datum and the data in it, which is no deeper than its text is long.   *)
Within(d) ==
  CASE d.k = "pair" -> {d.car, d.cdr}
    [] d.k = "vector" -> ToSet(d.items)
    [] OTHER -> {}
Subdata(d) == FoldLeft(LAMBDA ds, ch : ds \union UNION {Within(x) : x \in ds}, {d}, out)

(* (unquote @x) is written like (unquote-splicing x); the end-of-file      *)
(* object is no datum; a dot before a comment is read as a symbol, which   *)
(* is written like the dot of a pair; in a string, what does not print is  *)
(* written by its number, which is read as the digits.                     *)
Misleading(d) ==
  \E x \in Subdata(d) :
    \/ x \in {Eof, Sym(<<".">>)}
    \/ /\ IsForm(x) /\ x.car = Sym(Unquote)
       /\ x.cdr.car.k = "symbol" /\ x.cdr.car.v[1] = "@"
    \/ x.k = "string" /\ ToSet(x.v) \intersect Unprintable # {}

(* What write printed of a datum that was read, read gives back: whatever  *)
(* nests, dots and abbreviates, whatever characters a string contains that *)
(* print or have an escape, whatever a character is (printvalue0 and Lexer *)
(* know the same escapes, names and forms), but for what Misleading lists. *)
ReadBackIsSame ==
  phase \in {"done", "unreadable"} /\ got # datum => Misleading(datum)
=============================================================================
