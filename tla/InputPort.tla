------------------------------ MODULE InputPort ------------------------------
(***************************************************************************)
(* An input port reads its file a buffer at a time.  read-char and         *)
(* peek-char take the characters of the buffer and fill it again when it   *)
(* is used up; read runs a lexer, which is always one character ahead and  *)
(* gives that character back when the datum is complete, or when an error  *)
(* leaves it (UnreadGuard).                                                *)
(***************************************************************************)
EXTENDS Naturals, Sequences, FiniteSetsExt

CONSTANTS
  Text,       \* the characters of the file
  BuffSize,   \* sizeof(buff)
  End         \* READ_END and the eof object

NoLexer == "no lexer"

ASSUME PortAssumption ==
  /\ BuffSize \in Nat \ {0}
  /\ Text \in Seq({Text[i] : i \in 1..Len(Text)})
  /\ \A i \in 1..Len(Text) : Text[i] \notin {End, NoLexer}
  /\ NoLexer # End

VARIABLES
  fetched,    \* how many characters fread has delivered
  buff,       \* InputPortObj::buff, up to size
  n,          \* InputPortObj::n
  eof,        \* InputPortObj::eof
  open,       \* InputPortObj::file is not NULL
  terminal,   \* isatty: fread is asked for one character
  curchar,    \* Lexer::curchar of a read under way, or NoLexer
  said        \* the last answer of read-char and peek-char

portVars == <<fetched, buff, n, eof, open, terminal, curchar, said>>

Idle == curchar = NoLexer

(* fillbuff: after a successful fread, initn characters of the buffer      *)
(* count as taken.                                                         *)
Want == IF terminal THEN 1 ELSE Min({BuffSize, Len(Text) - fetched})

Buffered == n < Len(buff)

(* What the next character is, and whether there is one.                   *)
CanFill == open /\ ~eof /\ fetched < Len(Text)
NextChar ==
  IF Buffered THEN buff[n + 1] ELSE IF CanFill THEN Text[fetched + 1] ELSE End

(* Mutant: the place in the buffer stays behind its old end.               *)
FillBuffStale(initn) ==
  IF CanFill
  THEN /\ buff' = SubSeq(Text, fetched + 1, fetched + Want)
       /\ fetched' = fetched + Want
       /\ n' = n
       /\ UNCHANGED eof
  ELSE /\ eof' = (eof \/ open)
       /\ buff' = IF open /\ ~eof THEN <<>> ELSE buff
       /\ UNCHANGED <<fetched, n>>

(* Mutant: the first character of a new piece always counts as taken.      *)
FillBuffTaking(initn) ==
  IF CanFill
  THEN /\ buff' = SubSeq(Text, fetched + 1, fetched + Want)
       /\ fetched' = fetched + Want
       /\ n' = 1
       /\ UNCHANGED eof
  ELSE /\ eof' = (eof \/ open)
       /\ buff' = IF open /\ ~eof THEN <<>> ELSE buff
       /\ UNCHANGED <<fetched, n>>

FillBuff(initn) ==
  IF CanFill
  THEN /\ buff' = SubSeq(Text, fetched + 1, fetched + Want)
       /\ fetched' = fetched + Want
       /\ n' = initn
       /\ UNCHANGED eof
  ELSE /\ eof' = (eof \/ open)
       /\ buff' = IF open /\ ~eof THEN <<>> ELSE buff
       /\ UNCHANGED <<fetched, n>>

(* InputPortObj::peekchar and readchar.                                    *)
PeekChar ==
  IF Buffered THEN UNCHANGED <<fetched, buff, n, eof>> ELSE FillBuff(0)

ReadChar ==
  IF Buffered
  THEN n' = n + 1 /\ UNCHANGED <<fetched, buff, eof>>
  ELSE FillBuff(1)

-----------------------------------------------------------------------------
(* peek-char, read-char and close-input-port.                              *)
Peek ==
  /\ Idle
  /\ PeekChar
  /\ said' = NextChar
  /\ UNCHANGED <<open, terminal, curchar>>

Read ==
  /\ Idle
  /\ ReadChar
  /\ said' = NextChar
  /\ UNCHANGED <<open, terminal, curchar>>

Close ==
  /\ Idle
  /\ open' = FALSE /\ eof' = TRUE
  /\ buff' = IF open THEN <<>> ELSE buff
  /\ UNCHANGED <<fetched, n, terminal, curchar, said>>

(* Lexer::nextc, in the constructor of the lexer and while it works.       *)
NextC ==
  /\ ReadChar
  /\ curchar' = NextChar
  /\ UNCHANGED <<open, terminal, said>>

BeginDatum == Idle /\ NextC
GoOn == ~Idle /\ curchar # End /\ NextC

(* Mutant: the lexer keeps the character after the datum.                  *)
EndDatumKeeping ==
  /\ ~Idle
  /\ curchar' = NoLexer
  /\ UNCHANGED <<fetched, buff, n, eof, open, terminal, said>>

(* ~UnreadGuard: unreadchar, unless the end was met.                       *)
EndDatum ==
  /\ ~Idle
  /\ n' = IF curchar # End /\ n > 0 THEN n - 1 ELSE n
  /\ curchar' = NoLexer
  /\ UNCHANGED <<fetched, buff, eof, open, terminal, said>>

PortInit ==
  /\ fetched = 0 /\ buff = <<>> /\ n = 0
  /\ eof = FALSE /\ open = TRUE
  /\ terminal \in BOOLEAN
  /\ curchar = NoLexer /\ said = End

PortNext == Peek \/ Read \/ Close \/ BeginDatum \/ GoOn \/ EndDatum

InputPortSpec == PortInit /\ [][PortNext]_portVars

-----------------------------------------------------------------------------
(* Properties.                                                             *)

Chars == {Text[i] : i \in 1..Len(Text)}

(* The buffer is the last piece fread delivered, and n points into it or   *)
(* behind it.  A lexer that holds a character has taken it out of the      *)
(* buffer that is there now, so it can be given back.                      *)
PortTypeOK ==
  /\ fetched \in 0..Len(Text) /\ n \in 0..BuffSize
  /\ Len(buff) <= fetched
  /\ buff = SubSeq(Text, fetched - Len(buff) + 1, fetched)
  /\ eof \in BOOLEAN /\ open \in BOOLEAN /\ terminal \in BOOLEAN
  /\ curchar \in Chars \union {End, NoLexer} /\ said \in Chars \union {End}
  /\ curchar \in Chars => n \in 1..Len(buff) /\ curchar = buff[n]

(* The characters taken from the file: those fetched, but for the rest of  *)
(* the buffer and the character the lexer holds and will give back.        *)
Left == IF Buffered THEN Len(buff) - n ELSE 0
Ahead == IF curchar \in Chars THEN 1 ELSE 0

Stream == INSTANCE TextStream WITH
  pos <- fetched - Left - Ahead, said <- said, ended <- eof, closed <- ~open,
  reading <- ~Idle

(* Each call of the port is the one of the stream of its kind: peek-char   *)
(* does not move and read-char moves by one, also when the buffer has to   *)
(* be filled, and a datum takes the characters the lexer passed, the one   *)
(* behind it not among them (readchar, peekchar, nextc, unreadchar).       *)
CallsMatch ==
  /\ Peek => Stream!Look
  /\ Read => Stream!Take
  /\ Close => Stream!Close
  /\ BeginDatum => Stream!Start
  /\ GoOn => Stream!Pass
  /\ EndDatum => Stream!Leave

(* The port implements the text of the file: whatever the buffer size and  *)
(* whether or not a datum ends where the buffer ends, what read-char,      *)
(* peek-char and the lexer are given is the text from the place where the  *)
(* last of them left off, no character is lost or given twice, and the     *)
(* end, once met, is final (fillbuff, unreadchar).                         *)
PortSpec == Stream!StreamSpec /\ [][CallsMatch]_portVars
=============================================================================
