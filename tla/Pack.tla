--------------------------------- MODULE Pack ---------------------------------
(***************************************************************************)
(* string-pack, string-unpack and string-packsize.  A record is packed     *)
(* option by option into a string of bytes, which may stand behind other   *)
(* data when it is unpacked, option by option with the same format.        *)
(* Integers have 64 bits and are given by their bytes, least significant   *)
(* first; floats and the parsing of a width are left out.                  *)
(***************************************************************************)
EXTENDS Integers, Sequences, SequencesExt

CONSTANTS
  Ints,        \* the integers a program packs, as 8 bytes each
  Strings,     \* the strings it packs, as sequences of bytes
  Options,     \* the options: [op, n], n = 0 without a number
  Before,      \* the data the record may stand behind
  MaxOptions   \* bound: the options of a format

VARIABLES
  packing,    \* "pack", "unpack", "done" or "error"
  format,     \* the options read so far
  endian,     \* 0 for little, 1 for big
  packed,     \* the bytes packed
  arguments,  \* the arguments packed
  data,       \* the string that is unpacked
  off,        \* the offset of the byte that is read next
  fi,         \* the option that is read next
  vals        \* what has been unpacked

packVars == <<packing, format, endian, packed, arguments, data, off, fi, vals>>

-----------------------------------------------------------------------------
(* Options, their widths and their default widths.                         *)
SwitchOps == {"<", ">", "="}
PadOps == {"x", "X"}
IntOps == {"b", "B", "h", "H", "l", "L", "j", "J", "T", "i", "I"}
SignedOps == {"b", "h", "l", "j", "i"}
StringOps == {"s", "z", "c"}

Takes(o) == o.op \in IntOps \union StringOps

OrElse(n, deflt) == IF n = 0 THEN deflt ELSE n
Width(o) ==
  CASE o.op \in {"b", "B"} -> 1
    [] o.op \in {"h", "H"} -> 2
    [] o.op \in {"l", "L"} -> 4
    [] o.op \in {"j", "J", "T"} -> 8
    [] OTHER -> OrElse(o.n, 8)

(* A width above 8 shifts by more than a word, which C++ does not define.  *)
PackAssumption ==
  /\ Ints \subseteq [1 .. 8 -> 0 .. 255]
  /\ Strings \subseteq Seq(0 .. 255) /\ \A s \in Strings : Len(s) < 256 * 256
  /\ Before \subseteq Seq(0 .. 255)
  /\ Options \subseteq [op : SwitchOps \union PadOps \union IntOps \union StringOps, n : Nat]
  /\ \A o \in Options : o.op \in {"i", "I", "s"} => o.n \in 0 .. 8
  /\ MaxOptions \in Nat

Endian(o) == IF o.op = ">" THEN 1 ELSE 0

Zeros(n) == [i \in 1 .. n |-> 0]

(* The bytes that bring a position to a multiple of op.                    *)
PadTo(pos, op) == IF op > 1 /\ pos % op # 0 THEN op - (pos % op) ELSE 0

-----------------------------------------------------------------------------
(* packint: the range check and the n low bytes.                           *)
Negative(i) == i[8] >= 128
SignFill(i) == IF Negative(i) THEN 255 ELSE 0

(* Mutant: the sign bit of the width is left out of the range check.       *)
FitsIntWide(i, n, sgn) ==
  IF sgn
  THEN n = 8 \/ \A k \in n + 1 .. 8 : i[k] = SignFill(i)
  ELSE ~Negative(i) /\ \A k \in n + 1 .. 8 : i[k] = 0

FitsInt(i, n, sgn) ==
  IF sgn
  THEN n = 8 \/ /\ \A k \in n + 1 .. 8 : i[k] = SignFill(i)
                /\ (i[n] >= 128) = Negative(i)
  ELSE ~Negative(i) /\ \A k \in n + 1 .. 8 : i[k] = 0

LowBytes(i, n) == [k \in 1 .. n |-> i[k]]

PackInt(i, n, e) == IF e = 1 THEN Reverse(LowBytes(i, n)) ELSE LowBytes(i, n)

(* loaduint and signext.                                                   *)
(* Mutant: the bytes above the width are always zero.                      *)
LoadIntUnsigned(s, sgn, e) ==
  LET low == IF e = 1 THEN Reverse(s) ELSE s
  IN [k \in 1 .. 8 |-> IF k <= Len(s) THEN low[k] ELSE 0]

LoadInt(s, sgn, e) ==
  LET low == IF e = 1 THEN Reverse(s) ELSE s
      fill == IF sgn /\ low[Len(s)] >= 128 THEN 255 ELSE 0
  IN [k \in 1 .. 8 |-> IF k <= Len(s) THEN low[k] ELSE fill]

(* The length of a string, as an integer (the strings here are short), and *)
(* the other way.                                                          *)
AsInt(n) == [k \in 1 .. 8 |-> IF k = 1 THEN n % 256 ELSE IF k = 2 THEN n \div 256 ELSE 0]
AsLen(i) == i[1] + 256 * i[2]

(* The prefix of option s is written big-endian whatever the switch says.  *)
(* Mutant: it follows the switch where it is written.                      *)
PackStringSwitched(s, n, e) == PackInt(AsInt(Len(s)), n, e) \o s

PackString(s, n, e) == PackInt(AsInt(Len(s)), n, 1) \o s

-----------------------------------------------------------------------------
Noted(o) == format' = Append(format, o)
MorePacked == packing = "pack" /\ Len(format) < MaxOptions

PackSwitch(o) ==
  /\ MorePacked /\ o.op \in SwitchOps
  /\ Noted(o) /\ endian' = Endian(o)
  /\ UNCHANGED <<packing, packed, arguments, data, off, fi, vals>>

PackPadding(o) ==
  /\ MorePacked /\ o.op \in PadOps
  /\ Noted(o)
  /\ packed' = packed \o Zeros(IF o.op = "x" THEN 1 ELSE PadTo(Len(packed), o.n))
  /\ UNCHANGED <<packing, endian, arguments, data, off, fi, vals>>

PackInteger(o, i) ==
  /\ MorePacked /\ o.op \in IntOps
  /\ Noted(o) /\ arguments' = Append(arguments, i)
  /\ IF FitsInt(i, Width(o), o.op \in SignedOps)
     THEN packed' = packed \o PackInt(i, Width(o), endian) /\ UNCHANGED packing
     ELSE packing' = "error" /\ UNCHANGED packed
  /\ UNCHANGED <<endian, data, off, fi, vals>>

(* c takes the first n bytes of a string that has as many.                 *)
PackBytes(o, s) ==
  CASE o.op = "s" -> PackString(s, OrElse(o.n, 8), endian)
    [] o.op = "z" -> s \o <<0>>
    [] o.op = "c" -> SubSeq(s, 1, o.n)

PackText(o, s) ==
  /\ MorePacked /\ o.op \in StringOps
  /\ Noted(o) /\ arguments' = Append(arguments, s)
  /\ IF o.op = "c" /\ (o.n = 0 \/ Len(s) < o.n)
     THEN packing' = "error" /\ UNCHANGED packed
     ELSE packed' = packed \o PackBytes(o, s) /\ UNCHANGED packing
  /\ UNCHANGED <<endian, data, off, fi, vals>>

(* string-unpack is called with the string and the offset of the record.   *)
Unpack(prefix) ==
  /\ packing = "pack"
  /\ data' = prefix \o packed /\ off' = Len(prefix)
  /\ packing' = "unpack" /\ fi' = 1 /\ endian' = 0
  /\ UNCHANGED <<format, packed, arguments, vals>>

-----------------------------------------------------------------------------
Option == format[fi]
Reading == packing = "unpack" /\ fi <= Len(format)
Bytes(n) == SubSeq(data, off + 1, off + n)
Deliver(v) == vals' = Append(vals, v)
Fail == packing' = "error" /\ UNCHANGED <<off, vals>>
Ok == UNCHANGED packing

UnpackSwitch ==
  /\ Reading /\ Option.op \in SwitchOps
  /\ endian' = Endian(Option) /\ fi' = fi + 1
  /\ UNCHANGED <<packing, format, packed, arguments, data, off, vals>>

(* Padding is skipped by offsets in the whole string, not in the record.   *)
UnpackPadding ==
  /\ Reading /\ Option.op \in PadOps
  /\ off' = off + (IF Option.op = "x" THEN 1 ELSE PadTo(off, Option.n))
  /\ fi' = fi + 1
  /\ UNCHANGED <<packing, format, endian, packed, arguments, data, vals>>

UnpackInteger ==
  /\ Reading /\ Option.op \in IntOps
  /\ IF off + Width(Option) > Len(data) THEN Fail
     ELSE /\ Deliver(LoadInt(Bytes(Width(Option)), Option.op \in SignedOps, endian))
          /\ off' = off + Width(Option) /\ Ok
  /\ fi' = fi + 1
  /\ UNCHANGED <<format, endian, packed, arguments, data>>

UnpackCounted ==
  /\ Reading /\ Option.op = "s"
  /\ LET n == OrElse(Option.n, 8)
         len == AsLen(LoadInt(Bytes(n), FALSE, 1))
     IN IF off + n > Len(data) THEN Fail
        ELSE IF off + n + len > Len(data)
             THEN packing' = "error" /\ off' = off + n /\ UNCHANGED vals
        ELSE /\ Deliver(SubSeq(data, off + n + 1, off + n + len))
             /\ off' = off + n + len /\ Ok
  /\ fi' = fi + 1
  /\ UNCHANGED <<format, endian, packed, arguments, data>>

UnpackTerminated ==
  /\ Reading /\ Option.op = "z"
  /\ LET nuls == {j \in off + 1 .. Len(data) : data[j] = 0}
         nul == CHOOSE j \in nuls : \A k \in nuls : j <= k
     IN IF nuls = {} THEN Fail
        ELSE Deliver(SubSeq(data, off + 1, nul - 1)) /\ off' = nul /\ Ok
  /\ fi' = fi + 1
  /\ UNCHANGED <<format, endian, packed, arguments, data>>

(* Without a number c takes what is left; string-pack refuses that.        *)
UnpackFixed ==
  /\ Reading /\ Option.op = "c"
  /\ LET n == OrElse(Option.n, Len(data) - off)
     IN IF n < 0 \/ off + n > Len(data) THEN Fail
        ELSE Deliver(Bytes(n)) /\ off' = off + n /\ Ok
  /\ fi' = fi + 1
  /\ UNCHANGED <<format, endian, packed, arguments, data>>

Finish ==
  /\ packing = "unpack" /\ fi > Len(format)
  /\ packing' = "done"
  /\ UNCHANGED <<format, endian, packed, arguments, data, off, fi, vals>>

PackInit ==
  /\ packing = "pack" /\ format = <<>> /\ endian = 0
  /\ packed = <<>> /\ arguments = <<>> /\ data = <<>>
  /\ off = 0 /\ fi = 1 /\ vals = <<>>

PackNext ==
  \/ \E o \in Options : \/ PackSwitch(o) \/ PackPadding(o)
                        \/ \E i \in Ints : PackInteger(o, i)
                        \/ \E s \in Strings : PackText(o, s)
  \/ \E prefix \in Before : Unpack(prefix)
  \/ UnpackSwitch \/ UnpackPadding \/ UnpackInteger
  \/ UnpackCounted \/ UnpackTerminated \/ UnpackFixed \/ Finish

PackSpec == PackInit /\ [][PackNext]_packVars

-----------------------------------------------------------------------------
(* string-packsize.                                                        *)
OptionSize(size, o) ==
  CASE o.op \in SwitchOps -> 0
    [] o.op = "x" -> 1
    [] o.op = "X" -> PadTo(size, o.n)
    [] o.op \in IntOps -> Width(o)

PackSize(fmt) ==
  LET size[k \in 0 .. Len(fmt)] ==
        IF k = 0 THEN 0 ELSE size[k - 1] + OptionSize(size[k - 1], fmt[k])
  IN  size[Len(fmt)]

(* The variables hold values of their types.                               *)
PackTypeOK ==
  /\ packing \in {"pack", "unpack", "done", "error"}
  /\ format \in Seq(Options) /\ endian \in {0, 1}
  /\ packed \in Seq(0 .. 255) /\ data \in Seq(0 .. 255)
  /\ arguments \in Seq(Ints \union Strings)
  /\ off \in Nat /\ fi \in 1 .. Len(format) + 1
  /\ Len(vals) <= Len(arguments)

(* How many arguments the first k options take.                            *)
Taken(fmt) ==
  LET taken[k \in 0 .. Len(fmt)] ==
        IF k = 0 THEN 0 ELSE taken[k - 1] + (IF Takes(fmt[k]) THEN 1 ELSE 0)
  IN  taken

(* What a format gives back of an argument: c cuts a string.               *)
Delivered(o, v) == IF o.op = "c" THEN SubSeq(v, 1, o.n) ELSE v

(* Unpacking with the format a record was packed with never fails, gives   *)
(* back what was packed and ends behind the record - for records that      *)
(* stand at a multiple of the alignments the format asks for.              *)
ReadsBack ==
  /\ packing = "error" => fi = 1
  /\ packing = "done" =>
       /\ off = Len(data) /\ Len(vals) = Len(arguments)
       /\ \A k \in DOMAIN format : Takes(format[k]) =>
            LET j == Taken(format)[k] IN vals[j] = Delivered(format[k], arguments[j])

(* string-packsize tells the length of what string-pack makes.             *)
SizeAgrees ==
  (packing = "pack" /\ \A k \in DOMAIN format : format[k].op \notin StringOps)
    => PackSize(format) = Len(packed)

(* string-unpack gives back what string-pack was given, for every format   *)
(* of aligned records, and string-packsize tells the length of it          *)
(* (scm_stub_string_pack, scm_stub_string_unpack, scm_stub_string_packsize).*)
RoundTrip == ReadsBack /\ SizeAgrees
=============================================================================
