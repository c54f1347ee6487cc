---------------------------- MODULE MessageFields ----------------------------
(***************************************************************************)
(* The fields of a message: what the Serial functions of Lua scripts       *)
(* (LuaLXZMessage.cpp) and of CIArchive (IArchive.cpp) write into the      *)
(* bytes of a message, and what they read from them.  One script writes    *)
(* fields, another, which knows their kinds, reads them in order.          *)
(*                                                                         *)
(* A byte has Base values, 256 in the code, and the widths are those of    *)
(* the code, so that a 32 bit number is one of four bytes.  The host is    *)
(* little endian and runs Linux.  Strings for cstring, cstring_len and     *)
(* string have no zero inside.                                             *)
(***************************************************************************)
EXTENDS Integers, Sequences, SequencesExt

CONSTANTS
  Base,       \* the number of values of a byte
  StrLimit,   \* what SerialStr is told a string may be long, 255
  Lengths,    \* the lengths of strings that are written
  Kinds,      \* the kinds of fields that are written
  Little,     \* SetLittleEndian, on both sides
  MaxFields   \* bound: fields of the message

\* A signed byte has a value 1.
ASSUME BaseAssumption == Base \in Nat \ (0 .. 3) /\ Base % 2 = 0
ASSUME LengthAssumption == StrLimit \in Nat /\ Lengths \subseteq Nat
ASSUME LittleAssumption == Little \in BOOLEAN
ASSUME FieldBoundAssumption == MaxFields \in Nat

VARIABLES
  bytes,    \* what of the message was not read
  m_nMode,  \* SM_WRITE, then SM_READ
  written,  \* the fields written: kind and value
  got,      \* the fields read
  smashed   \* the process ended because a number was printed behind its buffer

fieldVars == <<bytes, m_nMode, written, got, smashed>>

\* sizeof the type of a number.
Width(kind) ==
  CASE kind \in {"sint8", "uint8"} -> 1
    [] kind \in {"sint16", "uint16"} -> 2
    [] kind \in {"int", "uint32", "uiboolean"} -> 4
    [] OTHER -> 8

Signed == {"sint8", "sint16", "int", "uint32", "int64"}
Numbers == Signed \cup {"uint8", "uint16", "uint64", "uiboolean"}

Wild == <<-1>>   \* a string that was never read

\* How many values w bytes have.
Size(w) ==
  LET size[i \in 0 .. w] == IF i = 0 THEN 1 ELSE Base * size[i - 1]
  IN size[w]

\* The bytes of a number in memory, the lowest first.
Image(n, w) ==
  LET quot[i \in 0 .. w] == IF i = 0 THEN n ELSE quot[i - 1] \div Base
  IN [i \in 1 .. w |-> quot[i - 1] % Base]

\* The number in bytes.
Number(b) ==
  LET val[i \in 0 .. Len(b)] == IF i = 0 THEN 0 ELSE val[i - 1] * Base + b[Len(b) - i + 1]
  IN val[Len(b)]

AsSigned(n, w) == IF n >= Size(w) \div 2 THEN n - Size(w) ELSE n

\* The low 32 bits.
LowWord(n) == n % Size(4)

\* Short_Swap, Long_Swap and LongLong_Swap, as SetLittleEndian chose them.
Swap(b) == IF Little THEN b ELSE Reverse(b)

\* atoll, which makes the number from the text of a 64 bit field, stays in the range
\* of a signed one.
Atoll(v) ==
  LET half == Size(8) \div 2
  IN IF v >= half THEN half - 1 ELSE IF v < -half THEN -half ELSE v

\* Serial of a number, writing: the swapped value is computed and dropped.
WriteNumber(kind, v) == Image(IF Width(kind) = 8 THEN Atoll(v) ELSE v, Width(kind))

\* Serial of a number, reading, and what the script gets: uint32 is cast to int,
\* uiboolean compared with 1, and of 64 bits "%I64u" prints 32 with glibc.
ReadNumber(kind, b) ==
  LET w == Width(kind)
      n == Number(Swap(SubSeq(b, 1, w)))
  IN CASE kind = "uiboolean" -> IF n = 1 THEN 1 ELSE 0
       [] kind = "uint64" -> LowWord(n)
       [] kind = "int64" -> AsSigned(LowWord(n), 4)
       [] kind \in Signed \ {"int64"} -> AsSigned(n, w)
       [] OTHER -> n

\* The length in front of a string.
LengthKind(kind) ==
  CASE kind = "lstring1" -> "uint8"
    [] kind = "lstring2" -> "uint16"
    [] OTHER -> "int"

\* The size scripts agree on for a cstring_len.
FixedSize == Max(Lengths)

\* Serial of a string, writing.  SerialStr measures the string itself, whatever the
\* length it is given; string writes the length twice; cstring_len has none and is
\* padded with zeros.
WriteString(kind, s) ==
  LET length == WriteNumber(LengthKind(kind), Len(s))
  IN CASE kind = "cstring_len" -> s \o [i \in 1 .. FixedSize - Len(s) |-> 0]
       [] kind = "string" -> length \o length \o s
       [] OTHER -> length \o s

\* The bytes in front of the first zero.
CString(s) == IF Contains(s, 0) THEN SubSeq(s, 1, SelectInSeq(s, LAMBDA d : d = 0) - 1) ELSE s

\* Mutant: a string as long as the limit is not read.
ReadCString_Limit(b, l) ==
  IF l < StrLimit - 1 THEN [value |-> SubSeq(b, 1, l), used |-> l]
                      ELSE [value |-> Wild, used |-> 0]

\* SerialStr, reading: a string that is too long is left where it is.
ReadCString(b, l) ==
  IF l < StrLimit THEN [value |-> SubSeq(b, 1, l), used |-> l]
                  ELSE [value |-> Wild, used |-> 0]

\* Serial of a string, reading: the value and the number of bytes taken.
ReadString(kind, b) ==
  LET w == Width(LengthKind(kind))
      l == ReadNumber(LengthKind(kind), b)
      rest == SubSeq(b, w + 1, Len(b))
      c == ReadCString(rest, l)
  IN CASE kind = "cstring_len" ->
            [value |-> CString(SubSeq(b, 1, FixedSize)), used |-> FixedSize]
       [] kind = "cstring" -> [value |-> c.value, used |-> w + c.used]
       [] kind = "string" -> [value |-> SubSeq(rest, w + 1, w + l), used |-> 2 * w + l]
       [] OTHER -> [value |-> SubSeq(rest, 1, l), used |-> w + l]
-----------------------------------------------------------------------------
\* The values a script writes: numbers at the edges of their range and in its middle,
\* strings of the given lengths.
FieldValues(kind) ==
  LET size == Size(Width(kind))
      half == size \div 2
  IN CASE kind = "uiboolean" -> {0, 1}
       [] kind \in {"uint8", "uint16", "uint32", "uint64"} -> {0, 1, half - 1, half, size - 1}
       [] kind \in {"sint8", "sint16", "int", "int64"} -> {-half, -1, 0, 1, half - 1}
       [] kind \in {"lstring1", "lstring2"} -> {[i \in 1 .. n |-> i % 2] : n \in Lengths}
       [] OTHER -> {[i \in 1 .. n |-> 1] : n \in Lengths}

FieldInit ==
  /\ bytes = <<>>
  /\ m_nMode = "SM_WRITE"
  /\ written = <<>>
  /\ got = <<>>
  /\ smashed = FALSE

\* A Serial function of a script on a message in SM_WRITE.
WriteField(kind, v) ==
  /\ m_nMode = "SM_WRITE"
  /\ Len(written) < MaxFields
  /\ bytes' = bytes \o (IF kind \in Numbers THEN WriteNumber(kind, v) ELSE WriteString(kind, v))
  /\ written' = Append(written, [kind |-> kind, v |-> v])
  /\ UNCHANGED <<m_nMode, got, smashed>>

\* setMode(SM_READ).
LuaSetMode ==
  /\ m_nMode = "SM_WRITE"
  /\ m_nMode' = "SM_READ"
  /\ UNCHANGED <<bytes, written, got, smashed>>

\* SerialStr cannot read it.
TooLong(f) == f.kind = "cstring" /\ Len(f.v) >= StrLimit

\* A script that met a string it could not read: its next field would start with the
\* bytes of that string.  What it reads then is not followed.
Lost == \E i \in 1 .. Len(got) : TooLong(written[i])

CanRead == m_nMode = "SM_READ" /\ Len(got) < Len(written) /\ ~Lost /\ ~smashed

\* A Serial function of a script on a message in SM_READ.
ReadField ==
  /\ CanRead
  /\ LET kind == written[Len(got) + 1].kind
         f == IF kind \in Numbers THEN [value |-> ReadNumber(kind, bytes), used |-> Width(kind)]
                                  ELSE ReadString(kind, bytes)
     IN /\ got' = Append(got, [kind |-> kind, v |-> f.value])
        /\ bytes' = SubSeq(bytes, f.used + 1, Len(bytes))
  /\ UNCHANGED <<m_nMode, written, smashed>>

\* "%I64u" is a width of 64 to glibc: sprintf writes 64 characters and a zero into 64
\* bytes, and the process may end there.
PrintOverruns ==
  /\ CanRead
  /\ written[Len(got) + 1].kind \in {"uint64", "int64"}
  /\ smashed' = TRUE
  /\ UNCHANGED <<bytes, m_nMode, written, got>>

FieldNext ==
  \/ \E kind \in Kinds : \E v \in FieldValues(kind) : WriteField(kind, v)
  \/ LuaSetMode
  \/ ReadField
  \/ PrintOverruns

FieldSpec == FieldInit /\ [][FieldNext]_fieldVars
-----------------------------------------------------------------------------
\* What a script gets for a field.  A uint32 of the upper half turns negative, of a 64
\* bit number there are the low 32 bits, and a cstring of StrLimit bytes or more is not
\* read.
ComesBack(f) ==
  CASE f.kind = "uint32" -> AsSigned(f.v, 4)
    [] f.kind = "uint64" -> LowWord(Atoll(f.v))
    [] f.kind = "int64" -> AsSigned(LowWord(f.v), 4)
    [] f.kind = "cstring" -> IF TooLong(f) THEN Wild ELSE f.v
    [] OTHER -> f.v

\* What a script reads from a message is what was written, field by field, with the
\* exceptions ComesBack states, and no byte is left over: no field takes bytes of the
\* next one, except that a string that is too long stays where it is.
FieldsComeBack ==
  /\ Len(got) <= Len(written)
  /\ \A i \in 1 .. Len(got) : got[i] = [kind |-> written[i].kind, v |-> ComesBack(written[i])]
  /\ Len(got) = Len(written) /\ m_nMode = "SM_READ" /\ ~Lost => bytes = <<>>
=============================================================================
