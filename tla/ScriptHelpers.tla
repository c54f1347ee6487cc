---------------------------- MODULE ScriptHelpers ----------------------------
(***************************************************************************)
(* Two helpers EventServer.cpp gives to scripts, which hold 64 bit numbers *)
(* as decimal strings and cut texts at a byte count: int64_op, and         *)
(* set_char_zero, which drops the UTF-8 character a cut went through.      *)
(* Both are pure: a behaviour is one call.  Numbers have Bits bits.  A     *)
(* text is the sequence of its bytes, of which only the size of the        *)
(* character they start is kept, 6 for a byte that starts none.            *)
(***************************************************************************)
EXTENDS Integers, Sequences, SequencesExt, Bitwise

CONSTANTS
  Bits,       \* the width of LXZuint64, 64
  Ops,        \* the operators scripts use
  MaxChars    \* bound: characters of a text

ASSUME BitsAssumption == Bits \in Nat \ {0}
ASSUME HelperBoundAssumption == MaxChars \in Nat

WordSize == 2 ^ Bits
SignedRange == -(WordSize \div 2) .. WordSize \div 2 - 1

VARIABLES call, result

helperVars == <<call, result>>

Trap == "trap"   \* the process is killed

\* atoll, for a number that a string can hold, and the cast to LXZuint64.
Parse(n) ==
  (IF n > WordSize \div 2 - 1 THEN WordSize \div 2 - 1
   ELSE IF n < -(WordSize \div 2) THEN -(WordSize \div 2) ELSE n) % WordSize

\* Mutant: "%llu".
Formatted_Unsigned(u) == u % WordSize

\* "%lld" of an unsigned result.
Formatted(u) == IF u % WordSize >= WordSize \div 2 THEN (u % WordSize) - WordSize ELSE u % WordSize

\* lua_evhttp_int64_op.  The first character of the operator decides, so that "<="
\* and ">=" are "<" and ">".
Int64Op(src, op, dst) ==
  LET a == Parse(src)
      b == Parse(dst)
  IN CASE op = "+" -> Formatted(a + b)
       [] op = "-" -> Formatted(a - b)
       [] op = "*" -> Formatted(a * b)
       [] op = "/" -> IF b = 0 THEN Trap ELSE Formatted(a \div b)
       [] op = "%" -> IF b = 0 THEN Trap ELSE Formatted(a % b)
       [] op = "|" -> Formatted(a | b)
       [] op = "^" -> Formatted(a ^^ b)
       [] op = "&" -> Formatted(a & b)
       [] op = "~" -> Formatted(WordSize - 1 - a)
       [] op \in {"<", "<="} -> a < b
       [] op \in {">", ">="} -> a > b
       [] op = "==" -> a = b

\* The bytes of a text of characters of the given sizes.
Text(sizes) ==
  FlattenSeq([c \in DOMAIN sizes |-> [i \in 1 .. sizes[c] |-> IF i = 1 THEN sizes[c] ELSE 6]])

\* The character at offset ends inside the text.
Fits(text, offset) == Len(text) >= offset + text[offset + 1]

\* set_char_zero from offset on: what is left of the text.
SetCharZero(text) ==
  LET from[offset \in 0 .. Len(text)] ==
        IF offset < Len(text) /\ Fits(text, offset)
          THEN from[offset + text[offset + 1]]
          ELSE offset
  IN SubSeq(text, 1, from[0])

Sizes == UNION {[1 .. n -> 1 .. 4] : n \in 0 .. MaxChars}

HelperStart(c) == call = c /\ result = <<>>

HelperInit ==
  \/ \E a, b \in SignedRange, op \in Ops :
       HelperStart([name |-> "int64_op", a |-> a, op |-> op, b |-> b])
  \/ \E s \in Sizes : \E n \in 0 .. Len(Text(s)) :
       HelperStart([name |-> "set_char_zero", sizes |-> s, cut |-> n])

HelperNext ==
  /\ result = <<>>
  /\ result' = <<IF call.name = "int64_op" THEN Int64Op(call.a, call.op, call.b)
                 ELSE SetCharZero(SubSeq(Text(call.sizes), 1, call.cut))>>
  /\ UNCHANGED call

HelperSpec == HelperInit /\ [][HelperNext]_helperVars
-----------------------------------------------------------------------------
\* The number of Bits bits that equals n modulo WordSize.
Wrap(n) == ((n + WordSize \div 2) % WordSize) - WordSize \div 2

\* What the operator means for the two numbers, wrapped to Bits bits.
Meaning(a, op, b) ==
  CASE op = "+" -> Wrap(a + b)
    [] op = "-" -> Wrap(a - b)
    [] op = "*" -> Wrap(a * b)
    [] op = "/" -> IF b = 0 THEN Trap ELSE a \div b
    [] op = "%" -> IF b = 0 THEN Trap ELSE a % b
    [] op = "|" -> Wrap((a % WordSize) + (b % WordSize) - ((a % WordSize) & (b % WordSize)))
    [] op = "^" -> Wrap((a % WordSize) + (b % WordSize) - 2 * ((a % WordSize) & (b % WordSize)))
    [] op = "&" -> Wrap((a % WordSize) + (b % WordSize) - ((a % WordSize) | (b % WordSize)))
    [] op = "~" -> -a - 1
    [] op = "<" -> a < b
    [] op = "<=" -> a <= b
    [] op = ">" -> a > b
    [] op = ">=" -> a >= b
    [] op = "==" -> a = b

\* int64_op computes what its operator says: always for sums, products and bits,
\* for numbers of one sign in comparisons, and for two that are not negative in
\* quotients, because the code computes without signs what it prints with them.
Int64OpIsExact ==
  (result # <<>> /\ call.name = "int64_op"
     /\ (call.op \in {"/", "%"} => call.a >= 0 /\ call.b >= 0)
     /\ (call.op \in {"<", ">", "<=", ">="} => (call.a < 0) = (call.b < 0)))
  => result[1] = Meaning(call.a, call.op, call.b)

\* A text cut at any byte keeps all its whole characters and nothing of the one the
\* cut went through.
WholeCharacters ==
  (result # <<>> /\ call.name = "set_char_zero") =>
    \E k \in 0 .. Len(call.sizes) :
      /\ result[1] = Text(SubSeq(call.sizes, 1, k))
      /\ Len(result[1]) <= call.cut
      /\ k < Len(call.sizes) => Len(result[1]) + call.sizes[k + 1] > call.cut

\* Both helpers compute what scripts mean by them.
HelpersAreExact == Int64OpIsExact /\ WholeCharacters
=============================================================================
