------------------------------ MODULE CfgLoad ------------------------------
(***************************************************************************)
(* How LXZCoreCfg::load cuts a file into lines (LXZCoreCfg.cpp): it reads  *)
(* blocks into one buffer behind the rest of the block before, decides for *)
(* each block whether lines end in CR LF or in LF, and hands every line    *)
(* that ends in the buffer to the code that sets its name.                 *)
(*                                                                         *)
(* Byte k stands for any byte of line k.  Every line and its end fit into  *)
(* a block, as do the fixed arrays for name and value.                     *)
(***************************************************************************)
EXTENDS Integers, Sequences, SequencesExt, FiniteSetsExt

CONSTANTS
  Block,     \* _len, 1024 in the code
  MaxLines,  \* bound: lines of the file
  MaxLine,   \* bound: bytes of a line
  EndsLast   \* the last line of a file ends in a line end like the others

ASSUME BlockAssumption == Block \in Nat /\ MaxLines \in Nat /\ MaxLine \in Nat /\ MaxLine + 2 <= Block
ASSUME EndsLastAssumption == EndsLast \in BOOLEAN

CR == -1
LF == -2
NUL == 0
Bytes == {CR, LF, NUL} \cup 1 .. MaxLines

VARIABLES
  text,      \* the lines of the file
  unread,    \* the bytes of the file that were not read
  buf,       \* the buffer, numbered from 0
  offset,    \* where the next block goes
  is_unix,   \* lines end in LF
  prev,      \* the start of the line in turn
  loadPc,    \* "read", "line" or "done"
  set        \* the lines handed on, in order (history)

loadVars == <<text, unread, buf, offset, is_unix, prev, loadPc, set>>

LineEnds == {<<CR, LF>>, <<LF>>}

\* The bytes of a file of the given lines.
FileOf(lines, end) ==
  FlattenSeq([k \in DOMAIN lines |->
    IF k = Len(lines) /\ ~EndsLast THEN lines[k] ELSE lines[k] \o end])

\* load is called for a file of the given lines.
LoadStart(lines, end) ==
  /\ text = lines
  /\ unread = FileOf(lines, end)
  /\ buf = [i \in 0 .. 2 * Block - 1 |-> NUL]
  /\ offset = 0
  /\ is_unix = FALSE
  /\ prev = 0
  /\ loadPc = "read"
  /\ set = <<>>

LoadInit ==
  \E n \in 1 .. MaxLines, end \in LineEnds : \E size \in [1 .. n -> 1 .. MaxLine] :
    LoadStart([k \in 1 .. n |-> [i \in 1 .. size[k] |-> k]], end)

\* strlen(&b[p]).
Strlen(b, p) == Min({i \in p .. 2 * Block - 1 : b[i] = NUL}) - p

\* The places of a line end in the C string at position p.
Finds(b, p, end) ==
  {i \in p .. p + Strlen(b, p) - Len(end) : \A j \in 1 .. Len(end) : b[i + j - 1] = end[j]}

\* The buffer after fread of n bytes and a zero; a last line without an end gets one,
\* if there is room, in the place of the zero.
WithLineEnd(n) ==
  LET end == offset + n
      read == [i \in DOMAIN buf |-> IF i \in offset .. end - 1 THEN unread[i - offset + 1]
                                    ELSE IF i = end THEN NUL ELSE buf[i]]
  IN IF end + 2 < Block /\ read[end - 1] # LF
       THEN [read EXCEPT ![end] = CR, ![end + 1] = LF]
       ELSE read

\* One block is read, and with nothing left load returns.  A block without any line
\* end is read over.
ReadBlock ==
  LET n == Min({Block - offset, Len(unread)})
  IN /\ loadPc = "read"
     /\ IF n = 0
          THEN loadPc' = "done" /\ UNCHANGED <<unread, buf, is_unix, prev>>
          ELSE /\ buf' = WithLineEnd(n)
               /\ unread' = SubSeq(unread, n + 1, Len(unread))
               /\ is_unix' = (Finds(buf', 0, <<CR, LF>>) = {})
               /\ prev' = 0
               /\ loadPc' = IF is_unix' /\ Finds(buf', 0, <<LF>>) = {} THEN "read" ELSE "line"
     /\ UNCHANGED <<text, offset, set>>

End == IF is_unix THEN <<LF>> ELSE <<CR, LF>>

\* Mutant: the place of the rest is not noted when a block ends with a line.
ParseLine_KeepsOffset ==
  LET pp == Min(Finds(buf, prev, End))
      next == pp + Len(End)
      rest == Strlen(buf, next)
  IN /\ loadPc = "line"
     /\ set' = Append(set, [i \in 1 .. pp - prev |-> buf[prev + i - 1]])
     /\ prev' = next
     /\ IF Finds(buf, next, End) # {}
          THEN offset' = next /\ UNCHANGED <<buf, loadPc>>
          ELSE /\ buf' = [i \in DOMAIN buf |-> IF i < rest THEN buf[next + i]
                                               ELSE IF i = rest THEN NUL ELSE buf[i]]
               /\ offset' = IF rest = 0 THEN offset ELSE rest
               /\ loadPc' = "read"
     /\ UNCHANGED <<text, unread, is_unix>>

\* The line at prev is handed on; when no other ends in the buffer the rest moves to
\* the front.
ParseLine ==
  LET pp == Min(Finds(buf, prev, End))
      next == pp + Len(End)
      rest == Strlen(buf, next)
  IN /\ loadPc = "line"
     /\ set' = Append(set, [i \in 1 .. pp - prev |-> buf[prev + i - 1]])
     /\ prev' = next
     /\ IF Finds(buf, next, End) # {}
          THEN offset' = next /\ UNCHANGED <<buf, loadPc>>
          ELSE /\ buf' = [i \in DOMAIN buf |-> IF i < rest THEN buf[next + i]
                                               ELSE IF i = rest THEN NUL ELSE buf[i]]
               /\ offset' = rest
               /\ loadPc' = "read"
     /\ UNCHANGED <<text, unread, is_unix>>

LoadNext == ReadBlock \/ ParseLine

LoadSpec == LoadInit /\ [][LoadNext]_loadVars
-----------------------------------------------------------------------------
\* load sets what the lines of the file say: every line, once, in order and whole,
\* wherever the blocks cut the file and however its lines end.
SetsEveryLine ==
  /\ set = SubSeq(text, 1, Len(set))
  /\ loadPc = "done" => set = text
=============================================================================
