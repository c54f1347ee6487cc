-------------------------- MODULE WebSocketStream --------------------------
(***************************************************************************)
(* WebSocket frames over a byte stream (LXZMessage.cpp): a peer sends      *)
(* frames, the stream delivers their bytes in pieces of any size, and a    *)
(* script calls GetWebSocketFrame on what has arrived and removes the bytes*)
(* of a frame it got.  Frames are counted in bytes; of their content only  *)
(* whether it is intact is kept.  A peer that uses this code sends with    *)
(* SetWebSocketFrame; a browser masks its frames.                          *)
(*                                                                         *)
(* GetWebSocketFrame reads the length field without knowing that it has    *)
(* arrived, and the mask and the payload without knowing that the last     *)
(* four bytes have; what lies behind the input is anything.                *)
(***************************************************************************)
EXTENDS Integers, Sequences, SequencesExt

CONSTANTS
  Short,           \* the longest payload with a length field of 7 bits, 125
  Medium,          \* the longest with one of 16 bits, 65535
  PayloadLengths,  \* the payload lengths that are sent
  Masked,          \* the peer masks its frames
  MaxFrames        \* bound: frames sent

ASSUME PayloadAssumption ==
  Short \in Nat /\ Medium \in Nat /\ Short < Medium /\ PayloadLengths \subseteq Nat
ASSUME MaskedAssumption == Masked \in BOOLEAN
ASSUME StreamBoundAssumption == MaxFrames \in Nat

VARIABLES
  queue,      \* the frames of which the receiver removed no byte yet
  onWire,     \* how many of their bytes have not arrived
  inLength,   \* how many have: the size of the receiver's input message
  framesSent, \* the types of the frames sent, in order
  delivered,  \* the types GetWebSocketFrame returned for whole frames, in order
  garbled     \* a frame was returned with bytes that are not its own

streamVars == <<queue, onWire, inLength, framesSent, delivered, garbled>>

\* WebSocketFrameType: the types a script may name.
TEXT_FRAME == 129
BINARY_FRAME == 130
INCOMPLETE_TEXT_FRAME == 1
INCOMPLETE_BINARY_FRAME == 2
PING_FRAME == 25
PONG_FRAME == 26
OPENING_FRAME == 13056
CLOSING_FRAME == 13312
INCOMPLETE_FRAME == 65024
ERROR_FRAME == 65280
FrameTypes == {TEXT_FRAME, BINARY_FRAME, INCOMPLETE_TEXT_FRAME, INCOMPLETE_BINARY_FRAME,
               PING_FRAME, PONG_FRAME, OPENING_FRAME, CLOSING_FRAME, INCOMPLETE_FRAME,
               ERROR_FRAME}

\* What GetWebSocketFrame makes of the first byte: opcode and FIN bit.
FrameType(byte) ==
  LET fin == byte \div 128 = 1
      opcode == byte % 16
  IN CASE opcode \in {0, 1} -> IF fin THEN TEXT_FRAME ELSE INCOMPLETE_TEXT_FRAME
       [] opcode = 2 -> IF fin THEN BINARY_FRAME ELSE INCOMPLETE_BINARY_FRAME
       [] opcode = 9 -> PING_FRAME
       [] opcode = 10 -> PONG_FRAME
       [] OTHER -> ERROR_FRAME

\* The bytes of type and length of a frame with a payload of n bytes.
HeaderLength(n) == IF n <= Short THEN 2 ELSE IF n <= Medium THEN 4 ELSE 10

MaskLength == IF Masked THEN 4 ELSE 0

FrameLength(f) == HeaderLength(f.length) + MaskLength + f.length

StreamInit ==
  /\ queue = <<>>
  /\ onWire = 0
  /\ inLength = 0
  /\ framesSent = <<>>
  /\ delivered = <<>>
  /\ garbled = FALSE

\* SetWebSocketFrame, or what a peer that masks sends: the low byte of the type
\* travels.
SetWebSocketFrame(type, n) ==
  LET f == [byte |-> type % 256, length |-> n]
  IN /\ Len(framesSent) < MaxFrames
     /\ queue' = Append(queue, f)
     /\ onWire' = onWire + FrameLength(f)
     /\ framesSent' = Append(framesSent, type)
     /\ UNCHANGED <<inLength, delivered, garbled>>

\* Bytes arrive and read_cb adds them to the input message.
Arrive(n) ==
  /\ onWire' = onWire - n
  /\ inLength' = inLength + n
  /\ UNCHANGED <<queue, framesSent, delivered, garbled>>

\* The frame in front is taken for whole: it is returned, and the script removes
\* the bytes it is told, or all there are.
ReturnFrame(intact) ==
  LET f == Head(queue)
      outLen == FrameLength(f)
  IN /\ delivered' = Append(delivered, FrameType(f.byte))
     /\ queue' = Tail(queue)
     /\ inLength' = IF outLen >= inLength THEN 0 ELSE inLength - outLen
     /\ garbled' = ~intact
     /\ UNCHANGED <<onWire, framesSent>>

\* Mutant: the header is not counted.
Enough_PayloadOnly(n) == n

\* Mutant: a frame is whole when a byte of the next one is there.
Enough_OneMore(n) == HeaderLength(n) + n + 1

\* How many bytes GetWebSocketFrame wants before it returns a frame with a payload
\* of n bytes: those of header and payload, by the length it read.  Of a 64 bit
\* length that has arrived up to its fourth byte the sign is read behind the input,
\* and if that makes it negative any input is enough.
Enough(n) ==
  IF HeaderLength(n) = 10 /\ inLength < 6 THEN 3 ELSE HeaderLength(n) + n

\* GetWebSocketFrame does not return INCOMPLETE_FRAME.
TakenForWhole ==
  inLength >= 3 /\ queue # <<>> /\ inLength >= Enough(Head(queue).length)

\* A script calls GetWebSocketFrame on its input.
GetWebSocketFrame ==
  /\ ~garbled
  /\ TakenForWhole
  /\ ReturnFrame(inLength >= FrameLength(Head(queue)))

StreamNext ==
  \/ \E type \in FrameTypes, n \in PayloadLengths : SetWebSocketFrame(type, n)
  \/ \E n \in 1 .. onWire : Arrive(n)
  \/ GetWebSocketFrame

StreamSpec == StreamInit /\ [][StreamNext]_streamVars
-----------------------------------------------------------------------------
\* The counters hold the bytes of the frames that were not taken, no more and no
\* less, until a frame is garbled.
StreamTypeOK ==
  /\ queue \in Seq([byte : 0 .. 255, length : PayloadLengths])
  /\ onWire \in Nat /\ inLength \in Nat
  /\ framesSent \in Seq(FrameTypes)
  /\ delivered \in Seq(FrameTypes)
  /\ garbled \in BOOLEAN
  /\ ~garbled =>
       onWire + inLength = FoldLeft(LAMBDA n, f : n + FrameLength(f), 0, queue)

\* What the other side gets for a type.  A type that is a byte comes back as itself;
\* of the others the low byte is 0, the continuation of a text without FIN.
ArrivesAs(type) == IF type \in 0 .. 255 THEN type ELSE INCOMPLETE_TEXT_FRAME

\* Whatever the pieces the stream is cut into, the frames come out whole, in the
\* order they were sent, and as what they were sent as: except that SetWebSocketFrame
\* casts the type to a byte, so that an OPENING_FRAME or a CLOSING_FRAME arrives as an
\* INCOMPLETE_TEXT_FRAME.
FramesInOrder ==
  /\ ~garbled
  /\ Len(delivered) <= Len(framesSent)
  /\ \A i \in 1 .. Len(delivered) : delivered[i] = ArrivesAs(framesSent[i])

\* No frame is left behind: when all bytes have arrived and GetWebSocketFrame finds
\* no more frames, every frame has been returned, except that an empty frame of two
\* bytes waits for the next one, because GetWebSocketFrame wants three bytes.
NoFrameLeft ==
  onWire = 0 /\ ~garbled /\ ~TakenForWhole =>
    Len(delivered) = Len(framesSent) - (IF inLength = 2 THEN 1 ELSE 0)
=============================================================================
