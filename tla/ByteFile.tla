------------------------------ MODULE ByteFile ------------------------------
(***************************************************************************)
(* What a CLXZMessage promises to the code that fills and reads it: a file *)
(* of bytes with one position, in which nothing but the operation called   *)
(* changes a byte.  Cells are numbered from 0.                             *)
(***************************************************************************)
EXTENDS Integers

CONSTANTS
  Byte,      \* the values of a byte
  MaxWrite,  \* bound: bytes of one read or write
  MaxLen     \* bound: bytes of the content

VARIABLES content, size, pos

fileVars == <<content, size, pos>>

\* n bytes of data written over c at position p; the file is sz bytes long after.
Written(c, sz, p, data, n) ==
  [i \in 0 .. sz - 1 |-> IF i \in p .. p + n - 1 THEN data[i - p] ELSE c[i]]

Longer(a, b) == IF a > b THEN a ELSE b

Init == content = [i \in 0 .. -1 |-> 0] /\ size = 0 /\ pos = 0

\* Bytes are written at the position, over what is there and then behind it.
Write ==
  \E n \in 1 .. MaxWrite : \E data \in [0 .. n - 1 -> Byte] :
    /\ pos + n <= MaxLen
    /\ size' = Longer(size, pos + n)
    /\ content' = Written(content, size', pos, data, n)
    /\ pos' = pos + n

\* The position moves, inside the content.
Move == pos' \in 0 .. size /\ UNCHANGED <<content, size>>

\* The first n bytes go, or all of them.
RemoveHead ==
  \E n \in 0 .. size :
    /\ size' = size - n
    /\ content' = [i \in 0 .. size' - 1 |-> content[i + n]]
    /\ pos' = 0

Next == Write \/ Move \/ RemoveHead

Spec == Init /\ [][Next]_fileVars
=============================================================================
