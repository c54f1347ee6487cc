------------------------------ MODULE MemFile ------------------------------
(***************************************************************************)
(* The memory of a CLXZMessage: CIMemFile (IMemFile.cpp) on a FastBufAlloc *)
(* (FastBufAlloc.h), which keeps up to CacheSize bytes in an array of the  *)
(* object and more of them on the heap, and the mode and position calls of *)
(* CIArchive and CLXZMessage.  Both buffers have one cell more than they   *)
(* hold, for a terminating zero.                                           *)
(***************************************************************************)
EXTENDS Integers

CONSTANTS
  Byte,       \* the values of a byte
  CacheSize,  \* maxcachesize, 32 in the code
  MaxWrite,   \* bound: bytes of one read or write
  MaxLen      \* bound: bytes of the content

ASSUME SizeAssumption == CacheSize \in Nat /\ MaxWrite \in Nat /\ MaxLen \in Nat
ASSUME ByteAssumption == 0 \in Byte

Nul == 0

VARIABLES
  arrbuf,     \* the array in the object
  heapbuf,    \* the heap array
  heap,       \* heapbuf is not NULL
  cp_len,     \* how many bytes are in use
  alloc_len,  \* how many bytes there is room for
  pos,        \* m_nCurPos
  mode        \* m_nMode

bufVars == <<arrbuf, heapbuf, heap, cp_len, alloc_len>>
memVars == <<bufVars, pos, mode>>

\* FastBufAlloc::buf.
Buf == IF alloc_len > CacheSize THEN heapbuf ELSE arrbuf

Cells(n) == [0 .. n -> Byte]
ZeroCells(n) == [i \in 0 .. n |-> Nul]

MemInit ==
  /\ arrbuf = ZeroCells(CacheSize)
  /\ heapbuf = ZeroCells(0)
  /\ heap = FALSE
  /\ cp_len = 0
  /\ alloc_len = CacheSize
  /\ pos = 0
  /\ mode = "SM_WRITE"

\* Mutant: grow copies one byte too few.
Grown_OneShort(newsize) ==
  [i \in 0 .. newsize |->
     IF i + 1 < (IF heap THEN alloc_len ELSE cp_len) THEN Buf[i] ELSE Nul]

\* grow to newsize: all of an old heap array is copied, of the object's own array
\* the bytes in use; the rest is zero.
Grown(newsize) ==
  [i \in 0 .. newsize |->
     IF i < (IF heap THEN alloc_len ELSE cp_len) THEN Buf[i] ELSE Nul]

\* The cells b become those of buf(), the array of n bytes made by grow if grew.
UseBuffer(b, grew, n) ==
  /\ heap' = (heap \/ grew)
  /\ alloc_len' = IF grew THEN n ELSE alloc_len
  /\ IF grew \/ alloc_len > CacheSize THEN heapbuf' = b /\ UNCHANGED arrbuf
                                      ELSE arrbuf' = b /\ UNCHANGED heapbuf

\* grow(size), which a script calls through grown.
Grow(n) ==
  /\ n > alloc_len
  /\ UseBuffer(Grown(n), TRUE, n)
  /\ UNCHANGED <<cp_len, pos, mode>>

\* Mutant: the new end is not marked.
Stored_NoNul(b, p, data, n) ==
  [i \in DOMAIN b |-> IF i \in p .. p + n - 1 THEN data[i - p] ELSE b[i]]

\* The cells b with n bytes of data at position p, and a zero behind them when
\* they are the new end.
Stored(b, p, data, n) ==
  [i \in DOMAIN b |-> IF i \in p .. p + n - 1 THEN data[i - p]
                      ELSE IF i = p + n /\ p + n > cp_len THEN Nul ELSE b[i]]

\* Mutant: the test for room forgets the position.
Write_NoRoomTest(n, data) ==
  LET grew == n > alloc_len
      room == IF grew THEN (alloc_len + n) * 2 ELSE alloc_len
      old  == IF grew THEN Grown(room) ELSE Buf
  IN /\ mode = "SM_WRITE"
     /\ UseBuffer(Stored(old, pos, data, n), grew, room)
     /\ cp_len' = IF pos + n > cp_len THEN pos + n ELSE cp_len
     /\ pos' = pos + n
     /\ UNCHANGED mode

\* CIMemFile::Write of n bytes; the return value, -1 when the buffer had to grow,
\* is not looked at.
Write(n, data) ==
  LET grew == pos + n > alloc_len
      room == IF grew THEN (alloc_len + n) * 2 ELSE alloc_len
      old  == IF grew THEN Grown(room) ELSE Buf
  IN /\ mode = "SM_WRITE"
     /\ UseBuffer(Stored(old, pos, data, n), grew, room)
     /\ cp_len' = IF pos + n > cp_len THEN pos + n ELSE cp_len
     /\ pos' = pos + n
     /\ UNCHANGED mode

\* CIMemFile::Read; a read past the end fails and moves nothing.
Read(n) ==
  /\ mode = "SM_READ"
  /\ pos + n <= cp_len
  /\ pos' = pos + n
  /\ UNCHANGED <<bufVars, mode>>

\* CIMemFile::SetPos: a position behind the end is ignored.  rollback(k) is
\* SetPos(pos - k); before the start it wraps to a size_t behind any end.
SetPos(p) ==
  /\ p \in 0 .. cp_len
  /\ pos' = p
  /\ UNCHANGED <<bufVars, mode>>

\* CLXZMessage::setMode.
SetMode(m) ==
  /\ mode' = m
  /\ pos' = 0
  /\ UNCHANGED bufVars

\* removeHeadBuffer: the bytes behind the first n move to the front.
RemoveHeadBuffer(n) ==
  LET k == IF n >= cp_len THEN cp_len ELSE n
      b == [i \in DOMAIN Buf |-> IF i < cp_len - k THEN Buf[i + k]
                                 ELSE IF i = cp_len - k THEN Nul ELSE Buf[i]]
  IN /\ UseBuffer(b, FALSE, 0)
     /\ cp_len' = cp_len - k
     /\ pos' = 0
     /\ UNCHANGED mode

\* Release: the array is cleared, the heap array freed.
Release ==
  /\ arrbuf' = ZeroCells(CacheSize)
  /\ heapbuf' = ZeroCells(0)
  /\ heap' = FALSE
  /\ cp_len' = 0
  /\ alloc_len' = CacheSize
  /\ pos' = 0
  /\ UNCHANGED mode

MemNext ==
  \/ \E n \in 1 .. MaxWrite :
       \/ Read(n)
       \/ pos + n <= MaxLen /\ \E data \in [0 .. n - 1 -> Byte] : Write(n, data)
  \/ \E p \in 0 .. MaxLen : SetPos(p) \/ RemoveHeadBuffer(p) \/ Grow(p)
  \/ \E m \in {"SM_READ", "SM_WRITE"} : SetMode(m)
  \/ Release

MemSpec == MemInit /\ [][MemNext]_memVars
-----------------------------------------------------------------------------
\* The fields hold what their declarations allow, and no byte outside the two
\* arrays is read or written: the position is in the content, the content in the
\* room there is, and there is a heap array exactly when buf() returns it.
MemTypeOK ==
  /\ arrbuf \in Cells(CacheSize)
  /\ heap \in BOOLEAN
  /\ cp_len \in 0 .. MaxLen
  /\ alloc_len \in Nat /\ alloc_len >= CacheSize
  /\ pos \in 0 .. cp_len
  /\ cp_len <= alloc_len
  /\ mode \in {"SM_READ", "SM_WRITE"}
  /\ heap <=> alloc_len > CacheSize
  /\ heap => heapbuf \in Cells(alloc_len)

\* getMsgPtr returns a C string: a zero follows the content, through overwrites,
\* growth in either buffer and the removal of a head.
Terminated == Buf[cp_len] = Nul

\* The content as a reader sees it.
Content == [i \in 0 .. cp_len - 1 |-> Buf[i]]

\* The two buffers are one file of bytes: growth, the move from the object's array
\* to the heap and the removal of a head lose and change no byte.
File == INSTANCE ByteFile WITH content <- Content, size <- cp_len
FileSpec == File!Spec
=============================================================================
