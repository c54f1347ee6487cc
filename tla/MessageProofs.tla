--------------------------- MODULE MessageProofs ---------------------------
(***************************************************************************)
(* Theorems about messages.                                                *)
(*                                                                         *)
(* Their memory, MemFile, for any size of the object's own array, any      *)
(* bytes and any length of the content: MemTypeOK and Terminated together  *)
(* are inductive, and every operation on the two buffers is one operation  *)
(* of ByteFile on their content, or leaves it alone.                       *)
(*                                                                         *)
(* Their free list, MessagePool, for any number of threads and messages    *)
(* and any length limit.                                                   *)
(***************************************************************************)
EXTENDS MemFile, MessagePool, SequenceTheorems, TLAPS

MemInv == MemTypeOK /\ Terminated

\* buf() returns an array with a cell for every byte there is room for, and one
\* more.
LEMMA BufCells ==
  ASSUME MemTypeOK
  PROVE  /\ Buf \in Cells(alloc_len)
         /\ alloc_len \in Nat /\ cp_len \in Nat /\ pos \in Nat /\ CacheSize \in Nat
         /\ cp_len <= alloc_len /\ pos <= cp_len /\ CacheSize <= alloc_len
         /\ DOMAIN Buf = 0 .. alloc_len
<1>1. /\ alloc_len \in Nat /\ cp_len \in Nat /\ pos \in Nat /\ CacheSize \in Nat
      /\ cp_len <= alloc_len /\ pos <= cp_len /\ CacheSize <= alloc_len
  BY SizeAssumption DEF MemTypeOK
<1>2. CASE alloc_len > CacheSize
  BY <1>1, <1>2 DEF MemTypeOK, Buf, Cells
<1>3. CASE alloc_len = CacheSize
  BY <1>1, <1>3 DEF MemTypeOK, Buf, Cells
<1>4. QED
  BY <1>1, <1>2, <1>3

\* grow keeps every byte of the content and the zero behind it.
LEMMA GrownCells ==
  ASSUME MemInv, NEW n \in Nat, n > alloc_len
  PROVE  /\ Grown(n) \in Cells(n)
         /\ \A i \in 0 .. cp_len - 1 : Grown(n)[i] = Buf[i]
         /\ Grown(n)[cp_len] = Nul
<1>1. MemTypeOK /\ Terminated
  BY DEF MemInv
<1>2. \A i \in 0 .. n : Grown(n)[i] = IF i < (IF heap THEN alloc_len ELSE cp_len)
                                        THEN Buf[i] ELSE Nul
  BY DEF Grown
<1>3. \A i \in 0 .. alloc_len : Buf[i] \in Byte
  BY <1>1, BufCells DEF Cells
<1>4. \A i \in 0 .. n : Grown(n)[i] \in Byte
  BY <1>1, <1>2, <1>3, BufCells, ByteAssumption DEF Nul
<1>5. Grown(n) \in Cells(n)
  BY <1>4 DEF Cells, Grown
<1>6. QED
  BY <1>1, <1>2, <1>5, BufCells DEF Terminated

\* Whichever array an operation writes to is the one buf() returns afterwards.
LEMMA UsedBuffer ==
  ASSUME MemTypeOK, NEW b, NEW grew \in BOOLEAN, NEW n \in Nat,
         grew => n > alloc_len,
         b \in Cells(IF grew THEN n ELSE alloc_len),
         UseBuffer(b, grew, n)
  PROVE  /\ Buf' = b
         /\ alloc_len' = IF grew THEN n ELSE alloc_len
         /\ arrbuf' \in Cells(CacheSize)
         /\ heap' \in BOOLEAN
         /\ heap' <=> alloc_len' > CacheSize
         /\ heap' => heapbuf' \in Cells(alloc_len')
<1>1. /\ alloc_len \in Nat /\ CacheSize \in Nat /\ CacheSize <= alloc_len
      /\ heap \in BOOLEAN /\ (heap <=> alloc_len > CacheSize)
      /\ arrbuf \in Cells(CacheSize)
      /\ heap => heapbuf \in Cells(alloc_len)
  BY SizeAssumption DEF MemTypeOK
<1>2. CASE grew
  <2>1. alloc_len' = n /\ heap' = TRUE /\ heapbuf' = b /\ arrbuf' = arrbuf
    BY <1>1, <1>2 DEF UseBuffer
  <2>2. n > CacheSize
    BY <1>1, <1>2
  <2>3. QED
    BY <1>1, <1>2, <2>1, <2>2 DEF Buf
<1>3. CASE ~grew /\ alloc_len > CacheSize
  <2>1. alloc_len' = alloc_len /\ heap' = heap /\ heapbuf' = b /\ arrbuf' = arrbuf
    BY <1>1, <1>3 DEF UseBuffer
  <2>2. QED
    BY <1>1, <1>3, <2>1 DEF Buf
<1>4. CASE ~grew /\ alloc_len = CacheSize
  <2>1. alloc_len' = alloc_len /\ heap' = heap /\ heapbuf' = heapbuf /\ arrbuf' = b
    BY <1>1, <1>4 DEF UseBuffer
  <2>2. QED
    BY <1>1, <1>4, <2>1 DEF Buf
<1>5. QED
  BY <1>1, <1>2, <1>3, <1>4

\* A fresh message is an empty file.
LEMMA InitMem == MemInit => MemInv /\ File!Init
<1> SUFFICES ASSUME MemInit PROVE MemInv /\ File!Init
  OBVIOUS
<1> USE SizeAssumption, ByteAssumption DEF MemInit
<1>1. MemTypeOK
  <2>1. arrbuf \in Cells(CacheSize)
    BY DEF Cells, ZeroCells, Nul
  <2>2. heap = FALSE /\ ~(alloc_len > CacheSize)
    OBVIOUS
  <2>3. /\ cp_len \in 0 .. MaxLen /\ alloc_len \in Nat /\ alloc_len >= CacheSize
        /\ pos \in 0 .. cp_len /\ cp_len <= alloc_len /\ mode = "SM_WRITE"
    OBVIOUS
  <2> HIDE DEF MemInit
  <2>4. QED
    BY <2>1, <2>2, <2>3, Zenon DEF MemTypeOK
<1>2. Terminated
  BY DEF Terminated, Buf, ZeroCells, Nul
<1>3. File!Init
  <2>1. Content = [i \in 0 .. 0 - 1 |-> Buf[i]]
    BY DEF Content
  <2>2. 0 .. 0 - 1 = {} /\ 0 .. -1 = {}
    OBVIOUS
  <2>3. QED
    BY <2>1, <2>2 DEF File!Init
<1>4. QED
  BY <1>1, <1>2, <1>3 DEF MemInv

\* grow moves the content to another array and changes nothing a reader sees.
LEMMA GrowStep ==
  ASSUME MemInv, NEW n \in 0 .. MaxLen, Grow(n)
  PROVE  MemInv' /\ UNCHANGED <<Content, cp_len, pos>>
<1>1. MemTypeOK /\ Terminated /\ n \in Nat /\ n > alloc_len
  BY SizeAssumption DEF MemInv, Grow
<1>2. /\ Grown(n) \in Cells(n)
      /\ \A i \in 0 .. cp_len - 1 : Grown(n)[i] = Buf[i]
      /\ Grown(n)[cp_len] = Nul
  BY <1>1, GrownCells
<1>3. UseBuffer(Grown(n), TRUE, n) /\ UNCHANGED <<cp_len, pos, mode>>
  BY DEF Grow
<1>4. /\ Buf' = Grown(n) /\ alloc_len' = n /\ arrbuf' \in Cells(CacheSize)
      /\ heap' \in BOOLEAN /\ (heap' <=> alloc_len' > CacheSize)
      /\ heap' => heapbuf' \in Cells(alloc_len')
  BY <1>1, <1>2, <1>3, UsedBuffer
<1>5. MemTypeOK'
  BY <1>1, <1>3, <1>4, BufCells DEF MemTypeOK
<1>6. Terminated'
  BY <1>2, <1>3, <1>4 DEF Terminated
<1>7. Content' = Content
  BY <1>2, <1>3, <1>4 DEF Content
<1>8. QED
  BY <1>3, <1>5, <1>6, <1>7 DEF MemInv

\* A write, with or without growth, is one write to the file.
LEMMA WriteStep ==
  ASSUME MemInv, NEW n \in 1 .. MaxWrite, pos + n <= MaxLen,
         NEW data \in [0 .. n - 1 -> Byte], Write(n, data)
  PROVE  MemInv' /\ File!Write
<1> DEFINE grew == pos + n > alloc_len
           room == IF grew THEN (alloc_len + n) * 2 ELSE alloc_len
           old  == IF grew THEN Grown(room) ELSE Buf
           new  == Stored(old, pos, data, n)
<1>1. /\ MemTypeOK /\ Terminated /\ n \in Nat /\ n > 0
      /\ alloc_len \in Nat /\ cp_len \in Nat /\ pos \in Nat /\ CacheSize \in Nat
      /\ cp_len <= alloc_len /\ pos <= cp_len /\ CacheSize <= alloc_len
      /\ MaxLen \in Nat /\ cp_len <= MaxLen
  BY SizeAssumption, BufCells DEF MemInv, MemTypeOK
<1>2. /\ UseBuffer(new, grew, room) /\ mode = "SM_WRITE" /\ UNCHANGED mode
      /\ cp_len' = (IF pos + n > cp_len THEN pos + n ELSE cp_len)
      /\ pos' = pos + n
  BY DEF Write
<1>3. /\ room \in Nat /\ grew \in BOOLEAN /\ (grew => room > alloc_len)
      /\ (~grew => room = alloc_len) /\ pos + n <= room
  BY <1>1
<1>4. /\ old \in Cells(room)
      /\ \A i \in 0 .. cp_len - 1 : old[i] = Buf[i]
      /\ old[cp_len] = Nul
  <2>1. CASE grew
    BY <1>1, <1>3, <2>1, GrownCells
  <2>2. CASE ~grew
    BY <1>1, <1>3, <2>2, BufCells DEF Terminated
  <2>3. QED
    BY <2>1, <2>2
<1> HIDE DEF grew, room, old
<1>5. /\ DOMAIN new = 0 .. room
      /\ \A i \in 0 .. room :
           new[i] = IF i \in pos .. pos + n - 1 THEN data[i - pos]
                    ELSE IF i = pos + n /\ pos + n > cp_len THEN Nul ELSE old[i]
  BY <1>4 DEF Stored, Cells
<1>6. new \in Cells(room)
  <2>1. \A i \in 0 .. room : new[i] \in Byte
    <3> SUFFICES ASSUME NEW i \in 0 .. room PROVE new[i] \in Byte
      OBVIOUS
    <3>1. old[i] \in Byte
      BY <1>4 DEF Cells
    <3>2. i \in pos .. pos + n - 1 => data[i - pos] \in Byte
      BY <1>1
    <3>3. QED
      BY <1>5, <3>1, <3>2, ByteAssumption DEF Nul
  <2>2. new = [i \in 0 .. room |-> new[i]]
    BY <1>5 DEF Stored
  <2>3. QED
    BY <2>1, <2>2 DEF Cells
<1> HIDE DEF new
<1>7. /\ Buf' = new /\ alloc_len' = room /\ arrbuf' \in Cells(CacheSize)
      /\ heap' \in BOOLEAN /\ (heap' <=> alloc_len' > CacheSize)
      /\ heap' => heapbuf' \in Cells(alloc_len')
  <2>1. new \in Cells(IF grew THEN room ELSE alloc_len)
    BY <1>3, <1>6
  <2>2. QED
    BY <1>1, <1>2, <1>3, <2>1, UsedBuffer
<1>8. MemTypeOK'
  BY <1>1, <1>2, <1>3, <1>7 DEF MemTypeOK
<1>9. Terminated'
  BY <1>1, <1>2, <1>3, <1>4, <1>5, <1>7 DEF Terminated
<1>10. Content' = File!Written(Content, cp_len', pos, data, n)
  <2>1. \A i \in 0 .. cp_len' - 1 :
          Buf'[i] = IF i \in pos .. pos + n - 1 THEN data[i - pos] ELSE Content[i]
    <3> SUFFICES ASSUME NEW i \in 0 .. cp_len' - 1
                 PROVE  Buf'[i] = IF i \in pos .. pos + n - 1 THEN data[i - pos]
                                                              ELSE Content[i]
      OBVIOUS
    <3>1. (i \in 0 .. room /\ i # pos + n) \/ i \in 0 .. cp_len - 1
      BY <1>1, <1>2, <1>3
    <3>2. i \notin pos .. pos + n - 1 => i \in 0 .. cp_len - 1 /\ i \in 0 .. room
      BY <1>1, <1>2, <1>3
    <3>3. i \in 0 .. cp_len - 1 => Content[i] = Buf[i]
      BY DEF Content
    <3>4. i = pos + n => ~(pos + n > cp_len)
      BY <1>1, <1>2
    <3>5. i \in 0 .. room
      BY <1>1, <1>2, <1>3
    <3>6. QED
      BY <1>4, <1>5, <1>7, <3>2, <3>3, <3>4, <3>5
  <2>2. QED
    BY <2>1 DEF Content, File!Written
<1>11. cp_len' = File!Longer(cp_len, pos + n)
  BY <1>1, <1>2 DEF File!Longer
<1>12. File!Write
  BY <1>2, <1>10, <1>11 DEF File!Write
<1>13. QED
  BY <1>8, <1>9, <1>12 DEF MemInv

\* Read, SetPos and setMode only move the position, inside the content.
LEMMA MoveStep ==
  ASSUME MemInv,
         \/ \E n \in 1 .. MaxWrite : Read(n)
         \/ \E p \in 0 .. MaxLen : SetPos(p)
         \/ \E m \in {"SM_READ", "SM_WRITE"} : SetMode(m)
  PROVE  MemInv' /\ File!Move
<1>1. MemTypeOK /\ Terminated
  BY DEF MemInv
<1>2. /\ UNCHANGED bufVars /\ pos' \in 0 .. cp_len /\ mode' \in {"SM_READ", "SM_WRITE"}
  BY <1>1, SizeAssumption, BufCells DEF Read, SetPos, SetMode, MemTypeOK
<1>3. MemTypeOK' /\ Terminated' /\ Content' = Content
  BY <1>1, <1>2 DEF bufVars, MemTypeOK, Terminated, Content, Buf
<1>4. QED
  BY <1>2, <1>3 DEF MemInv, File!Move, bufVars

\* removeHeadBuffer moves the rest to the front of the array it is in.
LEMMA RemoveHeadStep ==
  ASSUME MemInv, NEW n \in 0 .. MaxLen, RemoveHeadBuffer(n)
  PROVE  MemInv' /\ File!RemoveHead
<1> DEFINE k == IF n >= cp_len THEN cp_len ELSE n
           b == [i \in DOMAIN Buf |-> IF i < cp_len - k THEN Buf[i + k]
                                      ELSE IF i = cp_len - k THEN Nul ELSE Buf[i]]
<1>1. /\ MemTypeOK /\ Terminated
      /\ alloc_len \in Nat /\ cp_len \in Nat /\ pos \in Nat
      /\ cp_len <= alloc_len /\ Buf \in Cells(alloc_len) /\ DOMAIN Buf = 0 .. alloc_len
      /\ MaxLen \in Nat /\ cp_len <= MaxLen
  BY SizeAssumption, BufCells DEF MemInv, MemTypeOK
<1>2. /\ UseBuffer(b, FALSE, 0) /\ cp_len' = cp_len - k /\ pos' = 0 /\ UNCHANGED mode
  BY DEF RemoveHeadBuffer
<1>3. k \in 0 .. cp_len
  BY <1>1
<1> HIDE DEF k
<1>4. b \in Cells(alloc_len)
  <2> SUFFICES ASSUME NEW i \in 0 .. alloc_len PROVE b[i] \in Byte
    BY <1>1 DEF Cells
  <2>1. Buf[i] \in Byte
    BY <1>1 DEF Cells
  <2>2. i < cp_len - k => Buf[i + k] \in Byte
    BY <1>1, <1>3 DEF Cells
  <2>3. QED
    BY <1>1, <2>1, <2>2, ByteAssumption DEF Nul
<1>5. /\ \A i \in 0 .. cp_len - k - 1 : b[i] = Buf[i + k]
      /\ b[cp_len - k] = Nul
  BY <1>1, <1>3
<1> HIDE DEF b
<1>6. /\ Buf' = b /\ alloc_len' = alloc_len /\ arrbuf' \in Cells(CacheSize)
      /\ heap' \in BOOLEAN /\ (heap' <=> alloc_len' > CacheSize)
      /\ heap' => heapbuf' \in Cells(alloc_len')
  BY <1>1, <1>2, <1>4, UsedBuffer
<1>7. MemTypeOK'
  BY <1>1, <1>2, <1>3, <1>6 DEF MemTypeOK
<1>8. Terminated'
  BY <1>2, <1>5, <1>6 DEF Terminated
<1>9. Content' = [i \in 0 .. cp_len' - 1 |-> Content[i + k]]
  <2>1. \A i \in 0 .. cp_len - k - 1 : i + k \in 0 .. cp_len - 1
    BY <1>1, <1>3
  <2>2. \A i \in 0 .. cp_len - k - 1 : Content[i + k] = Buf'[i]
    BY <1>5, <1>6, <2>1 DEF Content
  <2>3. QED
    BY <1>2, <2>2 DEF Content
<1>10. QED
  BY <1>2, <1>3, <1>7, <1>8, <1>9 DEF MemInv, File!RemoveHead

\* Release empties the file.
LEMMA ReleaseStep ==
  ASSUME MemInv, Release
  PROVE  MemInv' /\ File!RemoveHead
<1>1. MemTypeOK /\ cp_len \in Nat
  BY BufCells DEF MemInv
<1>2. MemTypeOK'
  <2>1. arrbuf' \in Cells(CacheSize)
    BY ByteAssumption DEF Release, Cells, ZeroCells, Nul
  <2>2. heap' = FALSE /\ ~(alloc_len' > CacheSize)
    BY SizeAssumption DEF Release
  <2>3. /\ cp_len' \in 0 .. MaxLen /\ alloc_len' \in Nat /\ alloc_len' >= CacheSize
        /\ pos' \in 0 .. cp_len' /\ cp_len' <= alloc_len'
        /\ mode' \in {"SM_READ", "SM_WRITE"}
    BY <1>1, SizeAssumption DEF Release, MemTypeOK
  <2>4. QED
    BY <2>1, <2>2, <2>3, Zenon DEF MemTypeOK
<1>3. Terminated'
  BY SizeAssumption DEF Release, Terminated, Buf, ZeroCells, Nul
<1>4. Content' = [i \in 0 .. cp_len' - 1 |-> Content[i + cp_len]]
  <2>1. cp_len' = 0 /\ 0 .. cp_len' - 1 = {}
    BY DEF Release
  <2>2. QED
    BY <2>1 DEF Content
<1>5. cp_len' = cp_len - cp_len /\ pos' = 0
  BY <1>1 DEF Release
<1>6. File!RemoveHead
  BY <1>1, <1>4, <1>5 DEF File!RemoveHead
<1>7. QED
  BY <1>2, <1>3, <1>6 DEF MemInv

\* Every operation keeps the invariant and is an operation of the file.
LEMMA MemStep == MemInv /\ [MemNext]_memVars => MemInv' /\ [File!Next]_(File!fileVars)
<1> SUFFICES ASSUME MemInv, [MemNext]_memVars
             PROVE  MemInv' /\ [File!Next]_(File!fileVars)
  OBVIOUS
<1>1. ASSUME NEW n \in 1 .. MaxWrite, NEW data \in [0 .. n - 1 -> Byte],
             pos + n <= MaxLen, Write(n, data)
      PROVE  MemInv' /\ File!Next
  BY <1>1, WriteStep DEF File!Next
<1>2. ASSUME NEW p \in 0 .. MaxLen, RemoveHeadBuffer(p)
      PROVE  MemInv' /\ File!Next
  BY <1>2, RemoveHeadStep DEF File!Next
<1>3. ASSUME NEW p \in 0 .. MaxLen, Grow(p)
      PROVE  MemInv' /\ UNCHANGED File!fileVars
  BY <1>3, GrowStep DEF File!fileVars
<1>4. ASSUME Release PROVE MemInv' /\ File!Next
  BY <1>4, ReleaseStep DEF File!Next
<1>5. ASSUME \/ \E n \in 1 .. MaxWrite : Read(n)
             \/ \E p \in 0 .. MaxLen : SetPos(p)
             \/ \E m \in {"SM_READ", "SM_WRITE"} : SetMode(m)
      PROVE  MemInv' /\ File!Next
  BY <1>5, MoveStep DEF File!Next
<1>6. CASE UNCHANGED memVars
  BY <1>6 DEF memVars, bufVars, MemInv, MemTypeOK, Terminated, Buf, Content,
              File!fileVars
<1>7. QED
  BY <1>1, <1>2, <1>3, <1>4, <1>5, <1>6 DEF MemNext

\* The invariant holds in every state.
LEMMA AlwaysMemInv == MemSpec => []MemInv
  BY InitMem, MemStep, PTL DEF MemSpec

\* No operation on a message reads or writes outside its two arrays: the position
\* stays in the content and the content in the room there is.
THEOREM MemTypeCorrect == MemSpec => []MemTypeOK
  BY AlwaysMemInv, PTL DEF MemInv

\* getMsgPtr always returns a terminated string.
THEOREM TerminatedHolds == MemSpec => []Terminated
  BY AlwaysMemInv, PTL DEF MemInv

\* CIMemFile on FastBufAlloc implements a file of bytes: growth and the move
\* between the arrays cannot be seen.
THEOREM ImplementsByteFile == MemSpec => FileSpec
  BY InitMem, MemStep, AlwaysMemInv, PTL DEF MemSpec, FileSpec, File!Spec
-----------------------------------------------------------------------------
\* s_pool_lock is held exactly inside the two critical sections.
LockInv ==
  \A t \in Threads : pc[t] \in {"front", "pop", "push"} <=> lock = t

\* What the critical sections rely on: there is room for one more message, and
\* the front that new read is still the front when it pops.
ListInv ==
  /\ \A t \in Threads : pc[t] \in {"front", "push"} => Len(s_pool) < Limit
  /\ \A t \in Threads :
       pc[t] = "pop" => Len(s_pool) > 0 /\ pMsg[t] = Head(s_pool)
  /\ \A i, j \in DOMAIN s_pool : i # j => s_pool[i] # s_pool[j]

\* The C function has the message between the list and the script.
InHand(t) == pc[t] \in {"reset", "push"}

\* A message in hand exists and is nobody else's: it is in no script, not in the
\* list, and no other C function has it.
HandInv ==
  \A t \in Threads :
    InHand(t) =>
      /\ pMsg[t] \in exists
      /\ \A u \in Threads : pMsg[t] \notin held[u]
      /\ \A i \in DOMAIN s_pool : s_pool[i] # pMsg[t]
      /\ \A u \in Threads : u # t /\ InHand(u) => pMsg[u] # pMsg[t]

PoolInv == PoolTypeOK /\ LockInv /\ ListInv /\ HandInv /\ OneOwner /\ OwnData

-----------------------------------------------------------------------------
\* A list whose front is taken off keeps its other messages in order.
LEMMA TailOfList ==
  ASSUME NEW S, NEW q \in Seq(S), Len(q) > 0
  PROVE  /\ Head(q) = q[1] /\ Head(q) \in S
         /\ Tail(q) \in Seq(S)
         /\ Len(Tail(q)) = Len(q) - 1
         /\ DOMAIN q = 1 .. Len(q)
         /\ DOMAIN Tail(q) = 1 .. (Len(q) - 1)
         /\ \A i \in 1 .. (Len(q) - 1) : i + 1 \in DOMAIN q /\ Tail(q)[i] = q[i + 1]
  OBVIOUS

\* A list that a message is put at the end of.
LEMMA AppendToList ==
  ASSUME NEW S, NEW q \in Seq(S), NEW m \in S
  PROVE  /\ Append(q, m) \in Seq(S)
         /\ Len(Append(q, m)) = Len(q) + 1
         /\ Len(q) \in Nat
         /\ DOMAIN q = 1 .. Len(q)
         /\ DOMAIN Append(q, m) = 1 .. (Len(q) + 1)
         /\ \A i \in 1 .. Len(q) : Append(q, m)[i] = q[i]
         /\ Append(q, m)[Len(q) + 1] = m
  OBVIOUS

\* No message exists before the first new.
LEMMA InitPoolInv == PoolInit => PoolInv
<1> USE LimitAssumption, NoThreadAssumption, MessagesAssumption
<1> SUFFICES ASSUME PoolInit PROVE PoolInv
  OBVIOUS
<1>1. PoolTypeOK
  BY DEF PoolInit, PoolTypeOK
<1>2. LockInv /\ ListInv /\ HandInv /\ OneOwner /\ OwnData
  BY DEF PoolInit, LockInv, ListInv, HandInv, InHand, OneOwner, OwnData
<1>3. QED
  BY <1>1, <1>2 DEF PoolInv

\* new and new_local take the lock: nothing changes hands.
LEMMA NewLockStep ==
  ASSUME PoolInv, NEW t \in Threads, NewLock(t)
  PROVE  PoolInv'
<1> USE NoThreadAssumption, LimitAssumption DEF PoolInv, NewLock, Goto
<1>1. PoolTypeOK'
  BY DEF PoolTypeOK
<1>2. LockInv'
  BY DEF PoolTypeOK, LockInv
<1>3. ListInv'
  BY DEF PoolTypeOK, LockInv, ListInv
<1>4. HandInv' /\ OneOwner' /\ OwnData'
  BY DEF PoolTypeOK, HandInv, InHand, OneOwner, OwnData
<1>5. QED
  BY <1>1, <1>2, <1>3, <1>4

\* An empty list gets a message that no thread and no list can have.
LEMMA NewFrontStep ==
  ASSUME PoolInv, NEW t \in Threads, NewFront(t)
  PROVE  PoolInv'
<1> USE NoThreadAssumption, LimitAssumption DEF PoolInv
<1>0. lock = t /\ \A u \in Threads : u # t => pc[u] \in {"script", "reset"}
  BY DEF NewFront, Goto, LockInv, PoolTypeOK
<1>1. CASE s_pool = <<>>
  <2>1. PICK m \in Messages \ exists :
          /\ exists' = exists \cup {m}
          /\ s_pool' = <<m>>
          /\ writer' = [writer EXCEPT ![m] = NoThread]
    BY <1>1 DEF NewFront
  <2>2. /\ s_pool' \in Seq(Messages) /\ Len(s_pool') = 1
        /\ DOMAIN s_pool' = {1} /\ s_pool'[1] = m /\ Head(s_pool') = m
    BY <2>1
  <2>3. pMsg' = [pMsg EXCEPT ![t] = m]
    BY <2>2 DEF NewFront
  <2>4. /\ pc[t] = "front" /\ pc' = [pc EXCEPT ![t] = "pop"]
        /\ UNCHANGED <<lock, held>>
    BY DEF NewFront, Goto
  <2> HIDE DEF PoolInv
  <2>5. PoolTypeOK /\ LockInv /\ ListInv /\ HandInv /\ OneOwner /\ OwnData
    BY DEF PoolInv
  <2>6. PoolTypeOK'
    BY <1>0, <2>1, <2>2, <2>3, <2>4, <2>5 DEF PoolTypeOK
  <2>7. LockInv'
    BY <1>0, <2>4, <2>5 DEF PoolTypeOK, LockInv
  <2>8. ListInv'
    BY <1>0, <2>2, <2>3, <2>4, <2>5 DEF PoolTypeOK, ListInv
  <2>9. HandInv'
    BY <1>0, <2>1, <2>2, <2>3, <2>4, <2>5 DEF PoolTypeOK, HandInv, InHand
  <2>10. OneOwner'
    BY <2>1, <2>2, <2>4, <2>5 DEF PoolTypeOK, OneOwner
  <2>11. OwnData'
    BY <2>1, <2>4, <2>5 DEF PoolTypeOK, OneOwner, OwnData
  <2>12. QED
    BY <2>6, <2>7, <2>8, <2>9, <2>10, <2>11 DEF PoolInv
<1>2. CASE s_pool # <<>>
  <2> USE DEF NewFront, Goto
  <2>1. UNCHANGED <<s_pool, exists, writer>> /\ Len(s_pool) > 0
    BY <1>2 DEF PoolTypeOK
  <2>2. Head(s_pool) \in Messages
    BY <2>1, TailOfList DEF PoolTypeOK
  <2>3. PoolTypeOK'
    BY <2>1, <2>2 DEF PoolTypeOK
  <2>4. LockInv'
    BY <1>0 DEF PoolTypeOK, LockInv
  <2>5. ListInv'
    BY <1>0, <2>1 DEF PoolTypeOK, ListInv
  <2>6. HandInv' /\ OneOwner' /\ OwnData'
    BY <1>0, <2>1 DEF PoolTypeOK, HandInv, InHand, OneOwner, OwnData
  <2>7. QED
    BY <2>3, <2>4, <2>5, <2>6
<1>3. QED
  BY <1>1, <1>2

\* The popped message was in the list once, so the rest does not hold it.
LEMMA NewPopStep ==
  ASSUME PoolInv, NEW t \in Threads, NewPop(t)
  PROVE  PoolInv'
<1> USE NoThreadAssumption, LimitAssumption DEF NewPop, Goto
<1>0. PoolTypeOK /\ LockInv /\ ListInv /\ HandInv /\ OneOwner /\ OwnData
  BY DEF PoolInv
<1>1. /\ lock = t /\ Len(s_pool) > 0 /\ pMsg[t] = Head(s_pool)
      /\ \A u \in Threads : u # t => pc[u] \in {"script", "reset"}
  BY <1>0 DEF LockInv, ListInv, PoolTypeOK
<1>2. /\ s_pool' \in Seq(Messages) /\ Len(s_pool') = Len(s_pool) - 1
      /\ Len(s_pool) \in Nat
      /\ DOMAIN s_pool = 1 .. Len(s_pool)
      /\ DOMAIN s_pool' = 1 .. (Len(s_pool) - 1)
      /\ pMsg[t] = s_pool[1]
      /\ \A i \in DOMAIN s_pool' : i + 1 \in DOMAIN s_pool /\ s_pool'[i] = s_pool[i + 1]
  BY <1>0, <1>1, TailOfList DEF PoolTypeOK
<1>3. PoolTypeOK'
  BY <1>0, <1>2 DEF PoolTypeOK
<1>4. LockInv'
  BY <1>0, <1>1 DEF PoolTypeOK, LockInv
<1>5. ListInv'
  BY <1>0, <1>1, <1>2 DEF PoolTypeOK, ListInv
<1>6. \A i \in DOMAIN s_pool' : s_pool'[i] # pMsg[t]
  BY <1>0, <1>2 DEF ListInv
<1>7. /\ pMsg[t] \in exists /\ \A u \in Threads : pMsg[t] \notin held[u]
      /\ \A u \in Threads : InHand(u) => pMsg[u] # pMsg[t]
  BY <1>0, <1>1, <1>2 DEF OneOwner, HandInv
<1>8. HandInv'
  BY <1>0, <1>1, <1>2, <1>6, <1>7 DEF PoolTypeOK, HandInv, InHand
<1>9. OneOwner'
  BY <1>0, <1>2 DEF OneOwner
<1>10. OwnData'
  BY <1>0 DEF OwnData
<1>11. QED
  BY <1>3, <1>4, <1>5, <1>8, <1>9, <1>10 DEF PoolInv

\* The message in hand was nobody's, so emptying it outside the lock harms nobody.
LEMMA NewResetStep ==
  ASSUME PoolInv, NEW t \in Threads, NewReset(t)
  PROVE  PoolInv'
<1> USE NoThreadAssumption DEF NewReset, Goto
<1>0. PoolTypeOK /\ LockInv /\ ListInv /\ HandInv /\ OneOwner /\ OwnData
  BY DEF PoolInv
<1>1. PoolTypeOK'
  BY <1>0 DEF PoolTypeOK
<1>2. LockInv' /\ ListInv'
  BY <1>0 DEF PoolTypeOK, LockInv, ListInv
<1>3. HandInv'
  BY <1>0 DEF PoolTypeOK, HandInv, InHand
<1>4. OneOwner'
  BY <1>0 DEF PoolTypeOK, HandInv, InHand, OneOwner
<1>5. OwnData'
  BY <1>0 DEF PoolTypeOK, HandInv, InHand, OwnData
<1>6. QED
  BY <1>1, <1>2, <1>3, <1>4, <1>5 DEF PoolInv

\* A script writes only into its own message.
LEMMA FillStep ==
  ASSUME PoolInv, NEW t \in Threads, NEW m \in Messages, Fill(t, m)
  PROVE  PoolInv'
<1> USE NoThreadAssumption DEF Fill
<1>0. PoolTypeOK /\ LockInv /\ ListInv /\ HandInv /\ OneOwner /\ OwnData
  BY DEF PoolInv
<1>1. PoolTypeOK' /\ LockInv' /\ ListInv' /\ HandInv' /\ OneOwner'
  BY <1>0 DEF PoolTypeOK, LockInv, ListInv, HandInv, InHand, OneOwner
<1>2. OwnData'
  BY <1>0 DEF PoolTypeOK, OneOwner, OwnData
<1>3. QED
  BY <1>1, <1>2 DEF PoolInv

\* collect takes the message from the script that alone had it.
LEMMA CollectLockStep ==
  ASSUME PoolInv, NEW t \in Threads, NEW m \in Messages, CollectLock(t, m)
  PROVE  PoolInv'
<1> USE NoThreadAssumption, LimitAssumption DEF CollectLock, Goto
<1>0. PoolTypeOK /\ LockInv /\ ListInv /\ HandInv /\ OneOwner /\ OwnData
  BY DEF PoolInv
<1>1. PoolTypeOK'
  BY <1>0 DEF PoolTypeOK
<1>2. LockInv'
  BY <1>0 DEF PoolTypeOK, LockInv
<1>3. ListInv'
  BY <1>0 DEF PoolTypeOK, LockInv, ListInv
<1>4. HandInv'
  BY <1>0 DEF PoolTypeOK, HandInv, InHand, OneOwner
<1>5. OneOwner' /\ OwnData'
  BY <1>0 DEF PoolTypeOK, OneOwner, OwnData
<1>6. QED
  BY <1>1, <1>2, <1>3, <1>4, <1>5 DEF PoolInv

\* The message goes to the end of the list.  What the list then sheds is its own
\* front, which no script and no other C function has.
LEMMA CollectPushStep ==
  ASSUME PoolInv, NEW t \in Threads, CollectPush(t)
  PROVE  PoolInv'
<1> USE NoThreadAssumption, LimitAssumption
<1> DEFINE pool == Append(s_pool, pMsg[t])
<1>0. PoolTypeOK /\ LockInv /\ ListInv /\ HandInv /\ OneOwner /\ OwnData
  BY DEF PoolInv
<1>1. /\ pc[t] = "push" /\ pc' = [pc EXCEPT ![t] = "script"]
      /\ lock' = NoThread /\ UNCHANGED <<pMsg, held, writer>>
  BY DEF CollectPush, Goto
<1>2. /\ lock = t /\ Len(s_pool) < Limit
      /\ \A u \in Threads : u # t => pc[u] \in {"script", "reset"}
  BY <1>0, <1>1 DEF PoolTypeOK, LockInv, ListInv
<1>3. /\ pMsg[t] \in exists /\ pMsg[t] \in Messages
      /\ \A u \in Threads : pMsg[t] \notin held[u]
      /\ \A i \in DOMAIN s_pool : s_pool[i] # pMsg[t]
      /\ \A u \in Threads : u # t /\ InHand(u) => pMsg[u] # pMsg[t]
  BY <1>0, <1>1 DEF PoolTypeOK, HandInv, InHand
<1>4. /\ pool \in Seq(Messages) /\ Len(pool) = Len(s_pool) + 1 /\ Len(s_pool) \in Nat
      /\ DOMAIN s_pool = 1 .. Len(s_pool) /\ DOMAIN pool = 1 .. Len(pool)
      /\ \A i \in DOMAIN s_pool : pool[i] = s_pool[i]
      /\ pool[Len(pool)] = pMsg[t]
  BY <1>0, <1>3, AppendToList DEF PoolTypeOK
<1> HIDE DEF pool
<1>5. /\ \A i, j \in DOMAIN pool : i # j => pool[i] # pool[j]
      /\ \A i \in DOMAIN pool : pool[i] \in exists
      /\ \A i \in DOMAIN pool : \A u \in Threads : pool[i] \notin held[u]
      /\ \A i \in DOMAIN pool : \A u \in Threads :
           u # t /\ InHand(u) => pool[i] # pMsg[u]
  <2>1. \A i \in DOMAIN pool : i \in DOMAIN s_pool \/ i = Len(pool)
    BY <1>4
  <2>2. QED
    BY <1>0, <1>3, <1>4, <2>1 DEF ListInv, OneOwner, HandInv
<1>6. /\ s_pool' \in Seq(Messages) /\ Len(s_pool') < Limit
      /\ \A i, j \in DOMAIN s_pool' : i # j => s_pool'[i] # s_pool'[j]
      /\ \A i \in DOMAIN s_pool' : \E k \in DOMAIN pool : s_pool'[i] = pool[k]
      /\ exists' \subseteq exists
      /\ \A i \in DOMAIN s_pool' : s_pool'[i] \in exists'
      /\ \A m \in exists \ exists' : \E k \in DOMAIN pool : m = pool[k]
  <2>1. CASE Len(pool) >= Limit
    <3>1. s_pool' = Tail(pool) /\ exists' = exists \ {Head(pool)}
      BY <2>1 DEF CollectPush, pool
    <3>2. /\ Head(pool) = pool[1] /\ 1 \in DOMAIN pool
          /\ s_pool' \in Seq(Messages) /\ Len(s_pool') = Len(pool) - 1
          /\ DOMAIN s_pool' = 1 .. (Len(pool) - 1)
          /\ \A i \in DOMAIN s_pool' : i + 1 \in DOMAIN pool /\ s_pool'[i] = pool[i + 1]
      BY <1>4, <3>1, TailOfList
    <3>3. \A i \in DOMAIN s_pool' : s_pool'[i] # pool[1]
      BY <1>4, <1>5, <3>2
    <3>4. QED
      BY <1>2, <1>4, <1>5, <3>1, <3>2, <3>3
  <2>2. CASE Len(pool) < Limit
    <3>1. s_pool' = pool /\ exists' = exists
      BY <1>4, <2>2 DEF CollectPush, pool
    <3>2. QED
      BY <1>4, <1>5, <2>2, <3>1
  <2>3. QED
    BY <1>4, <2>1, <2>2
<1>7. PoolTypeOK'
  BY <1>0, <1>1, <1>6 DEF PoolTypeOK
<1>8. LockInv'
  BY <1>0, <1>1, <1>2 DEF PoolTypeOK, LockInv
<1>9. ListInv'
  BY <1>0, <1>1, <1>2, <1>6 DEF PoolTypeOK, ListInv
<1>10. \A u \in Threads : InHand(u)' => u # t /\ InHand(u)
  BY <1>0, <1>1 DEF PoolTypeOK, InHand
<1>11. HandInv'
  BY <1>0, <1>1, <1>5, <1>6, <1>10 DEF HandInv
<1>12. OneOwner'
  BY <1>0, <1>1, <1>5, <1>6 DEF OneOwner
<1>13. OwnData'
  BY <1>0, <1>1 DEF OwnData
<1>14. QED
  BY <1>7, <1>8, <1>9, <1>11, <1>12, <1>13 DEF PoolInv

\* Every step of new, delete, the collector and the scripts keeps the invariant.
LEMMA PoolInvStep == PoolInv /\ [PoolNext]_poolVars => PoolInv'
<1> SUFFICES ASSUME PoolInv, [PoolNext]_poolVars PROVE PoolInv'
  OBVIOUS
<1>1. CASE PoolNext
  BY <1>1, NewLockStep, NewFrontStep, NewPopStep, NewResetStep, FillStep,
     CollectLockStep, CollectPushStep DEF PoolNext, Step
<1>2. CASE UNCHANGED poolVars
  BY <1>2 DEF poolVars, PoolInv, PoolTypeOK, LockInv, ListInv, HandInv, InHand,
              OneOwner, OwnData
<1>3. QED
  BY <1>1, <1>2

\* The invariant holds in every state.
LEMMA AlwaysPoolInv == PoolSpec => []PoolInv
  BY InitPoolInv, PoolInvStep, PTL DEF PoolSpec

\* The list never grows past the limit collect keeps it under, and the fields
\* hold what their declarations allow.
THEOREM PoolTypeCorrect == PoolSpec => []PoolTypeOK
  BY AlwaysPoolInv, PTL DEF PoolInv

\* However many threads call new, new_local and delete, a message has one owner
\* and is not used after the heap has it back.
THEOREM OneOwnerHolds == PoolSpec => []OneOwner
  BY AlwaysPoolInv, PTL DEF PoolInv

\* Although ReleaseMemory runs outside s_pool_lock, a script never finds another
\* thread's data in its message.
THEOREM OwnDataHolds == PoolSpec => []OwnData
  BY AlwaysPoolInv, PTL DEF PoolInv
=============================================================================
