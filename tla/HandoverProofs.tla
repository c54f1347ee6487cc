--------------------------- MODULE HandoverProofs ---------------------------
(***************************************************************************)
(* Theorems about what one side hands to another: the copies of messages   *)
(* that Notify makes (MessageTransfer), the results of chunks a worker     *)
(* reports (ChunkResults) and the frames of a WebSocket (WebSocketStream), *)
(* for any number of messages, tasks, values and frames.                   *)
(***************************************************************************)
EXTENDS MessageTransfer, ChunkResults, WebSocketStream, TLAPS

-----------------------------------------------------------------------------
(* Copies of messages                                                      *)

\* A copy that uses its own stream once its setMode was called.
Copies ==
  {c \in [data : Nat, mode : {"SM_WRITE", "SM_READ"}, own : BOOLEAN, ref : BOOLEAN,
          valid : BOOLEAN, set : BOOLEAN] : c.set => c.own}

Originals == [data : Nat, heap : BOOLEAN, mode : {"SM_WRITE", "SM_READ"}, ref : BOOLEAN]

CopyInv ==
  /\ next \in Nat /\ msg \in Originals
  /\ vvMsg \in Seq(Copies)
  /\ current = <<>> \/ \E c \in Copies : current = <<c>>
  /\ notified \in Seq(Originals) /\ received \in Seq([data : Nat, set : BOOLEAN])

\* The copy c of what the message was.
CopyOf(c, m) == c.data = m.data /\ c.ref = m.ref /\ (m.heap => c.valid)

\* What may be read of a message that was notified as m.
ReadOf(r, m) ==
  r.set /\ ~m.ref => r.data = m.data \/ (~m.heap /\ r.data = WildContent)

\* What was read, the copy at hand and the queue are what was notified, in order.
InOrderOf(n, r, cur, q) ==
  /\ Len(n) = Len(r) + Len(cur) + Len(q)
  /\ \A i \in 1 .. Len(r) : ReadOf(r[i], n[i])
  /\ cur # <<>> => CopyOf(cur[1], n[Len(r) + 1])
  /\ \A i \in 1 .. Len(q) : CopyOf(q[i], n[Len(r) + Len(cur) + i])

PassedOn == InOrderOf(notified, received, current, vvMsg)

TransferInv == CopyInv /\ PassedOn

\* Nothing is notified when the servers start.
LEMMA InitTransferInv == TransferInit => TransferInv
<1> SUFFICES ASSUME TransferInit PROVE TransferInv
  OBVIOUS
<1>1. PICK ref \in BOOLEAN : TransferStart(ref)
  <2>1. ("connection" \in Uses) \in BOOLEAN
    OBVIOUS
  <2>2. QED
    BY <2>1, Zenon DEF TransferInit
<1>2. CopyInv
  BY <1>1 DEF TransferStart, CopyInv, Originals
<1>3. PassedOn
  BY <1>1 DEF TransferStart, PassedOn, InOrderOf
<1>4. QED
  BY <1>2, <1>3 DEF TransferInv

\* Lists with an element more at the end, and with the front taken off.
LEMMA ListEnds ==
  ASSUME NEW S, NEW q \in Seq(S), NEW x \in S
  PROVE  /\ Append(q, x) \in Seq(S) /\ Len(Append(q, x)) = Len(q) + 1
         /\ \A i \in 1 .. Len(q) : Append(q, x)[i] = q[i]
         /\ Append(q, x)[Len(q) + 1] = x
         /\ q # <<>> => /\ Head(q) \in S /\ Head(q) = q[1] /\ Tail(q) \in Seq(S)
                        /\ Len(Tail(q)) = Len(q) - 1 /\ Len(q) > 0
                        /\ \A i \in 1 .. Len(Tail(q)) : Tail(q)[i] = q[i + 1]
  OBVIOUS

\* The sender notifies: a copy and what it is of go to the ends of the two lists.
LEMMA NotifyTransfer ==
  ASSUME TransferInv, Notify
  PROVE  TransferInv'
<1>1. PICK q \in Seq(Copies), n \in Seq(Originals), r \in Seq([data : Nat, set : BOOLEAN]),
           m \in Originals :
        q = vvMsg /\ n = notified /\ r = received /\ m = msg
  BY DEF TransferInv, CopyInv
<1>2. PICK c \in Copies : vvMsg' = Append(q, c) /\ CopyOf(c, m)
  <2>1. PICK valid \in {TRUE, m.heap} : vvMsg' = Append(q, Copy(valid))
    BY <1>1 DEF Notify
  <2>2. PICK c : c = [data |-> m.data, mode |-> m.mode, own |-> FALSE, ref |-> m.ref,
                      valid |-> valid, set |-> FALSE]
    OBVIOUS
  <2>3. Copy(valid) = c
    BY <1>1, <2>2 DEF Copy
  <2>4. c \in Copies
    BY <2>2 DEF Copies, Originals
  <2>5. CopyOf(c, m)
    BY <2>2 DEF CopyOf, Originals
  <2>6. QED
    BY <2>1, <2>3, <2>4, <2>5
<1>3. notified' = Append(n, m) /\ UNCHANGED <<msg, next, current, received>>
  BY <1>1 DEF Notify
<1>4. /\ Append(q, c) \in Seq(Copies) /\ Len(Append(q, c)) = Len(q) + 1
      /\ \A i \in 1 .. Len(q) : Append(q, c)[i] = q[i]
      /\ Append(q, c)[Len(q) + 1] = c
  BY ListEnds
<1>5. /\ Append(n, m) \in Seq(Originals) /\ Len(Append(n, m)) = Len(n) + 1
      /\ \A i \in 1 .. Len(n) : Append(n, m)[i] = n[i]
      /\ Append(n, m)[Len(n) + 1] = m
  BY ListEnds
<1>6. CopyInv'
  BY <1>1, <1>2, <1>3, <1>4, <1>5 DEF TransferInv, CopyInv
<1>7. PICK k \in {0, 1} : k = Len(current) /\ (current # <<>> => k = 1)
  BY DEF TransferInv, CopyInv
<1>8. /\ Len(n) = Len(r) + k + Len(q)
      /\ \A i \in 1 .. Len(r) : ReadOf(r[i], n[i])
      /\ current # <<>> => CopyOf(current[1], n[Len(r) + 1])
      /\ \A i \in 1 .. Len(q) : CopyOf(q[i], n[Len(r) + k + i])
  BY <1>1, <1>7 DEF TransferInv, PassedOn, InOrderOf
<1>9. PassedOn'
  <2>1. Len(Append(n, m)) = Len(r) + Len(current) + Len(Append(q, c))
    BY <1>4, <1>5, <1>7, <1>8
  <2>2. \A i \in 1 .. Len(r) : ReadOf(r[i], Append(n, m)[i])
    BY <1>5, <1>8
  <2>3. current # <<>> => CopyOf(current[1], Append(n, m)[Len(r) + 1])
    BY <1>5, <1>7, <1>8
  <2>4. ASSUME NEW i \in 1 .. Len(q) + 1
        PROVE  CopyOf(Append(q, c)[i], Append(n, m)[Len(r) + k + i])
    <3>1. CASE i = Len(q) + 1
      <4>1. Len(r) + k + i = Len(n) + 1
        BY <1>8, <3>1
      <4>2. QED
        BY <1>2, <1>4, <1>5, <3>1, <4>1
    <3>2. CASE i # Len(q) + 1
      <4>1. i \in 1 .. Len(q) /\ Len(r) + k + i \in 1 .. Len(n)
        BY <1>8, <3>2
      <4>2. QED
        BY <1>4, <1>5, <1>8, <4>1
    <3>3. QED
      BY <3>1, <3>2
  <2>5. InOrderOf(Append(n, m), r, current, Append(q, c))
    BY <1>4, <1>7, <2>1, <2>2, <2>3, <2>4 DEF InOrderOf
  <2>6. QED
    BY <1>1, <1>2, <1>3, <2>5 DEF PassedOn
<1>10. QED
  BY <1>6, <1>9 DEF TransferInv

\* The receiver is given the oldest copy, or what its registry holds in its place.
LEMMA DispatchTransfer ==
  ASSUME TransferInv, Dispatch \/ DispatchByRef
  PROVE  TransferInv'
<1>1. PICK q \in Seq(Copies), n \in Seq(Originals), r \in Seq([data : Nat, set : BOOLEAN]) :
        q = vvMsg /\ n = notified /\ r = received
  BY DEF TransferInv, CopyInv
<1>2. /\ current = <<>> /\ q # <<>> /\ vvMsg' = Tail(q)
      /\ UNCHANGED <<msg, next, notified>>
  BY <1>1 DEF Dispatch, DispatchByRef
<1>3. /\ Head(q) \in Copies /\ Head(q) = q[1] /\ Tail(q) \in Seq(Copies)
      /\ Len(Tail(q)) = Len(q) - 1 /\ Len(q) > 0
      /\ \A i \in 1 .. Len(Tail(q)) : Tail(q)[i] = q[i + 1]
  BY <1>2
<1>4. PICK h \in Copies : h = Head(q) /\ h = q[1]
  BY <1>3
<1>5. Len(current) = 0
  BY <1>2
<1>6. /\ Len(n) = Len(r) + Len(q)
      /\ \A i \in 1 .. Len(r) : ReadOf(r[i], n[i])
      /\ \A i \in 1 .. Len(q) : CopyOf(q[i], n[Len(r) + i])
  BY <1>1, <1>5 DEF TransferInv, PassedOn, InOrderOf
<1>7. CopyOf(h, n[Len(r) + 1])
  BY <1>3, <1>4, <1>6
<1>8. ASSUME NEW i \in 1 .. Len(Tail(q)) PROVE CopyOf(Tail(q)[i], n[Len(r) + 1 + i])
  <2>1. i + 1 \in 1 .. Len(q) /\ Len(r) + (i + 1) = Len(r) + 1 + i
    BY <1>3
  <2>2. QED
    BY <1>3, <1>6, <2>1
<1>9. CASE Dispatch
  <2>1. /\ Len(current') = 1 /\ current' = <<h>> /\ current'[1] = h /\ received' = received
    BY <1>1, <1>4, <1>9 DEF Dispatch
  <2>2. InOrderOf(n, r, <<h>>, Tail(q))
    <3>1. Len(<<h>>) = 1 /\ <<h>>[1] = h
      OBVIOUS
    <3>2. Len(n) = Len(r) + Len(<<h>>) + Len(Tail(q))
      BY <1>3, <1>6, <3>1
    <3>3. \A i \in 1 .. Len(Tail(q)) : CopyOf(Tail(q)[i], n[Len(r) + Len(<<h>>) + i])
      BY <1>8, <3>1
    <3>4. QED
      BY <1>6, <1>7, <3>1, <3>2, <3>3, Zenon DEF InOrderOf
  <2>3. PassedOn'
    BY <1>1, <1>2, <2>1, <2>2 DEF PassedOn
  <2>4. CopyInv'
    BY <1>1, <1>2, <1>3, <2>1 DEF TransferInv, CopyInv
  <2>5. QED
    BY <2>3, <2>4 DEF TransferInv
<1>10. CASE DispatchByRef
  <2>1. PICK x \in [data : Nat, set : BOOLEAN] :
          received' = Append(r, x) /\ x.set = FALSE /\ current' = <<>>
    <3>1. msg.data \in Nat /\ WildContent \in Nat
      BY DEF TransferInv, CopyInv, Originals, WildContent
    <3>2. PICK d \in Nat : received' = Append(r, [data |-> d, set |-> FALSE])
      BY <1>1, <1>10, <3>1 DEF DispatchByRef
    <3>3. QED
      BY <1>2, <1>10, <3>2 DEF DispatchByRef
  <2>2. /\ Append(r, x) \in Seq([data : Nat, set : BOOLEAN]) /\ Len(Append(r, x)) = Len(r) + 1
        /\ \A i \in 1 .. Len(r) : Append(r, x)[i] = r[i]
        /\ Append(r, x)[Len(r) + 1] = x
    BY ListEnds
  <2>3. ASSUME NEW i \in 1 .. Len(r) + 1 PROVE ReadOf(Append(r, x)[i], n[i])
    <3>1. CASE i = Len(r) + 1
      BY <2>1, <2>2, <3>1 DEF ReadOf
    <3>2. CASE i # Len(r) + 1
      BY <1>6, <2>2, <3>2
    <3>3. QED
      BY <3>1, <3>2
  <2>4. Len(<<>>) = 0 /\ Len(n) = Len(Append(r, x)) + Len(<<>>) + Len(Tail(q))
    BY <1>3, <1>6, <2>2
  <2>5. \A i \in 1 .. Len(Tail(q)) : CopyOf(Tail(q)[i], n[Len(Append(r, x)) + Len(<<>>) + i])
    <3>1. ASSUME NEW i \in 1 .. Len(Tail(q))
          PROVE  Len(Append(r, x)) + Len(<<>>) + i = Len(r) + 1 + i
      BY <2>2, <2>4
    <3>2. QED
      BY <1>8, <3>1
  <2>6. PassedOn'
    <3>1. InOrderOf(n, Append(r, x), <<>>, Tail(q))
      BY <2>2, <2>3, <2>4, <2>5, Zenon DEF InOrderOf
    <3>2. QED
      BY <1>1, <1>2, <2>1, <3>1 DEF PassedOn
  <2>7. CopyInv'
    BY <1>1, <1>2, <1>3, <2>1, <2>2 DEF TransferInv, CopyInv
  <2>8. QED
    BY <2>6, <2>7 DEF TransferInv
<1>11. QED
  BY <1>9, <1>10

\* The receiver's script sets the mode of its copy, or reads it.
LEMMA ReadTransfer ==
  ASSUME TransferInv, SetModeOfCopy \/ ReadCopy
  PROVE  TransferInv'
<1>1. PICK n \in Seq(Originals), r \in Seq([data : Nat, set : BOOLEAN]) :
        n = notified /\ r = received
  BY DEF TransferInv, CopyInv
<1>2. PICK c \in Copies : current = <<c>> /\ current[1] = c /\ Len(current) = 1
  <2>1. current # <<>>
    BY DEF SetModeOfCopy, ReadCopy
  <2>2. QED
    BY <2>1 DEF TransferInv, CopyInv
<1>3. /\ c.data \in Nat /\ (c.set => c.own) /\ c.set \in BOOLEAN
      /\ c \in [data : Nat, mode : {"SM_WRITE", "SM_READ"}, own : BOOLEAN, ref : BOOLEAN,
                valid : BOOLEAN, set : BOOLEAN]
  BY DEF Copies
<1>4. /\ Len(n) = Len(r) + 1 + Len(vvMsg)
      /\ \A i \in 1 .. Len(r) : ReadOf(r[i], n[i])
      /\ CopyOf(c, n[Len(r) + 1])
      /\ \A i \in 1 .. Len(vvMsg) : CopyOf(vvMsg[i], n[Len(r) + 1 + i])
  BY <1>1, <1>2 DEF TransferInv, PassedOn, InOrderOf
<1>5. CASE SetModeOfCopy
  <2>1. PICK d : d = [c EXCEPT !.mode = "SM_READ", !.own = TRUE, !.set = TRUE] /\ current' = <<d>>
    BY <1>2, <1>5 DEF SetModeOfCopy
  <2>2. d \in Copies /\ d.data = c.data /\ d.ref = c.ref /\ d.valid = c.valid
    BY <1>3, <2>1 DEF Copies
  <2>3. current'[1] = d /\ Len(current') = 1
    BY <2>1
  <2>4. UNCHANGED <<msg, next, vvMsg, notified, received>>
    BY <1>5 DEF SetModeOfCopy
  <2>5. CopyInv'
    BY <2>1, <2>2, <2>4 DEF TransferInv, CopyInv
  <2>6. CopyOf(d, n[Len(r) + 1])
    BY <1>4, <2>2 DEF CopyOf
  <2>7. PassedOn'
    <3>1. Len(<<d>>) = 1 /\ <<d>>[1] = d
      OBVIOUS
    <3>2. InOrderOf(n, r, <<d>>, vvMsg)
      BY <1>4, <2>6, <3>1 DEF InOrderOf
    <3>3. QED
      BY <1>1, <2>1, <2>4, <3>2 DEF PassedOn
  <2>8. QED
    BY <2>5, <2>7 DEF TransferInv
<1>6. CASE ReadCopy
  <2>1. PICK d \in Nat :
          /\ received' = Append(r, [data |-> d, set |-> c.set])
          /\ c.set => d = IF c.valid THEN c.data ELSE WildContent
    <3>1. msg.data \in Nat /\ WildContent \in Nat
      BY DEF TransferInv, CopyInv, Originals, WildContent
    <3>2. PICK d \in IF ~c.own THEN {msg.data, WildContent}
                     ELSE IF c.valid THEN {c.data} ELSE {WildContent} :
            received' = Append(r, [data |-> d, set |-> c.set])
      BY <1>1, <1>2, <1>6 DEF ReadCopy
    <3>3. QED
      BY <1>3, <3>1, <3>2
  <2>2. PICK x \in [data : Nat, set : BOOLEAN] : x = [data |-> d, set |-> c.set]
    BY <1>3
  <2>3. received' = Append(r, x) /\ current' = <<>> /\ UNCHANGED <<msg, next, vvMsg, notified>>
    BY <1>6, <2>1, <2>2 DEF ReadCopy
  <2>4. ReadOf(x, n[Len(r) + 1])
    <3>1. x.data = d /\ x.set = c.set
      BY <2>2
    <3>2. QED
      BY <1>4, <2>1, <3>1 DEF ReadOf, CopyOf
  <2>5. /\ Append(r, x) \in Seq([data : Nat, set : BOOLEAN]) /\ Len(Append(r, x)) = Len(r) + 1
        /\ \A i \in 1 .. Len(r) : Append(r, x)[i] = r[i]
        /\ Append(r, x)[Len(r) + 1] = x
    BY ListEnds
  <2>6. Len(current') = 0
    BY <2>3
  <2>7. CopyInv'
    BY <2>3, <2>5 DEF TransferInv, CopyInv
  <2>8. PassedOn'
    <3>1. ASSUME NEW i \in 1 .. Len(r) + 1 PROVE ReadOf(Append(r, x)[i], n[i])
      <4>1. CASE i = Len(r) + 1
        BY <2>4, <2>5, <4>1
      <4>2. CASE i # Len(r) + 1
        BY <1>4, <2>5, <4>2
      <4>3. QED
        BY <4>1, <4>2
    <3>2. Len(<<>>) = 0 /\ Len(n) = Len(Append(r, x)) + Len(<<>>) + Len(vvMsg)
      BY <1>4, <2>5
    <3>3. \A i \in 1 .. Len(vvMsg) : CopyOf(vvMsg[i], n[Len(Append(r, x)) + Len(<<>>) + i])
      BY <1>4, <2>5, <3>2
    <3>4. InOrderOf(n, Append(r, x), <<>>, vvMsg)
      BY <2>5, <3>1, <3>2, <3>3, Zenon DEF InOrderOf
    <3>5. QED
      BY <1>1, <2>3, <3>4 DEF PassedOn
  <2>9. QED
    BY <2>7, <2>8 DEF TransferInv
<1>7. QED
  BY <1>5, <1>6

\* Every step keeps the invariant.
LEMMA TransferStep == TransferInv /\ [TransferNext]_transferVars => TransferInv'
<1> SUFFICES ASSUME TransferInv, [TransferNext]_transferVars PROVE TransferInv'
  OBVIOUS
<1>1. CASE Refill
  <2>1. PICK small \in BOOLEAN, mode \in {"SM_WRITE", "SM_READ"} :
          msg' = [msg EXCEPT !.data = next, !.heap = ~small, !.mode = mode]
    BY <1>1 DEF Refill
  <2>2. next \in Nat /\ next' = next + 1 /\ UNCHANGED <<vvMsg, current, notified, received>>
    BY <1>1 DEF Refill, TransferInv, CopyInv
  <2>3. msg' \in Originals
    BY <2>1, <2>2 DEF TransferInv, CopyInv, Originals
  <2>4. CopyInv'
    BY <2>2, <2>3 DEF TransferInv, CopyInv
  <2>5. PassedOn'
    BY <2>2 DEF TransferInv, PassedOn
  <2>6. QED
    BY <2>4, <2>5 DEF TransferInv
<1>2. CASE UNCHANGED transferVars
  BY <1>2 DEF transferVars, TransferInv, CopyInv, PassedOn
<1>3. QED
  BY <1>1, <1>2, NotifyTransfer, DispatchTransfer, ReadTransfer DEF TransferNext

\* A receiver of Notify that calls setMode reads what the message held when it was
\* notified, in the order of the calls, whatever the sender does with its message since;
\* of a content that fits the array in the object it may read rubbish, and the message
\* of a connection does not arrive at all.
THEOREM ContentArrivesHolds == TransferSpec => []ContentArrives
<1>1. TransferInv => ContentArrives
  <2> SUFFICES ASSUME TransferInv PROVE ContentArrives
    OBVIOUS
  <2>1. Len(current) \in Nat /\ Len(vvMsg) \in Nat /\ Len(received) \in Nat
    BY DEF TransferInv, CopyInv
  <2>2. Len(received) <= Len(notified)
    BY <2>1 DEF TransferInv, PassedOn, InOrderOf
  <2>3. QED
    BY <2>2 DEF TransferInv, PassedOn, InOrderOf, ReadOf, ContentArrives
<1>2. QED
  BY <1>1, InitTransferInv, TransferStep, PTL DEF TransferSpec
-----------------------------------------------------------------------------
(* Results of chunks                                                       *)

\* Values come from tasks that ran, and a task that did not run has no result.
RanInv ==
  /\ \A i \in DOMAIN stack : stack[i].from <= ran
  /\ \A t \in Tasks : retbuf[t].from <= ran
  /\ \A t \in Tasks : t > ran => retbuf[t] = NoValue

\* No value is on the stack twice.
OnceOnStack == \A i, j \in DOMAIN stack : i # j => stack[i] # stack[j]

ResultInv == TypeOK /\ RanInv /\ OnceOnStack /\ HandedOverOnce /\ CleanWorker

\* The values v are new: task t made them, each once.
NewValues(t, v) ==
  /\ v \in Seq(Values)
  /\ \A i \in DOMAIN v : v[i].from = t
  /\ \A i, j \in DOMAIN v : i # j => v[i] # v[j]

\* What a turn of WorkProc does: new values stay on the stack, or the value on top
\* is handed over.
Kept(v) == stack' = stack \o v /\ UNCHANGED retbuf

Taken(t, v) ==
  /\ stack \o v # <<>>
  /\ stack' = Front(stack \o v)
  /\ retbuf' = [retbuf EXCEPT ![t] = Last(stack \o v)]

\* How a chunk can end.
LEMMA EndingTypes ==
  ASSUME NEW e \in Endings
  PROVE  /\ e.user \in BOOLEAN /\ e.raised \in BOOLEAN /\ e.strs \in Seq(BOOLEAN)
         /\ e.raised => Len(e.strs) = 1
<1> USE BoundAssumption
<1>1. e.user \in BOOLEAN /\ e.raised \in BOOLEAN
  BY DEF Endings
<1>2. \A q \in BoundedSeq(BOOLEAN, MaxReturns) : q \in Seq(BOOLEAN)
  BY DEF BoundedSeq, SeqOf
<1>3. \A q \in {<<TRUE>>, <<FALSE>>} : q \in Seq(BOOLEAN) /\ Len(q) = 1
  <2>1. \A x \in BOOLEAN : <<x>> \in Seq(BOOLEAN) /\ Len(<<x>>) = 1
    OBVIOUS
  <2>2. TRUE \in BOOLEAN /\ FALSE \in BOOLEAN
    OBVIOUS
  <2>3. QED
    BY <2>1, <2>2, Zenon
<1>4. CASE e \in [user : BOOLEAN, raised : {FALSE}, strs : BoundedSeq(BOOLEAN, MaxReturns)]
  BY <1>1, <1>2, <1>4
<1>5. CASE e \in [user : BOOLEAN, raised : {TRUE}, strs : {<<TRUE>>, <<FALSE>>}]
  BY <1>1, <1>3, <1>5
<1>6. QED
  BY <1>4, <1>5 DEF Endings

\* What a chunk makes is new.
LEMMA MadeNew ==
  ASSUME NEW t \in Tasks, NEW q \in Seq(BOOLEAN)
  PROVE  /\ NewValues(t, Made(t, q)) /\ Len(Made(t, q)) = Len(q)
         /\ \A i \in 1 .. Len(q) : Made(t, q)[i].str = q[i]
         /\ NewValues(t, <<>>)
<1>1. /\ \A i \in 1 .. Len(q) : /\ Made(t, q)[i] = [from |-> t, place |-> i, str |-> q[i]]
                                /\ q[i] \in BOOLEAN /\ i \in Nat
      /\ DOMAIN Made(t, q) = 1 .. Len(q)
  BY DEF Made
<1>2. \A i \in 1 .. Len(q) : Made(t, q)[i] \in Values
  BY <1>1 DEF Values
<1>3. Made(t, q) \in Seq(Values) /\ Len(Made(t, q)) = Len(q)
  BY <1>2 DEF Made
<1>4. \A i, j \in 1 .. Len(q) : i # j => Made(t, q)[i] # Made(t, q)[j]
  BY <1>1
<1>5. NewValues(t, Made(t, q))
  BY <1>1, <1>3, <1>4 DEF NewValues
<1>6. NewValues(t, <<>>)
  BY DEF NewValues
<1>7. QED
  BY <1>1, <1>3, <1>5, <1>6

\* Values on top of others.
LEMMA OnTop ==
  ASSUME NEW s \in Seq(Values), NEW v \in Seq(Values)
  PROVE  /\ Len(v) = 1 => v # <<>>
         /\ v # <<>> /\ Len(v) <= 1 => Len(v) = 1
         /\ v # <<>> => s \o v # <<>> /\ Last(s \o v) = Last(v)
         /\ v = <<>> => s \o v = s
         /\ s = <<>> => s \o v = v
<1>1. Len(v) \in Nat /\ (Len(v) = 0 <=> v = <<>>)
  OBVIOUS
<1>2. \A n \in Nat : n # 0 /\ n <= 1 => n = 1
  OBVIOUS
<1>3. v # <<>> /\ Len(v) <= 1 => Len(v) = 1
  BY <1>1, <1>2, Zenon
<1>4. Len(v) = 1 => v # <<>>
  <2>1. 1 # 0
    OBVIOUS
  <2>2. QED
    BY <1>1, <2>1, Zenon
<1>5. v # <<>> => s \o v # <<>> /\ Last(s \o v) = Last(v)
  BY DEF Last
<1>6. /\ v = <<>> => s \o v = s
      /\ s = <<>> => s \o v = v
  OBVIOUS
<1>7. QED
  BY <1>3, <1>4, <1>5, <1>6

\* A turn of WorkProc keeps or hands over.  A value is handed over although the
\* chunk made none only if the chunk succeeded; after clean chunks only, nothing
\* stays on the stack.
LEMMA RunEffect ==
  ASSUME ResultInv, NEW co \in BOOLEAN, NEW e \in Endings, RunTask(co, e)
  PROVE  \E v \in Seq(Values) :
           /\ NewValues(ran + 1, v)
           /\ \/ Kept(v) /\ (clean' => v = <<>>)
              \/ /\ Taken(ran + 1, v)
                 /\ v = <<>> => ok'[ran + 1]
                 /\ clean' => Len(v) = 1
<1> USE BoundAssumption
<1>1. PICK t \in Tasks : t = ran + 1
  BY DEF RunTask, ResultInv, TypeOK, Tasks
<1>2. PICK q \in Seq(BOOLEAN) : q = e.strs /\ (e.raised => Len(q) = 1)
  BY EndingTypes
<1>3. PICK v \in Seq(Values) :
        /\ v = IF e.raised \/ co THEN Made(t, q) ELSE <<>>
        /\ NewValues(t, v)
        /\ e.raised \/ co => Len(v) = Len(q) /\ \A i \in 1 .. Len(q) : v[i].str = q[i]
  <2>1. /\ NewValues(t, Made(t, q)) /\ Len(Made(t, q)) = Len(q)
        /\ \A i \in 1 .. Len(q) : Made(t, q)[i].str = q[i]
        /\ NewValues(t, <<>>)
    BY MadeNew
  <2>2. QED
    BY <2>1 DEF NewValues
<1>4. StackAfterCall(t, co, e) = stack \o v /\ stack \in Seq(Values)
  BY <1>2, <1>3 DEF StackAfterCall, ResultInv, TypeOK
<1>5. clean' => clean /\ EndsCleanly(co, e) /\ stack = <<>>
  BY DEF RunTask, ResultInv, CleanWorker
<1>6. CASE UserResult(t, co, e)
  <2>1. e.user /\ Kept(v)
    BY <1>4, <1>6 DEF UserResult, Kept
  <2>2. ~clean'
    BY <1>5, <2>1 DEF EndsCleanly
  <2>3. QED
    BY <1>1, <1>3, <2>1, <2>2
<1>7. CASE ErrorResult(t, co, e)
  <2>1. e.raised
    BY <1>7 DEF ErrorResult
  <2>2. Len(v) = 1
    BY <1>2, <1>3, <2>1
  <2>3. v # <<>> /\ stack \o v # <<>>
    <3>1. v # <<>>
      BY <2>2, OnTop
    <3>2. QED
      BY <1>4, <3>1, OnTop
  <2>4. CASE e.strs[1]
    <3>1. Taken(t, v)
      BY <1>4, <1>7, <2>3, <2>4 DEF ErrorResult, Taken
    <3>2. QED
      BY <1>1, <1>3, <2>2, <2>3, <3>1
  <2>5. CASE ~e.strs[1]
    <3>1. UNCHANGED <<stack, retbuf>>
      BY <1>7, <2>5 DEF ErrorResult
    <3>2. <<>> \in Seq(Values)
      OBVIOUS
    <3>3. Kept(<<>>) /\ NewValues(t, <<>>)
      BY <1>4, <3>1, MadeNew DEF Kept
    <3>4. QED
      BY <1>1, <3>2, <3>3
  <2>6. QED
    BY <2>4, <2>5
<1>8. CASE OkResult(t, co, e)
  <2>1. ~e.user /\ ~e.raised /\ ok'[t]
    BY <1>8 DEF OkResult, ResultInv, TypeOK
  <2>2. CASE co /\ TopIsString(stack \o v)
    <3>1. Taken(t, v)
      BY <1>4, <1>8, <2>2 DEF OkResult, Taken, TopIsString
    <3>2. clean' => Len(v) = 1
      <4> SUFFICES ASSUME clean' PROVE Len(v) = 1
        OBVIOUS
      <4>1. stack = <<>> /\ Len(v) <= 1
        BY <1>2, <1>3, <1>5, <2>1, <2>2 DEF EndsCleanly
      <4>2. stack \o v # <<>>
        BY <2>2 DEF TopIsString
      <4>3. v # <<>>
        BY <1>4, <4>1, <4>2, OnTop
      <4>4. QED
        BY <4>1, <4>3, OnTop
    <3>3. QED
      BY <1>1, <1>3, <2>1, <3>1, <3>2
  <2>3. CASE ~(co /\ TopIsString(stack \o v))
    <3>1. Kept(v)
      BY <1>4, <1>8, <2>3 DEF OkResult, Kept
    <3>2. clean' => v = <<>>
      <4> SUFFICES ASSUME clean', v # <<>> PROVE FALSE
        OBVIOUS
      <4>1. co
        BY <1>3, <2>1
      <4>2. stack = <<>> /\ Len(v) = 1
        <5>1. stack = <<>> /\ Len(v) <= 1
          BY <1>2, <1>3, <1>5, <2>1, <4>1 DEF EndsCleanly
        <5>2. QED
          BY <5>1, OnTop
      <4>3. 1 \in DOMAIN e.strs /\ e.strs[1] /\ v[1].str = e.strs[1]
        BY <1>2, <1>3, <1>5, <2>1, <4>1, <4>2 DEF EndsCleanly
      <4>4. stack \o v = v /\ v # <<>> /\ Last(v) = v[1]
        BY <1>4, <4>2, OnTop DEF Last
      <4>5. QED
        BY <2>3, <4>1, <4>3, <4>4 DEF TopIsString
    <3>3. QED
      BY <1>1, <1>3, <2>1, <3>1, <3>2
  <2>4. QED
    BY <2>2, <2>3
<1>9. QED
  BY <1>1, <1>6, <1>7, <1>8 DEF RunTask

\* The elements of two lists in a row.
LEMMA ConcatParts ==
  ASSUME NEW s \in Seq(Values), NEW v \in Seq(Values)
  PROVE  /\ s \o v \in Seq(Values)
         /\ \A i \in DOMAIN (s \o v) :
              \/ i \in DOMAIN s /\ (s \o v)[i] = s[i]
              \/ i - Len(s) \in DOMAIN v /\ i \notin DOMAIN s /\ (s \o v)[i] = v[i - Len(s)]
         /\ \A i, j \in DOMAIN (s \o v) : i # j => i - Len(s) # j - Len(s)
<1>1. /\ s \o v \in Seq(Values) /\ DOMAIN (s \o v) = 1 .. Len(s) + Len(v)
      /\ DOMAIN s = 1 .. Len(s) /\ DOMAIN v = 1 .. Len(v)
      /\ Len(s) \in Nat /\ Len(v) \in Nat
  OBVIOUS
<1>2. \A i \in 1 .. Len(s) + Len(v) :
        (s \o v)[i] = IF i <= Len(s) THEN s[i] ELSE v[i - Len(s)]
  OBVIOUS
<1>3. \A i \in 1 .. Len(s) + Len(v) :
        \/ i \in 1 .. Len(s) /\ i <= Len(s)
        \/ i - Len(s) \in 1 .. Len(v) /\ i \notin 1 .. Len(s) /\ ~(i <= Len(s))
  BY <1>1
<1>4. \A i, j \in 1 .. Len(s) + Len(v) : i # j => i - Len(s) # j - Len(s)
  BY <1>1
<1>5. QED
  BY <1>1, <1>2, <1>3, <1>4

\* The stack with the new values of task t on it: values of tasks up to t, each
\* once, none of them handed over.
LEMMA WithNew ==
  ASSUME ResultInv, NEW t \in Tasks, t = ran + 1, NEW v \in Seq(Values), NewValues(t, v)
  PROVE  LET w == stack \o v
         IN /\ w \in Seq(Values)
            /\ \A i \in DOMAIN w : w[i].from <= t
            /\ \A i, j \in DOMAIN w : i # j => w[i] # w[j]
            /\ \A i \in DOMAIN w, u \in Tasks : w[i] # retbuf[u]
<1> USE BoundAssumption
<1>1. PICK s \in Seq(Values) : s = stack
  BY DEF ResultInv, TypeOK
<1>2. PICK w \in Seq(Values) :
        /\ w = s \o v
        /\ \A i \in DOMAIN w :
             \/ i \in DOMAIN s /\ w[i] = s[i]
             \/ i - Len(s) \in DOMAIN v /\ i \notin DOMAIN s /\ w[i] = v[i - Len(s)]
        /\ \A i, j \in DOMAIN w : i # j => i - Len(s) # j - Len(s)
  BY ConcatParts
<1>3. /\ \A i \in DOMAIN s : s[i].from <= ran /\ s[i] \in Values
      /\ \A i, j \in DOMAIN s : i # j => s[i] # s[j]
      /\ \A i \in DOMAIN v : v[i].from = t /\ v[i] \in Values
      /\ \A i, j \in DOMAIN v : i # j => v[i] # v[j]
      /\ ran \in Nat /\ t \in Nat /\ ran < t
  BY <1>1 DEF ResultInv, RanInv, OnceOnStack, NewValues, TypeOK, Tasks
<1>4. \A x \in Values : x.from \in Nat /\ x # NoValue
  BY DEF Values, NoValue, Tasks
<1>5. \A i \in DOMAIN s, j \in DOMAIN v : s[i] # v[j]
  <2> SUFFICES ASSUME NEW i \in DOMAIN s, NEW j \in DOMAIN v, s[i] = v[j] PROVE FALSE
    OBVIOUS
  <2>1. s[i].from = t /\ s[i].from <= ran
    BY <1>3
  <2>2. QED
    BY <1>3, <2>1
<1>6. \A i \in DOMAIN w : w[i].from <= t
  BY <1>2, <1>3, <1>4
<1>7. ASSUME NEW i \in DOMAIN w, NEW j \in DOMAIN w, i # j PROVE w[i] # w[j]
  BY <1>2, <1>3, <1>5, <1>7
<1>8. ASSUME NEW i \in DOMAIN w, NEW u \in Tasks PROVE w[i] # retbuf[u]
  <2>1. CASE i \in DOMAIN s /\ w[i] = s[i]
    BY <1>1, <1>3, <1>4, <2>1 DEF ResultInv, HandedOverOnce
  <2>2. CASE i - Len(s) \in DOMAIN v /\ w[i] = v[i - Len(s)]
    <3>1. w[i].from = t
      BY <1>3, <2>2
    <3>2. retbuf[u].from <= ran
      BY DEF ResultInv, RanInv
    <3>3. QED
      BY <1>3, <3>1, <3>2
  <2>3. QED
    BY <1>2, <2>1, <2>2
<1>9. QED
  BY <1>1, <1>2, <1>6, <1>7, <1>8

\* The value on top is taken off.
LEMMA Popped ==
  ASSUME NEW w \in Seq(Values), w # <<>>
  PROVE  /\ Front(w) \in Seq(Values) /\ Last(w) \in Values
         /\ Len(w) \in DOMAIN w /\ Last(w) = w[Len(w)]
         /\ \A i \in DOMAIN Front(w) : i \in DOMAIN w /\ i # Len(w) /\ Front(w)[i] = w[i]
         /\ Len(w) = 1 => Front(w) = <<>>
  BY DEF Front, Last

\* What StaleOnlyWhenSilent allows a step to do.
SilentStep ==
  \A t \in Tasks :
    t = ran + 1 /\ retbuf'[t].from \notin {0, t}
      => /\ ok'[t]
         /\ stack # <<>> /\ retbuf'[t] = Last(stack)
         /\ stack' = Front(stack)

\* A turn of WorkProc keeps the invariant, and hands over a value of another task
\* only for a chunk that returned nothing.
LEMMA RunStep ==
  ASSUME ResultInv, NEW co \in BOOLEAN, NEW e \in Endings, RunTask(co, e)
  PROVE  ResultInv' /\ SilentStep
<1> USE BoundAssumption
<1>1. PICK t \in Tasks : t = ran + 1 /\ t \in Nat /\ ran \in Nat /\ ran < t
  BY DEF RunTask, ResultInv, TypeOK, Tasks
<1>2. PICK v \in Seq(Values) :
        /\ NewValues(t, v)
        /\ \/ Kept(v) /\ (clean' => v = <<>>)
           \/ /\ Taken(t, v)
              /\ v = <<>> => ok'[t]
              /\ clean' => Len(v) = 1
  BY <1>1, RunEffect
<1>3. PICK w \in Seq(Values) :
        /\ w = stack \o v
        /\ \A i \in DOMAIN w : w[i].from <= t
        /\ \A i, j \in DOMAIN w : i # j => w[i] # w[j]
        /\ \A i \in DOMAIN w, u \in Tasks : w[i] # retbuf[u]
  BY <1>1, <1>2, WithNew
<1>3a. /\ \A i \in DOMAIN w : w[i].from <= t
       /\ \A i, j \in DOMAIN w : i # j => w[i] # w[j]
       /\ \A i \in DOMAIN w, u \in Tasks : w[i] # retbuf[u]
  BY <1>3
<1>4. ran' = t
  BY <1>1 DEF RunTask
<1>5. /\ stack \in Seq(Values) /\ retbuf \in [Tasks -> Values \cup {NoValue}]
      /\ retbuf[t] = NoValue
      /\ \A u \in Tasks : retbuf[u].from <= ran /\ retbuf[u].from \in Nat
      /\ \A u \in Tasks : u > ran => retbuf[u] = NoValue
      /\ \A x \in Values : x.from \in Nat /\ x # NoValue /\ x.from # 0
  <2>1. \A x \in Values : x.from \in Nat /\ x # NoValue /\ x.from # 0
    BY DEF Values, NoValue, Tasks
  <2>2. /\ stack \in Seq(Values) /\ retbuf \in [Tasks -> Values \cup {NoValue}]
        /\ \A u \in Tasks : retbuf[u].from <= ran
        /\ \A u \in Tasks : u > ran => retbuf[u] = NoValue
    BY DEF ResultInv, RanInv, TypeOK
  <2>3. NoValue.from \in Nat
    BY DEF NoValue
  <2>4. \A u \in Tasks : retbuf[u].from \in Nat
    BY <2>1, <2>2, <2>3
  <2>5. t > ran
    BY <1>1
  <2>6. QED
    BY <2>1, <2>2, <2>4, <2>5
<1>6. clean' => stack = <<>> /\ \A u \in Tasks : retbuf[u] # NoValue => retbuf[u].from = u
  BY DEF RunTask, ResultInv, CleanWorker
<1>7. /\ ok' \in [Tasks -> BOOLEAN] /\ aborted' \in BOOLEAN /\ clean' \in BOOLEAN
  BY DEF RunTask, UserResult, ErrorResult, OkResult, ResultInv, TypeOK
<1>8. ran' \in 0 .. MaxTasks
  BY <1>1, <1>4 DEF Tasks
<1>9. CASE Kept(v) /\ (clean' => v = <<>>)
  <2>1. stack' = w /\ retbuf' = retbuf
    BY <1>3, <1>9 DEF Kept
  <2>2. TypeOK'
    BY <1>5, <1>7, <1>8, <2>1 DEF TypeOK
  <2>3. RanInv'
    <3>1. \A u \in Tasks : retbuf[u].from <= t
      BY <1>1, <1>5
    <3>2. \A u \in Tasks : u > t => u > ran
      BY <1>1 DEF Tasks
    <3>3. QED
      BY <1>3, <1>4, <1>5, <2>1, <3>1, <3>2 DEF RanInv
  <2>4. OnceOnStack' /\ HandedOverOnce'
    BY <1>3, <2>1 DEF ResultInv, OnceOnStack, HandedOverOnce
  <2>5. CleanWorker'
    <3>1. clean' => w = <<>>
      BY <1>3, <1>5, <1>6, <1>9, OnTop
    <3>2. QED
      BY <1>6, <2>1, <3>1 DEF CleanWorker
  <2>6. SilentStep
    BY <1>1, <1>5, <2>1 DEF SilentStep, NoValue
  <2>7. QED
    BY <2>2, <2>3, <2>4, <2>5, <2>6 DEF ResultInv
<1>10. CASE Taken(t, v) /\ (v = <<>> => ok'[t]) /\ (clean' => Len(v) = 1)
  <2>1. w # <<>> /\ stack' = Front(w) /\ retbuf' = [retbuf EXCEPT ![t] = Last(w)]
    BY <1>3, <1>10 DEF Taken
  <2>2. PICK f \in Seq(Values), l \in Values :
          /\ f = Front(w) /\ l = Last(w) /\ Len(w) \in DOMAIN w /\ l = w[Len(w)]
          /\ \A i \in DOMAIN f : i \in DOMAIN w /\ i # Len(w) /\ f[i] = w[i]
          /\ Len(w) = 1 => f = <<>>
    BY <2>1, Popped
  <2>2a. /\ Len(w) \in DOMAIN w /\ l = w[Len(w)]
         /\ \A i \in DOMAIN f : i \in DOMAIN w /\ i # Len(w) /\ f[i] = w[i]
    BY <2>2
  <2>3. /\ stack' = f /\ retbuf'[t] = l
        /\ \A u \in Tasks : u # t => retbuf'[u] = retbuf[u]
        /\ retbuf' \in [Tasks -> Values \cup {NoValue}]
    BY <1>5, <2>1, <2>2
  <2>4. TypeOK'
    BY <1>7, <1>8, <2>3 DEF TypeOK
  <2>5. RanInv'
    <3>1. \A u \in Tasks : retbuf'[u].from <= t
      <4>1. l.from <= t
        BY <1>3a, <2>2a
      <4>2. \A u \in Tasks : retbuf[u].from <= t
        BY <1>1, <1>5
      <4>3. QED
        BY <2>3, <4>1, <4>2
    <3>2. \A u \in Tasks : u > t => u > ran /\ u # t
      BY <1>1 DEF Tasks
    <3>3. \A i \in DOMAIN f : f[i].from <= t
      BY <1>3a, <2>2a
    <3>4. QED
      BY <1>4, <1>5, <2>3, <3>1, <3>2, <3>3 DEF RanInv
  <2>6. OnceOnStack'
    BY <1>3a, <2>2a, <2>3 DEF OnceOnStack
  <2>7. HandedOverOnce'
    <3>1. \A i \in DOMAIN f : f[i] # l /\ \A u \in Tasks : f[i] # retbuf[u]
      BY <1>3a, <2>2a
    <3>2. \A u \in Tasks : l # retbuf[u]
      BY <1>3a, <2>2a
    <3>3. \A u, x \in Tasks : u # x /\ retbuf[u] # NoValue => retbuf[x] # retbuf[u]
      BY DEF ResultInv, HandedOverOnce
    <3>4. QED
      BY <2>3, <3>1, <3>2, <3>3 DEF HandedOverOnce
  <2>8. v # <<>> => l.from = t
    <3> SUFFICES ASSUME v # <<>> PROVE l.from = t
      OBVIOUS
    <3>1. l = Last(v)
      BY <1>3, <1>5, <2>2, OnTop
    <3>2. Len(v) \in DOMAIN v /\ Last(v) = v[Len(v)]
      BY Popped
    <3>3. QED
      BY <1>2, <3>1, <3>2 DEF NewValues
  <2>9. CleanWorker'
    <3> SUFFICES ASSUME clean'
                 PROVE  f = <<>> /\ \A u \in Tasks : retbuf'[u] # NoValue => retbuf'[u].from = u
      BY <2>3 DEF CleanWorker
    <3>1. w = v /\ Len(v) = 1 /\ v # <<>>
      BY <1>3, <1>5, <1>6, <1>10, OnTop
    <3>2. f = <<>>
      BY <2>2, <3>1
    <3>3. QED
      BY <1>6, <2>3, <2>8, <3>1, <3>2
  <2>10. SilentStep
    <3> SUFFICES ASSUME l.from \notin {0, t}
                 PROVE  ok'[t] /\ stack # <<>> /\ l = Last(stack) /\ stack' = Front(stack)
      BY <1>1, <2>3 DEF SilentStep
    <3>1. v = <<>>
      BY <2>8
    <3>2. w = stack
      BY <1>3, <1>5, <3>1, OnTop
    <3>3. QED
      BY <1>10, <2>1, <2>2, <3>1, <3>2
  <2>11. QED
    BY <2>4, <2>5, <2>6, <2>7, <2>9, <2>10 DEF ResultInv
<1>11. QED
  BY <1>2, <1>9, <1>10

\* No task has run when the worker starts.
LEMMA InitResultInv == Init => ResultInv
<1> SUFFICES ASSUME Init PROVE ResultInv
  OBVIOUS
<1> USE BoundAssumption DEF Init
<1>1. TypeOK
  <2>1. stack \in Seq(Values) /\ ran \in 0 .. MaxTasks
    OBVIOUS
  <2>2. ok \in [Tasks -> BOOLEAN] /\ aborted \in BOOLEAN /\ clean \in BOOLEAN
    OBVIOUS
  <2>3. retbuf \in [Tasks -> Values \cup {NoValue}]
    OBVIOUS
  <2>4. QED
    BY <2>1, <2>2, <2>3 DEF TypeOK
<1>2. RanInv
  BY DEF RanInv, NoValue
<1>3. OnceOnStack /\ HandedOverOnce /\ CleanWorker
  BY DEF OnceOnStack, HandedOverOnce, CleanWorker
<1>4. QED
  BY <1>1, <1>2, <1>3 DEF ResultInv

\* Every step keeps the invariant.
LEMMA ResultStep ==
  ResultInv /\ [Next]_vars => ResultInv' /\ (SilentStep \/ UNCHANGED vars)
<1> SUFFICES ASSUME ResultInv, [Next]_vars
             PROVE  ResultInv' /\ (SilentStep \/ UNCHANGED vars)
  OBVIOUS
<1>1. CASE Next
  BY <1>1, RunStep DEF Next
<1>2. CASE UNCHANGED vars
  BY <1>2 DEF vars, ResultInv, TypeOK, RanInv, OnceOnStack, HandedOverOnce, CleanWorker
<1>3. QED
  BY <1>1, <1>2

\* As long as every chunk ends cleanly the stack of a worker is empty between
\* chunks, and no task is handed the value of another.
THEOREM CleanWorkerHolds == Spec => []CleanWorker
<1>1. ResultInv => CleanWorker
  BY DEF ResultInv
<1>2. QED
  BY <1>1, InitResultInv, ResultStep, PTL DEF Spec

\* Whatever chunks return and raise, a value that WorkProc copied into a result is
\* off the stack and is never handed to another task.
THEOREM HandedOverOnceHolds == Spec => []HandedOverOnce
<1>1. ResultInv => HandedOverOnce
  BY DEF ResultInv
<1>2. QED
  BY <1>1, InitResultInv, ResultStep, PTL DEF Spec

\* A task is handed the value of another only if its own chunk succeeded and
\* returned nothing, and then it is the youngest one left on the stack.
THEOREM StaleOnlyWhenSilentHolds == Spec => StaleOnlyWhenSilent
<1>1. ResultInv /\ [Next]_vars => ResultInv'
  BY ResultStep
<1>2. ResultInv /\ [Next]_vars =>
        [\A t \in Tasks :
           t = ran + 1 /\ retbuf'[t].from \notin {0, t}
             => /\ ok'[t]
                /\ stack # <<>> /\ retbuf'[t] = Last(stack)
                /\ stack' = Front(stack)]_vars
  BY ResultStep DEF SilentStep
<1>3. QED
  BY <1>1, <1>2, InitResultInv, PTL DEF Spec, StaleOnlyWhenSilent
-----------------------------------------------------------------------------
(* WebSocket frames                                                        *)

\* A peer that uses SetWebSocketFrame, with payloads of at most 65535 bytes.
PlainFrames == Masked = FALSE /\ \A n \in PayloadLengths : n <= Medium

Frames == [byte : 0 .. 255, length : PayloadLengths]

\* What was delivered and what is queued are the frames sent, in order.
SentInv ==
  /\ queue \in Seq(Frames) /\ onWire \in Nat /\ inLength \in Nat
  /\ framesSent \in Seq(FrameTypes) /\ delivered \in Seq(FrameTypes)
  /\ garbled = FALSE
  /\ Len(framesSent) = Len(delivered) + Len(queue)
  /\ \A i \in 1 .. Len(delivered) : delivered[i] = ArrivesAs(framesSent[i])
  /\ \A i \in 1 .. Len(queue) : queue[i].byte = framesSent[Len(delivered) + i] % 256

\* The lengths of the frames of q.
Sizes(q) == [i \in 1 .. Len(q) |-> FrameLength(q[i])]

\* end[i] is where frame i of k frames ends; two bytes or more of each later one
\* are behind it.
FrameEnds(end, k, size) ==
  /\ end \in [0 .. k -> Int]
  /\ end[0] = 0
  /\ \A i \in 1 .. k : end[i] = end[i - 1] + size[i]
  /\ \A i \in 0 .. k : end[i] + (k - i) + (k - i) <= end[k]

\* The bytes of the queued frames have arrived or are on the wire.
ByteInv ==
  \E end : FrameEnds(end, Len(queue), Sizes(queue)) /\ end[Len(queue)] = onWire + inLength

StreamInv == SentInv /\ ByteInv

\* A frame more ends behind the others.
LEMMA OneMoreEnds ==
  ASSUME NEW k \in Nat, NEW size \in [1 .. k -> Nat], NEW size2 \in [1 .. k + 1 -> Nat],
         \A i \in 1 .. k : size2[i] = size[i], size2[k + 1] >= 2,
         NEW end, FrameEnds(end, k, size)
  PROVE  \E new : FrameEnds(new, k + 1, size2) /\ new[k + 1] = end[k] + size2[k + 1]
<1> DEFINE new == [i \in 0 .. k + 1 |-> IF i = k + 1 THEN end[k] + size2[k + 1] ELSE end[i]]
<1>1. /\ end \in [0 .. k -> Int] /\ end[0] = 0
      /\ \A i \in 1 .. k : end[i] = end[i - 1] + size[i]
      /\ \A i \in 0 .. k : end[i] + (k - i) + (k - i) <= end[k]
  BY DEF FrameEnds
<1>2. PICK last \in Int : last = end[k] + size2[k + 1] /\ last >= end[k] + 2
  <2>1. k \in 0 .. k /\ k + 1 \in 1 .. k + 1
    OBVIOUS
  <2>2. PICK a \in Int, b \in Nat : a = end[k] /\ b = size2[k + 1]
    BY <1>1, <2>1
  <2>3. a + b \in Int /\ a + b >= a + 2
    BY <2>2
  <2>4. QED
    BY <2>2, <2>3
<1>3. /\ new \in [0 .. k + 1 -> Int] /\ new[k + 1] = last
      /\ \A i \in 0 .. k : new[i] = end[i]
  BY <1>1, <1>2, SMTT(30)
<1> HIDE DEF new
<1>4. \A i \in 1 .. k + 1 : new[i] = new[i - 1] + size2[i]
  <2> SUFFICES ASSUME NEW i \in 1 .. k + 1 PROVE new[i] = new[i - 1] + size2[i]
    OBVIOUS
  <2>1. CASE i = k + 1
    BY <1>2, <1>3, <2>1
  <2>2. CASE i \in 1 .. k
    <3>1. new[i] = end[i] /\ new[i - 1] = end[i - 1] /\ size2[i] = size[i]
      BY <1>3, <2>2
    <3>2. QED
      BY <1>1, <2>2, <3>1
  <2>3. QED
    BY <2>1, <2>2
<1>5. \A i \in 0 .. k + 1 : new[i] + (k + 1 - i) + (k + 1 - i) <= new[k + 1]
  <2> SUFFICES ASSUME NEW i \in 0 .. k + 1
               PROVE  new[i] + (k + 1 - i) + (k + 1 - i) <= new[k + 1]
    OBVIOUS
  <2>1. CASE i = k + 1
    BY <1>3, <2>1
  <2>2. CASE i \in 0 .. k
    <3>1. PICK a \in Int, b \in Int : a = end[i] /\ b = end[k]
      BY <1>1, <2>2
    <3>2. a + (k - i) + (k - i) <= b
      BY <1>1, <2>2, <3>1
    <3>3. new[i] = a /\ new[k + 1] = last /\ last >= b + 2
      BY <1>2, <1>3, <2>2, <3>1
    <3>4. QED
      BY <3>2, <3>3
  <2>3. QED
    BY <2>1, <2>2
<1>6. new[0] = 0
  BY <1>1, <1>3
<1>7. FrameEnds(new, k + 1, size2)
  BY <1>3, <1>4, <1>5, <1>6 DEF FrameEnds
<1>8. QED
  BY <1>2, <1>3, <1>7

\* Without the first frame the others end earlier by its length.
LEMMA OneLessEnds ==
  ASSUME NEW k \in Nat \ {0}, NEW size \in [1 .. k -> Nat], NEW size2 \in [1 .. k - 1 -> Nat],
         \A i \in 1 .. k - 1 : size2[i] = size[i + 1],
         NEW end, FrameEnds(end, k, size)
  PROVE  \E new : FrameEnds(new, k - 1, size2) /\ new[k - 1] = end[k] - size[1]
<1> DEFINE new == [i \in 0 .. k - 1 |-> end[i + 1] - size[1]]
<1>1. /\ end \in [0 .. k -> Int] /\ end[0] = 0
      /\ \A i \in 1 .. k : end[i] = end[i - 1] + size[i]
      /\ \A i \in 0 .. k : end[i] + (k - i) + (k - i) <= end[k]
  BY DEF FrameEnds
<1>2. PICK n \in Nat : n = size[1]
  OBVIOUS
<1>3. end[1] = n
  <2>1. end[1] = end[1 - 1] + size[1]
    BY <1>1
  <2>2. QED
    BY <1>1, <1>2, <2>1
<1>4. /\ new \in [0 .. k - 1 -> Int]
      /\ \A i \in 0 .. k - 1 : new[i] = end[i + 1] - n
  <2>1. \A i \in 0 .. k - 1 : i + 1 \in 0 .. k
    OBVIOUS
  <2>2. \A i \in 0 .. k - 1 : end[i + 1] \in Int
    BY <1>1, <2>1
  <2>3. QED
    BY <1>2, <2>2
<1> HIDE DEF new
<1>5. \A i \in 1 .. k - 1 : new[i] = new[i - 1] + size2[i]
  <2> SUFFICES ASSUME NEW i \in 1 .. k - 1 PROVE new[i] = new[i - 1] + size2[i]
    OBVIOUS
  <2>1. i + 1 \in 1 .. k /\ i \in 0 .. k /\ i - 1 \in 0 .. k - 1 /\ i \in 0 .. k - 1
    OBVIOUS
  <2>2. PICK a \in Int, b \in Int, c \in Nat : a = end[i + 1] /\ b = end[i] /\ c = size[i + 1]
    <3>1. i + 1 \in 0 .. k
      OBVIOUS
    <3>2. end[i + 1] \in Int /\ end[i] \in Int
      BY <1>1, <2>1, <3>1
    <3>3. size[i + 1] \in Nat
      BY <2>1
    <3>4. QED
      BY <3>2, <3>3
  <2>3. end[i + 1] = end[(i + 1) - 1] + size[i + 1] /\ (i + 1) - 1 = i /\ (i - 1) + 1 = i
    BY <1>1, <2>1
  <2>4. new[i] = a - n /\ new[i - 1] = b - n /\ size2[i] = c
    BY <1>4, <2>1, <2>2, <2>3
  <2>5. a = b + c
    BY <2>2, <2>3
  <2>6. QED
    BY <2>4, <2>5
<1>6. \A i \in 0 .. k - 1 : new[i] + (k - 1 - i) + (k - 1 - i) <= new[k - 1]
  <2> SUFFICES ASSUME NEW i \in 0 .. k - 1
               PROVE  new[i] + (k - 1 - i) + (k - 1 - i) <= new[k - 1]
    OBVIOUS
  <2>1. i + 1 \in 0 .. k /\ k \in 0 .. k /\ k - 1 \in 0 .. k - 1 /\ (k - 1) + 1 = k
    OBVIOUS
  <2>2. PICK a \in Int, b \in Int : a = end[i + 1] /\ b = end[k]
    BY <1>1, <2>1
  <2>3. a + (k - (i + 1)) + (k - (i + 1)) <= b
    BY <1>1, <2>1, <2>2
  <2>4. new[i] = a - n /\ new[k - 1] = b - n
    BY <1>4, <2>1, <2>2
  <2>5. QED
    BY <2>3, <2>4
<1>7. new[0] = 0 /\ new[k - 1] = end[k] - n
  BY <1>3, <1>4
<1>8. FrameEnds(new, k - 1, size2)
  BY <1>4, <1>5, <1>6, <1>7 DEF FrameEnds
<1>9. QED
  BY <1>2, <1>7, <1>8

\* A frame has a type, a length and its payload, and GetWebSocketFrame wants them all.
LEMMA FrameSizes ==
  ASSUME PlainFrames, NEW f \in Frames
  PROVE  FrameLength(f) \in Nat /\ FrameLength(f) >= 2 /\ Enough(f.length) = FrameLength(f)
<1>1. f.length \in Nat /\ f.length <= Medium /\ Medium \in Nat /\ Short \in Nat
  BY PayloadAssumption DEF PlainFrames, Frames
<1>2. HeaderLength(f.length) \in {2, 4}
  BY <1>1 DEF HeaderLength
<1>3. FrameLength(f) = HeaderLength(f.length) + f.length
  BY <1>1, <1>2 DEF FrameLength, MaskLength, PlainFrames
<1>4. Enough(f.length) = HeaderLength(f.length) + f.length
  BY <1>2 DEF Enough
<1>5. QED
  BY <1>1, <1>2, <1>3, <1>4

\* The lengths of queued frames are numbers.
LEMMA SizesOf ==
  ASSUME PlainFrames, NEW q \in Seq(Frames)
  PROVE  /\ Len(q) \in Nat /\ Sizes(q) \in [1 .. Len(q) -> Nat]
         /\ \A i \in 1 .. Len(q) : Sizes(q)[i] = FrameLength(q[i])
<1>1. \A i \in 1 .. Len(q) : FrameLength(q[i]) \in Nat
  BY FrameSizes
<1>2. QED
  BY <1>1 DEF Sizes

\* GetWebSocketFrame makes of the first byte of a frame what it was sent as, or the
\* piece of a text if its type is no byte.
LEMMA TypeComesBack ==
  ASSUME NEW type \in FrameTypes
  PROVE  /\ type % 256 \in 0 .. 255 /\ FrameType(type % 256) = ArrivesAs(type)
         /\ ArrivesAs(type) \in FrameTypes
<1>1. /\ 129 % 256 = 129 /\ 130 % 256 = 130 /\ 1 % 256 = 1 /\ 2 % 256 = 2
      /\ 25 % 256 = 25 /\ 26 % 256 = 26
      /\ 13056 % 256 = 0 /\ 13312 % 256 = 0 /\ 65024 % 256 = 0 /\ 65280 % 256 = 0
  OBVIOUS
<1>2. /\ 129 \div 128 = 1 /\ 130 \div 128 = 1 /\ 1 \div 128 # 1 /\ 2 \div 128 # 1
      /\ 129 % 16 = 1 /\ 130 % 16 = 2 /\ 1 % 16 = 1 /\ 2 % 16 = 2
      /\ 25 % 16 = 9 /\ 26 % 16 = 10 /\ 0 \div 128 # 1 /\ 0 % 16 = 0
  OBVIOUS
<1>3. CASE type \in {129, 130}
  <2>1. FrameType(type % 256) = type /\ type % 256 \in 0 .. 255
    BY <1>1, <1>2, <1>3 DEF FrameType, TEXT_FRAME, BINARY_FRAME
  <2>2. QED
    BY <1>3, <2>1 DEF ArrivesAs, FrameTypes, TEXT_FRAME, BINARY_FRAME
<1>4. CASE type \in {1, 2}
  <2>1. FrameType(type % 256) = type /\ type % 256 \in 0 .. 255
    BY <1>1, <1>2, <1>4 DEF FrameType, INCOMPLETE_TEXT_FRAME, INCOMPLETE_BINARY_FRAME
  <2>2. QED
    BY <1>4, <2>1 DEF ArrivesAs, FrameTypes, INCOMPLETE_TEXT_FRAME, INCOMPLETE_BINARY_FRAME
<1>5. CASE type \in {25, 26}
  <2>1. FrameType(type % 256) = type /\ type % 256 \in 0 .. 255
    BY <1>1, <1>2, <1>5 DEF FrameType, PING_FRAME, PONG_FRAME
  <2>2. QED
    BY <1>5, <2>1 DEF ArrivesAs, FrameTypes, PING_FRAME, PONG_FRAME
<1>6. CASE type \in {13056, 13312, 65024, 65280}
  <2>1. type % 256 = 0 /\ type \notin 0 .. 255
    BY <1>1, <1>6
  <2>2. FrameType(0) = INCOMPLETE_TEXT_FRAME
    BY <1>2 DEF FrameType
  <2>3. QED
    BY <2>1, <2>2 DEF ArrivesAs, FrameTypes
<1>7. QED
  BY <1>3, <1>4, <1>5, <1>6
  DEF FrameTypes, TEXT_FRAME, BINARY_FRAME, INCOMPLETE_TEXT_FRAME,
      INCOMPLETE_BINARY_FRAME, PING_FRAME, PONG_FRAME, OPENING_FRAME, CLOSING_FRAME,
      INCOMPLETE_FRAME, ERROR_FRAME

\* Nothing was sent when the connection starts.
LEMMA InitStreamInv == StreamInit => StreamInv
<1> SUFFICES ASSUME StreamInit PROVE StreamInv
  OBVIOUS
<1>1. SentInv
  BY DEF StreamInit, SentInv
<1>2. FrameEnds([i \in 0 .. 0 |-> 0], 0, Sizes(queue))
  BY DEF FrameEnds
<1>3. ByteInv
  BY <1>2 DEF StreamInit, ByteInv
<1>4. QED
  BY <1>1, <1>3 DEF StreamInv

\* A frame that is sent is behind the others.
LEMMA SendStep ==
  ASSUME PlainFrames, StreamInv, NEW type \in FrameTypes, NEW n \in PayloadLengths,
         SetWebSocketFrame(type, n)
  PROVE  StreamInv'
<1> DEFINE f == [byte |-> type % 256, length |-> n]
<1>1. f \in Frames /\ f.byte = type % 256
  BY TypeComesBack DEF Frames
<1>2. /\ queue \in Seq(Frames) /\ onWire \in Nat /\ inLength \in Nat
      /\ framesSent \in Seq(FrameTypes) /\ delivered \in Seq(FrameTypes)
      /\ Len(framesSent) = Len(delivered) + Len(queue)
  BY DEF StreamInv, SentInv
<1>3. /\ queue' = Append(queue, f) /\ onWire' = onWire + FrameLength(f)
      /\ framesSent' = Append(framesSent, type)
      /\ inLength' = inLength /\ delivered' = delivered /\ garbled' = garbled
  BY DEF SetWebSocketFrame
<1>4. FrameLength(f) \in Nat /\ FrameLength(f) >= 2
  BY <1>1, FrameSizes
<1> HIDE DEF f
<1>5. SentInv'
  <2>1. /\ queue' \in Seq(Frames) /\ onWire' \in Nat /\ inLength' \in Nat
        /\ framesSent' \in Seq(FrameTypes) /\ delivered' \in Seq(FrameTypes)
        /\ Len(framesSent') = Len(delivered') + Len(queue')
    BY <1>1, <1>2, <1>3, <1>4
  <2>2. garbled' = FALSE
    BY <1>3 DEF StreamInv, SentInv
  <2>3. \A i \in 1 .. Len(delivered') : delivered'[i] = ArrivesAs(framesSent'[i])
    BY <1>2, <1>3 DEF StreamInv, SentInv
  <2>4. \A i \in 1 .. Len(queue') : queue'[i].byte = framesSent'[Len(delivered') + i] % 256
    <3> SUFFICES ASSUME NEW i \in 1 .. Len(queue')
                 PROVE  queue'[i].byte = framesSent'[Len(delivered') + i] % 256
      OBVIOUS
    <3>1. CASE i = Len(queue) + 1
      BY <1>1, <1>2, <1>3, <3>1
    <3>2. CASE i \in 1 .. Len(queue)
      <4>1. queue'[i] = queue[i] /\ framesSent'[Len(delivered') + i] = framesSent[Len(delivered) + i]
        BY <1>1, <1>2, <1>3, <3>2
      <4>2. QED
        BY <3>2, <4>1 DEF StreamInv, SentInv
    <3>3. Len(queue') = Len(queue) + 1 /\ Len(queue) \in Nat
      BY <1>1, <1>2, <1>3
    <3>4. QED
      BY <3>1, <3>2, <3>3
  <2>5. QED
    BY <2>1, <2>2, <2>3, <2>4 DEF SentInv
<1>6. ByteInv'
  <2>1. PICK end : FrameEnds(end, Len(queue), Sizes(queue))
                     /\ end[Len(queue)] = onWire + inLength
    BY DEF StreamInv, ByteInv
  <2>2. PICK k \in Nat : k = Len(queue)
    BY <1>2
  <2>3. /\ queue' \in Seq(Frames) /\ Len(queue') = k + 1 /\ queue'[k + 1] = f
        /\ \A i \in 1 .. k : queue'[i] = queue[i]
    BY <1>1, <1>2, <1>3, <2>2
  <2>4. PICK size \in [1 .. k -> Nat] :
          size = Sizes(queue) /\ \A i \in 1 .. k : size[i] = FrameLength(queue[i])
    BY <1>2, <2>2, SizesOf
  <2>5. PICK size2 \in [1 .. k + 1 -> Nat] :
          size2 = Sizes(queue') /\ \A i \in 1 .. k + 1 : size2[i] = FrameLength(queue'[i])
    BY <2>3, SizesOf
  <2>6. \A i \in 1 .. k : size2[i] = size[i]
    BY <2>3, <2>4, <2>5
  <2>7. size2[k + 1] = FrameLength(f)
    BY <2>3, <2>5
  <2>8. PICK new : FrameEnds(new, k + 1, size2) /\ new[k + 1] = end[k] + size2[k + 1]
    BY <1>4, <2>1, <2>2, <2>4, <2>6, <2>7, OneMoreEnds, SMTT(30)
  <2>9. new[k + 1] = onWire' + inLength'
    BY <1>2, <1>3, <1>4, <2>1, <2>2, <2>7, <2>8
  <2>10. QED
    BY <2>3, <2>5, <2>8, <2>9 DEF ByteInv, Sizes
<1>7. QED
  BY <1>5, <1>6 DEF StreamInv

\* Bytes that arrive are the ones that were on the wire.
LEMMA ArriveStep ==
  ASSUME StreamInv, NEW n \in 1 .. onWire, Arrive(n)
  PROVE  StreamInv'
<1>1. /\ onWire \in Nat /\ inLength \in Nat
      /\ onWire' = onWire - n /\ inLength' = inLength + n
  BY DEF StreamInv, SentInv, Arrive
<1>2. onWire' \in Nat /\ inLength' \in Nat /\ onWire' + inLength' = onWire + inLength
  BY <1>1
<1>3. UNCHANGED <<queue, framesSent, delivered, garbled>>
  BY DEF Arrive
<1>4. SentInv'
  BY <1>2, <1>3 DEF StreamInv, SentInv
<1>5. PICK end : FrameEnds(end, Len(queue), Sizes(queue))
                   /\ end[Len(queue)] = onWire + inLength
  BY DEF StreamInv, ByteInv
<1>6. ByteInv'
  BY <1>2, <1>3, <1>5 DEF ByteInv, Sizes
<1>7. QED
  BY <1>4, <1>6 DEF StreamInv

\* A frame is taken for whole when all its bytes have arrived, and they are removed.
LEMMA TakeFrameStep ==
  ASSUME PlainFrames, StreamInv, GetWebSocketFrame
  PROVE  StreamInv'
<1>1. /\ queue \in Seq(Frames) /\ onWire \in Nat /\ inLength \in Nat
      /\ framesSent \in Seq(FrameTypes) /\ delivered \in Seq(FrameTypes)
      /\ Len(framesSent) = Len(delivered) + Len(queue)
      /\ queue # <<>>
  BY DEF StreamInv, SentInv, GetWebSocketFrame, TakenForWhole
<1>2. PICK f \in Frames : f = Head(queue) /\ f = queue[1]
  BY <1>1
<1>3. FrameLength(f) \in Nat /\ FrameLength(f) >= 2 /\ inLength >= FrameLength(f)
  BY <1>2, FrameSizes DEF GetWebSocketFrame, TakenForWhole
<1>4. /\ delivered' = Append(delivered, FrameType(f.byte))
      /\ queue' = Tail(queue)
      /\ inLength' = IF FrameLength(f) >= inLength THEN 0 ELSE inLength - FrameLength(f)
      /\ onWire' = onWire /\ framesSent' = framesSent
  BY <1>2 DEF GetWebSocketFrame, ReturnFrame
<1>5. garbled' = FALSE
  BY <1>2, <1>3 DEF GetWebSocketFrame, ReturnFrame
<1>6. inLength' \in Nat /\ inLength' = inLength - FrameLength(f)
  BY <1>1, <1>3, <1>4
<1>7. Len(queue) \in Nat \ {0} /\ Len(delivered) \in Nat
  BY <1>1
<1>8. /\ queue' \in Seq(Frames) /\ Len(queue') = Len(queue) - 1
      /\ \A i \in 1 .. Len(queue) - 1 : queue'[i] = queue[i + 1]
  BY <1>1, <1>4
<1>9. FrameType(f.byte) \in FrameTypes /\ FrameType(f.byte) = ArrivesAs(framesSent[Len(delivered) + 1])
  <2>1. PICK t \in FrameTypes : t = framesSent[Len(delivered) + 1]
    BY <1>1, <1>7
  <2>2. queue[1].byte = framesSent[Len(delivered) + 1] % 256
    BY <1>7 DEF StreamInv, SentInv
  <2>3. QED
    BY <1>2, <2>1, <2>2, TypeComesBack
<1>10. PICK t \in FrameTypes : t = FrameType(f.byte)
  BY <1>9
<1>11. /\ delivered' \in Seq(FrameTypes) /\ Len(delivered') = Len(delivered) + 1
       /\ \A i \in 1 .. Len(delivered) : delivered'[i] = delivered[i]
       /\ delivered'[Len(delivered) + 1] = ArrivesAs(framesSent[Len(delivered) + 1])
  BY <1>1, <1>4, <1>9, <1>10
<1>12. SentInv'
  <2>1. \A i \in 1 .. Len(delivered') : delivered'[i] = ArrivesAs(framesSent'[i])
    <3>1. \A i \in 1 .. Len(delivered) : delivered[i] = ArrivesAs(framesSent[i])
      BY DEF StreamInv, SentInv
    <3>2. QED
      BY <1>4, <1>7, <1>11, <3>1
  <2>2. \A i \in 1 .. Len(queue') : queue'[i].byte = framesSent'[Len(delivered') + i] % 256
    <3> SUFFICES ASSUME NEW i \in 1 .. Len(queue')
                 PROVE  queue'[i].byte = framesSent'[Len(delivered') + i] % 256
      OBVIOUS
    <3>1. i + 1 \in 1 .. Len(queue) /\ queue'[i] = queue[i + 1]
      BY <1>7, <1>8
    <3>2. queue[i + 1].byte = framesSent[Len(delivered) + (i + 1)] % 256
      BY <3>1 DEF StreamInv, SentInv
    <3>3. Len(delivered) + (i + 1) = Len(delivered') + i
      BY <1>7, <1>8, <1>11
    <3>4. QED
      BY <1>4, <3>1, <3>2, <3>3
  <2>3. Len(framesSent') = Len(delivered') + Len(queue')
    BY <1>1, <1>4, <1>7, <1>8, <1>11
  <2>4. QED
    BY <1>1, <1>4, <1>5, <1>6, <1>8, <1>11, <2>1, <2>2, <2>3 DEF SentInv
<1>13. ByteInv'
  <2>1. PICK end : FrameEnds(end, Len(queue), Sizes(queue))
                     /\ end[Len(queue)] = onWire + inLength
    BY DEF StreamInv, ByteInv
  <2>2. PICK k \in Nat \ {0} : k = Len(queue)
    BY <1>7
  <2>3. PICK size \in [1 .. k -> Nat] :
          size = Sizes(queue) /\ \A i \in 1 .. k : size[i] = FrameLength(queue[i])
    BY <1>1, <2>2, SizesOf
  <2>4. PICK size2 \in [1 .. k - 1 -> Nat] :
          size2 = Sizes(queue') /\ \A i \in 1 .. k - 1 : size2[i] = FrameLength(queue'[i])
    BY <1>8, <2>2, SizesOf, SMTT(30)
  <2>5. \A i \in 1 .. k - 1 : size2[i] = size[i + 1]
    BY <1>8, <2>2, <2>3, <2>4
  <2>6. size[1] = FrameLength(f)
    BY <1>2, <2>2, <2>3
  <2>7. PICK new : FrameEnds(new, k - 1, size2) /\ new[k - 1] = end[k] - size[1]
    BY <2>1, <2>2, <2>3, <2>5, OneLessEnds, ZenonT(30)
  <2>8. new[k - 1] = onWire' + inLength'
    <3>1. PICK n \in Nat, a \in Nat, b \in Nat :
            n = FrameLength(f) /\ a = onWire /\ b = inLength
      BY <1>1, <1>3
    <3>2. new[k - 1] = (a + b) - n
      BY <2>1, <2>2, <2>6, <2>7, <3>1
    <3>3. onWire' = a /\ inLength' = b - n
      BY <1>4, <1>6, <3>1
    <3>4. QED
      BY <3>2, <3>3
  <2>9. QED
    BY <1>8, <2>2, <2>4, <2>7, <2>8 DEF ByteInv, Sizes
<1>14. QED
  BY <1>12, <1>13 DEF StreamInv

\* Every step of peer, stream and script keeps it.
LEMMA AlwaysStreamInv ==
  ASSUME PlainFrames
  PROVE  StreamSpec => []StreamInv
<1>1. StreamInv /\ [StreamNext]_streamVars => StreamInv'
  <2>1. StreamInv /\ UNCHANGED streamVars => StreamInv'
    BY ZenonT(30) DEF StreamInv, SentInv, ByteInv, Sizes, streamVars
  <2>2. StreamInv /\ StreamNext => StreamInv'
    BY SendStep, ArriveStep, TakeFrameStep DEF StreamNext
  <2>3. QED
    BY <2>1, <2>2
<1>2. QED
  BY <1>1, InitStreamInv, PTL DEF StreamSpec

\* Wherever the stream is cut, a script that asks for frames gets whole ones, in
\* the order they were sent and of the types the cast of SetWebSocketFrame lets
\* through: as long as the peer does not mask them and no payload needs a 64 bit
\* length.
THEOREM FramesInOrderHolds ==
  ASSUME PlainFrames
  PROVE  StreamSpec => []FramesInOrder
<1>1. StreamInv => FramesInOrder
  <2> SUFFICES ASSUME StreamInv PROVE FramesInOrder
    OBVIOUS
  <2>1. Len(queue) \in Nat /\ Len(delivered) \in Nat
    BY DEF StreamInv, SentInv
  <2>2. Len(delivered) <= Len(framesSent)
    BY <2>1 DEF StreamInv, SentInv
  <2>3. QED
    BY <2>2 DEF StreamInv, SentInv, FramesInOrder
<1>2. QED
  BY <1>1, AlwaysStreamInv, PTL

\* Nor is a frame left in the input when all bytes are there, except an empty one
\* at the end, whose two bytes GetWebSocketFrame takes for too few.
THEOREM NoFrameLeftHolds ==
  ASSUME PlainFrames
  PROVE  StreamSpec => []NoFrameLeft
<1>1. StreamInv => NoFrameLeft
  <2> SUFFICES ASSUME StreamInv, onWire = 0, ~TakenForWhole
               PROVE  Len(delivered) = Len(framesSent) - (IF inLength = 2 THEN 1 ELSE 0)
    BY DEF NoFrameLeft
  <2>1. PICK end : FrameEnds(end, Len(queue), Sizes(queue))
                     /\ end[Len(queue)] = onWire + inLength
    BY DEF StreamInv, ByteInv
  <2>2. /\ queue \in Seq(Frames) /\ inLength \in Nat
        /\ Len(queue) \in Nat /\ Len(delivered) \in Nat /\ Len(framesSent) \in Nat
        /\ Len(framesSent) = Len(delivered) + Len(queue)
    BY DEF StreamInv, SentInv
  <2>3. CASE queue = <<>>
    <3>1. Len(queue) = 0 /\ inLength = 0
      BY <2>1, <2>2, <2>3 DEF FrameEnds
    <3>2. QED
      BY <2>2, <3>1
  <2>4. CASE queue # <<>>
    <3>1. PICK f \in Frames : f = Head(queue) /\ f = queue[1]
      BY <2>2, <2>4
    <3>2. FrameLength(f) \in Nat /\ FrameLength(f) >= 2 /\ Enough(f.length) = FrameLength(f)
      BY FrameSizes
    <3>3. PICK k \in Nat : k = Len(queue) /\ k >= 1
      BY <2>2, <2>4
    <3>4. PICK n \in Nat : n = FrameLength(f)
      BY <3>2
    <3>5. end[1] = n /\ end[1] + (k - 1) + (k - 1) <= inLength
      <4>1. /\ end[0] = 0 /\ end[1] = end[1 - 1] + Sizes(queue)[1]
            /\ end[1] + (k - 1) + (k - 1) <= end[k]
        BY <2>1, <3>3 DEF FrameEnds
      <4>2. Sizes(queue)[1] = n
        BY <2>2, <3>1, <3>3, <3>4, SizesOf
      <4>3. QED
        BY <2>1, <2>2, <3>3, <4>1, <4>2
    <3>6. inLength = 2 /\ k = 1
      <4>1. n >= 2 /\ ~(inLength >= 3 /\ inLength >= n)
        BY <2>4, <3>1, <3>2, <3>4 DEF TakenForWhole
      <4>2. n + (k - 1) + (k - 1) <= inLength
        BY <3>5
      <4>3. QED
        BY <2>2, <3>3, <4>1, <4>2
    <3>7. QED
      BY <2>2, <3>3, <3>6
  <2>5. QED
    BY <2>3, <2>4
<1>2. QED
  BY <1>1, AlwaysStreamInv, PTL
=============================================================================
