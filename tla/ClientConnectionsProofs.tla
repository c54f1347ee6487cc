----------------------- MODULE ClientConnectionsProofs -----------------------
(***************************************************************************)
(* Theorems about ClientConnections for any number of connections and      *)
(* bytes: the script reads the stream of every connection in order, and    *)
(* what the server makes for a connection is freed once or is one of the   *)
(* two bufferevents that Connect forgets.  The last theorem is about the   *)
(* loop that serves connections and waits (MCServerLoop).                  *)
(***************************************************************************)
EXTENDS MCServerLoop, ScriptWaitsProofs, SequenceTheorems, TLAPS

\* The variables that count are numbers.
CountInv ==
  /\ refs \in [Conns -> Nat] /\ made \in [Conns -> Nat]
  /\ frees \in [Conns -> Nat] /\ closes \in [Conns -> Nat]

\* What the message holds behind the position of the script.
Unread(s, p) == SubSeq(s, p + 1, Len(s))

\* What was read, what is unread and what is under way.
Row(g, u, m) == g \o u \o m

\* The bytes 1, 2, ... up to n.
Stream(n) == [i \in 1 .. n |-> i]

InUse == {"connecting", "open", "failed"}

\* The bufferevents of a connection in state l: r references, m made, f freed, c calls
\* of CloseClient, k forgotten by Connect.
BevFine(l, r, m, f, c, k) ==
  /\ l = "none" => r = 0 /\ m = 0 /\ f = 0 /\ c = 0 /\ k = 0
  /\ l \in InUse => r = 2 /\ f = 0 /\ c = 0
  /\ l \notin InUse => r = 0
  /\ l = "closed" => f = c /\ c >= 1
  /\ c <= 1 => m = f + (IF l \in InUse THEN 1 ELSE 0) + k

\* The message of a connection in state l: q is in it, the script is at o, m is under
\* way, n was sent and g was read.  Nothing has arrived before the connection is made,
\* and what is in front of the position has been read; x says that input was lost.
MsgFine(l, q, o, m, n, g, x) ==
  /\ l \in {"none", "connecting"} => q = <<>> /\ m = <<>> /\ g = <<>> /\ n = 0
  /\ Len(g) + Len(q) + Len(m) <= n + o /\ o <= Len(g)
  /\ l = "open" /\ ~x => Row(g, Unread(q, o), m) = Stream(n)

Lost(b) == b \in Opened /\ spoilt[b]

BevOK(b) == BevFine(life[b], refs[b], made[b], frees[b], closes[b], Forgotten(b))
MsgOK(b) == MsgFine(life[b], buf[b], pos[b], net[b], sent[b], got[b], Lost(b))

\* The inductive invariant.
ConnInv ==
  /\ ConnTypeOK /\ CountInv
  /\ \A b \in Conns : BevOK(b)
  /\ \A b \in Conns : MsgOK(b)
-----------------------------------------------------------------------------
\* Overwrite behind the content appends, and in an empty message fills it.
LEMMA OverwriteAtEnd ==
  ASSUME NEW S, NEW s \in Seq(S), NEW d \in Seq(S)
  PROVE  Overwrite(s, Len(s), d) = s \o d
<1>1. SubSeq(s, 1, Len(s)) = s
  BY SubSeqFull
<1>2. SubSeq(s, Len(s) + Len(d) + 1, Len(s)) = <<>>
  OBVIOUS
<1>3. s \o d \in Seq(S)
  OBVIOUS
<1>4. QED
  BY <1>1, <1>2, <1>3, ConcatEmptySeq DEF Overwrite

\* What is appended to a message is behind what is unread.
LEMMA UnreadAppend ==
  ASSUME NEW S, NEW s \in Seq(S), NEW d \in Seq(S), NEW p \in 0 .. Len(s)
  PROVE  Unread(s \o d, p) = Unread(s, p) \o d
<1>1. s \o d \in Seq(S) /\ Len(s \o d) = Len(s) + Len(d)
  OBVIOUS
<1>2. /\ Unread(s \o d, p) \in Seq(S)
      /\ Len(Unread(s \o d, p)) = Len(s) + Len(d) - p
      /\ \A i \in 1 .. Len(s) + Len(d) - p : Unread(s \o d, p)[i] = (s \o d)[p + i]
  BY <1>1 DEF Unread
<1>3. /\ Unread(s, p) \in Seq(S)
      /\ Len(Unread(s, p)) = Len(s) - p
      /\ \A i \in 1 .. Len(s) - p : Unread(s, p)[i] = s[p + i]
  BY DEF Unread
<1>4. PICK u \in Seq(S) : u = Unread(s, p)
  BY <1>3
<1>5. /\ u \o d \in Seq(S) /\ Len(u \o d) = Len(s) + Len(d) - p
      /\ \A i \in 1 .. Len(s) + Len(d) - p :
           (u \o d)[i] = IF i <= Len(s) - p THEN u[i] ELSE d[i - (Len(s) - p)]
  <2>1. Len(u) = Len(s) - p
    BY <1>3, <1>4
  <2>2. /\ u \o d \in Seq(S) /\ Len(u \o d) = Len(u) + Len(d)
        /\ \A i \in 1 .. Len(u) + Len(d) :
             (u \o d)[i] = IF i <= Len(u) THEN u[i] ELSE d[i - Len(u)]
    BY ConcatProperties
  <2>3. Len(u) + Len(d) = Len(s) + Len(d) - p
    BY <2>1
  <2>4. QED
    BY <2>1, <2>2, <2>3
<1>6. \A i \in 1 .. Len(s) + Len(d) - p :
        (s \o d)[p + i] = IF i <= Len(s) - p THEN s[p + i] ELSE d[i - (Len(s) - p)]
  OBVIOUS
<1>7. ASSUME NEW i \in 1 .. Len(s) + Len(d) - p
      PROVE  Unread(s \o d, p)[i] = (u \o d)[i]
  <2>1. /\ Unread(s \o d, p)[i] = (s \o d)[p + i]
        /\ (s \o d)[p + i] = IF i <= Len(s) - p THEN s[p + i] ELSE d[i - (Len(s) - p)]
        /\ (u \o d)[i] = IF i <= Len(s) - p THEN u[i] ELSE d[i - (Len(s) - p)]
    BY <1>2, <1>5, <1>6, Zenon
  <2>2. i <= Len(s) - p => u[i] = s[p + i]
    BY <1>3, <1>4
  <2>3. QED
    BY <2>1, <2>2
<1>8. Unread(s \o d, p) = u \o d
  BY <1>2, <1>5, <1>7, SeqEqual
<1>9. QED
  BY <1>4, <1>8

\* What is taken from a sequence in two parts is all of it.
LEMMA TwoParts ==
  ASSUME NEW S, NEW s \in Seq(S), NEW n \in 0 .. Len(s)
  PROVE  SubSeq(s, 1, n) \o SubSeq(s, n + 1, Len(s)) = s
<1>1. /\ 1 \in 1 .. Len(s) + 1 /\ n \in 1 - 1 .. Len(s) /\ Len(s) \in n .. Len(s)
  OBVIOUS
<1>2. SubSeq(s, 1, n) \o SubSeq(s, n + 1, Len(s)) = SubSeq(s, 1, Len(s))
  BY <1>1, ConcatAdjacentSubSeq, Zenon
<1>3. QED
  BY <1>2, SubSeqFull

\* A field and what is behind it is what was unread.
LEMMA UnreadSplit ==
  ASSUME NEW S, NEW s \in Seq(S), NEW p \in 0 .. Len(s), NEW n \in Nat, p + n <= Len(s)
  PROVE  SubSeq(s, p + 1, p + n) \o Unread(s, p + n) = Unread(s, p)
<1>1. PICK m, k : m = p + 1 /\ k = p + n
  OBVIOUS
<1>2. m \in 1 .. Len(s) + 1 /\ k \in m - 1 .. Len(s) /\ Len(s) \in k .. Len(s)
  BY <1>1
<1>3. SubSeq(s, m, k) \o SubSeq(s, k + 1, Len(s)) = SubSeq(s, m, Len(s))
  BY <1>2, ConcatAdjacentSubSeq, Zenon
<1>4. QED
  BY <1>1, <1>3 DEF Unread

\* A message whose head was removed holds what was unread.
LEMMA UnreadOfRest ==
  ASSUME NEW S, NEW s \in Seq(S), NEW p \in 0 .. Len(s)
  PROVE  /\ Unread(s, p) \in Seq(S) /\ Len(Unread(s, p)) = Len(s) - p
         /\ Unread(Unread(s, p), 0) = Unread(s, p)
         /\ Unread(s, 0) = s
  BY DEF Unread

\* The stream and one byte more.
LEMMA StreamGrows ==
  ASSUME NEW n \in Nat
  PROVE  Stream(n) \in Seq(Nat) /\ Len(Stream(n)) = n /\ Append(Stream(n), n + 1) = Stream(n + 1)
  BY DEF Stream

\* The front d of what is under way, moved behind what is unread.
LEMMA Rows ==
  ASSUME NEW g \in Seq(Bytes), NEW u \in Seq(Bytes), NEW d \in Seq(Bytes), NEW r \in Seq(Bytes)
  PROVE  Row(g, u \o d, r) = Row(g, u, d \o r)
<1>1. (g \o (u \o d)) \o r = (g \o u) \o (d \o r)
  BY SMTT(30)
<1>2. QED
  BY <1>1 DEF Row

\* Input goes into the message, behind what is there: the row stays the same.
LEMMA RowReceive ==
  ASSUME NEW g \in Seq(Bytes), NEW q \in Seq(Bytes), NEW p \in 0 .. Len(q),
         NEW d \in Seq(Bytes), NEW r \in Seq(Bytes)
  PROVE  Row(g, Unread(q \o d, p), r) = Row(g, Unread(q, p), d \o r)
<1>1. PICK u \in Seq(Bytes) : u = Unread(q, p)
  BY UnreadOfRest
<1>2. Unread(q \o d, p) = u \o d
  BY <1>1, UnreadAppend
<1>3. Row(g, u \o d, r) = Row(g, u, d \o r)
  BY Rows
<1>4. QED
  BY <1>1, <1>2, <1>3

\* The length of a row.
LEMMA RowLength ==
  ASSUME NEW S, NEW g \in Seq(S), NEW u \in Seq(S), NEW m \in Seq(S)
  PROVE  Len(Row(g, u, m)) = Len(g) + Len(u) + Len(m)
<1>1. PICK gu \in Seq(S) : gu = g \o u /\ Len(gu) = Len(g) + Len(u)
  BY ConcatProperties
<1>2. Len(gu \o m) = Len(gu) + Len(m)
  BY ConcatProperties
<1>3. QED
  BY <1>1, <1>2 DEF Row

\* A field of n bytes.
LEMMA FieldBytes ==
  ASSUME NEW q \in Seq(Bytes), NEW p \in 0 .. Len(q), NEW n \in Nat, p + n <= Len(q)
  PROVE  SubSeq(q, p + 1, p + n) \in Seq(Bytes) /\ Len(SubSeq(q, p + 1, p + n)) = n
<1>1. \A i \in p + 1 .. p + n : q[i] \in Bytes
  OBVIOUS
<1>2. p + 1 \in Int /\ p + n \in Int
  OBVIOUS
<1>3. /\ SubSeq(q, p + 1, p + n) \in Seq(Bytes)
      /\ Len(SubSeq(q, p + 1, p + n)) =
           IF p + 1 <= p + n THEN (p + n) - (p + 1) + 1 ELSE 0
  BY <1>1, <1>2, SubSeqProperties
<1>4. QED
  BY <1>3

\* Three sequences in a row.
LEMMA Three ==
  ASSUME NEW g \in Seq(Bytes), NEW f \in Seq(Bytes), NEW u \in Seq(Bytes)
  PROVE  (g \o f) \o u = g \o (f \o u)
  OBVIOUS

\* A field is read: it moves from what is unread to what was read.
LEMMA RowRead ==
  ASSUME NEW g \in Seq(Bytes), NEW q \in Seq(Bytes), NEW m \in Seq(Bytes),
         NEW p \in 0 .. Len(q), NEW n \in Nat, p + n <= Len(q)
  PROVE  /\ g \o SubSeq(q, p + 1, p + n) \in Seq(Bytes)
         /\ Len(g \o SubSeq(q, p + 1, p + n)) = Len(g) + n
         /\ Row(g \o SubSeq(q, p + 1, p + n), Unread(q, p + n), m) = Row(g, Unread(q, p), m)
<1>1. PICK f \in Seq(Bytes) : f = SubSeq(q, p + 1, p + n) /\ Len(f) = n
  BY FieldBytes
<1>2. p + n \in 0 .. Len(q)
  OBVIOUS
<1>3. PICK u \in Seq(Bytes) : u = Unread(q, p + n)
  BY <1>2, UnreadOfRest
<1>4. f \o u = Unread(q, p)
  BY <1>1, <1>3, UnreadSplit
<1>5. (g \o f) \o u = g \o (f \o u)
  BY Three, ZenonT(30)
<1>6. g \o f \in Seq(Bytes) /\ Len(g \o f) = Len(g) + Len(f)
  BY ConcatProperties
<1>7. QED
  BY <1>1, <1>3, <1>4, <1>5, <1>6 DEF Row

\* The whole message is sent on: it counts as read.
LEMMA RowSend ==
  ASSUME NEW g \in Seq(Bytes), NEW q \in Seq(Bytes), NEW m \in Seq(Bytes)
  PROVE  /\ g \o q \in Seq(Bytes)
         /\ Row(g \o q, Unread(<<>>, 0), m) = Row(g, Unread(q, 0), m)
<1>1. Unread(q, 0) = q
  BY UnreadOfRest
<1>2. Unread(<<>>, 0) = <<>>
  BY DEF Unread
<1>3. PICK gq \in Seq(Bytes) : gq = g \o q
  BY ConcatProperties
<1>4. gq \o <<>> = gq
  BY ConcatEmptySeq
<1>5. QED
  BY <1>1, <1>2, <1>3, <1>4 DEF Row

\* The peer sends: the row ends in the new byte.
LEMMA RowSent ==
  ASSUME NEW g \in Seq(Bytes), NEW u \in Seq(Bytes), NEW m \in Seq(Bytes), NEW k \in Bytes
  PROVE  Row(g, u, Append(m, k)) = Append(Row(g, u, m), k)
<1>1. PICK gu \in Seq(Bytes) : gu = g \o u
  BY ConcatProperties
<1>2. gu \o Append(m, k) = Append(gu \o m, k)
  OBVIOUS
<1>3. QED
  BY <1>1, <1>2 DEF Row
-----------------------------------------------------------------------------
\* Sums of the sizes of a connection.
LEMMA Sums ==
  ASSUME NEW g \in Nat, NEW q \in Nat, NEW m \in Nat, NEW n \in Nat, NEW o \in Nat,
         g + q + m <= n + o
  PROVE  /\ g + q + 0 <= n + o
         /\ o <= q => g + 0 + 0 <= n + 0
         /\ o <= g => q + m <= n
  OBVIOUS

\* What Connect forgets is a number.
LEMMA ForgottenNumber ==
  ASSUME NEW over, NEW result
  PROVE  /\ (IF over = "tcp" THEN 1 ELSE 0) \in {0, 1}
         /\ (IF result = "bad address" THEN 1 ELSE 0) \in {0, 1}
         /\ (IF over = "tcp" THEN 1 ELSE 0) + (IF result = "bad address" THEN 1 ELSE 0) \in Nat
<1>1. PICK x \in {0, 1}, y \in {0, 1} :
        /\ x = (IF over = "tcp" THEN 1 ELSE 0)
        /\ y = (IF result = "bad address" THEN 1 ELSE 0)
  OBVIOUS
<1>2. x + y \in Nat
  OBVIOUS
<1>3. QED
  BY <1>1, <1>2

\* Nothing has happened when the server starts.
LEMMA InitConnInv == ConnInit => ConnInv
<1> SUFFICES ASSUME ConnInit PROVE ConnInv
  OBVIOUS
<1> USE ConnectionAssumption, ConnBoundAssumption DEF ConnInit
<1>1. ConnTypeOK
  <2>1. \A b \in Conns : pos[b] <= Len(buf[b])
    OBVIOUS
  <2>2. reading \in [Conns -> BOOLEAN] /\ spoilt \in [Conns -> BOOLEAN] /\ enableAfter \in BOOLEAN
    OBVIOUS
  <2>3. buf \in [Conns -> Seq(Bytes)] /\ net \in [Conns -> Seq(Bytes)] /\ got \in [Conns -> Seq(Bytes)]
    OBVIOUS
  <2>4. how \in [Conns -> [over : {"none", "tcp", "ssl"}, result : ConnectResults \cup {"none"}]]
    BY DEF NoResult
  <2>5. QED
    BY <2>1, <2>2, <2>3, <2>4 DEF ConnTypeOK
<1>2. CountInv
  BY DEF CountInv
<1>3. ASSUME NEW b \in Conns PROVE BevOK(b)
  <2>1. Forgotten(b) = 0
    <3>1. how[b].over = "none" /\ how[b].result = "none"
      BY DEF NoResult
    <3>2. Forgotten(b) = 0 + 0
      BY <3>1 DEF Forgotten
    <3>3. QED
      BY <3>2
  <2>2. /\ life[b] = "none" /\ refs[b] = 0 /\ made[b] = 0 /\ frees[b] = 0 /\ closes[b] = 0
    OBVIOUS
  <2>3. BevFine("none", 0, 0, 0, 0, 0)
    BY DEF BevFine, InUse
  <2>4. QED
    BY <2>1, <2>2, <2>3 DEF BevOK
<1>4. ASSUME NEW b \in Conns PROVE MsgOK(b)
  BY DEF MsgOK, MsgFine
<1>5. QED
  BY <1>1, <1>2, <1>3, <1>4 DEF ConnInv

\* A step that changes one connection leaves the others good.
LEMMA OneConn ==
  ASSUME ConnInv, NEW b \in Conns, ConnTypeOK', CountInv', BevOK(b)', MsgOK(b)',
         \A d \in Conns : d # b =>
           /\ life'[d] = life[d] /\ buf'[d] = buf[d] /\ pos'[d] = pos[d]
           /\ net'[d] = net[d] /\ sent'[d] = sent[d] /\ got'[d] = got[d]
           /\ refs'[d] = refs[d] /\ made'[d] = made[d] /\ frees'[d] = frees[d]
           /\ closes'[d] = closes[d] /\ how'[d] = how[d] /\ spoilt'[d] = spoilt[d]
  PROVE  ConnInv'
<1>1. ASSUME NEW d \in Conns, d # b PROVE BevOK(d)' /\ MsgOK(d)'
  <2>1. BevOK(d) /\ MsgOK(d)
    BY DEF ConnInv
  <2>2. /\ life'[d] = life[d] /\ buf'[d] = buf[d] /\ pos'[d] = pos[d]
        /\ net'[d] = net[d] /\ sent'[d] = sent[d] /\ got'[d] = got[d]
        /\ refs'[d] = refs[d] /\ made'[d] = made[d] /\ frees'[d] = frees[d]
        /\ closes'[d] = closes[d] /\ how'[d] = how[d] /\ spoilt'[d] = spoilt[d]
    BY <1>1
  <2>3. Forgotten(d)' = Forgotten(d) /\ (Lost(d)' <=> Lost(d))
    BY <2>2 DEF Forgotten, Lost
  <2>4. BevOK(d)'
    BY <2>1, <2>2, <2>3 DEF BevOK, BevFine
  <2>5. MsgOK(d)'
    BY <2>1, <2>2, <2>3 DEF MsgOK, MsgFine
  <2>6. QED
    BY <2>4, <2>5
<1>2. \A d \in Conns : BevOK(d)'
  BY <1>1
<1>3. \A d \in Conns : MsgOK(d)'
  BY <1>1
<1>4. QED
  BY <1>2, <1>3 DEF ConnInv

\* What the invariant says of one connection.
LEMMA ConnTypes ==
  ASSUME ConnInv, NEW b \in Conns
  PROVE  /\ BevOK(b) /\ MsgOK(b) /\ buf[b] \in Seq(Bytes) /\ net[b] \in Seq(Bytes)
         /\ got[b] \in Seq(Bytes) /\ pos[b] \in 0 .. Len(buf[b]) /\ sent[b] \in 0 .. MaxBytes
         /\ life[b] \in {"none", "connecting", "open", "failed", "closed", "unstarted"}
         /\ refs[b] \in Nat /\ made[b] \in Nat /\ frees[b] \in Nat /\ closes[b] \in Nat
<1>1. /\ BevOK(b) /\ MsgOK(b) /\ refs[b] \in Nat /\ made[b] \in Nat /\ frees[b] \in Nat
      /\ closes[b] \in Nat
  BY DEF ConnInv, CountInv
<1>2. /\ buf \in [Conns -> Seq(Bytes)] /\ net \in [Conns -> Seq(Bytes)]
      /\ pos \in [Conns -> 0 .. MaxBytes] /\ sent \in [Conns -> 0 .. MaxBytes]
      /\ got \in [Conns -> Seq(Bytes)] /\ pos[b] <= Len(buf[b])
      /\ life \in [Conns -> {"none", "connecting", "open", "failed", "closed", "unstarted"}]
  BY DEF ConnInv, ConnTypeOK
<1>3. QED
  BY <1>1, <1>2, ConnBoundAssumption

\* How much a connection has sent, holds and read.
LEMMA Sizes ==
  ASSUME ConnInv, NEW b \in Conns
  PROVE  /\ Len(got[b]) \in Nat /\ Len(buf[b]) \in Nat /\ Len(net[b]) \in Nat
         /\ pos[b] \in Nat /\ pos[b] <= Len(buf[b])
         /\ sent[b] \in Nat /\ sent[b] <= MaxBytes
         /\ Len(got[b]) + Len(buf[b]) + Len(net[b]) <= sent[b] + pos[b]
         /\ pos[b] <= Len(got[b])
<1>1. /\ Len(got[b]) + Len(buf[b]) + Len(net[b]) <= sent[b] + pos[b] /\ pos[b] <= Len(got[b])
  BY ConnTypes DEF MsgOK, MsgFine
<1>2. PICK q \in Seq(Bytes), m \in Seq(Bytes), g \in Seq(Bytes) :
        q = buf[b] /\ m = net[b] /\ g = got[b]
  BY ConnTypes
<1>3. Len(q) \in Nat /\ Len(m) \in Nat /\ Len(g) \in Nat
  OBVIOUS
<1>4. pos[b] \in 0 .. Len(q) /\ sent[b] \in 0 .. MaxBytes
  BY <1>2, ConnTypes
<1>5. /\ pos[b] \in Nat /\ pos[b] <= Len(q) /\ sent[b] \in Nat /\ sent[b] <= MaxBytes
  BY <1>3, <1>4, ConnBoundAssumption
<1>6. QED
  BY <1>1, <1>2, <1>3, <1>5

\* Nothing has arrived before a connection is made.
LEMMA NotYet ==
  ASSUME ConnInv, NEW b \in Conns, life[b] \in {"none", "connecting"}
  PROVE  /\ buf[b] = <<>> /\ net[b] = <<>> /\ got[b] = <<>> /\ sent[b] = 0 /\ pos[b] = 0
<1>1. buf[b] = <<>> /\ net[b] = <<>> /\ got[b] = <<>> /\ sent[b] = 0
  BY ConnTypes DEF MsgOK, MsgFine
<1>2. Len(buf[b]) = 0
  BY <1>1
<1>3. PICK o \in Nat : o = pos[b] /\ o <= 0
  BY <1>2, Sizes, Zenon
<1>4. QED
  BY <1>1, <1>3

\* The bufferevents are as they were.
LEMMA SameBev ==
  ASSUME ConnInv, NEW b \in Conns, UNCHANGED bevVars,
         life'[b] = life[b] \/ (life[b] \in InUse /\ life'[b] \in InUse)
  PROVE  CountInv' /\ BevOK(b)'
<1>1. UNCHANGED <<refs, made, frees, closes, how>>
  BY DEF bevVars
<1>2. CountInv'
  BY <1>1 DEF ConnInv, CountInv
<1>3. Forgotten(b)' = Forgotten(b)
  BY <1>1 DEF Forgotten
<1>4. BevOK(b)
  BY ConnTypes
<1>5. BevOK(b)'
  BY <1>1, <1>3, <1>4 DEF BevOK, BevFine, InUse
<1>6. QED
  BY <1>2, <1>5

\* Callbacks that bring no input: accept_cb, write_cb, error_cb and error_cb2.
LEMMA EventStep ==
  ASSUME ConnInv, NEW b \in Conns, AcceptCb(b) \/ WriteCb(b) \/ ErrorCb(b) \/ Connected(b)
  PROVE  ConnInv'
<1> USE ConnectionAssumption, ConnBoundAssumption
<1>1. UNCHANGED <<buf, pos, mode, sent, got, spoilt, how, closes, frees>>
  BY DEF AcceptCb, WriteCb, ErrorCb, Connected, msgVars, peerVars, bevVars
<1>2. ConnTypeOK'
  <2>1. /\ life' \in [Conns -> {"none", "connecting", "open", "failed", "closed", "unstarted"}]
        /\ net' \in [Conns -> Seq(Bytes)] /\ handler' \in Conns
    <3>1. <<>> \in Seq(Bytes)
      OBVIOUS
    <3>2. /\ handler' \in Conns
          /\ net' = net \/ net' = [net EXCEPT ![b] = <<>>]
          /\ \E v \in {"open", "failed"} : life' = life \/ life' = [life EXCEPT ![b] = v]
      BY DEF AcceptCb, WriteCb, ErrorCb, Connected, Dispatch, msgVars, peerVars
    <3>3. /\ life \in [Conns -> {"none", "connecting", "open", "failed", "closed", "unstarted"}]
          /\ net \in [Conns -> Seq(Bytes)]
      BY DEF ConnInv, ConnTypeOK
    <3>4. net' \in [Conns -> Seq(Bytes)]
      BY <3>1, <3>2, <3>3
    <3>5. life' \in [Conns -> {"none", "connecting", "open", "failed", "closed", "unstarted"}]
      BY <3>2, <3>3
    <3>6. QED
      BY <3>2, <3>4, <3>5
  <2>2. reading' \in [Conns -> BOOLEAN] /\ enableAfter' \in BOOLEAN
    BY DEF ConnInv, ConnTypeOK, AcceptCb, WriteCb, ErrorCb, Connected
  <2>3. QED
    BY <1>1, <2>1, <2>2 DEF ConnInv, ConnTypeOK
<1>3. /\ \A d \in Conns : d # b => /\ life'[d] = life[d] /\ net'[d] = net[d]
                                   /\ refs'[d] = refs[d] /\ made'[d] = made[d]
  BY DEF ConnInv, ConnTypeOK, CountInv, AcceptCb, WriteCb, ErrorCb, Connected, peerVars, bevVars
<1>4. Forgotten(b)' = Forgotten(b) /\ (Lost(b)' <=> Lost(b))
  BY <1>1 DEF Forgotten, Lost
<1>5. CountInv' /\ BevOK(b)' /\ MsgOK(b)'
  <2>1. CASE AcceptCb(b)
    <3>1. /\ life[b] = "none" /\ life'[b] = "open" /\ refs' = [refs EXCEPT ![b] = 2]
          /\ made' = [made EXCEPT ![b] = 1] /\ net'[b] = net[b]
      BY <2>1 DEF AcceptCb, ConnInv, ConnTypeOK, peerVars
    <3>2. refs'[b] = 2 /\ made'[b] = 1 /\ CountInv'
      BY <1>1, <3>1 DEF ConnInv, CountInv
    <3>3. /\ buf[b] = <<>> /\ net[b] = <<>> /\ got[b] = <<>> /\ sent[b] = 0 /\ pos[b] = 0
      BY <3>1, NotYet
    <3>4. closes[b] = 0 /\ frees[b] = 0 /\ Forgotten(b) = 0
      BY <3>1, ConnTypes DEF BevOK, BevFine
    <3>5. BevFine("open", 2, 1, 0, 0, 0)
      BY DEF BevFine, InUse
    <3>6. BevOK(b)'
      BY <1>1, <1>4, <3>1, <3>2, <3>4, <3>5 DEF BevOK
    <3>7. MsgOK(b)'
      BY <1>1, <3>1, <3>3 DEF MsgOK, MsgFine, Unread, Stream, Row
    <3>8. QED
      BY <3>2, <3>6, <3>7
  <2>2. CASE WriteCb(b)
    <3>1. UNCHANGED <<life, net>> /\ UNCHANGED bevVars
      BY <2>2 DEF WriteCb, peerVars
    <3>2. MsgOK(b)'
      BY <1>1, <1>4, <3>1, ConnTypes DEF MsgOK, MsgFine
    <3>3. QED
      BY <3>1, <3>2, SameBev
  <2>3. CASE ErrorCb(b)
    <3>1. /\ life[b] \in InUse /\ life'[b] = "failed" /\ net'[b] = <<>> /\ UNCHANGED bevVars
      BY <2>3 DEF ErrorCb, ConnInv, ConnTypeOK, InUse
    <3>2. /\ Len(got[b]) + Len(buf[b]) + Len(net[b]) <= sent[b] + pos[b] /\ pos[b] <= Len(got[b])
          /\ Len(net[b]) \in Nat /\ Len(got[b]) \in Nat /\ Len(buf[b]) \in Nat
          /\ sent[b] \in Nat /\ pos[b] \in Nat
      BY Sizes
    <3>3. Len(got[b]) + Len(buf[b]) + 0 <= sent[b] + pos[b]
      <4>1. PICK q \in Nat, m \in Nat, g \in Nat, o \in Nat, n \in Nat :
              /\ q = Len(buf[b]) /\ m = Len(net[b]) /\ g = Len(got[b]) /\ o = pos[b]
              /\ n = sent[b]
        BY <3>2
      <4>2. g + q + m <= n + o
        BY <3>2, <4>1
      <4>3. g + q + 0 <= n + o
        BY <4>2, Sums
      <4>4. QED
        BY <4>1, <4>3
    <3>4. MsgOK(b)'
      BY <1>1, <3>1, <3>2, <3>3 DEF MsgOK, MsgFine
    <3>5. QED
      BY <3>1, <3>4, SameBev DEF InUse
  <2>4. CASE Connected(b)
    <3>1. /\ life[b] = "connecting" /\ life'[b] = "open" /\ net'[b] = net[b] /\ UNCHANGED bevVars
      BY <2>4 DEF Connected, ConnInv, ConnTypeOK, peerVars
    <3>2. /\ buf[b] = <<>> /\ net[b] = <<>> /\ got[b] = <<>> /\ sent[b] = 0 /\ pos[b] = 0
      BY <3>1, NotYet
    <3>3. MsgOK(b)'
      BY <1>1, <3>1, <3>2 DEF MsgOK, MsgFine, Unread, Stream, Row
    <3>4. QED
      BY <3>1, <3>3, SameBev DEF InUse
  <2>5. QED
    BY <2>1, <2>2, <2>3, <2>4
<1>6. QED
  BY <1>1, <1>2, <1>3, <1>5, OneConn

\* A message holds no more than was sent.
LEMMA MessageFits ==
  ASSUME ConnInv, NEW b \in Conns
  PROVE  Len(buf[b]) + Len(net[b]) <= MaxBytes
<1>1. PICK q \in Nat, m \in Nat, g \in Nat, o \in Nat, n \in Nat :
        /\ q = Len(buf[b]) /\ m = Len(net[b]) /\ g = Len(got[b]) /\ o = pos[b] /\ n = sent[b]
  BY Sizes
<1>2. g + q + m <= n + o /\ o <= g /\ n <= MaxBytes
  BY <1>1, Sizes
<1>3. q + m <= MaxBytes
  BY <1>2, ConnBoundAssumption
<1>4. QED
  BY <1>1, <1>3

\* What Overwrite at the front of a message leaves.
LEMMA OverwriteAtFront ==
  ASSUME NEW q \in Seq(Bytes), NEW d \in Seq(Bytes)
  PROVE  /\ Overwrite(q, 0, d) \in Seq(Bytes)
         /\ Len(q) <= Len(Overwrite(q, 0, d))
         /\ Len(Overwrite(q, 0, d)) <= Len(q) + Len(d)
         /\ q = <<>> => Overwrite(q, 0, d) = d
<1>1. PICK k \in Nat : k = Len(d) + 1
  OBVIOUS
<1>2. PICK r : r = SubSeq(q, k, Len(q))
  OBVIOUS
<1>3. r \in Seq(Bytes) /\ Len(r) = IF k <= Len(q) THEN Len(q) - k + 1 ELSE 0
  BY <1>1, <1>2
<1>4. PICK e : e = SubSeq(q, 1, 0)
  OBVIOUS
<1>5. e = <<>>
  BY <1>4
<1>6. e \o d = d
  BY <1>5, ConcatEmptySeq
<1>7. d \o r \in Seq(Bytes) /\ Len(d \o r) = Len(d) + Len(r)
  BY <1>3, ConcatProperties
<1>8. 0 + Len(d) + 1 = k
  BY <1>1
<1>9. Overwrite(q, 0, d) = d \o r
  BY <1>2, <1>4, <1>6, <1>8 DEF Overwrite
<1>10. ASSUME q = <<>> PROVE d \o r = d
  <2>1. Len(q) = 0
    BY <1>10
  <2>2. Len(r) = 0
    BY <1>1, <1>3, <2>1
  <2>3. r = <<>>
    BY <1>3, <2>2
  <2>4. QED
    BY <2>3, ConcatEmptySeq
<1>11. Len(q) <= Len(d) + Len(r) /\ Len(d) + Len(r) <= Len(q) + Len(d)
  BY <1>1, <1>3
<1>12. QED
  BY <1>7, <1>9, <1>10, <1>11

\* Input goes into the message, behind what is there or over it.
LEMMA ReceiveStep ==
  ASSUME ConnInv, NEW b \in Conns, ReadCb(b) \/ ReadCb2(b)
  PROVE  ConnInv'
<1> USE ConnectionAssumption, ConnBoundAssumption
<1>1. PICK q \in Seq(Bytes), m \in Seq(Bytes), g \in Seq(Bytes) :
        q = buf[b] /\ m = net[b] /\ g = got[b]
  BY ConnTypes
<1>2. PICK o \in 0 .. Len(q) : o = pos[b]
  BY <1>1, ConnTypes
<1>3. PICK p : /\ Receive(b, p)
               /\ \/ p = Len(q) /\ spoilt' = spoilt
                  \/ p = 0 /\ b \in Opened /\ spoilt' = [spoilt EXCEPT ![b] = @ \/ q # <<>>]
  <2>1. CASE ReadCb(b)
    BY <1>1, <2>1 DEF ReadCb
  <2>2. CASE ReadCb2(b)
    BY <1>1, <2>2, Zenon DEF ReadCb2
  <2>3. QED
    BY <2>1, <2>2
<1>4. /\ life[b] = "open" /\ handler' = b
      /\ UNCHANGED <<life, reading, pos, mode, enableAfter, sent, got>> /\ UNCHANGED bevVars
  BY <1>3 DEF Receive, Dispatch
<1>5. PICK n \in 1 .. Len(m) :
        /\ buf' = [buf EXCEPT ![b] = Overwrite(q, p, SubSeq(m, 1, n))]
        /\ net' = [net EXCEPT ![b] = SubSeq(m, n + 1, Len(m))]
  BY <1>1, <1>3 DEF Receive
<1>6. PICK d \in Seq(Bytes), r \in Seq(Bytes) :
        /\ d = SubSeq(m, 1, n) /\ r = SubSeq(m, n + 1, Len(m))
        /\ Len(d) = n /\ Len(r) = Len(m) - n /\ d \o r = m
  <2>1. n \in 0 .. Len(m)
    BY <1>5
  <2>2. /\ SubSeq(m, 1, n) \in Seq(Bytes) /\ Len(SubSeq(m, 1, n)) = n
        /\ SubSeq(m, n + 1, Len(m)) \in Seq(Bytes) /\ Len(SubSeq(m, n + 1, Len(m))) = Len(m) - n
    BY <2>1
  <2>3. SubSeq(m, 1, n) \o SubSeq(m, n + 1, Len(m)) = m
    BY <2>1, TwoParts
  <2>4. QED
    BY <2>2, <2>3
<1>7. q \o d \in Seq(Bytes) /\ Len(q \o d) = Len(q) + n
  BY <1>6, ConcatProperties
<1>8. PICK s \in Seq(Bytes) :
        /\ buf' = [buf EXCEPT ![b] = s] /\ net' = [net EXCEPT ![b] = r]
        /\ Len(q) <= Len(s) /\ Len(s) <= Len(q) + n
        /\ \/ s = q \o d
           \/ q # <<>> /\ b \in Opened /\ spoilt' = [spoilt EXCEPT ![b] = @ \/ q # <<>>]
  <2>1. CASE p = Len(q)
    <3>1. Overwrite(q, p, d) = q \o d
      BY <2>1, OverwriteAtEnd
    <3>2. PICK s \in Seq(Bytes) : s = q \o d /\ Len(s) = Len(q) + n
      BY <1>7
    <3>3. buf' = [buf EXCEPT ![b] = s] /\ net' = [net EXCEPT ![b] = r]
      BY <1>5, <1>6, <3>1, <3>2
    <3>4. Len(q) <= Len(s) /\ Len(s) <= Len(q) + n
      BY <3>2
    <3>5. QED
      BY <3>2, <3>3, <3>4
  <2>2. CASE /\ p = 0 /\ b \in Opened
             /\ spoilt' = [spoilt EXCEPT ![b] = @ \/ q # <<>>]
    <3>1. PICK s \in Seq(Bytes) :
            /\ s = Overwrite(q, 0, d) /\ Len(q) <= Len(s) /\ Len(s) <= Len(q) + Len(d)
            /\ q = <<>> => s = d
      BY OverwriteAtFront
    <3>2. q = <<>> => s = q \o d
      BY <3>1, ConcatEmptySeq
    <3>3. QED
      BY <1>5, <1>6, <2>2, <3>1, <3>2
  <2>3. QED
    BY <1>3, <2>1, <2>2
<1>9. /\ buf'[b] = s /\ net'[b] = r
      /\ \A x \in Conns : x # b => buf'[x] = buf[x] /\ net'[x] = net[x]
  BY <1>8 DEF ConnInv, ConnTypeOK
<1>10. /\ spoilt' \in [Conns -> BOOLEAN]
       /\ \A x \in Conns : x # b => spoilt'[x] = spoilt[x]
       /\ Lost(b) => Lost(b)'
       /\ s = q \o d \/ Lost(b)'
  <2>1. spoilt \in [Conns -> BOOLEAN]
    BY DEF ConnInv, ConnTypeOK
  <2>2. CASE UNCHANGED spoilt /\ s = q \o d
    BY <2>1, <2>2 DEF Lost
  <2>3. CASE b \in Opened /\ spoilt' = [spoilt EXCEPT ![b] = @ \/ q # <<>>]
    <3>1. spoilt'[b] = (spoilt[b] \/ q # <<>>)
      BY <2>1, <2>3
    <3>2. /\ spoilt' \in [Conns -> BOOLEAN]
          /\ \A x \in Conns : x # b => spoilt'[x] = spoilt[x]
      BY <2>1, <2>3
    <3>3. Lost(b) => Lost(b)'
      BY <2>3, <3>1 DEF Lost
    <3>4. q # <<>> => Lost(b)'
      BY <2>3, <3>1 DEF Lost
    <3>5. s = q \o d \/ q # <<>>
      BY <1>8
    <3>6. QED
      BY <3>2, <3>3, <3>4, <3>5
  <2>4. q # <<>> \/ s = q \o d
    BY <1>8
  <2>5. CASE UNCHANGED spoilt /\ p = Len(q)
    <3>1. Overwrite(q, p, d) = q \o d
      BY <2>5, OverwriteAtEnd
    <3>2. buf'[b] = q \o d
      BY <1>5, <1>6, <3>1 DEF ConnInv, ConnTypeOK
    <3>3. QED
      BY <1>9, <2>2, <2>5, <3>2
  <2>6. QED
    BY <1>3, <2>3, <2>5
<1>11. MsgOK(b)'
  <2>1. /\ Len(g) + Len(q) + Len(m) <= sent[b] + o /\ o <= Len(g)
        /\ ~Lost(b) => Row(g, Unread(q, o), m) = Stream(sent[b])
    BY <1>1, <1>2, <1>4, ConnTypes DEF MsgOK, MsgFine
  <2>2. Len(g) + Len(s) + Len(r) <= sent[b] + o
    <3>1. /\ Len(g) \in Nat /\ Len(q) \in Nat /\ Len(m) \in Nat /\ Len(s) \in Nat
          /\ Len(r) \in Nat /\ sent[b] \in Nat /\ n \in Nat /\ o \in Nat
      BY ConnTypes
    <3>2. Len(s) <= Len(q) + n /\ Len(r) = Len(m) - n
      BY <1>6, <1>8
    <3>3. QED
      BY <2>1, <3>1, <3>2
  <2>3. ASSUME ~Lost(b)' PROVE Row(g, Unread(s, o), r) = Stream(sent[b])
    <3>1. s = q \o d /\ ~Lost(b)
      BY <1>10, <2>3
    <3>2. Row(g, Unread(q \o d, o), r) = Row(g, Unread(q, o), d \o r)
      BY RowReceive
    <3>3. d \o r = m
      BY <1>6
    <3>4. QED
      BY <2>1, <3>1, <3>2, <3>3
  <2>4. QED
    BY <1>1, <1>2, <1>4, <1>9, <2>1, <2>2, <2>3 DEF MsgOK, MsgFine
<1>12. ConnTypeOK'
  <2>1. buf' \in [Conns -> Seq(Bytes)] /\ net' \in [Conns -> Seq(Bytes)]
    BY <1>8 DEF ConnInv, ConnTypeOK
  <2>2. \A x \in Conns : pos[x] <= Len(buf'[x])
    <3>1. pos[b] <= Len(buf'[b])
      <4>1. o <= Len(q) /\ Len(q) <= Len(s) /\ o \in Nat /\ Len(q) \in Nat /\ Len(s) \in Nat
        BY <1>8
      <4>2. o <= Len(s)
        BY <4>1
      <4>3. QED
        BY <1>2, <1>9, <4>2
    <3>2. \A x \in Conns : pos[x] <= Len(buf[x])
      BY DEF ConnInv, ConnTypeOK
    <3>3. QED
      BY <1>9, <3>1, <3>2
  <2>3. UNCHANGED how
    BY <1>4 DEF bevVars
  <2>4. QED
    BY <1>4, <1>10, <2>1, <2>2, <2>3 DEF ConnInv, ConnTypeOK
<1>13. CountInv' /\ BevOK(b)'
  BY <1>4, SameBev
<1>14. UNCHANGED <<refs, made, frees, closes, how>>
  BY <1>4 DEF bevVars
<1>15. QED
  BY <1>4, <1>9, <1>10, <1>11, <1>12, <1>13, <1>14, OneConn

\* A field of an event is read.
LEMMA ReadStep ==
  ASSUME ConnInv, NEW b \in Conns, NEW n \in 1 .. MaxBytes, Read(b, n)
  PROVE  ConnInv'
<1> USE ConnBoundAssumption
<1>1. PICK q \in Seq(Bytes), m \in Seq(Bytes), g \in Seq(Bytes) :
        q = buf[b] /\ m = net[b] /\ g = got[b]
  BY ConnTypes
<1>2. PICK o \in 0 .. Len(q) : o = pos[b]
  BY <1>1, ConnTypes
<1>3. /\ o + n <= Len(q) /\ life[b] \in InUse
      /\ got' = [got EXCEPT ![b] = g \o SubSeq(q, o + 1, o + n)]
      /\ pos' = [pos EXCEPT ![b] = o + n]
      /\ UNCHANGED <<life, reading, buf, mode, spoilt, handler, enableAfter, net, sent>>
      /\ UNCHANGED bevVars
  BY <1>1, <1>2 DEF Read, peerVars, Live, InUse
<1>4. PICK h \in Seq(Bytes) :
        /\ h = g \o SubSeq(q, o + 1, o + n) /\ Len(h) = Len(g) + n
        /\ Row(h, Unread(q, o + n), m) = Row(g, Unread(q, o), m)
  <2>1. n \in Nat /\ o + n <= Len(q)
    BY <1>3
  <2>2. /\ g \o SubSeq(q, o + 1, o + n) \in Seq(Bytes)
        /\ Len(g \o SubSeq(q, o + 1, o + n)) = Len(g) + n
        /\ Row(g \o SubSeq(q, o + 1, o + n), Unread(q, o + n), m) = Row(g, Unread(q, o), m)
    BY <2>1, RowRead, ZenonT(30)
  <2>3. QED
    BY <2>2
<1>5. /\ got'[b] = h /\ pos'[b] = o + n
      /\ \A d \in Conns : d # b => got'[d] = got[d] /\ pos'[d] = pos[d]
  BY <1>3, <1>4 DEF ConnInv, ConnTypeOK
<1>6. Len(q) <= MaxBytes
  <2>1. Len(q) + Len(m) <= MaxBytes
    BY <1>1, MessageFits
  <2>2. Len(q) \in Nat /\ Len(m) \in Nat
    OBVIOUS
  <2>3. QED
    BY <2>1, <2>2
<1>7. MsgOK(b)'
  <2>1. /\ Len(g) + Len(q) + Len(m) <= sent[b] + o /\ o <= Len(g)
        /\ life[b] = "open" /\ ~Lost(b) => Row(g, Unread(q, o), m) = Stream(sent[b])
        /\ life[b] \in {"none", "connecting"} => q = <<>>
    BY <1>1, <1>2, ConnTypes DEF MsgOK, MsgFine
  <2>2. life[b] \notin {"none", "connecting"}
    BY <1>3, <2>1
  <2>3. Len(h) + Len(q) + Len(m) <= sent[b] + (o + n) /\ o + n <= Len(h)
    <3>1. /\ Len(g) \in Nat /\ Len(q) \in Nat /\ Len(m) \in Nat /\ Len(h) \in Nat
          /\ sent[b] \in Nat /\ n \in Nat /\ o \in Nat
      BY ConnTypes
    <3>2. Len(h) = Len(g) + n
      BY <1>4
    <3>3. QED
      BY <2>1, <3>1, <3>2
  <2>4. Lost(b)' <=> Lost(b)
    BY <1>3 DEF Lost
  <2>5. life[b] = "open" /\ ~Lost(b)' => Row(h, Unread(q, o + n), m) = Stream(sent[b])
    BY <1>4, <2>1, <2>4
  <2>6. QED
    BY <1>1, <1>3, <1>5, <2>2, <2>3, <2>5 DEF MsgOK, MsgFine
<1>8. ConnTypeOK'
  <2>1. got' \in [Conns -> Seq(Bytes)]
    BY <1>3, <1>4 DEF ConnInv, ConnTypeOK
  <2>2. pos' \in [Conns -> 0 .. MaxBytes]
    <3>1. o + n \in 0 .. MaxBytes
      BY <1>3, <1>6
    <3>2. QED
      BY <1>3, <3>1 DEF ConnInv, ConnTypeOK
  <2>3. \A d \in Conns : pos'[d] <= Len(buf[d])
    <3>1. pos'[b] <= Len(buf[b])
      BY <1>1, <1>3, <1>5
    <3>2. \A d \in Conns : pos[d] <= Len(buf[d])
      BY DEF ConnInv, ConnTypeOK
    <3>3. QED
      BY <1>5, <3>1, <3>2
  <2>4. QED
    BY <1>3, <2>1, <2>2, <2>3 DEF ConnInv, ConnTypeOK, bevVars
<1>9. CountInv' /\ BevOK(b)'
  BY <1>3, SameBev
<1>10. UNCHANGED <<refs, made, frees, closes, how>>
  BY <1>3 DEF bevVars
<1>11. QED
  BY <1>3, <1>5, <1>7, <1>8, <1>9, <1>10, OneConn

\* The script takes input out of a message: what it read, or all of it.
LEMMA TakeStep ==
  ASSUME ConnInv, NEW b \in Conns, RemoveHeadBuffer(b) \/ Send2Client(b)
  PROVE  ConnInv'
<1> USE ConnBoundAssumption
<1>1. PICK q \in Seq(Bytes), m \in Seq(Bytes), g \in Seq(Bytes) :
        q = buf[b] /\ m = net[b] /\ g = got[b]
  BY ConnTypes
<1>2. PICK o \in 0 .. Len(q) : o = pos[b]
  BY <1>1, ConnTypes
<1>3. /\ q # <<>>
      /\ UNCHANGED <<life, reading, mode, spoilt, handler, enableAfter, net, sent>>
      /\ UNCHANGED bevVars
  <2>1. /\ (o > 0 \/ q # <<>>)
        /\ UNCHANGED <<life, reading, mode, spoilt, handler, enableAfter, net, sent>>
        /\ UNCHANGED bevVars
    BY <1>1, <1>2 DEF RemoveHeadBuffer, Send2Client, peerVars
  <2>2. o > 0 => q # <<>>
    OBVIOUS
  <2>3. QED
    BY <2>1, <2>2
<1>4. PICK s \in Seq(Bytes), h \in Seq(Bytes) :
        /\ buf' = [buf EXCEPT ![b] = s] /\ got' = [got EXCEPT ![b] = h]
        /\ pos' = [pos EXCEPT ![b] = 0]
        /\ Len(h) + Len(s) = Len(g) + Len(q) - o
        /\ Row(h, Unread(s, 0), m) = Row(g, Unread(q, o), m)
  <2>1. CASE RemoveHeadBuffer(b)
    <3>1. PICK s \in Seq(Bytes) :
            s = Unread(q, o) /\ Len(s) = Len(q) - o /\ Unread(s, 0) = Unread(q, o)
      BY UnreadOfRest
    <3>2. buf' = [buf EXCEPT ![b] = s] /\ pos' = [pos EXCEPT ![b] = 0]
      BY <1>1, <1>2, <2>1, <3>1 DEF RemoveHeadBuffer, Unread
    <3>3. got' = [got EXCEPT ![b] = g]
      BY <1>1, <2>1 DEF RemoveHeadBuffer, ConnInv, ConnTypeOK
    <3>4. Len(g) + Len(s) = Len(g) + Len(q) - o
      BY <3>1
    <3>5. QED
      BY <3>1, <3>2, <3>3, <3>4
  <2>2. CASE Send2Client(b)
    <3>1. /\ o = 0 /\ got' = [got EXCEPT ![b] = g \o q] /\ buf' = [buf EXCEPT ![b] = <<>>]
          /\ UNCHANGED pos
      BY <1>1, <1>2, <2>2 DEF Send2Client
    <3>2. pos' = [pos EXCEPT ![b] = 0]
      BY <1>2, <3>1 DEF ConnInv, ConnTypeOK
    <3>3. PICK h \in Seq(Bytes) :
            h = g \o q /\ Row(h, Unread(<<>>, 0), m) = Row(g, Unread(q, 0), m)
      BY RowSend
    <3>4. Len(h) = Len(g) + Len(q)
      BY <3>3, ConcatProperties
    <3>5. <<>> \in Seq(Bytes) /\ Len(h) + Len(<<>>) = Len(g) + Len(q) - o
      BY <3>1, <3>4
    <3>6. QED
      BY <3>1, <3>2, <3>3, <3>5
  <2>3. QED
    BY <2>1, <2>2
<1>5. /\ got'[b] = h /\ pos'[b] = 0 /\ buf'[b] = s
      /\ \A d \in Conns : d # b => got'[d] = got[d] /\ pos'[d] = pos[d] /\ buf'[d] = buf[d]
  BY <1>4 DEF ConnInv, ConnTypeOK
<1>6. MsgOK(b)'
  <2>1. /\ Len(g) + Len(q) + Len(m) <= sent[b] + o
        /\ life[b] = "open" /\ ~Lost(b) => Row(g, Unread(q, o), m) = Stream(sent[b])
        /\ life[b] \notin {"none", "connecting"}
    BY <1>1, <1>2, <1>3, ConnTypes DEF MsgOK, MsgFine
  <2>2. Len(h) + Len(s) + Len(m) <= sent[b] + 0 /\ 0 <= Len(h)
    <3>1. /\ Len(g) \in Nat /\ Len(q) \in Nat /\ Len(m) \in Nat /\ Len(h) \in Nat
          /\ Len(s) \in Nat /\ sent[b] \in Nat /\ o \in Nat
      BY ConnTypes
    <3>2. Len(h) + Len(s) = Len(g) + Len(q) - o
      BY <1>4
    <3>3. QED
      BY <2>1, <3>1, <3>2
  <2>3. Lost(b)' <=> Lost(b)
    BY <1>3 DEF Lost
  <2>4. life[b] = "open" /\ ~Lost(b)' => Row(h, Unread(s, 0), m) = Stream(sent[b])
    BY <1>4, <2>1, <2>3
  <2>5. QED
    BY <1>1, <1>3, <1>5, <2>1, <2>2, <2>4 DEF MsgOK, MsgFine
<1>7. ConnTypeOK'
  <2>1. /\ got' \in [Conns -> Seq(Bytes)] /\ buf' \in [Conns -> Seq(Bytes)]
        /\ pos' \in [Conns -> 0 .. MaxBytes]
    BY <1>4, SMTT(30) DEF ConnInv, ConnTypeOK
  <2>2. \A d \in Conns : pos'[d] <= Len(buf'[d])
    <3>1. pos'[b] <= Len(buf'[b])
      BY <1>5
    <3>2. \A d \in Conns : pos[d] <= Len(buf[d])
      BY DEF ConnInv, ConnTypeOK
    <3>3. QED
      BY <1>5, <3>1, <3>2
  <2>3. QED
    BY <1>3, <2>1, <2>2 DEF ConnInv, ConnTypeOK, bevVars
<1>8. CountInv' /\ BevOK(b)'
  BY <1>3, SameBev
<1>9. UNCHANGED <<refs, made, frees, closes, how>>
  BY <1>3 DEF bevVars
<1>10. QED
  BY <1>3, <1>5, <1>6, <1>7, <1>8, <1>9, OneConn

\* The script opens a connection: what is made is in use, freed or forgotten.
LEMMA ConnectStep ==
  ASSUME ConnInv, NEW b \in Conns, Connect(b)
  PROVE  ConnInv'
<1>1. /\ life[b] = "none"
      /\ UNCHANGED <<buf, pos, mode, closes, spoilt, handler, enableAfter, net, sent, got>>
  BY DEF Connect, msgVars, peerVars
<1>2. PICK over \in {"tcp", "ssl"}, result \in ConnectResults :
        /\ how' = [how EXCEPT ![b] = [over |-> over, result |-> result]]
        /\ made' = [made EXCEPT ![b] = MadeByConnect(over, result)]
        /\ \/ /\ result = "started"
              /\ life' = [life EXCEPT ![b] = "connecting"]
              /\ \E dns \in BOOLEAN : reading' = [reading EXCEPT ![b] = dns]
              /\ refs' = [refs EXCEPT ![b] = 2]
              /\ UNCHANGED frees
           \/ /\ result # "started"
              /\ life' = [life EXCEPT ![b] = "unstarted"]
              /\ frees' = [frees EXCEPT ![b] = IF result \in {"bad name", "refused"} THEN 1 ELSE 0]
              /\ UNCHANGED <<reading, refs>>
  BY DEF Connect
<1>3. PICK k \in Nat, w \in Nat, f \in Nat :
        /\ k = (IF over = "tcp" THEN 1 ELSE 0) + (IF result = "bad address" THEN 1 ELSE 0)
        /\ w = MadeByConnect(over, result)
        /\ f = IF result \in {"bad name", "refused"} THEN 1 ELSE 0
        /\ result = "started" => w = 0 + 1 + k
        /\ result # "started" => w = f + 0 + k
  <2>1. PICK x \in {0, 1}, y \in {0, 1}, z \in {0, 1}, f \in {0, 1} :
          /\ x = (IF over = "tcp" THEN 1 ELSE 0)
          /\ y = (IF result = "bad address" THEN 1 ELSE 0)
          /\ z = (IF result = "no bufferevent" THEN 0 ELSE 1)
          /\ f = (IF result \in {"bad name", "refused"} THEN 1 ELSE 0)
    OBVIOUS
  <2>2. /\ result = "started" => y = 0 /\ z = 1
        /\ result = "no bufferevent" => y = 0 /\ z = 0 /\ f = 0
        /\ result = "bad address" => y = 1 /\ z = 1 /\ f = 0
        /\ result \in {"bad name", "refused"} => y = 0 /\ z = 1 /\ f = 1
    BY <2>1
  <2>3. /\ y = 0 /\ z = 1 => x + z = 0 + 1 + (x + y)
        /\ y = 0 /\ z = 0 /\ f = 0 => x + z = f + 0 + (x + y)
        /\ y = 1 /\ z = 1 /\ f = 0 => x + z = f + 0 + (x + y)
        /\ y = 0 /\ z = 1 /\ f = 1 => x + z = f + 0 + (x + y)
    OBVIOUS
  <2>4. x + y \in Nat /\ x + z \in Nat /\ f \in Nat
    OBVIOUS
  <2>5. result # "started" => result \in {"no bufferevent", "bad address", "bad name", "refused"}
    BY DEF ConnectResults
  <2>6. /\ result = "started" => x + z = 0 + 1 + (x + y)
        /\ result # "started" => x + z = f + 0 + (x + y)
    BY <2>2, <2>3, <2>5, Zenon
  <2>7. QED
    BY <2>1, <2>4, <2>6 DEF MadeByConnect
<1>4. /\ buf[b] = <<>> /\ net[b] = <<>> /\ got[b] = <<>> /\ sent[b] = 0 /\ pos[b] = 0
  BY <1>1, NotYet
<1>5. refs[b] = 0 /\ frees[b] = 0 /\ closes[b] = 0
  BY <1>1, ConnTypes DEF BevOK, BevFine
<1>6. /\ life \in [Conns -> {"none", "connecting", "open", "failed", "closed", "unstarted"}]
      /\ refs \in [Conns -> Nat] /\ made \in [Conns -> Nat] /\ frees \in [Conns -> Nat]
      /\ closes \in [Conns -> Nat] /\ reading \in [Conns -> BOOLEAN]
      /\ how \in [Conns -> [over : {"none", "tcp", "ssl"}, result : ConnectResults \cup {"none"}]]
  BY DEF ConnInv, ConnTypeOK, CountInv
<1>7. Forgotten(b)' = k
  <2>1. how'[b] = [over |-> over, result |-> result]
    BY <1>2, <1>6
  <2>2. how'[b].over = over /\ how'[b].result = result
    BY <2>1
  <2>3. QED
    BY <1>3, <2>2 DEF Forgotten
<1>8. /\ how' \in [Conns -> [over : {"none", "tcp", "ssl"}, result : ConnectResults \cup {"none"}]]
      /\ \A d \in Conns : d # b => how'[d] = how[d]
  <2>1. [over |-> over, result |-> result] \in [over : {"none", "tcp", "ssl"}, result : ConnectResults \cup {"none"}]
    OBVIOUS
  <2>2. QED
    BY <1>2, <1>6, <2>1
<1>9. /\ made' \in [Conns -> Nat] /\ made'[b] = w
      /\ \A d \in Conns : d # b => made'[d] = made[d]
  BY <1>2, <1>3, <1>6
<1>10. /\ refs' \in [Conns -> Nat] /\ frees' \in [Conns -> Nat] /\ reading' \in [Conns -> BOOLEAN]
       /\ life' \in [Conns -> {"none", "connecting", "open", "failed", "closed", "unstarted"}]
       /\ \A d \in Conns : d # b => /\ refs'[d] = refs[d] /\ frees'[d] = frees[d]
                                    /\ life'[d] = life[d]
       /\ \/ result = "started" /\ life'[b] = "connecting" /\ refs'[b] = 2 /\ frees'[b] = 0
          \/ result # "started" /\ life'[b] = "unstarted" /\ refs'[b] = 0 /\ frees'[b] = f
  <2>1. CASE /\ result = "started"
             /\ life' = [life EXCEPT ![b] = "connecting"]
             /\ \E dns \in BOOLEAN : reading' = [reading EXCEPT ![b] = dns]
             /\ refs' = [refs EXCEPT ![b] = 2]
             /\ UNCHANGED frees
    BY <1>5, <1>6, <2>1
  <2>2. CASE /\ result # "started"
             /\ life' = [life EXCEPT ![b] = "unstarted"]
             /\ frees' = [frees EXCEPT ![b] = IF result \in {"bad name", "refused"} THEN 1 ELSE 0]
             /\ UNCHANGED <<reading, refs>>
    <3>1. frees' = [frees EXCEPT ![b] = f]
      BY <1>3, <2>2
    <3>2. QED
      BY <1>5, <1>6, <2>2, <3>1
  <2>3. QED
    BY <1>2, <2>1, <2>2
<1>11. BevOK(b)'
  <2>1. CASE result = "started"
    <3>1. BevFine("connecting", 2, w, 0, 0, k)
      BY <1>3, <2>1 DEF BevFine, InUse
    <3>2. QED
      BY <1>1, <1>5, <1>7, <1>9, <1>10, <2>1, <3>1 DEF BevOK
  <2>2. CASE result # "started"
    <3>1. BevFine("unstarted", 0, w, f, 0, k)
      BY <1>3, <2>2 DEF BevFine, InUse
    <3>2. QED
      BY <1>1, <1>5, <1>7, <1>9, <1>10, <2>2, <3>1 DEF BevOK
  <2>3. QED
    BY <2>1, <2>2
<1>12. MsgOK(b)'
  BY <1>1, <1>4, <1>10 DEF MsgOK, MsgFine
<1>13. ConnTypeOK' /\ CountInv'
  BY <1>1, <1>6, <1>8, <1>9, <1>10 DEF ConnInv, ConnTypeOK, CountInv
<1>14. QED
  BY <1>1, <1>8, <1>9, <1>10, <1>11, <1>12, <1>13, OneConn

\* The script sets a mode.
LEMMA ModeStep ==
  ASSUME ConnInv, NEW b \in Conns, NEW m \in {"SM_READ", "SM_WRITE"}, SetMode(b, m)
  PROVE  ConnInv'
<1>1. /\ UNCHANGED <<life, reading, buf, pos, spoilt, handler, enableAfter, net, sent, got>>
      /\ UNCHANGED bevVars
      /\ mode' \in [Conns -> {"SM_READ", "SM_WRITE"}]
  BY DEF SetMode, peerVars, ConnInv, ConnTypeOK
<1>2. ConnTypeOK'
  BY <1>1 DEF ConnInv, ConnTypeOK, bevVars
<1>3. MsgOK(b)'
  BY <1>1, ConnTypes DEF MsgOK, MsgFine, Lost
<1>4. CountInv' /\ BevOK(b)'
  BY <1>1, SameBev
<1>5. UNCHANGED <<refs, made, frees, closes, how>>
  BY <1>1 DEF bevVars
<1>6. QED
  BY <1>1, <1>2, <1>3, <1>4, <1>5, OneConn

\* The script closes a connection, for the first time or again.
LEMMA CloseStep ==
  ASSUME ConnInv, NEW b \in Conns, CloseClient(b)
  PROVE  ConnInv'
<1> USE ConnBoundAssumption
<1>1. /\ life[b] \in InUse \/ life[b] = "closed"
      /\ UNCHANGED <<reading, mode, made, how, spoilt, handler, enableAfter, sent, got>>
      /\ life' = [life EXCEPT ![b] = "closed"]
      /\ buf' = [buf EXCEPT ![b] = <<>>] /\ pos' = [pos EXCEPT ![b] = 0]
      /\ net' = [net EXCEPT ![b] = <<>>]
  BY DEF CloseClient, Live, InUse
<1>2. /\ refs' \in [Conns -> Nat] /\ frees' \in [Conns -> Nat] /\ closes' \in [Conns -> Nat]
      /\ refs'[b] = 0 /\ frees'[b] = frees[b] + 1 /\ closes'[b] = closes[b] + 1
      /\ \A d \in Conns : d # b => /\ refs'[d] = refs[d] /\ frees'[d] = frees[d]
                                   /\ closes'[d] = closes[d]
  BY DEF CloseClient, ConnInv, CountInv
<1>3. /\ life'[b] = "closed" /\ buf'[b] = <<>> /\ pos'[b] = 0 /\ net'[b] = <<>>
      /\ \A d \in Conns : d # b => /\ life'[d] = life[d] /\ buf'[d] = buf[d]
                                   /\ pos'[d] = pos[d] /\ net'[d] = net[d]
  BY <1>1 DEF ConnInv, ConnTypeOK
<1>4. <<>> \in Seq(Bytes) /\ Len(<<>>) = 0
  OBVIOUS
<1>5. ConnTypeOK'
  <2>1. /\ life' \in [Conns -> {"none", "connecting", "open", "failed", "closed", "unstarted"}]
        /\ buf' \in [Conns -> Seq(Bytes)] /\ net' \in [Conns -> Seq(Bytes)]
        /\ pos' \in [Conns -> 0 .. MaxBytes]
    BY <1>1, <1>4 DEF ConnInv, ConnTypeOK
  <2>2. \A d \in Conns : pos'[d] <= Len(buf'[d])
    <3>1. pos'[b] <= Len(buf'[b])
      BY <1>3, <1>4
    <3>2. \A d \in Conns : pos[d] <= Len(buf[d])
      BY DEF ConnInv, ConnTypeOK
    <3>3. QED
      BY <1>3, <3>1, <3>2
  <2>3. QED
    BY <1>1, <2>1, <2>2 DEF ConnInv, ConnTypeOK
<1>6. PICK k : k = Forgotten(b) /\ k \in Nat
  BY ForgottenNumber DEF Forgotten
<1>7. BevOK(b)'
  <2>1. /\ BevFine(life[b], refs[b], made[b], frees[b], closes[b], k)
        /\ made[b] \in Nat /\ frees[b] \in Nat /\ closes[b] \in Nat
    BY <1>6, ConnTypes DEF BevOK
  <2>2. BevFine("closed", 0, made[b], frees[b] + 1, closes[b] + 1, k)
    <3>1. CASE life[b] \in InUse
      <4>1. frees[b] = 0 /\ closes[b] = 0 /\ made[b] = 0 + 1 + k
        BY <2>1, <3>1 DEF BevFine
      <4>2. QED
        BY <1>6, <4>1 DEF BevFine, InUse
    <3>2. CASE life[b] = "closed"
      <4>1. frees[b] = closes[b] /\ closes[b] >= 1
        BY <2>1, <3>2 DEF BevFine
      <4>2. QED
        BY <2>1, <4>1 DEF BevFine, InUse
    <3>3. QED
      BY <1>1, <3>1, <3>2
  <2>3. Forgotten(b)' = k
    BY <1>1, <1>6 DEF Forgotten
  <2>4. QED
    BY <1>1, <1>2, <1>3, <2>2, <2>3 DEF BevOK
<1>8. MsgOK(b)'
  <2>1. /\ Len(got[b]) + Len(buf[b]) + Len(net[b]) <= sent[b] + pos[b]
        /\ Len(net[b]) \in Nat /\ Len(got[b]) \in Nat /\ Len(buf[b]) \in Nat
        /\ sent[b] \in Nat /\ pos[b] \in Nat /\ pos[b] <= Len(buf[b])
    BY Sizes
  <2>2. Len(got[b]) + 0 + 0 <= sent[b] + 0 /\ 0 <= Len(got[b])
    <3>1. PICK q \in Nat, m \in Nat, g \in Nat, o \in Nat, n \in Nat :
            /\ q = Len(buf[b]) /\ m = Len(net[b]) /\ g = Len(got[b]) /\ o = pos[b]
            /\ n = sent[b]
      BY <2>1
    <3>2. g + q + m <= n + o /\ o <= q
      BY <2>1, <3>1
    <3>3. g + 0 + 0 <= n + 0
      BY <3>2, Sums
    <3>4. 0 <= g
      OBVIOUS
    <3>5. QED
      BY <3>1, <3>3, <3>4
  <2>3. QED
    BY <1>1, <1>3, <1>4, <2>2 DEF MsgOK, MsgFine
<1>9. CountInv'
  BY <1>1, <1>2 DEF ConnInv, CountInv
<1>10. QED
  BY <1>1, <1>2, <1>3, <1>5, <1>7, <1>8, <1>9, OneConn

\* The handler returns.
LEMMA ReturnStep ==
  ASSUME ConnInv, HandlerReturns
  PROVE  ConnInv'
<1>1. /\ UNCHANGED <<life, buf, pos, mode, spoilt, net, sent, got>>
      /\ UNCHANGED <<refs, made, frees, closes, how>>
  BY DEF HandlerReturns, msgVars, peerVars, bevVars
<1>2. reading' \in [Conns -> BOOLEAN] /\ enableAfter' \in BOOLEAN
  BY DEF HandlerReturns, ConnInv, ConnTypeOK
<1>3. handler' = NoConn
  BY DEF HandlerReturns
<1>4. ConnTypeOK'
  BY <1>1, <1>2, <1>3 DEF ConnInv, ConnTypeOK
<1>5. CountInv'
  BY <1>1 DEF ConnInv, CountInv
<1>6. \A b \in Conns : MsgOK(b)'
  BY <1>1 DEF ConnInv, MsgOK, MsgFine, Lost
<1>7. \A b \in Conns : BevOK(b)'
  BY <1>1 DEF ConnInv, BevOK, BevFine, Forgotten
<1>8. QED
  BY <1>4, <1>5, <1>6, <1>7 DEF ConnInv

\* The peer sends a byte.
LEMMA PeerStep ==
  ASSUME ConnInv, NEW b \in Conns, PeerSends(b)
  PROVE  ConnInv'
<1> USE ConnBoundAssumption
<1>1. PICK q \in Seq(Bytes), m \in Seq(Bytes), g \in Seq(Bytes) :
        q = buf[b] /\ m = net[b] /\ g = got[b]
  BY ConnTypes
<1>2. PICK k \in Bytes : k = sent[b] + 1
  BY ConnTypes DEF PeerSends, Bytes
<1>3. /\ life[b] = "open" /\ sent[b] \in Nat /\ k \in 0 .. MaxBytes
      /\ sent' = [sent EXCEPT ![b] = k] /\ net' = [net EXCEPT ![b] = Append(m, k)]
      /\ UNCHANGED <<life, reading, buf, pos, mode, spoilt, handler, enableAfter, got>>
      /\ UNCHANGED bevVars
  BY <1>1, <1>2, ConnTypes DEF PeerSends, msgVars, Bytes
<1>4. Append(m, k) \in Seq(Bytes) /\ Len(Append(m, k)) = Len(m) + 1
  OBVIOUS
<1>5. /\ sent'[b] = k /\ net'[b] = Append(m, k)
      /\ \A d \in Conns : d # b => sent'[d] = sent[d] /\ net'[d] = net[d]
  BY <1>3 DEF ConnInv, ConnTypeOK
<1>6. ConnTypeOK'
  <2>1. sent' \in [Conns -> 0 .. MaxBytes] /\ net' \in [Conns -> Seq(Bytes)]
    BY <1>3, <1>4 DEF ConnInv, ConnTypeOK
  <2>2. QED
    BY <1>3, <2>1 DEF ConnInv, ConnTypeOK, bevVars
<1>7. MsgOK(b)'
  <2>1. PICK u \in Seq(Bytes) : u = Unread(q, pos[b])
    BY <1>1, ConnTypes, UnreadOfRest
  <2>2. /\ Len(g) + Len(q) + Len(m) <= sent[b] + pos[b] /\ pos[b] <= Len(g)
        /\ ~Lost(b) => Row(g, u, m) = Stream(sent[b])
    BY <1>1, <1>3, <2>1, ConnTypes DEF MsgOK, MsgFine
  <2>3. Row(g, u, Append(m, k)) = Append(Row(g, u, m), k)
    BY RowSent
  <2>4. Append(Stream(sent[b]), sent[b] + 1) = Stream(sent[b] + 1)
    BY <1>3, StreamGrows
  <2>5. ~Lost(b) => Row(g, u, Append(m, k)) = Stream(k)
    BY <1>2, <2>2, <2>3, <2>4
  <2>6. Len(g) + Len(q) + Len(Append(m, k)) <= k + pos[b]
    <3>1. /\ Len(g) \in Nat /\ Len(q) \in Nat /\ Len(m) \in Nat /\ pos[b] \in Nat /\ sent[b] \in Nat
      BY ConnTypes
    <3>2. k = sent[b] + 1 /\ Len(Append(m, k)) = Len(m) + 1
      BY <1>2, <1>4
    <3>3. QED
      BY <2>2, <3>1, <3>2
  <2>7. Lost(b)' <=> Lost(b)
    BY <1>3 DEF Lost
  <2>8. QED
    BY <1>1, <1>3, <1>5, <2>1, <2>2, <2>5, <2>6, <2>7 DEF MsgOK, MsgFine
<1>8. CountInv' /\ BevOK(b)'
  BY <1>3, SameBev
<1>9. UNCHANGED <<refs, made, frees, closes, how>>
  BY <1>3 DEF bevVars
<1>10. QED
  BY <1>3, <1>5, <1>6, <1>7, <1>8, <1>9, OneConn

\* Every step keeps the invariant.
LEMMA ConnStep == ConnInv /\ [ConnNext]_connVars => ConnInv'
<1> SUFFICES ASSUME ConnInv, [ConnNext]_connVars PROVE ConnInv'
  OBVIOUS
<1>1. CASE UNCHANGED connVars
  <2>1. /\ UNCHANGED <<life, reading, buf, pos, mode, spoilt, handler, enableAfter, net, sent, got>>
        /\ UNCHANGED <<refs, made, frees, closes, how>>
    BY <1>1 DEF connVars, msgVars, peerVars, bevVars
  <2>2. ConnTypeOK' /\ CountInv'
    BY <2>1 DEF ConnInv, ConnTypeOK, CountInv
  <2>3. \A b \in Conns : MsgOK(b)'
    BY <2>1 DEF ConnInv, MsgOK, MsgFine, Lost
  <2>4. \A b \in Conns : BevOK(b)'
    BY <2>1 DEF ConnInv, BevOK, BevFine, Forgotten
  <2>5. QED
    BY <2>2, <2>3, <2>4 DEF ConnInv
<1>2. CASE HandlerReturns
  BY <1>2, ReturnStep
<1>3. ASSUME NEW b \in Conns, Loop(b) PROVE ConnInv'
  BY <1>3, EventStep, ReceiveStep DEF Loop
<1>4. ASSUME NEW b \in Conns, Script(b) PROVE ConnInv'
  BY <1>4, ConnectStep, ModeStep, CloseStep, ReadStep, TakeStep DEF Script
<1>5. ASSUME NEW b \in Conns, PeerSends(b) PROVE ConnInv'
  BY <1>5, PeerStep
<1>6. QED
  BY <1>1, <1>2, <1>3, <1>4, <1>5 DEF ConnNext
-----------------------------------------------------------------------------
\* Every message is read and written inside its content, whatever connections are
\* opened, fail and are closed.
THEOREM ConnTypeCorrect == ConnSpec => []ConnTypeOK
<1>1. ConnInv => ConnTypeOK
  BY DEF ConnInv
<1>2. QED
  BY <1>1, InitConnInv, ConnStep, PTL DEF ConnSpec

\* The script reads what the peer of an open connection sent, every byte once and
\* in order, across any number of callbacks and partial reads, unless read_cb2 found
\* bytes left in the message.
THEOREM InputInOrderHolds == ConnSpec => []InputInOrder
<1>1. ConnInv => InputInOrder
  BY DEF ConnInv, MsgOK, MsgFine, Lost, InputInOrder, Row, Unread, Stream
<1>2. QED
  BY <1>1, InitConnInv, ConnStep, PTL DEF ConnSpec

\* A connection keeps its message and both references until the script closes it, and
\* every bufferevent the server made is in use, was freed once, or is one of the two
\* Connect forgets, unless the script closes a connection twice.
THEOREM FreedOnceHolds == ConnSpec => []FreedOnce
<1>1. ConnInv => FreedOnce
  BY DEF ConnInv, BevOK, BevFine, InUse, Live, FreedOnce
<1>2. QED
  BY <1>1, InitConnInv, ConnStep, PTL DEF ConnSpec

\* A loop that serves waits and connections keeps the invariants of both, as a step on
\* one of them leaves the other alone.
LEMMA LoopStep ==
  ASSUME WaitInv, DiedInv, ConnInv, [LoopNext]_loopVars
  PROVE  WaitInv' /\ DiedInv' /\ ConnInv'
<1>1. [WaitNext]_waitVars /\ [ConnNext]_connVars
  BY DEF LoopNext, loopVars
<1>2. QED
  BY <1>1, WaitStep, DiedStep, ConnStep

\* What reaches the loop of a server is well formed: a record of a wait is in use exactly
\* while its callback is on the C stack, and a message is read and written inside its
\* content, for any number of waits, coroutines, connections and bytes.
THEOREM LoopTypeCorrect == LoopSpec => []LoopTypeOK
<1>1. LoopInit => WaitInv /\ DiedInv /\ ConnInv
  BY InitWaitInv, InitConnInv DEF LoopInit, WaitInit, DiedInv
<1>2. WaitInv /\ DiedInv /\ ConnInv => LoopTypeOK
  BY DEF WaitInv, DiedInv, WaitTypeOK, ConnInv, LoopTypeOK
<1>3. QED
  BY <1>1, <1>2, LoopStep, PTL DEF LoopSpec
==============================================================================
