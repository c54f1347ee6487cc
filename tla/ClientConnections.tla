------------------------- MODULE ClientConnections -------------------------
(***************************************************************************)
(* The stream connections of one server (EventServer.cpp): those a listener*)
(* accepts (read_cb, write_cb, error_cb) and those a script opens with     *)
(* Connect (read_cb2, write_cb2, error_cb2).  A connection is a libevent   *)
(* bufferevent with one CLXZMessage as its callback argument: a callback   *)
(* puts the input into the message and calls the script, which reads it,   *)
(* takes it out, answers, or closes connections, this or another.          *)
(*                                                                         *)
(* The bytes a peer sends are numbered, and a script reads each byte of a  *)
(* message once.  A script may leave input of a connection it opened where *)
(* it is, and read_cb2 then writes over it; and it may close a connection  *)
(* twice, which frees the bufferevent again.  What a second free does to   *)
(* memory that is in use again is undefined; the model keeps the outcome   *)
(* in which nothing else changes.  libevent frees a bufferevent only when  *)
(* none of its callbacks is under way, and what is written to one is its   *)
(* own affair.                                                             *)
(***************************************************************************)
EXTENDS Naturals, Sequences

CONSTANTS
  Accepted,  \* the connections that are accepted
  Opened,    \* the connections the script opens
  NoConn,    \* not a connection: no handler runs
  MaxBytes,  \* bound: bytes a peer sends
  MaxCloses  \* bound: how often a script closes one connection

ASSUME ConnectionAssumption ==
  Accepted \cap Opened = {} /\ NoConn \notin Accepted \cup Opened
ASSUME ConnBoundAssumption == MaxBytes \in Nat /\ MaxCloses \in Nat

Conns == Accepted \cup Opened

VARIABLES
  life,      \* connection -> "none", "connecting", "open", "failed", "closed", or
             \*   "unstarted" when Connect returned NULL
  reading,   \* EV_READ is enabled
  buf,       \* the bytes in the message
  pos,       \* where the message is read or written next
  mode,      \* SM_READ or SM_WRITE
  refs,      \* registry references to the message and the bufferevent
  made,      \* how many bufferevents were made for it (history)
  frees,     \* how many calls of bufferevent_free there were (history)
  closes,    \* how often the script closed it (history)
  how,       \* how Connect was called and ended (history)
  spoilt,    \* read_cb2 wrote over input the script had left (history)
  handler,   \* the connection whose event the script handles, or NoConn
  enableAfter, \* error_cb2 enables the bufferevent once the script returns
  net,       \* bytes on their way from the peer
  sent,      \* how many bytes the peer sent
  got        \* the bytes the script read, in order (history)

msgVars == <<buf, pos, mode>>
peerVars == <<net, sent>>
bevVars == <<refs, made, frees, closes, how>>
connVars == <<life, reading, msgVars, bevVars, spoilt, handler, enableAfter, peerVars, got>>

\* How a call of Connect ends: it starts, or bufferevent_socket_new or the SSL
\* object fails, or the name, the text of the address or the connect is refused.
ConnectResults == {"started", "no bufferevent", "bad name", "bad address", "refused"}

NoResult == [over |-> "none", result |-> "none"]

ConnInit ==
  /\ life = [b \in Conns |-> "none"]
  /\ reading = [b \in Conns |-> FALSE]
  /\ buf = [b \in Conns |-> <<>>]
  /\ pos = [b \in Conns |-> 0]
  /\ mode = [b \in Conns |-> "SM_WRITE"]
  /\ refs = [b \in Conns |-> 0]
  /\ made = [b \in Conns |-> 0]
  /\ frees = [b \in Conns |-> 0]
  /\ closes = [b \in Conns |-> 0]
  /\ how = [b \in Conns |-> NoResult]
  /\ spoilt = [b \in Conns |-> FALSE]
  /\ handler = NoConn
  /\ enableAfter = FALSE
  /\ net = [b \in Conns |-> <<>>]
  /\ sent = [b \in Conns |-> 0]
  /\ got = [b \in Conns |-> <<>>]

Live(b) == life[b] \in {"connecting", "open", "failed"}

\* The dispatcher is called for an event of connection b.
Dispatch(b) == handler = NoConn /\ handler' = b

\* CIMemFile::Write at position p of the message.
Overwrite(s, p, data) == SubSeq(s, 1, p) \o data \o SubSeq(s, p + Len(data) + 1, Len(s))
-----------------------------------------------------------------------------
(* Callbacks of the loop                                                   *)

\* accept_cb: the message, its two references, the callbacks, then the script.
AcceptCb(b) ==
  /\ b \in Accepted
  /\ life[b] = "none"
  /\ Dispatch(b)
  /\ life' = [life EXCEPT ![b] = "open"]
  /\ reading' = [reading EXCEPT ![b] = TRUE]
  /\ refs' = [refs EXCEPT ![b] = 2]
  /\ made' = [made EXCEPT ![b] = 1]
  /\ UNCHANGED <<msgVars, frees, closes, how, spoilt, enableAfter, peerVars, got>>

\* What was read from the socket goes into the message at position p; the mode
\* and the position of the script are put back.
Receive(b, p) ==
  /\ life[b] = "open"
  /\ reading[b]
  /\ Dispatch(b)
  /\ \E n \in 1 .. Len(net[b]) :
       /\ buf' = [buf EXCEPT ![b] = Overwrite(@, p, SubSeq(net[b], 1, n))]
       /\ net' = [net EXCEPT ![b] = SubSeq(@, n + 1, Len(@))]
  /\ UNCHANGED <<life, reading, pos, mode, bevVars, enableAfter, sent, got>>

\* Mutant: the input goes where the script stopped reading.
ReadCb_AtPos(b) == b \in Accepted /\ Receive(b, pos[b]) /\ UNCHANGED spoilt

\* read_cb: the input goes behind what the message holds.
ReadCb(b) == b \in Accepted /\ Receive(b, Len(buf[b])) /\ UNCHANGED spoilt

\* read_cb2: setMode moved the position to 0, where the input goes, over what the
\* script left in the message.
ReadCb2(b) ==
  /\ b \in Opened
  /\ Receive(b, 0)
  /\ spoilt' = [spoilt EXCEPT ![b] = @ \/ buf[b] # <<>>]

\* write_cb and write_cb2.
WriteCb(b) ==
  /\ life[b] = "open"
  /\ Dispatch(b)
  /\ UNCHANGED <<life, reading, msgVars, bevVars, spoilt, enableAfter, peerVars, got>>

\* Mutant: what the comment at the end of error_cb leaves out is done.
ErrorCb_Frees(b) ==
  /\ life[b] \in {"connecting", "open"}
  /\ Dispatch(b)
  /\ life' = [life EXCEPT ![b] = "failed"]
  /\ net' = [net EXCEPT ![b] = <<>>]
  /\ refs' = [refs EXCEPT ![b] = 0]
  /\ frees' = [frees EXCEPT ![b] = @ + 1]
  /\ UNCHANGED <<reading, msgVars, made, closes, how, spoilt, enableAfter, sent, got>>

\* error_cb and error_cb2 for a timeout, the end of the stream or an error: the
\* script is told, and nothing is freed until it closes the connection.
ErrorCb(b) ==
  /\ life[b] \in {"connecting", "open"}
  /\ Dispatch(b)
  /\ life' = [life EXCEPT ![b] = "failed"]
  /\ net' = [net EXCEPT ![b] = <<>>]
  /\ UNCHANGED <<reading, msgVars, bevVars, spoilt, enableAfter, sent, got>>

\* Mutant: reading is left to the script.
Connected_NotEnabled(b) ==
  /\ life[b] = "connecting"
  /\ Dispatch(b)
  /\ life' = [life EXCEPT ![b] = "open"]
  /\ UNCHANGED <<reading, msgVars, bevVars, spoilt, enableAfter, peerVars, got>>

\* error_cb2 for BEV_EVENT_CONNECTED.
Connected(b) ==
  /\ life[b] = "connecting"
  /\ Dispatch(b)
  /\ life' = [life EXCEPT ![b] = "open"]
  /\ enableAfter' = TRUE
  /\ UNCHANGED <<reading, msgVars, bevVars, spoilt, peerVars, got>>

\* The script returns to the callback.
HandlerReturns ==
  /\ handler # NoConn
  /\ handler' = NoConn
  /\ enableAfter' = FALSE
  /\ reading' = [reading EXCEPT ![handler] = @ \/ enableAfter]
  /\ UNCHANGED <<life, msgVars, bevVars, spoilt, peerVars, got>>
-----------------------------------------------------------------------------
(* What a script calls while it handles an event                           *)

\* What Connect makes: without SSL a bufferevent whose pointer the next statement
\* overwrites, and the one it goes on with unless that fails.
MadeByConnect(over, result) ==
  (IF over = "tcp" THEN 1 ELSE 0) + (IF result = "no bufferevent" THEN 0 ELSE 1)

\* Connect: by name, where reading is enabled at once, or by address.  A name or a
\* connect that is refused is freed; an address that inet_pton refuses is not.
Connect(b) ==
  /\ handler # NoConn
  /\ b \in Opened
  /\ life[b] = "none"
  /\ \E over \in {"tcp", "ssl"}, result \in ConnectResults :
       /\ how' = [how EXCEPT ![b] = [over |-> over, result |-> result]]
       /\ made' = [made EXCEPT ![b] = MadeByConnect(over, result)]
       /\ \/ /\ result = "started"
             /\ life' = [life EXCEPT ![b] = "connecting"]
             /\ \E dns \in BOOLEAN : reading' = [reading EXCEPT ![b] = dns]
             /\ refs' = [refs EXCEPT ![b] = 2]
             /\ UNCHANGED frees
          \/ /\ result # "started"
             /\ life' = [life EXCEPT ![b] = "unstarted"]
             /\ frees' = [frees EXCEPT ![b] = IF result \in {"bad name", "refused"} THEN 1 ELSE 0]
             /\ UNCHANGED <<reading, refs>>
  /\ UNCHANGED <<msgVars, closes, spoilt, handler, enableAfter, peerVars, got>>

\* CLXZMessage::setMode, by a script that has read nothing since the last one.
SetMode(b, m) ==
  /\ handler # NoConn
  /\ Live(b)
  /\ pos[b] = 0
  /\ mode' = [mode EXCEPT ![b] = m]
  /\ UNCHANGED <<life, reading, buf, pos, bevVars, spoilt, handler, enableAfter, peerVars, got>>

\* A field of n bytes is read; with fewer the read fails and changes nothing.
Read(b, n) ==
  /\ handler # NoConn
  /\ Live(b)
  /\ mode[b] = "SM_READ"
  /\ pos[b] + n <= Len(buf[b])
  /\ got' = [got EXCEPT ![b] = @ \o SubSeq(buf[b], pos[b] + 1, pos[b] + n)]
  /\ pos' = [pos EXCEPT ![b] = @ + n]
  /\ UNCHANGED <<life, reading, buf, mode, bevVars, spoilt, handler, enableAfter, peerVars>>

\* removeHeadBuffer, for the bytes that were read.
RemoveHeadBuffer(b) ==
  /\ handler # NoConn
  /\ Live(b)
  /\ pos[b] > 0
  /\ buf' = [buf EXCEPT ![b] = SubSeq(@, pos[b] + 1, Len(@))]
  /\ pos' = [pos EXCEPT ![b] = 0]
  /\ UNCHANGED <<life, reading, mode, bevVars, spoilt, handler, enableAfter, peerVars, got>>

\* Send2Client with the message of b, unread: it is written to some connection
\* whole and released.
Send2Client(b) ==
  /\ handler # NoConn
  /\ Live(b)
  /\ pos[b] = 0 /\ buf[b] # <<>>
  /\ got' = [got EXCEPT ![b] = @ \o buf[b]]
  /\ buf' = [buf EXCEPT ![b] = <<>>]
  /\ UNCHANGED <<life, reading, pos, mode, bevVars, spoilt, handler, enableAfter, peerVars>>

\* CloseClient: the references and the message unless they are gone, then the
\* bufferevent.  The script still holds the pointer and may close it again.
CloseClient(b) ==
  /\ handler # NoConn
  /\ Live(b) \/ life[b] = "closed"
  /\ closes[b] < MaxCloses
  /\ closes' = [closes EXCEPT ![b] = @ + 1]
  /\ life' = [life EXCEPT ![b] = "closed"]
  /\ refs' = [refs EXCEPT ![b] = 0]
  /\ frees' = [frees EXCEPT ![b] = @ + 1]
  /\ buf' = [buf EXCEPT ![b] = <<>>]
  /\ pos' = [pos EXCEPT ![b] = 0]
  /\ net' = [net EXCEPT ![b] = <<>>]
  /\ UNCHANGED <<reading, mode, made, how, spoilt, handler, enableAfter, sent, got>>

\* The peer sends a byte.
PeerSends(b) ==
  /\ life[b] = "open"
  /\ sent[b] < MaxBytes
  /\ sent' = [sent EXCEPT ![b] = @ + 1]
  /\ net' = [net EXCEPT ![b] = Append(@, sent[b] + 1)]
  /\ UNCHANGED <<life, reading, msgVars, bevVars, spoilt, handler, enableAfter, got>>
-----------------------------------------------------------------------------
Loop(b) == AcceptCb(b) \/ ReadCb(b) \/ ReadCb2(b) \/ WriteCb(b) \/ ErrorCb(b) \/ Connected(b)

Script(b) ==
  \/ Connect(b) \/ RemoveHeadBuffer(b) \/ Send2Client(b) \/ CloseClient(b)
  \/ \E m \in {"SM_READ", "SM_WRITE"} : SetMode(b, m)
  \/ \E n \in 1 .. MaxBytes : Read(b, n)

ConnNext == HandlerReturns \/ \E b \in Conns : Loop(b) \/ Script(b) \/ PeerSends(b)

\* A handler ends, whatever the script does on the way; libevent serves a readable
\* socket among the others.
ConnFairness ==
  /\ SF_connVars(HandlerReturns)
  /\ \A b \in Conns : SF_connVars(ReadCb(b) \/ ReadCb2(b))

ConnSpec == ConnInit /\ [][ConnNext]_connVars /\ ConnFairness
-----------------------------------------------------------------------------
Bytes == 1 .. MaxBytes

\* The fields hold what their declarations allow, and a message is read and written
\* inside its content.
ConnTypeOK ==
  /\ life \in [Conns -> {"none", "connecting", "open", "failed", "closed", "unstarted"}]
  /\ reading \in [Conns -> BOOLEAN] /\ spoilt \in [Conns -> BOOLEAN]
  /\ buf \in [Conns -> Seq(Bytes)] /\ net \in [Conns -> Seq(Bytes)]
  /\ pos \in [Conns -> 0 .. MaxBytes]
  /\ mode \in [Conns -> {"SM_READ", "SM_WRITE"}]
  /\ how \in [Conns -> [over : {"none", "tcp", "ssl"}, result : ConnectResults \cup {"none"}]]
  /\ sent \in [Conns -> 0 .. MaxBytes] /\ got \in [Conns -> Seq(Bytes)]
  /\ handler \in Conns \cup {NoConn} /\ enableAfter \in BOOLEAN
  /\ \A b \in Conns : pos[b] <= Len(buf[b])

\* The script reads what the peer sent, every byte once and in order, across any
\* number of callbacks: what it read, what the message still holds unread and what
\* is under way make up the stream while the connection is open.  Only a connection
\* the script opened may lose input, once read_cb2 found bytes left in its message.
InputInOrder ==
  \A b \in Conns :
    life[b] = "open" /\ ~(b \in Opened /\ spoilt[b]) =>
      got[b] \o SubSeq(buf[b], pos[b] + 1, Len(buf[b])) \o net[b] = [i \in 1 .. sent[b] |-> i]

\* The bufferevents of b that nothing will free: the one Connect makes and forgets
\* without SSL, and the one of an address that inet_pton refuses.
Forgotten(b) == (IF how[b].over = "tcp" THEN 1 ELSE 0) + (IF how[b].result = "bad address" THEN 1 ELSE 0)

\* A connection keeps its bufferevent, its message and both references until the
\* script closes it and is then freed as often as the script closes it; and unless
\* that is twice, every bufferevent the server made is in use, was freed once, or
\* is one of those Connect forgets.
FreedOnce ==
  \A b \in Conns :
    /\ Live(b) => refs[b] = 2 /\ frees[b] = 0
    /\ ~Live(b) => refs[b] = 0
    /\ life[b] = "closed" => frees[b] = closes[b]
    /\ closes[b] <= 1 => made[b] = frees[b] + (IF Live(b) THEN 1 ELSE 0) + Forgotten(b)

\* What arrives on an open connection reaches the script's message, unless the
\* connection is closed or fails first.
InputArrives ==
  \A b \in Conns : (life[b] = "open" /\ net[b] # <<>>) ~> (net[b] = <<>>)
=============================================================================
