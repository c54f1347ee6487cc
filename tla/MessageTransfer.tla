-------------------------- MODULE MessageTransfer --------------------------
(***************************************************************************)
(* What becomes of the content of a message that a server's script sends   *)
(* with Notify (EventServer.cpp).  Notify copies the message with the copy *)
(* constructor C++ makes for CLXZMessage: the base CIArchive is copied     *)
(* field by field, so the copy reads and writes through m_pISerial, the    *)
(* stream of the original, in the mode of the original, until its own      *)
(* setMode is called; the buffer is copied by FastBufAlloc, which sets     *)
(* heapbuf and alloc_len only if the original's content is on the heap;    *)
(* and m_nLuaRef and m_nEvent are copied, with which _lua_proc looks up    *)
(* the message of a connection in the registry of the receiver.            *)
(*                                                                         *)
(* A content is one value; the receiver's script reads a message once.     *)
(***************************************************************************)
EXTENDS Naturals, Sequences

CONSTANTS
  MaxNotifies,  \* bound: messages sent
  Uses          \* what scripts do: notify contents that fit the array in the object
                \* ("small") or the message of a connection ("connection"), or read a
                \* message without a setMode ("as it comes")

ASSUME TransferBoundAssumption == MaxNotifies \in Nat
ASSUME UsesAssumption == Uses \subseteq {"small", "connection", "as it comes"}

WildContent == 0  \* what a read through a wild pointer, or in a data race, gives

VARIABLES
  msg,       \* the sender's message: its content, whether it is on the heap, its mode,
             \* and whether m_nLuaRef and m_nEvent are set
  next,      \* the next content
  vvMsg,     \* the copies on their way to the receiver
  current,   \* the copy the receiver's script has, or <<>>
  notified,  \* what msg was when it was notified, in order (history)
  received   \* the contents the receiver read, in order, and whether it called
             \* setMode first (history)

transferVars == <<msg, next, vvMsg, current, notified, received>>

\* A message of a connection has its references from accept_cb or Connect.
TransferStart(ref) ==
  /\ msg = [data |-> 1, heap |-> TRUE, mode |-> "SM_WRITE", ref |-> ref]
  /\ next = 2
  /\ vvMsg = <<>>
  /\ current = <<>>
  /\ notified = <<>>
  /\ received = <<>>

TransferInit == \E ref \in {"connection" \in Uses, FALSE} : TransferStart(ref)

\* The sender fills its message anew, and may call setMode(SM_READ) to look at it.
Refill ==
  /\ next <= MaxNotifies + 1
  /\ next' = next + 1
  /\ \E small \in {"small" \in Uses, FALSE}, mode \in {"SM_WRITE", "SM_READ"} :
       msg' = [msg EXCEPT !.data = next, !.heap = ~small, !.mode = mode]
  /\ UNCHANGED <<vvMsg, current, notified, received>>

\* The copy constructors: the content, the mode, the stream in use, the references, and
\* whether buf() of the copy returns its content; set is whether the receiver called
\* setMode (history).
Copy(valid) ==
  [data |-> msg.data, mode |-> msg.mode, own |-> FALSE, ref |-> msg.ref,
   valid |-> valid, set |-> FALSE]

\* Notify: the copy is made by the sender's thread and queued under _lock.  The fields
\* FastBufAlloc leaves alone hold whatever was in the memory: buf() may return the array
\* or a wild pointer.
Notify ==
  /\ Len(notified) < MaxNotifies
  /\ \E valid \in {TRUE, msg.heap} : vvMsg' = Append(vvMsg, Copy(valid))
  /\ notified' = Append(notified, msg)
  /\ UNCHANGED <<msg, next, current, received>>

\* notify_timer_cb gives the receiver's script the oldest copy.
Dispatch ==
  /\ current = <<>>
  /\ vvMsg # <<>>
  /\ ~Head(vvMsg).ref
  /\ current' = <<Head(vvMsg)>>
  /\ vvMsg' = Tail(vvMsg)
  /\ UNCHANGED <<msg, next, notified, received>>

\* _lua_proc on a copy that has references: the script gets what its own registry holds
\* under those numbers.  That is nothing or another message, and another connection;
\* if the server notified itself, the original and not the copy.
DispatchByRef ==
  /\ current = <<>>
  /\ vvMsg # <<>>
  /\ Head(vvMsg).ref
  /\ \E data \in {WildContent, msg.data} :
       received' = Append(received, [data |-> data, set |-> FALSE])
  /\ vvMsg' = Tail(vvMsg)
  /\ UNCHANGED <<msg, next, current, notified>>

\* Mutant: CIArchive::setMode, which keeps the stream in use.
SetModeOfCopy_OfArchive ==
  /\ current # <<>>
  /\ current' = <<[current[1] EXCEPT !.mode = "SM_READ", !.set = TRUE]>>
  /\ UNCHANGED <<msg, next, vvMsg, notified, received>>

\* CLXZMessage::setMode, called on the copy: from here it uses its own stream.
SetModeOfCopy ==
  /\ current # <<>>
  /\ current' = <<[current[1] EXCEPT !.mode = "SM_READ", !.own = TRUE, !.set = TRUE]>>
  /\ UNCHANGED <<msg, next, vvMsg, notified, received>>

\* The script reads the content, through m_pISerial: without a setMode that is the
\* stream of the sender, which its thread may be writing.
ReadCopy ==
  /\ current # <<>>
  /\ current[1].mode = "SM_READ"
  /\ current[1].set \/ "as it comes" \in Uses
  /\ \E data \in IF ~current[1].own THEN {msg.data, WildContent}
                 ELSE IF current[1].valid THEN {current[1].data} ELSE {WildContent} :
       received' = Append(received, [data |-> data, set |-> current[1].set])
  /\ current' = <<>>
  /\ UNCHANGED <<msg, next, vvMsg, notified>>

TransferNext == Refill \/ Notify \/ Dispatch \/ DispatchByRef \/ SetModeOfCopy \/ ReadCopy

TransferSpec == TransferInit /\ [][TransferNext]_transferVars
-----------------------------------------------------------------------------
\* Notify is a "thread safe transfer": what the receiver reads is what was in the
\* message when it was notified, whatever the sender does with it since.
TransferIsSafe ==
  /\ Len(received) <= Len(notified)
  /\ \A i \in 1 .. Len(received) : received[i].data = notified[i].data

\* What of that holds for every use the code allows: a receiver that calls setMode reads
\* what was in the message when it was notified, in the order of the calls, unless the
\* message is one of a connection; of a content that fits the array in the object it may
\* read rubbish, but never what the sender wrote since or another message.
ContentArrives ==
  /\ Len(received) <= Len(notified)
  /\ \A i \in 1 .. Len(received) :
       received[i].set /\ ~notified[i].ref =>
         \/ received[i].data = notified[i].data
         \/ ~notified[i].heap /\ received[i].data = WildContent
=============================================================================
