---------------------------- MODULE MessagePool ----------------------------
(***************************************************************************)
(* The free list of CLXZMessages that all Lua states of the process share  *)
(* (LuaLXZMessage.cpp: s_pool, s_pool_lock): new and new_local take a      *)
(* message from it, delete and the collector put it back, and a list that  *)
(* gets too long gives its oldest message to the heap.                     *)
(*                                                                         *)
(* Scripts give a message back once: with delete if it came from new, by   *)
(* the collector if it came from new_local.  Nothing in the code enforces  *)
(* it.  A message is only handed to another thread as a copy.              *)
(***************************************************************************)
EXTENDS Naturals, Sequences

CONSTANTS
  Threads,      \* the threads that run Lua states
  Messages,     \* addresses of messages (bound: messages that exist at once)
  NoThread,     \* s_pool_lock is free
  Limit         \* the length at which the list sheds a message, 10 in the code

ASSUME LimitAssumption == Limit \in Nat \ {0}
ASSUME NoThreadAssumption == NoThread \notin Threads
ASSUME MessagesAssumption == Messages # {}

VARIABLES
  s_pool,  \* the free list
  lock,    \* who holds s_pool_lock
  exists,  \* the messages the heap gave out
  pc,      \* thread -> where it is in new or collect
  pMsg,    \* thread -> the message the C function has in hand
  held,    \* thread -> the messages its scripts have
  writer   \* message -> the thread whose data it holds, NoThread when empty

poolVars == <<s_pool, lock, exists, pc, pMsg, held, writer>>

PoolInit ==
  /\ s_pool = <<>>
  /\ lock = NoThread
  /\ exists = {}
  /\ pc = [t \in Threads |-> "script"]
  /\ pMsg = [t \in Threads |-> CHOOSE m \in Messages : TRUE]
  /\ held = [t \in Threads |-> {}]
  /\ writer = [m \in Messages |-> NoThread]

Goto(t, from, to) == pc[t] = from /\ pc' = [pc EXCEPT ![t] = to]

\* new and new_local: the lock, while the heap can give a message.
NewLock(t) ==
  /\ Goto(t, "script", "front")
  /\ lock = NoThread
  /\ exists # Messages \/ s_pool # <<>>
  /\ lock' = t
  /\ UNCHANGED <<s_pool, exists, pMsg, held, writer>>

\* An empty list gets a new message first; then its front is read.
NewFront(t) ==
  /\ Goto(t, "front", "pop")
  /\ IF s_pool = <<>>
       THEN \E m \in Messages \ exists :
              /\ exists' = exists \cup {m}
              /\ s_pool' = <<m>>
              /\ writer' = [writer EXCEPT ![m] = NoThread]
       ELSE UNCHANGED <<s_pool, exists, writer>>
  /\ pMsg' = [pMsg EXCEPT ![t] = Head(s_pool')]
  /\ UNCHANGED <<lock, held>>

\* The front is taken off and the lock released.
NewPop(t) ==
  /\ Goto(t, "pop", "reset")
  /\ s_pool' = Tail(s_pool)
  /\ lock' = NoThread
  /\ UNCHANGED <<exists, pMsg, held, writer>>

\* Mutant: a message is not emptied when it is handed out.
NewReset_NoRelease(t) ==
  /\ Goto(t, "reset", "script")
  /\ held' = [held EXCEPT ![t] = @ \cup {pMsg[t]}]
  /\ UNCHANGED <<s_pool, lock, exists, pMsg, writer>>

\* ReleaseMemory and setMode(SM_WRITE), outside the lock; the script gets it.
NewReset(t) ==
  /\ Goto(t, "reset", "script")
  /\ writer' = [writer EXCEPT ![pMsg[t]] = NoThread]
  /\ held' = [held EXCEPT ![t] = @ \cup {pMsg[t]}]
  /\ UNCHANGED <<s_pool, lock, exists, pMsg>>

\* The script writes into a message.
Fill(t, m) ==
  /\ pc[t] = "script"
  /\ m \in held[t]
  /\ writer' = [writer EXCEPT ![m] = t]
  /\ UNCHANGED <<s_pool, lock, exists, pc, pMsg, held>>

\* collect, called by the script as delete or by the collector: the lock.
CollectLock(t, m) ==
  /\ Goto(t, "script", "push")
  /\ lock = NoThread
  /\ m \in held[t]
  /\ lock' = t
  /\ pMsg' = [pMsg EXCEPT ![t] = m]
  /\ held' = [held EXCEPT ![t] = @ \ {m}]
  /\ UNCHANGED <<s_pool, exists, writer>>

\* Mutant: the wrong end of the list is deleted.
CollectPush_DeletesLast(t) ==
  LET pool == Append(s_pool, pMsg[t])
  IN /\ Goto(t, "push", "script")
     /\ IF Len(pool) >= Limit
          THEN s_pool' = Tail(pool) /\ exists' = exists \ {pMsg[t]}
          ELSE s_pool' = pool /\ UNCHANGED exists
     /\ lock' = NoThread
     /\ UNCHANGED <<pMsg, held, writer>>

\* The message is put at the end; a list of Limit messages sheds its front.
CollectPush(t) ==
  LET pool == Append(s_pool, pMsg[t])
  IN /\ Goto(t, "push", "script")
     /\ IF Len(pool) >= Limit
          THEN s_pool' = Tail(pool) /\ exists' = exists \ {Head(pool)}
          ELSE s_pool' = pool /\ UNCHANGED exists
     /\ lock' = NoThread
     /\ UNCHANGED <<pMsg, held, writer>>

Step(t) ==
  \/ NewLock(t) \/ NewFront(t) \/ NewPop(t) \/ NewReset(t) \/ CollectPush(t)
  \/ \E m \in Messages : Fill(t, m) \/ CollectLock(t, m)

PoolNext == \E t \in Threads : Step(t)

PoolSpec == PoolInit /\ [][PoolNext]_poolVars
-----------------------------------------------------------------------------
\* The fields hold what their declarations allow, and the list is as short as
\* collect means to keep it.
PoolTypeOK ==
  /\ s_pool \in Seq(Messages)
  /\ Len(s_pool) <= Limit
  /\ lock = NoThread => Len(s_pool) < Limit
  /\ lock \in Threads \cup {NoThread}
  /\ exists \subseteq Messages
  /\ pc \in [Threads -> {"script", "front", "pop", "reset", "push"}]
  /\ pMsg \in [Threads -> Messages]
  /\ held \in [Threads -> SUBSET Messages]
  /\ writer \in [Messages -> Threads \cup {NoThread}]

\* A message belongs to one script, or to the list, and is never used after the
\* heap has it back: no two threads hold it, none holds what is in the list, and
\* everything held or listed exists.
OneOwner ==
  /\ \A t, u \in Threads : t # u => held[t] \cap held[u] = {}
  /\ \A t \in Threads : held[t] \subseteq exists
  /\ \A i \in DOMAIN s_pool : s_pool[i] \in exists
  /\ \A t \in Threads : \A i \in DOMAIN s_pool : s_pool[i] \notin held[t]

\* A script finds nothing in its messages but what it wrote: no rest of an earlier
\* owner's data and nothing another thread writes.
OwnData == \A t \in Threads : \A m \in held[t] : writer[m] \in {t, NoThread}
=============================================================================
