-------------------------- MODULE ServerLifecycle --------------------------
(***************************************************************************)
(* One CEventServer object from new to delete (EventServer.cpp): Start,    *)
(* the thread that runs DoProc, Stop, and the messages other threads send  *)
(* it with Notify, which its loop dispatches to Lua once a second.  The    *)
(* object is made by another server's script, and any thread that holds it *)
(* may call it.                                                            *)
(*                                                                         *)
(* A caller does not call an object that was deleted (nothing tells it so; *)
(* the code leaves this to the scripts).  What two DoProc threads do to    *)
(* the fields of one object is not modelled, only that they can exist.     *)
(***************************************************************************)
EXTENDS Naturals, Sequences

CONSTANTS
  MaxStarts,     \* bound: successful calls of Start
  MaxNotifies,   \* bound: calls of Notify
  EarlyRestart   \* callers may call Start again while DoProc is under way

ASSUME BoundAssumption == MaxStarts \in Nat /\ MaxNotifies \in Nat
ASSUME EarlyRestartAssumption == EarlyRestart \in BOOLEAN

Threads == 1 .. MaxStarts
Messages == 1 .. MaxNotifies

VARIABLES
  dpc,         \* thread -> where it is in DoProc
  starts,      \* how many threads Start made
  base,        \* _base is not NULL
  state,       \* _state is not NULL
  destroy,     \* _destroy
  loopExit,    \* event_base_loopexit was called on _base
  deleted,     \* delete this
  vvMsg,       \* _vvMsg, the messages not yet taken by the notify timer
  vvMessage,   \* the messages the notify timer took and has not dispatched
  dispatched,  \* the messages dispatched to Lua, in order (history)
  sent         \* how many messages were sent

objectVars == <<base, state, destroy, loopExit, deleted>>
notifyVars == <<vvMsg, vvMessage, dispatched, sent>>
vars == <<dpc, starts, objectVars, notifyVars>>

DoProcPcs == {"none", "load", "open", "script", "base", "setup", "loop", "notify",
              "close", "failed", "ended"}

\* The threads that have not left DoProc.
Running == {d \in Threads : dpc[d] \notin {"none", "failed", "ended"}}

Init ==
  /\ dpc = [d \in Threads |-> "none"]
  /\ starts = 0
  /\ base = FALSE
  /\ state = FALSE
  /\ destroy = FALSE
  /\ loopExit = FALSE
  /\ deleted = FALSE
  /\ vvMsg = <<>>
  /\ vvMessage = <<>>
  /\ dispatched = <<>>
  /\ sent = 0
-----------------------------------------------------------------------------
(* Calls from other threads                                                *)

\* Start: with _base set it logs that the server is running and returns -1.
Start ==
  /\ ~deleted
  /\ ~base
  /\ starts < MaxStarts
  /\ EarlyRestart \/ Running = {}
  /\ starts' = starts + 1
  /\ dpc' = [dpc EXCEPT ![starts + 1] = "load"]
  /\ UNCHANGED <<objectVars, notifyVars>>

\* Mutant: Stop marks the object for deletion but the loop is not told.
Stop_NoExit ==
  /\ ~deleted
  /\ base
  /\ destroy' = TRUE
  /\ loopExit' = (loopExit \/ destroy)
  /\ UNCHANGED <<dpc, starts, base, state, deleted, notifyVars>>

\* Stop: the argument is ignored and, before _base is set, so is the call.
Stop ==
  /\ ~deleted
  /\ base
  /\ destroy' = TRUE
  /\ loopExit' = TRUE
  /\ UNCHANGED <<dpc, starts, base, state, deleted, notifyVars>>

\* Notify: the copy is pushed under _lock.
Notify ==
  /\ ~deleted
  /\ sent < MaxNotifies
  /\ sent' = sent + 1
  /\ vvMsg' = Append(vvMsg, sent + 1)
  /\ UNCHANGED <<dpc, starts, objectVars, vvMessage, dispatched>>
-----------------------------------------------------------------------------
(* The thread that runs DoProc                                             *)

\* _cfg.load, which fails when the file cannot be read.
LoadCfg(d) ==
  /\ dpc[d] = "load"
  /\ \E pc \in {"open", "failed"} : dpc' = [dpc EXCEPT ![d] = pc]
  /\ UNCHANGED <<starts, objectVars, notifyVars>>

\* lua_open and init_lua_state; the script file is run next.
OpenState(d) ==
  /\ dpc[d] = "open"
  /\ dpc' = [dpc EXCEPT ![d] = "script"]
  /\ state' = TRUE
  /\ UNCHANGED <<starts, base, destroy, loopExit, deleted, notifyVars>>

\* Mutant: the return after a failed script is missing.
EndStartupScript_NoReturn(d) ==
  /\ dpc[d] = "script"
  /\ dpc' = [dpc EXCEPT ![d] = "base"]
  /\ state' \in BOOLEAN
  /\ UNCHANGED <<starts, base, destroy, loopExit, deleted, notifyVars>>

\* The script file is over and the reference to the dispatcher is taken: on
\* failure the Lua state is closed.
EndStartupScript(d) ==
  /\ dpc[d] = "script"
  /\ \/ /\ dpc' = [dpc EXCEPT ![d] = "base"]
        /\ UNCHANGED state
     \/ /\ dpc' = [dpc EXCEPT ![d] = "failed"]
        /\ state' = FALSE
  /\ UNCHANGED <<starts, base, destroy, loopExit, deleted, notifyVars>>

\* event_base_new.
MakeBase(d) ==
  /\ dpc[d] = "base"
  /\ dpc' = [dpc EXCEPT ![d] = "setup"]
  /\ base' = TRUE
  /\ UNCHANGED <<starts, state, destroy, loopExit, deleted, notifyVars>>

\* The listeners, the client's SSL context, the timers and the user event.  An
\* SSL failure returns at once: _base and _state stay as they are.
Setup(d) ==
  /\ dpc[d] = "setup"
  /\ \E pc \in {"loop", "failed"} : dpc' = [dpc EXCEPT ![d] = pc]
  /\ UNCHANGED <<starts, objectVars, notifyVars>>

\* Mutant: the list is copied instead of swapped.
NotifyTimer_Copy(d) ==
  /\ dpc[d] = "loop"
  /\ dpc' = [dpc EXCEPT ![d] = "notify"]
  /\ vvMessage' = vvMsg
  /\ UNCHANGED <<starts, objectVars, vvMsg, dispatched, sent>>

\* notify_timer_cb: the swap under _lock.
NotifyTimer(d) ==
  /\ dpc[d] = "loop"
  /\ dpc' = [dpc EXCEPT ![d] = "notify"]
  /\ vvMessage' = vvMsg
  /\ vvMsg' = <<>>
  /\ UNCHANGED <<starts, objectVars, dispatched, sent>>

\* Mutant: the loop over the messages stops after the first.
DispatchMessage_First(d) ==
  /\ dpc[d] = "notify"
  /\ dpc' = [dpc EXCEPT ![d] = "loop"]
  /\ vvMessage' = <<>>
  /\ dispatched' = IF vvMessage = <<>> THEN dispatched
                    ELSE Append(dispatched, Head(vvMessage))
  /\ UNCHANGED <<starts, objectVars, vvMsg, sent>>

\* notify_timer_cb: one message goes to the Lua dispatcher, or the callback
\* returns to the loop.
DispatchMessage(d) ==
  /\ dpc[d] = "notify"
  /\ IF vvMessage = <<>>
       THEN /\ dpc' = [dpc EXCEPT ![d] = "loop"]
            /\ UNCHANGED <<vvMessage, dispatched>>
       ELSE /\ dispatched' = Append(dispatched, Head(vvMessage))
            /\ vvMessage' = Tail(vvMessage)
            /\ UNCHANGED dpc
  /\ UNCHANGED <<starts, objectVars, vvMsg, sent>>

\* event_base_dispatch returns.
LeaveLoop(d) ==
  /\ dpc[d] = "loop"
  /\ loopExit
  /\ dpc' = [dpc EXCEPT ![d] = "close"]
  /\ UNCHANGED <<starts, objectVars, notifyVars>>

\* The timers are removed, the Lua state is closed, delete this.
Close(d) ==
  /\ dpc[d] = "close"
  /\ dpc' = [dpc EXCEPT ![d] = "ended"]
  /\ state' = FALSE
  /\ deleted' = destroy
  /\ UNCHANGED <<starts, base, destroy, loopExit, notifyVars>>
-----------------------------------------------------------------------------
DoProc(d) ==
  \/ LoadCfg(d) \/ OpenState(d) \/ EndStartupScript(d) \/ MakeBase(d)
  \/ Setup(d) \/ NotifyTimer(d) \/ DispatchMessage(d) \/ LeaveLoop(d) \/ Close(d)

Next == Start \/ Stop \/ Notify \/ \E d \in Threads : DoProc(d)

\* DoProc's thread is scheduled; libevent serves a due timer and an exit request
\* although others keep becoming due (SF).
Fairness ==
  \A d \in Threads : /\ WF_vars(DoProc(d))
                     /\ SF_vars(NotifyTimer(d))
                     /\ SF_vars(LeaveLoop(d))

Spec == Init /\ [][Next]_vars /\ Fairness
-----------------------------------------------------------------------------
\* The fields hold what their declarations allow, and Lua is only entered while
\* _state is open and the object alive.
TypeOK ==
  /\ dpc \in [Threads -> DoProcPcs]
  /\ starts \in 0 .. MaxStarts
  /\ {base, state, destroy, loopExit, deleted} \subseteq BOOLEAN
  /\ vvMsg \in Seq(Messages) /\ vvMessage \in Seq(Messages)
  /\ dispatched \in Seq(Messages)
  /\ sent \in 0 .. MaxNotifies
  /\ \A d \in Threads : dpc[d] \in {"script", "loop", "notify"} => state /\ ~deleted

\* Notify loses, repeats and reorders nothing: the messages dispatched, those
\* the timer took and those still queued are all that were sent, in order.
NotifyInOrder ==
  dispatched \o vvMessage \o vvMsg = [i \in 1 .. sent |-> i]

\* A message notified to a server that is in its loop is dispatched, unless the
\* server is told to stop.
NotifiedIsDispatched ==
  \A m \in Messages :
    (m <= sent /\ \E d \in Threads : dpc[d] \in {"loop", "notify"})
      ~> (m <= Len(dispatched) \/ loopExit)

\* A server that has a base and is told to stop is deleted, unless setting it
\* up failed.
StopDeletes ==
  destroy ~> (deleted \/ \E d \in Threads : dpc[d] = "failed")

\* Start says "Server is running now!" and starts nothing when the server runs:
\* there is one DoProc thread for an object at any time.
OneDoProc == \A d, e \in Running : d = e

\* Start refuses because the "Server is running now!": whenever it does, a
\* DoProc thread of the object exists.
RefusalMeansRunning == base /\ ~deleted => Running # {}
=============================================================================
