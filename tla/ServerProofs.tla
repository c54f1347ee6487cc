---------------------------- MODULE ServerProofs ----------------------------
(***************************************************************************)
(* Theorems about ServerLifecycle and GlobalServer for any number of       *)
(* starts, messages and tasks.                                             *)
(*                                                                         *)
(* Those about ServerLifecycle assume callers that do not call Start while *)
(* DoProc is under way, which the code leaves to them: with two DoProc     *)
(* threads on one object they are false.  Those about g_server assume      *)
(* nothing of the scripts: they say in which cases, and only in these, a   *)
(* worker uses what does not exist and two threads run one Lua state.      *)
(***************************************************************************)
EXTENDS GlobalServer, SequenceTheorems, TLAPS

\* Where DoProc has the Lua state open.
InLua == {"script", "base", "setup", "loop", "notify", "close"}

\* The one DoProc thread owns the object: its state is open, and nobody deletes
\* the object but the thread itself on its way out.
DoProcInv ==
  /\ OneDoProc
  /\ \A d \in Threads : dpc[d] \in InLua => state
  /\ \A d \in Running : ~deleted

\* The messages the notify timer took are dispatched before it takes others.
TimerInv == (\A d \in Threads : dpc[d] # "notify") => vvMessage = <<>>

ServerInv == TypeOK /\ DoProcInv /\ TimerInv /\ NotifyInOrder
-----------------------------------------------------------------------------
\* The tasks, those that name no coroutine of the second server, and the results that
\* such tasks have.
AllTasks == [owner : {"g_server", "other"}, co : BOOLEAN]
OwnTasks == {t \in AllTasks : t.co => t.owner = "g_server"}
OwnResults == {t \in AllTasks : t.owner = "g_server"}

\* A worker never runs Lua of a server, the thread of the second server only its own,
\* and the thread of g_server that of the second only after a task named a coroutine.
LuaInv ==
  /\ lua \in [LuaThreads -> {"none", "g_server", "other"}]
  /\ lua["worker"] = "none"
  /\ lua["other"] \in {"none", "other"}
  /\ lua["g_server"] = "other" => named
  /\ named \in BOOLEAN

\* As long as no task named a coroutine of the second server, every result on its way
\* to Update is one of g_server.
TaskInv ==
  /\ queue \in Seq(AllTasks)
  /\ task = <<>> \/ \E t \in AllTasks : task = <<t>>
  /\ poolsRet \in Seq(AllTasks) /\ lstRet \in Seq(AllTasks)
  /\ ~named => /\ queue \in Seq(OwnTasks)
               /\ task = <<>> \/ \E t \in OwnTasks : task = <<t>>
               /\ poolsRet \in Seq(OwnResults) /\ lstRet \in Seq(OwnResults)

\* Some task was posted that its worker has not reported.
Unreported == queue # <<>> \/ task # <<>>

\* An unreported task that was not posted early has an event to trigger, and one that
\* was not posted or left behind when g_server stopped has a server.
WorkInv ==
  /\ dpc[g] \in {"loop", "notify", "close", "ended"} => trigger
  /\ Unreported /\ ~early => trigger
  /\ Unreported /\ destroy => late
  /\ deleted => destroy
  /\ {early, late, trigger, destroy, deleted} \subseteq BOOLEAN

\* main's Start comes before everything DoProc does.
MainInv ==
  /\ dpc \in [Threads -> DoProcPcs]
  /\ starts \in Nat
  /\ starts = 0 => dpc[g] = "none"

GInv == MainInv /\ LuaInv /\ TaskInv /\ WorkInv /\ TriggerMisusedOnly
-----------------------------------------------------------------------------
(* ServerLifecycle                                                         *)

\* A message put at the end of the last of three lists is at the end of them all.
LEMMA AppendToAll ==
  ASSUME NEW S, NEW a \in Seq(S), NEW b \in Seq(S), NEW c \in Seq(S), NEW m \in S
  PROVE  a \o b \o Append(c, m) = Append(a \o b \o c, m)
<1>1. a \o b \in Seq(S)
  BY ConcatProperties
<1>2. \A d \in Seq(S) : d \o Append(c, m) = Append(d \o c, m)
  OBVIOUS
<1>3. QED
  BY <1>1, <1>2

\* The front of the second list may be moved to the end of the first.
LEMMA MoveFront ==
  ASSUME NEW S, NEW a \in Seq(S), NEW b \in Seq(S), b # <<>>
  PROVE  Append(a, Head(b)) \o Tail(b) = a \o b
  OBVIOUS

\* Before the first Start there is no thread and no message.
LEMMA InitServerInv == Init => ServerInv
<1> SUFFICES ASSUME Init PROVE ServerInv
  OBVIOUS
<1> USE BoundAssumption DEF Init
<1>1. Threads \subseteq Nat /\ dpc \in [Threads -> DoProcPcs]
  BY DEF Threads, DoProcPcs
<1>2. TypeOK
  <2>1. /\ starts \in 0 .. MaxStarts /\ sent \in 0 .. MaxNotifies
        /\ vvMsg \in Seq(Messages) /\ vvMessage \in Seq(Messages)
        /\ dispatched \in Seq(Messages)
    OBVIOUS
  <2>2. {base, state, destroy, loopExit, deleted} \subseteq BOOLEAN
    OBVIOUS
  <2>3. \A d \in Threads : dpc[d] = "none"
    OBVIOUS
  <2>4. QED
    BY <1>1, <2>1, <2>2, <2>3 DEF TypeOK
<1>3. DoProcInv /\ TimerInv
  BY DEF DoProcInv, TimerInv, OneDoProc, Running, InLua
<1>4. NotifyInOrder
  <2>1. <<>> \o <<>> \o <<>> = <<>>
    OBVIOUS
  <2>2. [i \in 1 .. 0 |-> i] = <<>>
    OBVIOUS
  <2>3. QED
    BY <2>1, <2>2 DEF NotifyInOrder
<1>5. QED
  BY <1>2, <1>3, <1>4 DEF ServerInv

\* The types, and the state being open where Lua is entered.
LEMMA ServerTypesStep ==
  ASSUME EarlyRestart = FALSE, ServerInv, [Next]_vars
  PROVE  TypeOK'
<1> USE BoundAssumption DEF vars, objectVars, notifyVars
<1>1. TypeOK /\ DoProcInv
  BY DEF ServerInv
<1>2. CASE Start
  <2>1. starts + 1 \in Threads
    BY <1>1, <1>2 DEF Start, TypeOK, Threads
  <2>2. starts' \in 0 .. MaxStarts
    BY <1>1, <1>2 DEF Start, TypeOK
  <2>3. /\ dpc' = [dpc EXCEPT ![starts + 1] = "load"]
        /\ UNCHANGED <<objectVars, notifyVars>>
    BY <1>2 DEF Start
  <2>4. dpc' \in [Threads -> DoProcPcs]
    BY <1>1, <2>3 DEF TypeOK, DoProcPcs
  <2>5. \A d \in Threads :
          dpc'[d] \in {"script", "loop", "notify"} => state' /\ ~deleted'
    BY <1>1, <2>3, Zenon DEF TypeOK
  <2>6. QED
    BY <1>1, <2>2, <2>3, <2>4, <2>5 DEF TypeOK
<1>3. CASE Stop
  BY <1>1, <1>3 DEF Stop, TypeOK
<1>4. CASE Notify
  <2>1. sent + 1 \in Messages
    BY <1>1, <1>4 DEF Notify, TypeOK, Messages
  <2>2. vvMsg' \in Seq(Messages) /\ sent' \in 0 .. MaxNotifies
    BY <1>1, <1>4, <2>1 DEF Notify, TypeOK
  <2>3. UNCHANGED <<dpc, starts, base, state, destroy, loopExit, deleted, vvMessage, dispatched>>
    BY <1>4 DEF Notify
  <2>4. QED
    BY <1>1, <2>2, <2>3 DEF TypeOK
<1>5. ASSUME NEW d \in Threads, DoProc(d) PROVE TypeOK'
  <2>0. /\ dpc[d] \in InLua => state
        /\ dpc[d] \notin {"none", "failed", "ended"} =>
             /\ ~deleted
             /\ \A e \in Threads : e # d => dpc[e] \in {"none", "failed", "ended"}
    BY <1>1 DEF DoProcInv, OneDoProc, Running
  <2> USE <1>1, <2>0 DEF TypeOK, DoProcPcs, InLua
  <2>1. CASE LoadCfg(d) \/ Setup(d)
    <3>1. CASE LoadCfg(d)
      BY <3>1 DEF LoadCfg
    <3>2. CASE Setup(d)
      BY <3>2 DEF Setup
    <3>3. QED
      BY <2>1, <3>1, <3>2
  <2>2. CASE EndStartupScript(d)
    BY <2>2 DEF EndStartupScript
  <2>3. CASE OpenState(d) \/ MakeBase(d)
    <3>1. ~deleted /\ (MakeBase(d) => state)
      BY <2>3 DEF OpenState, MakeBase
    <3>2. /\ state' = TRUE \/ UNCHANGED state
          /\ base' = TRUE \/ UNCHANGED base
          /\ UNCHANGED <<destroy, loopExit, deleted>>
      BY <2>3, Zenon DEF OpenState, MakeBase
    <3>3. state'
      BY <2>3, <3>1, Zenon DEF OpenState, MakeBase
    <3>4. state' \in BOOLEAN /\ base' \in BOOLEAN
      BY <3>2
    <3>5. {base, state, destroy, loopExit, deleted}' \subseteq BOOLEAN
      BY <3>2, <3>4
    <3>6. dpc' \in [Threads -> DoProcPcs] /\ UNCHANGED <<starts, notifyVars>>
      BY <2>3 DEF OpenState, MakeBase
    <3>7. QED
      BY <3>1, <3>2, <3>3, <3>5, <3>6
  <2>4. CASE NotifyTimer(d)
    BY <2>4 DEF NotifyTimer
  <2>5. CASE DispatchMessage(d)
    <3>1. CASE vvMessage = <<>>
      BY <2>5, <3>1 DEF DispatchMessage
    <3>2. CASE vvMessage # <<>>
      <4>1. /\ Head(vvMessage) \in Messages /\ Tail(vvMessage) \in Seq(Messages)
            /\ Append(dispatched, Head(vvMessage)) \in Seq(Messages)
        BY <3>2
      <4>2. QED
        BY <2>5, <3>2, <4>1 DEF DispatchMessage
    <3>3. QED
      BY <3>1, <3>2
  <2>6. CASE LeaveLoop(d) \/ Close(d)
    BY <2>6 DEF LeaveLoop, Close
  <2>7. QED
    BY <1>5, <2>1, <2>2, <2>3, <2>4, <2>5, <2>6 DEF DoProc
<1>6. CASE UNCHANGED vars
  BY <1>1, <1>6 DEF TypeOK
<1>7. QED
  BY <1>2, <1>3, <1>4, <1>5, <1>6 DEF Next

\* Start finds no DoProc under way, so there is only ever one thread to close the
\* state and to delete the object.
LEMMA DoProcStep ==
  ASSUME EarlyRestart = FALSE, ServerInv, [Next]_vars
  PROVE  DoProcInv' /\ TimerInv'
<1> USE BoundAssumption DEF vars, objectVars, notifyVars
<1>1. TypeOK /\ DoProcInv /\ TimerInv
  BY DEF ServerInv
<1> USE <1>1 DEF DoProcInv, TimerInv, OneDoProc, Running, InLua
<1>2. CASE Start
  <2>1. \A d \in Threads : dpc[d] \in {"none", "failed", "ended"}
    BY <1>2 DEF Start
  <2>2. /\ ~deleted /\ UNCHANGED <<objectVars, notifyVars>>
        /\ dpc' = [dpc EXCEPT ![starts + 1] = "load"]
    BY <1>2 DEF Start
  <2>3. QED
    BY <2>1, <2>2 DEF TypeOK
<1>3. CASE Stop \/ Notify
  BY <1>3 DEF Stop, Notify
<1>5. ASSUME NEW d \in Threads, DoProc(d) PROVE DoProcInv' /\ TimerInv'
  <2>0. /\ dpc[d] \in InLua => state
        /\ dpc[d] \notin {"none", "failed", "ended"} =>
             /\ ~deleted
             /\ \A e \in Threads : e # d => dpc[e] \in {"none", "failed", "ended"}
    OBVIOUS
  <2> USE <2>0 DEF TypeOK, DoProcPcs
  <2>1. CASE LoadCfg(d) \/ OpenState(d)
    BY <2>1 DEF LoadCfg, OpenState
  <2>2. CASE EndStartupScript(d)
    BY <2>2 DEF EndStartupScript
  <2>3. CASE MakeBase(d) \/ Setup(d)
    BY <2>3 DEF MakeBase, Setup
  <2>4. CASE NotifyTimer(d)
    BY <2>4 DEF NotifyTimer
  <2>5. CASE DispatchMessage(d)
    BY <2>5 DEF DispatchMessage
  <2>6. CASE LeaveLoop(d) \/ Close(d)
    BY <2>6 DEF LeaveLoop, Close
  <2>7. QED
    BY <1>5, <2>1, <2>2, <2>3, <2>4, <2>5, <2>6 DEF DoProc
<1>6. CASE UNCHANGED vars
  BY <1>6
<1>7. QED
  BY <1>2, <1>3, <1>5, <1>6 DEF Next

\* The push, the swap and each dispatch keep the three lists, put together, the
\* messages that were sent.
LEMMA OrderStep ==
  ASSUME EarlyRestart = FALSE, ServerInv, [Next]_vars
  PROVE  NotifyInOrder'
<1>1. /\ vvMsg \in Seq(Messages) /\ vvMessage \in Seq(Messages)
      /\ dispatched \in Seq(Messages) /\ sent \in Nat
      /\ NotifyInOrder
  BY BoundAssumption DEF ServerInv, TypeOK
<1>2. CASE Notify
  <2>1. /\ sent + 1 \in Messages /\ sent' = sent + 1
        /\ vvMsg' = Append(vvMsg, sent + 1) /\ UNCHANGED <<vvMessage, dispatched>>
    BY <1>1, <1>2, BoundAssumption DEF Notify, Messages
  <2>2. (dispatched \o vvMessage \o vvMsg)' = Append(dispatched \o vvMessage \o vvMsg, sent + 1)
    BY <1>1, <2>1, AppendToAll
  <2>3. Append([i \in 1 .. sent |-> i], sent + 1) = [i \in 1 .. sent + 1 |-> i]
    BY <1>1
  <2>4. QED
    BY <1>1, <2>1, <2>2, <2>3 DEF NotifyInOrder
<1>3. ASSUME NEW d \in Threads, NotifyTimer(d) PROVE NotifyInOrder'
  <2>1. vvMessage = <<>>
    BY <1>3 DEF ServerInv, DoProcInv, TimerInv, OneDoProc, Running, NotifyTimer
  <2>2. (dispatched \o vvMessage \o vvMsg)' = dispatched \o vvMsg \o <<>>
    BY <1>3 DEF NotifyTimer
  <2>3. dispatched \o vvMsg \o <<>> = dispatched \o <<>> \o vvMsg
    BY <1>1
  <2>4. QED
    BY <1>1, <1>3, <2>1, <2>2, <2>3 DEF NotifyInOrder, NotifyTimer
<1>4. ASSUME NEW d \in Threads, DispatchMessage(d) PROVE NotifyInOrder'
  <2>1. CASE vvMessage = <<>>
    BY <1>1, <1>4, <2>1 DEF NotifyInOrder, DispatchMessage
  <2>2. CASE vvMessage # <<>>
    <3>1. (dispatched \o vvMessage)' = dispatched \o vvMessage
      BY <1>1, <1>4, <2>2, MoveFront DEF DispatchMessage
    <3>2. QED
      BY <1>1, <1>4, <3>1 DEF NotifyInOrder, DispatchMessage
  <2>3. QED
    BY <2>1, <2>2
<1>5. CASE UNCHANGED notifyVars
  BY <1>1, <1>5 DEF notifyVars, NotifyInOrder
<1>6. QED
  BY <1>2, <1>3, <1>4, <1>5
     DEF Next, DoProc, vars, Start, Stop, LoadCfg, OpenState, EndStartupScript,
         MakeBase, Setup, LeaveLoop, Close

\* The invariant holds in every state.
LEMMA AlwaysServerInv ==
  ASSUME EarlyRestart = FALSE
  PROVE  Spec => []ServerInv
<1>1. ServerInv /\ [Next]_vars => ServerInv'
  BY ServerTypesStep, DoProcStep, OrderStep DEF ServerInv
<1>2. QED
  BY <1>1, InitServerInv, PTL DEF Spec

\* The DoProc thread of an object that is started again only after it failed never
\* enters a closed Lua state or a deleted object.
THEOREM ServerTypeCorrect ==
  ASSUME EarlyRestart = FALSE
  PROVE  Spec => []TypeOK
  BY AlwaysServerInv, PTL DEF ServerInv

\* Whoever calls Notify whenever, the once-a-second swap and dispatch lose, repeat
\* and reorder nothing.
THEOREM NotifyInOrderHolds ==
  ASSUME EarlyRestart = FALSE
  PROVE  Spec => []NotifyInOrder
  BY AlwaysServerInv, PTL DEF ServerInv
-----------------------------------------------------------------------------
(* GlobalServer                                                            *)

\* Before main's Start nothing runs and no task exists.
LEMMA InitGInv == GInit => GInv
<1> SUFFICES ASSUME GInit PROVE GInv
  OBVIOUS
<1> USE BoundAssumption, StartAssumption DEF GInit, Init, g
<1>1. g \in Threads
  BY DEF Threads
<1>2. MainInv
  BY <1>1 DEF MainInv, DoProcPcs
<1>3. LuaInv
  BY <1>1 DEF LuaInv, LuaThreads
<1>4. TaskInv
  BY DEF TaskInv
<1>5. WorkInv
  BY <1>1 DEF WorkInv, Unreported
<1>6. QED
  BY <1>2, <1>3, <1>4, <1>5 DEF GInv, TriggerMisusedOnly

\* GNext, one disjunct per operation.
LEMMA GNextCases ==
  ASSUME GNext
  PROVE  \/ MainStarts
         \/ ServerSteps \/ StartupScript \/ SetupAll
         \/ HandlerBegins \/ HandlerEnds \/ StopsItself \/ UserTriggerCb \/ Resume
         \/ OtherRuns \/ OtherNotifies
         \/ \E s \in {"g_server", "other"}, co \in BOOLEAN : ThreadExecute(s, co)
         \/ TakeTask \/ ReturnTask \/ Trigger
  BY DEF GNext, WorkerStep

\* Where g_server's DoProc is.
LEMMA MainStep ==
  ASSUME GInv, [GNext]_allVars
  PROVE  MainInv'
<1> USE BoundAssumption, StartAssumption DEF objectVars, notifyVars
<1>1. MainInv /\ g \in Threads
  BY DEF GInv, Threads, g
<1>2. CASE MainStarts
  BY <1>1, <1>2 DEF MainStarts, Start, MainInv, DoProcPcs, g
<1>3. CASE dpc' \in [Threads -> DoProcPcs] /\ UNCHANGED starts /\ dpc[g] # "none"
  BY <1>1, <1>3 DEF MainInv
<1>4. CASE UNCHANGED <<dpc, starts>>
  BY <1>1, <1>4 DEF MainInv
<1>5. CASE ServerSteps
  <2>1. dpc' \in [Threads -> DoProcPcs] /\ UNCHANGED starts /\ dpc[g] # "none"
    BY <1>1, <1>5 DEF ServerSteps, LoadCfg, MakeBase, NotifyTimer, DispatchMessage,
                      LeaveLoop, Close, MainInv, DoProcPcs
  <2>2. QED
    BY <1>3, <2>1
<1>6. CASE StartupScript \/ SetupAll
  <2>1. dpc' \in [Threads -> DoProcPcs] /\ UNCHANGED starts /\ dpc[g] # "none"
    BY <1>1, <1>6 DEF StartupScript, OpenState, EndStartupScript, SetupAll, Setup,
                      MainInv, DoProcPcs
  <2>2. QED
    BY <1>3, <2>1
<1>7. QED
  BY <1>2, <1>4, <1>5, <1>6, GNextCases
     DEF allVars, vars, HandlerBegins, HandlerEnds, StopsItself, Stop, UserTriggerCb,
         Resume, OtherRuns, OtherNotifies, Notify, ThreadExecute, TakeTask,
         ReturnTask, Trigger

\* Every result Update hands over is g_server's own until a task named another.
LEMMA LuaStep ==
  ASSUME GInv, [GNext]_allVars
  PROVE  LuaInv'
<1> USE DEF LuaThreads
<1>1. LuaInv /\ TaskInv
  BY DEF GInv
<1>2. CASE StartupScript \/ HandlerBegins \/ HandlerEnds
  <2>1. /\ UNCHANGED named
        /\ \E v \in {"none", "g_server"} : lua' = [lua EXCEPT !["g_server"] = v]
    BY <1>2 DEF StartupScript, HandlerBegins, HandlerEnds, poolVars, scriptVars
  <2>2. QED
    BY <1>1, <2>1 DEF LuaInv
<1>3. CASE Resume
  <2>1. PICK o : o = Head(lstRet).owner /\ lua' = [lua EXCEPT !["g_server"] = o] /\ UNCHANGED named
    BY <1>3 DEF Resume, HandOver, scriptVars
  <2>2. lstRet # <<>> /\ lstRet \in Seq(AllTasks)
    BY <1>1, <1>3 DEF Resume, HandOver, TaskInv
  <2>3. o \in {"g_server", "other"}
    <3>1. Head(lstRet) \in AllTasks
      BY <2>2
    <3>2. QED
      BY <2>1, <3>1 DEF AllTasks
  <2>4. ~named => o = "g_server"
    <3>1. SUFFICES ASSUME ~named PROVE o = "g_server"
      OBVIOUS
    <3>2. lstRet \in Seq(OwnResults)
      BY <1>1, <3>1 DEF TaskInv
    <3>3. Head(lstRet) \in OwnResults
      BY <2>2, <3>2
    <3>4. QED
      BY <2>1, <3>3 DEF OwnResults
  <2>5. QED
    BY <1>1, <2>1, <2>3, <2>4 DEF LuaInv
<1>4. CASE OtherRuns
  <2>1. /\ UNCHANGED named
        /\ \E v \in {"none", "other"} : lua' = [lua EXCEPT !["other"] = v]
    BY <1>4 DEF OtherRuns, poolVars, scriptVars
  <2>2. QED
    BY <1>1, <2>1 DEF LuaInv
<1>5. ASSUME NEW s \in {"g_server", "other"}, NEW co \in BOOLEAN, ThreadExecute(s, co)
      PROVE  LuaInv'
  <2>1. UNCHANGED lua /\ named' = (named \/ (s = "other" /\ co))
    BY <1>5 DEF ThreadExecute
  <2>2. QED
    BY <1>1, <2>1 DEF LuaInv
<1>6. CASE UNCHANGED <<lua, named>>
  BY <1>1, <1>6 DEF LuaInv
<1>7. QED
  BY <1>2, <1>3, <1>4, <1>5, <1>6, GNextCases
     DEF allVars, poolVars, scriptVars, MainStarts, ServerSteps, SetupAll, StopsItself,
         UserTriggerCb, OtherNotifies, TakeTask, ReturnTask, Trigger

\* What a worker took, returned and triggered, and what Update took, were posted tasks.
LEMMA TaskStep ==
  ASSUME GInv, [GNext]_allVars
  PROVE  TaskInv'
<1> USE DEF poolVars, scriptVars
<1>1. LuaInv /\ TaskInv
  BY DEF GInv
<1>2. CASE UserTriggerCb
  <2>1. /\ lstRet' = poolsRet /\ poolsRet' = <<>> /\ UNCHANGED <<queue, task, named>>
    BY <1>2 DEF UserTriggerCb
  <2>2. QED
    BY <1>1, <2>1 DEF TaskInv
<1>3. CASE Resume
  <2>1. /\ lstRet # <<>> /\ lstRet' = Tail(lstRet) /\ UNCHANGED <<queue, task, poolsRet, named>>
    BY <1>3 DEF Resume, HandOver
  <2>2. Tail(lstRet) \in Seq(AllTasks) /\ (~named => Tail(lstRet) \in Seq(OwnResults))
    BY <1>1, <2>1 DEF TaskInv
  <2>3. QED
    BY <1>1, <2>1, <2>2 DEF TaskInv
<1>4. ASSUME NEW s \in {"g_server", "other"}, NEW co \in BOOLEAN, ThreadExecute(s, co)
      PROVE  TaskInv'
  <2>1. PICK t \in AllTasks : t = [owner |-> s, co |-> co]
    BY DEF AllTasks
  <2>2. /\ queue' = Append(queue, t) /\ named' = (named \/ (s = "other" /\ co))
        /\ UNCHANGED <<task, poolsRet, lstRet>>
    BY <1>4, <2>1 DEF ThreadExecute
  <2>3. queue' \in Seq(AllTasks)
    BY <1>1, <2>2 DEF TaskInv
  <2>4. ASSUME ~named' PROVE ~named /\ queue' \in Seq(OwnTasks)
    <3>1. ~named /\ (s = "g_server" \/ ~co)
      BY <2>2, <2>4
    <3>2. t.owner = s /\ t.co = co
      BY <2>1
    <3>3. t \in OwnTasks
      BY <3>1, <3>2 DEF OwnTasks
    <3>4. queue \in Seq(OwnTasks)
      BY <1>1, <3>1 DEF TaskInv
    <3>5. QED
      BY <2>2, <3>1, <3>3, <3>4
  <2>5. QED
    BY <1>1, <2>2, <2>3, <2>4 DEF TaskInv
<1>5. CASE TakeTask
  <2>1. queue # <<>> /\ task' = <<Head(queue)>> /\ queue' = Tail(queue)
        /\ UNCHANGED <<poolsRet, lstRet, named>>
    BY <1>5 DEF TakeTask
  <2>2. Head(queue) \in AllTasks /\ Tail(queue) \in Seq(AllTasks)
    BY <1>1, <2>1 DEF TaskInv
  <2>3. ~named => Head(queue) \in OwnTasks /\ Tail(queue) \in Seq(OwnTasks)
    BY <1>1, <2>1 DEF TaskInv
  <2>4. QED
    BY <1>1, <2>1, <2>2, <2>3 DEF TaskInv
<1>6. CASE ReturnTask
  <2>1. PICK t \in AllTasks : task = <<t>>
    BY <1>1, <1>6 DEF ReturnTask, TaskInv
  <2>2. /\ task[1] = t /\ t.co
        /\ poolsRet' = Append(poolsRet, t) /\ task' = <<[t EXCEPT !.co = FALSE]>>
        /\ UNCHANGED <<queue, lstRet, named>>
    BY <1>6, <2>1 DEF ReturnTask
  <2>3. PICK u : u = [t EXCEPT !.co = FALSE]
    OBVIOUS
  <2>4. u \in AllTasks
    BY <2>3 DEF AllTasks
  <2>5. ASSUME ~named PROVE t \in OwnResults /\ u \in OwnTasks
    <3>1. t \in OwnTasks
      BY <1>1, <2>1, <2>5 DEF TaskInv
    <3>2. t.owner = "g_server"
      BY <2>2, <3>1 DEF OwnTasks
    <3>3. u.owner = "g_server"
      BY <2>3, <3>2 DEF AllTasks
    <3>4. QED
      BY <2>4, <3>2, <3>3 DEF OwnTasks, OwnResults
  <2>6. poolsRet' \in Seq(AllTasks) /\ task' = <<u>>
    BY <1>1, <2>2, <2>3 DEF TaskInv
  <2>7. ~named => poolsRet' \in Seq(OwnResults)
    BY <1>1, <2>2, <2>5 DEF TaskInv
  <2>8. QED
    BY <1>1, <2>2, <2>4, <2>5, <2>6, <2>7 DEF TaskInv
<1>7. CASE Trigger
  <2>1. task' = <<>> /\ UNCHANGED <<queue, poolsRet, lstRet, named>>
    BY <1>7 DEF Trigger
  <2>2. QED
    BY <1>1, <2>1 DEF TaskInv
<1>8. CASE UNCHANGED <<queue, task, poolsRet, lstRet, named>>
  BY <1>1, <1>8 DEF TaskInv
<1>9. QED
  BY <1>2, <1>3, <1>4, <1>5, <1>6, <1>7, <1>8, GNextCases
     DEF allVars, MainStarts, ServerSteps, StartupScript, SetupAll, HandlerBegins,
         HandlerEnds, StopsItself, OtherRuns, OtherNotifies

\* A task that is posted late or early is noted, and so are those a Stop leaves behind.
LEMMA WorkStep ==
  ASSUME GInv, [GNext]_allVars
  PROVE  WorkInv'
<1> USE DEF objectVars, notifyVars, poolVars, scriptVars, Unreported
<1>1. MainInv /\ WorkInv /\ g \in Threads
  BY BoundAssumption, StartAssumption DEF GInv, Threads, g
<1>2. CASE MainStarts
  <2>1. /\ UNCHANGED <<queue, task, trigger, destroy, deleted, early, late>>
        /\ dpc'[g] = "load"
    BY <1>1, <1>2 DEF MainStarts, Start, MainInv, g
  <2>2. QED
    BY <1>1, <2>1 DEF WorkInv
<1>3. CASE ServerSteps
  <2>1. /\ UNCHANGED <<queue, task, trigger, destroy, early, late>>
        /\ deleted' = deleted \/ deleted' = destroy
        /\ dpc'[g] \in {"loop", "notify", "close", "ended"}
             => dpc[g] \in {"loop", "notify", "close", "ended"}
    BY <1>1, <1>3 DEF ServerSteps, LoadCfg, MakeBase, NotifyTimer, DispatchMessage,
                      LeaveLoop, Close, MainInv
  <2>2. QED
    BY <1>1, <2>1 DEF WorkInv
<1>4. CASE StartupScript
  <2>1. /\ UNCHANGED <<queue, task, trigger, destroy, deleted, early, late>>
        /\ dpc'[g] \notin {"loop", "notify", "close", "ended"}
    BY <1>1, <1>4 DEF StartupScript, OpenState, EndStartupScript, MainInv
  <2>2. QED
    BY <1>1, <2>1 DEF WorkInv
<1>5. CASE SetupAll
  <2>1. /\ UNCHANGED <<queue, task, destroy, deleted, early, late>>
        /\ trigger' = (trigger \/ dpc'[g] = "loop")
        /\ dpc'[g] \in {"loop", "failed"}
    BY <1>1, <1>5 DEF SetupAll, Setup, MainInv
  <2>2. QED
    BY <1>1, <2>1 DEF WorkInv
<1>6. CASE StopsItself
  <2>1. /\ UNCHANGED <<queue, task, trigger, deleted, dpc, early>>
        /\ destroy' = TRUE /\ late' = (late \/ queue # <<>> \/ task # <<>>)
    BY <1>6 DEF StopsItself, Stop
  <2>2. QED
    BY <1>1, <2>1 DEF WorkInv
<1>7. ASSUME NEW s \in {"g_server", "other"}, NEW co \in BOOLEAN, ThreadExecute(s, co)
      PROVE  WorkInv'
  <2>1. /\ UNCHANGED <<trigger, destroy, deleted, dpc>>
        /\ early' = (early \/ dpc[g] \notin {"loop", "notify", "close", "ended"})
        /\ late' = (late \/ destroy)
    BY <1>7 DEF ThreadExecute, vars
  <2>2. QED
    BY <1>1, <2>1 DEF WorkInv
<1>8. CASE TakeTask \/ ReturnTask \/ Trigger
  <2>1. /\ UNCHANGED <<trigger, destroy, deleted, dpc, early, late>>
        /\ Unreported' => Unreported
    BY <1>8 DEF TakeTask, ReturnTask, Trigger, vars
  <2>2. QED
    BY <1>1, <2>1 DEF WorkInv
<1>9. CASE UNCHANGED <<queue, task, trigger, destroy, deleted, dpc, early, late>>
  BY <1>1, <1>9 DEF WorkInv
<1>10. QED
  BY <1>2, <1>3, <1>4, <1>5, <1>6, <1>7, <1>8, <1>9, GNextCases
     DEF allVars, vars, HandlerBegins, HandlerEnds, UserTriggerCb, Resume, OtherRuns,
         OtherNotifies, Notify

\* A worker that reports has an unreported task.
LEMMA TriggerStep ==
  ASSUME GInv, [GNext]_allVars
  PROVE  TriggerMisusedOnly'
<1> USE DEF TriggerMisusedOnly, poolVars, scriptVars
<1>1. TriggerMisusedOnly /\ WorkInv
  BY DEF GInv
<1>2. CASE Trigger
  <2>1. Unreported
    BY <1>2 DEF Trigger, Unreported
  <2>2. (~trigger => early) /\ (deleted => late)
    BY <1>1, <2>1 DEF WorkInv
  <2>3. /\ UNCHANGED <<early, late>>
        /\ misuse' = misuse \cup (IF deleted THEN {"deleted server"} ELSE {})
                            \cup (IF trigger THEN {} ELSE {"no event"})
    BY <1>2 DEF Trigger
  <2>4. QED
    BY <1>1, <2>2, <2>3
<1>3. ASSUME NEW s \in {"g_server", "other"}, NEW co \in BOOLEAN, ThreadExecute(s, co)
      PROVE  TriggerMisusedOnly'
  <2>1. UNCHANGED misuse /\ (early => early') /\ (late => late')
    BY <1>3 DEF ThreadExecute
  <2>2. QED
    BY <1>1, <2>1
<1>4. CASE StopsItself
  <2>1. UNCHANGED <<misuse, early>> /\ (late => late')
    BY <1>4 DEF StopsItself
  <2>2. QED
    BY <1>1, <2>1
<1>5. CASE UNCHANGED <<misuse, early, late>>
  BY <1>1, <1>5
<1>6. QED
  BY <1>2, <1>3, <1>4, <1>5, GNextCases
     DEF allVars, MainStarts, ServerSteps, StartupScript, SetupAll, HandlerBegins,
         HandlerEnds, UserTriggerCb, Resume, OtherRuns, OtherNotifies,
         TakeTask, ReturnTask

\* The invariant holds in every state.
LEMMA AlwaysGInv == GSpec => []GInv
<1>1. GInv /\ [GNext]_allVars => GInv'
  BY MainStep, LuaStep, TaskStep, WorkStep, TriggerStep DEF GInv
<1>2. QED
  BY <1>1, InitGInv, PTL DEF GSpec

\* Whatever scripts do, a worker triggers an event that does not exist only if a task was
\* posted before the loop of g_server, and a deleted g_server only if it was stopped with
\* a task unreported or one was posted after that.
THEOREM TriggerMisusedOnlyHolds == GSpec => []TriggerMisusedOnly
  BY AlwaysGInv, PTL DEF GInv

\* Whatever scripts do, the Lua state of g_server runs on one thread, no worker runs a
\* server's Lua state, and the second server's state runs on two threads only after one
\* of its tasks named a coroutine.
THEOREM OneThreadPerStateHolds == GSpec => []OneThreadPerState
<1>1. GInv => OneThreadPerState
  <2>1. SUFFICES ASSUME GInv, NEW t \in LuaThreads, NEW u \in LuaThreads,
                        t # u, lua[t] # "none", lua[t] = lua[u]
                 PROVE  {t, u} = {"g_server", "other"} /\ lua[t] = "other" /\ named
    BY DEF OneThreadPerState
  <2>2. /\ lua["worker"] = "none" /\ lua["other"] \in {"none", "other"}
        /\ lua["g_server"] = "other" => named
    BY <2>1 DEF GInv, LuaInv
  <2>3. t \in {"g_server", "other"} /\ u \in {"g_server", "other"}
    BY <2>1, <2>2 DEF LuaThreads
  <2>4. QED
    BY <2>1, <2>2, <2>3
<1>2. QED
  BY <1>1, AlwaysGInv, PTL
=============================================================================
