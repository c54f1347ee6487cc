--------------------------- MODULE LuaThreadPool ---------------------------
(***************************************************************************)
(* The worker threads of the server: CLuaThread (LuaThread.cpp), its       *)
(* manager CLuaThreadMgr (LuaThreadMgr.cpp), the event a worker sleeps on  *)
(* (Linux_Win_Event, LXZLock.h) and the user event through which a worker  *)
(* wakes the event loop of g_server (EventServer.cpp).                     *)
(*                                                                         *)
(* A script running on the thread of any server calls                      *)
(* EventServer:ThreadExecute(threadid, co, code): the task is queued for   *)
(* the worker, which runs the code in its own Lua state and, if a          *)
(* coroutine was named, puts the task on the manager's return list and     *)
(* activates the user event; the loop of g_server then runs                *)
(* CLuaThreadMgr::Update, which resumes the coroutines.                    *)
(*                                                                         *)
(* Every critical section is one step, and so is every unlocked access to  *)
(* shared state; what happens between two of them in one thread is local   *)
(* and belongs to the step before.  A task is identified by the number of  *)
(* the ThreadExecute call that made it.                                    *)
(***************************************************************************)
EXTENDS Naturals, Sequences, FiniteSets

CONSTANTS
  Servers,          \* the CEventServer objects, one event loop thread each
  MainServer,       \* g_server, the only one whose user event is activated
  Workers,          \* the thread ids scripts pass to ThreadExecute
  NoWorker,         \* the worker of a server that is in no call
  Coroutines,       \* Lua coroutines of g_server's Lua state
  NoCo,             \* the nil coroutine argument
  DefaultMaxTasks,  \* _max_tasks of a new CLuaThread (10000 in the code)
  MaxTaskValues,    \* the limits scripts pass to SetLuaThreadMaxTask
  MaxCalls          \* bound: calls of ThreadExecute in one behaviour

ASSUME ServersAssumption == MainServer \in Servers /\ IsFiniteSet(Servers)
ASSUME NoneAssumption == NoCo \notin Coroutines /\ NoWorker \notin Workers
ASSUME LimitAssumption == DefaultMaxTasks \in Nat /\ MaxTaskValues \subseteq Nat
ASSUME BoundAssumption == MaxCalls \in Nat

Calls == 1 .. MaxCalls

\* The limits a CLuaThread can have had.
Limits == MaxTaskValues \cup {DefaultMaxTasks}

NoTask == 0

VARIABLES
  wpc,        \* worker -> where its thread is in WorkProc
  semReady,   \* the workers whose _event.pSem is not NULL
  sem,        \* worker -> value of the semaphore
  tasks,      \* worker -> _tasks
  maxTasks,   \* worker -> _max_tasks
  pCmd,       \* worker -> the task popped and not yet handed on or deleted
  spc,        \* server -> where its thread is
  target,     \* server -> the worker its ThreadExecute call is about
  newTask,    \* server -> the task of its ThreadExecute call
  count,      \* server -> size_tasks, what GetTaskCount returned
  poolsRet,   \* _poolsRet, the tasks whose result is to be handed over
  lstRet,     \* the tasks Update swapped out and has not looked at
  updCmd,     \* the task whose coroutine Update is resuming
  userEvent,  \* the user event of g_server
  coStatus,   \* coroutine -> lua_status, with the two ends of its life
  runCo,      \* the coroutine running on g_server's thread
  taskCo,     \* call -> the coroutine it named
  taskWorker, \* call -> the worker it was made to (history)
  refs,       \* the calls that hold a registry reference on their coroutine
  outcome,    \* call -> what became of it
  calls       \* how many calls were made

workerVars == <<wpc, semReady, sem, tasks, maxTasks, pCmd>>
callVars   == <<spc, target, newTask, count>>
returnVars == <<poolsRet, lstRet, updCmd, userEvent>>
luaVars    == <<coStatus, runCo, taskCo, taskWorker, refs>>
vars == <<workerVars, callVars, returnVars, luaVars, outcome, calls>>

WorkerPcs == {"absent", "created", "init", "pop", "wait", "run", "return",
              "trigger", "dead"}
ServerPcs == {"loop", "script", "spawn", "count", "limit", "push", "signal",
              "swap", "deliver"}
CoStatus  == {"fresh", "running", "yield", "dead"}
Outcomes  == {"unused", "refused", "pending", "discarded", "resumed", "dropped"}

\* The worker ids for which _pools holds a CLuaThread.
Pools == {w \in Workers : wpc[w] # "absent"}

WorkerTypes ==
  /\ wpc \in [Workers -> WorkerPcs]
  /\ semReady \in SUBSET Workers
  /\ sem \in [Workers -> Nat]
  /\ tasks \in [Workers -> Seq(Calls)]
  /\ maxTasks \in [Workers -> Limits]
  /\ pCmd \in [Workers -> Calls \cup {NoTask}]

CallTypes ==
  /\ spc \in [Servers -> ServerPcs]
  /\ target \in [Servers -> Workers \cup {NoWorker}]
  /\ newTask \in [Servers -> Calls \cup {NoTask}]
  /\ count \in [Servers -> Nat]

ReturnTypes ==
  /\ poolsRet \in Seq(Calls)
  /\ lstRet \in Seq(Calls)
  /\ updCmd \in Calls \cup {NoTask}
  /\ userEvent \in {"idle", "active"}

LuaTypes ==
  /\ coStatus \in [Coroutines -> CoStatus]
  /\ runCo \in Coroutines \cup {NoCo}
  /\ taskCo \in [Calls -> Coroutines \cup {NoCo}]
  /\ taskWorker \in [Calls -> Workers \cup {NoWorker}]
  /\ refs \in SUBSET Calls
  /\ outcome \in [Calls -> Outcomes]
  /\ calls \in 0 .. MaxCalls

\* Every variable holds what its declaration in the code allows.
TypeOK == WorkerTypes /\ CallTypes /\ ReturnTypes /\ LuaTypes

\* Every server is in its event loop and no CLuaThread exists.
Init ==
  /\ wpc = [w \in Workers |-> "absent"]
  /\ semReady = {}
  /\ sem = [w \in Workers |-> 0]
  /\ tasks = [w \in Workers |-> <<>>]
  /\ maxTasks = [w \in Workers |-> DefaultMaxTasks]
  /\ pCmd = [w \in Workers |-> NoTask]
  /\ spc = [s \in Servers |-> "loop"]
  /\ target = [s \in Servers |-> NoWorker]
  /\ newTask = [s \in Servers |-> NoTask]
  /\ count = [s \in Servers |-> 0]
  /\ poolsRet = <<>>
  /\ lstRet = <<>>
  /\ updCmd = NoTask
  /\ userEvent = "idle"
  /\ coStatus = [c \in Coroutines |-> "fresh"]
  /\ runCo = NoCo
  /\ taskCo = [t \in Calls |-> NoCo]
  /\ taskWorker = [t \in Calls |-> NoWorker]
  /\ refs = {}
  /\ outcome = [t \in Calls |-> "unused"]
  /\ calls = 0
-----------------------------------------------------------------------------
(* Scripts on a server's thread                                            *)

\* The loop dispatches an event to Lua outside any coroutine.
StartScript(s) ==
  /\ spc[s] = "loop"
  /\ spc' = [spc EXCEPT ![s] = "script"]
  /\ UNCHANGED <<workerVars, target, newTask, count, returnVars, luaVars,
                 outcome, calls>>

\* The loop of g_server starts a coroutine, or resumes a yielded one for a
\* reason that has nothing to do with its tasks (a timer, an HTTP answer).
StartCoroutine(c) ==
  /\ spc[MainServer] = "loop"
  /\ coStatus[c] \in {"fresh", "yield"}
  /\ spc' = [spc EXCEPT ![MainServer] = "script"]
  /\ coStatus' = [coStatus EXCEPT ![c] = "running"]
  /\ runCo' = c
  /\ UNCHANGED <<workerVars, target, newTask, count, returnVars, taskCo,
                 taskWorker, refs, outcome, calls>>

\* lua_ThreadExecute up to the end of GetThread's critical section: the worker
\* is found in _pools, or a CLuaThread is made and put there.  Only scripts of
\* g_server name a coroutine, the running one.
ThreadExecute(s, w, c) ==
  /\ spc[s] = "script"
  /\ calls < MaxCalls
  /\ c # NoCo => s = MainServer /\ c = runCo
  /\ calls' = calls + 1
  /\ newTask' = [newTask EXCEPT ![s] = calls + 1]
  /\ taskCo' = [taskCo EXCEPT ![calls + 1] = c]
  /\ taskWorker' = [taskWorker EXCEPT ![calls + 1] = w]
  /\ target' = [target EXCEPT ![s] = w]
  /\ IF w \in Pools
       THEN /\ spc' = [spc EXCEPT ![s] = "count"]
            /\ UNCHANGED wpc
       ELSE /\ spc' = [spc EXCEPT ![s] = "spawn"]
            /\ wpc' = [wpc EXCEPT ![w] = "created"]
  /\ UNCHANGED <<semReady, sem, tasks, maxTasks, pCmd, count, returnVars,
                 coStatus, runCo, refs, outcome>>

\* pthread_create, outside the lock.  Its result is not looked at: when it
\* fails the CLuaThread stays in _pools without a thread.
Spawn(s) ==
  /\ spc[s] = "spawn"
  /\ \E pc \in {"init", "dead"} : wpc' = [wpc EXCEPT ![target[s]] = pc]
  /\ spc' = [spc EXCEPT ![s] = "count"]
  /\ UNCHANGED <<semReady, sem, tasks, maxTasks, pCmd, target, newTask, count,
                 returnVars, luaVars, outcome, calls>>

\* GetTaskCount.
GetTaskCount(s) ==
  /\ spc[s] = "count"
  /\ count' = [count EXCEPT ![s] = Len(tasks[target[s]])]
  /\ spc' = [spc EXCEPT ![s] = "limit"]
  /\ UNCHANGED <<workerVars, target, newTask, returnVars, luaVars, outcome,
                 calls>>

\* Mutant: the limit is compared with > instead of >=.
CheckLimit_OffByOne(s) ==
  /\ spc[s] = "limit"
  /\ IF count[s] > maxTasks[target[s]]
       THEN /\ spc' = [spc EXCEPT ![s] = "script"]
            /\ outcome' = [outcome EXCEPT ![newTask[s]] = "refused"]
            /\ newTask' = [newTask EXCEPT ![s] = NoTask]
            /\ target' = [target EXCEPT ![s] = NoWorker]
            /\ UNCHANGED refs
       ELSE /\ spc' = [spc EXCEPT ![s] = "push"]
            /\ refs' = IF taskCo[newTask[s]] # NoCo THEN refs \cup {newTask[s]}
                                                    ELSE refs
            /\ UNCHANGED <<outcome, newTask, target>>
  /\ count' = [count EXCEPT ![s] = 0]
  /\ UNCHANGED <<workerVars, returnVars, coStatus, runCo, taskCo, taskWorker,
                 calls>>

\* Mutant: the overflow is logged but the return after it is missing.
CheckLimit_NoReturn(s) ==
  /\ spc[s] = "limit"
  /\ outcome' = IF count[s] >= maxTasks[target[s]]
                  THEN [outcome EXCEPT ![newTask[s]] = "refused"] ELSE outcome
  /\ spc' = [spc EXCEPT ![s] = "push"]
  /\ refs' = IF taskCo[newTask[s]] # NoCo THEN refs \cup {newTask[s]} ELSE refs
  /\ count' = [count EXCEPT ![s] = 0]
  /\ UNCHANGED <<workerVars, target, newTask, returnVars, coStatus, runCo,
                 taskCo, taskWorker, calls>>

\* The comparison of PostTask: too many tasks and the call returns; otherwise
\* the task is built and a reference is taken on its coroutine.
CheckLimit(s) ==
  /\ spc[s] = "limit"
  /\ IF count[s] >= maxTasks[target[s]]
       THEN /\ spc' = [spc EXCEPT ![s] = "script"]
            /\ outcome' = [outcome EXCEPT ![newTask[s]] = "refused"]
            /\ newTask' = [newTask EXCEPT ![s] = NoTask]
            /\ target' = [target EXCEPT ![s] = NoWorker]
            /\ UNCHANGED refs
       ELSE /\ spc' = [spc EXCEPT ![s] = "push"]
            /\ refs' = IF taskCo[newTask[s]] # NoCo THEN refs \cup {newTask[s]}
                                                    ELSE refs
            /\ UNCHANGED <<outcome, newTask, target>>
  /\ count' = [count EXCEPT ![s] = 0]
  /\ UNCHANGED <<workerVars, returnVars, coStatus, runCo, taskCo, taskWorker,
                 calls>>

\* Mutant: push_front.
PushTask_Front(s) ==
  /\ spc[s] = "push"
  /\ tasks' = [tasks EXCEPT ![target[s]] = <<newTask[s]>> \o @]
  /\ outcome' = [outcome EXCEPT ![newTask[s]] = "pending"]
  /\ newTask' = [newTask EXCEPT ![s] = NoTask]
  /\ spc' = [spc EXCEPT ![s] = "signal"]
  /\ UNCHANGED <<wpc, semReady, sem, maxTasks, pCmd, target, count, returnVars,
                 luaVars, calls>>

\* _tasks.push_back under the worker's lock.
PushTask(s) ==
  /\ spc[s] = "push"
  /\ tasks' = [tasks EXCEPT ![target[s]] = Append(@, newTask[s])]
  /\ outcome' = [outcome EXCEPT ![newTask[s]] = "pending"]
  /\ newTask' = [newTask EXCEPT ![s] = NoTask]
  /\ spc' = [spc EXCEPT ![s] = "signal"]
  /\ UNCHANGED <<wpc, semReady, sem, maxTasks, pCmd, target, count, returnVars,
                 luaVars, calls>>

\* Mutant: a queue of one is taken for one the worker is still busy with.
SetEvent_NotForOne(s) ==
  /\ spc[s] = "signal"
  /\ sem' = IF target[s] \in semReady /\ Len(tasks[target[s]]) # 1
              THEN [sem EXCEPT ![target[s]] = @ + 1] ELSE sem
  /\ spc' = [spc EXCEPT ![s] = "script"]
  /\ target' = [target EXCEPT ![s] = NoWorker]
  /\ UNCHANGED <<wpc, semReady, tasks, maxTasks, pCmd, newTask, count,
                 returnVars, luaVars, outcome, calls>>

\* _event.SetEvent(): nothing happens while pSem is NULL.
SetEvent(s) ==
  /\ spc[s] = "signal"
  /\ sem' = IF target[s] \in semReady THEN [sem EXCEPT ![target[s]] = @ + 1] ELSE sem
  /\ spc' = [spc EXCEPT ![s] = "script"]
  /\ target' = [target EXCEPT ![s] = NoWorker]
  /\ UNCHANGED <<wpc, semReady, tasks, maxTasks, pCmd, newTask, count,
                 returnVars, luaVars, outcome, calls>>

\* lua_SetLuaThreadMaxTask: SetMaxTask stores the limit without the lock; an
\* unknown thread id is ignored.
SetMaxTask(s, w, m) ==
  /\ spc[s] = "script"
  /\ w \in Pools
  /\ maxTasks' = [maxTasks EXCEPT ![w] = m]
  /\ UNCHANGED <<wpc, semReady, sem, tasks, pCmd, callVars, returnVars, luaVars,
                 outcome, calls>>

\* The Lua code returns to its caller: to the loop, or to Update, which then
\* drops the reference and deletes the task.  A coroutine yields or ends.
EndScript(s) ==
  /\ spc[s] = "script"
  /\ IF s = MainServer
       THEN /\ IF runCo = NoCo
                 THEN UNCHANGED coStatus
                 ELSE \E st \in {"yield", "dead"} :
                        coStatus' = [coStatus EXCEPT ![runCo] = st]
            /\ runCo' = NoCo
            /\ refs' = refs \ {updCmd}
            /\ updCmd' = NoTask
            /\ spc' = [spc EXCEPT ![s] = IF updCmd = NoTask THEN "loop"
                                                            ELSE "deliver"]
       ELSE /\ spc' = [spc EXCEPT ![s] = "loop"]
            /\ UNCHANGED <<coStatus, runCo, refs, updCmd>>
  /\ UNCHANGED <<workerVars, target, newTask, count, poolsRet, lstRet, userEvent,
                 taskCo, taskWorker, outcome, calls>>
-----------------------------------------------------------------------------
(* A worker's thread: CLuaThread::WorkProc                                 *)

\* Mutant: WorkProc waits before it looks at its queue.
Initialize_WaitFirst(w) ==
  /\ wpc[w] = "init"
  /\ semReady' \in {semReady, semReady \cup {w}}
  /\ wpc' = [wpc EXCEPT ![w] = "wait"]
  /\ UNCHANGED <<sem, tasks, maxTasks, pCmd, callVars, returnVars, luaVars,
                 outcome, calls>>

\* _event.Initialize: sem_init, then pSem.  Its result is not looked at.
Initialize(w) ==
  /\ wpc[w] = "init"
  /\ semReady' \in {semReady, semReady \cup {w}}
  /\ wpc' = [wpc EXCEPT ![w] = "pop"]
  /\ UNCHANGED <<sem, tasks, maxTasks, pCmd, callVars, returnVars, luaVars,
                 outcome, calls>>

\* Mutant: front without pop_front.
PopTask_NoPop(w) ==
  /\ wpc[w] = "pop"
  /\ IF tasks[w] = <<>>
       THEN /\ wpc' = [wpc EXCEPT ![w] = "wait"]
            /\ UNCHANGED pCmd
       ELSE /\ pCmd' = [pCmd EXCEPT ![w] = Head(tasks[w])]
            /\ wpc' = [wpc EXCEPT ![w] = "run"]
  /\ UNCHANGED <<semReady, sem, tasks, maxTasks, callVars, returnVars, luaVars,
                 outcome, calls>>

\* Mutant: back and pop_back.
PopTask_Back(w) ==
  /\ wpc[w] = "pop"
  /\ IF tasks[w] = <<>>
       THEN /\ wpc' = [wpc EXCEPT ![w] = "wait"]
            /\ UNCHANGED <<tasks, pCmd>>
       ELSE /\ pCmd' = [pCmd EXCEPT ![w] = tasks[w][Len(tasks[w])]]
            /\ tasks' = [tasks EXCEPT ![w] = SubSeq(@, 1, Len(@) - 1)]
            /\ wpc' = [wpc EXCEPT ![w] = "run"]
  /\ UNCHANGED <<semReady, sem, maxTasks, callVars, returnVars, luaVars,
                 outcome, calls>>

\* The critical section at the top of the loop.
PopTask(w) ==
  /\ wpc[w] = "pop"
  /\ IF tasks[w] = <<>>
       THEN /\ wpc' = [wpc EXCEPT ![w] = "wait"]
            /\ UNCHANGED <<tasks, pCmd>>
       ELSE /\ pCmd' = [pCmd EXCEPT ![w] = Head(tasks[w])]
            /\ tasks' = [tasks EXCEPT ![w] = Tail(@)]
            /\ wpc' = [wpc EXCEPT ![w] = "run"]
  /\ UNCHANGED <<semReady, sem, maxTasks, callVars, returnVars, luaVars,
                 outcome, calls>>

\* Mutant: a wait that does not wait.
Wait_NoBlock(w) ==
  /\ wpc[w] = "wait"
  /\ sem' = IF w \in semReady THEN [sem EXCEPT ![w] = @ - 1] ELSE sem
  /\ wpc' = [wpc EXCEPT ![w] = IF w \in semReady THEN "pop" ELSE "dead"]
  /\ UNCHANGED <<semReady, tasks, maxTasks, pCmd, callVars, returnVars, luaVars,
                 outcome, calls>>

\* _event.Wait(5): sem_wait, the timeout is ignored; with pSem NULL it
\* returns -1 and WorkProc breaks out of its loop.
Wait(w) ==
  /\ wpc[w] = "wait"
  /\ IF w \in semReady
       THEN /\ sem[w] > 0
            /\ sem' = [sem EXCEPT ![w] = @ - 1]
            /\ wpc' = [wpc EXCEPT ![w] = "pop"]
       ELSE /\ wpc' = [wpc EXCEPT ![w] = "dead"]
            /\ UNCHANGED sem
  /\ UNCHANGED <<semReady, tasks, maxTasks, pCmd, callVars, returnVars, luaVars,
                 outcome, calls>>

\* sem_wait fails, with EINTR say: WorkProc breaks out of its loop.
WaitFails(w) ==
  /\ wpc[w] = "wait"
  /\ w \in semReady
  /\ wpc' = [wpc EXCEPT ![w] = "dead"]
  /\ UNCHANGED <<semReady, sem, tasks, maxTasks, pCmd, callVars, returnVars,
                 luaVars, outcome, calls>>

\* The chunk is loaded and called; without a coroutine the task is deleted.
RunTask(w) ==
  /\ wpc[w] = "run"
  /\ IF taskCo[pCmd[w]] = NoCo
       THEN /\ outcome' = [outcome EXCEPT ![pCmd[w]] = "discarded"]
            /\ pCmd' = [pCmd EXCEPT ![w] = NoTask]
            /\ wpc' = [wpc EXCEPT ![w] = "trigger"]
       ELSE /\ wpc' = [wpc EXCEPT ![w] = "return"]
            /\ UNCHANGED <<outcome, pCmd>>
  /\ UNCHANGED <<semReady, sem, tasks, maxTasks, callVars, returnVars, luaVars,
                 calls>>

\* Mutant: the result is returned without triggering the loop.
PostTaskReturn_NoTrigger(w) ==
  /\ wpc[w] = "return"
  /\ poolsRet' = Append(poolsRet, pCmd[w])
  /\ pCmd' = [pCmd EXCEPT ![w] = NoTask]
  /\ wpc' = [wpc EXCEPT ![w] = "pop"]
  /\ UNCHANGED <<semReady, sem, tasks, maxTasks, callVars, lstRet, updCmd,
                 userEvent, luaVars, outcome, calls>>

\* CLuaThreadMgr::PostTaskReturn.
PostTaskReturn(w) ==
  /\ wpc[w] = "return"
  /\ poolsRet' = Append(poolsRet, pCmd[w])
  /\ pCmd' = [pCmd EXCEPT ![w] = NoTask]
  /\ wpc' = [wpc EXCEPT ![w] = "trigger"]
  /\ UNCHANGED <<semReady, sem, tasks, maxTasks, callVars, lstRet, updCmd,
                 userEvent, luaVars, outcome, calls>>

\* Mutant: the loop is triggered only by the first result of a batch.
UserTrigger_FirstOnly(w) ==
  /\ wpc[w] = "trigger"
  /\ userEvent' = IF Len(poolsRet) = 1 THEN "active" ELSE userEvent
  /\ wpc' = [wpc EXCEPT ![w] = "pop"]
  /\ UNCHANGED <<semReady, sem, tasks, maxTasks, pCmd, callVars, poolsRet,
                 lstRet, updCmd, luaVars, outcome, calls>>

\* g_server->user_trigger(): activating an active event changes nothing.
UserTrigger(w) ==
  /\ wpc[w] = "trigger"
  /\ userEvent' = "active"
  /\ wpc' = [wpc EXCEPT ![w] = "pop"]
  /\ UNCHANGED <<semReady, sem, tasks, maxTasks, pCmd, callVars, poolsRet,
                 lstRet, updCmd, luaVars, outcome, calls>>
-----------------------------------------------------------------------------
(* The event loop of g_server                                              *)

\* libevent takes the user event off its active list and calls usertrigger_cb.
DispatchUserEvent ==
  /\ spc[MainServer] = "loop"
  /\ userEvent = "active"
  /\ userEvent' = "idle"
  /\ spc' = [spc EXCEPT ![MainServer] = "swap"]
  /\ UNCHANGED <<workerVars, target, newTask, count, poolsRet, lstRet, updCmd,
                 luaVars, outcome, calls>>

\* Update swaps the return list out under _lockRet.
SwapReturns ==
  /\ spc[MainServer] = "swap"
  /\ lstRet' = poolsRet
  /\ poolsRet' = <<>>
  /\ spc' = [spc EXCEPT ![MainServer] = "deliver"]
  /\ UNCHANGED <<workerVars, target, newTask, count, updCmd, userEvent, luaVars,
                 outcome, calls>>

\* Mutant: the status test of Update is inverted.
Deliver_Inverted ==
  /\ spc[MainServer] = "deliver"
  /\ IF lstRet = <<>>
       THEN /\ spc' = [spc EXCEPT ![MainServer] = "loop"]
            /\ UNCHANGED <<lstRet, updCmd, coStatus, runCo, refs, outcome>>
       ELSE LET t == Head(lstRet)
                c == taskCo[t]
            IN /\ lstRet' = Tail(lstRet)
               /\ IF coStatus[c] # "yield"
                    THEN /\ coStatus' = [coStatus EXCEPT ![c] = "running"]
                         /\ runCo' = c
                         /\ updCmd' = t
                         /\ outcome' = [outcome EXCEPT ![t] = "resumed"]
                         /\ spc' = [spc EXCEPT ![MainServer] = "script"]
                         /\ UNCHANGED refs
                    ELSE /\ refs' = refs \ {t}
                         /\ outcome' = [outcome EXCEPT ![t] = "dropped"]
                         /\ UNCHANGED <<spc, updCmd, coStatus, runCo>>
  /\ UNCHANGED <<workerVars, target, newTask, count, poolsRet, userEvent, taskCo,
                 taskWorker, calls>>

\* One turn of Update's loop: a yielded coroutine is resumed with the result
\* (EndScript finishes the turn), any other result is thrown away; in both
\* cases the reference goes and the task is deleted.
Deliver ==
  /\ spc[MainServer] = "deliver"
  /\ IF lstRet = <<>>
       THEN /\ spc' = [spc EXCEPT ![MainServer] = "loop"]
            /\ UNCHANGED <<lstRet, updCmd, coStatus, runCo, refs, outcome>>
       ELSE LET t == Head(lstRet)
                c == taskCo[t]
            IN /\ lstRet' = Tail(lstRet)
               /\ IF coStatus[c] = "yield"
                    THEN /\ coStatus' = [coStatus EXCEPT ![c] = "running"]
                         /\ runCo' = c
                         /\ updCmd' = t
                         /\ outcome' = [outcome EXCEPT ![t] = "resumed"]
                         /\ spc' = [spc EXCEPT ![MainServer] = "script"]
                         /\ UNCHANGED refs
                    ELSE /\ refs' = refs \ {t}
                         /\ outcome' = [outcome EXCEPT ![t] = "dropped"]
                         /\ UNCHANGED <<spc, updCmd, coStatus, runCo>>
  /\ UNCHANGED <<workerVars, target, newTask, count, poolsRet, userEvent, taskCo,
                 taskWorker, calls>>
-----------------------------------------------------------------------------
CallStep(s) ==
  Spawn(s) \/ GetTaskCount(s) \/ CheckLimit(s) \/ PushTask(s) \/ SetEvent(s)

ServerStep(s) ==
  \/ StartScript(s)
  \/ \E w \in Workers, c \in Coroutines \cup {NoCo} : ThreadExecute(s, w, c)
  \/ \E w \in Workers, m \in MaxTaskValues : SetMaxTask(s, w, m)
  \/ CallStep(s)
  \/ EndScript(s)

WorkerStep(w) ==
  \/ Initialize(w) \/ PopTask(w) \/ Wait(w) \/ RunTask(w) \/ PostTaskReturn(w)
  \/ UserTrigger(w)

LoopStep == DispatchUserEvent \/ SwapReturns \/ Deliver

Next ==
  \/ \E s \in Servers : ServerStep(s)
  \/ \E c \in Coroutines : StartCoroutine(c)
  \/ \E w \in Workers : WorkerStep(w) \/ WaitFails(w)
  \/ LoopStep

\* Threads are scheduled and Lua code returns (WF).  libevent serves its
\* active events in turn, so an active user event is not passed over for ever
\* by other events (SF).
Fairness ==
  /\ \A s \in Servers : WF_vars(CallStep(s)) /\ WF_vars(EndScript(s))
  /\ \A w \in Workers : WF_vars(WorkerStep(w))
  /\ SF_vars(DispatchUserEvent)
  /\ WF_vars(SwapReturns \/ Deliver)

SafeSpec == Init /\ [][Next]_vars

Spec == SafeSpec /\ Fairness
-----------------------------------------------------------------------------
(* What keeps the pool correct                                             *)

\* No lost wakeup: a worker that would block in sem_wait (WorkProc found its
\* queue empty earlier) has an empty queue, unless a poster sits between
\* push_back and SetEvent.  A SetEvent made before Initialize is lost, and
\* that is harmless.
NoLostWakeup ==
  \A w \in Workers :
    wpc[w] = "wait" /\ w \in semReady /\ sem[w] = 0 /\ tasks[w] # <<>>
      => \E s \in Servers : spc[s] = "signal" /\ target[s] = w

\* No lost result: while _poolsRet holds a task, the loop of g_server is about
\* to swap it out, its user event is active, or a worker is between
\* PostTaskReturn and user_trigger.
NoLostReturn ==
  poolsRet # <<>>
    => \/ userEvent = "active"
       \/ spc[MainServer] = "swap"
       \/ \E w \in Workers : wpc[w] = "trigger"

\* PostTask counts under the lock but pushes under a later one: the largest
\* limit can be overshot, by no more than one task for every other server.
QueueBound ==
  \A w \in Workers, m \in Limits :
    (\A n \in Limits : n <= m) => Len(tasks[w]) <= m + Cardinality(Servers) - 1

\* Everything that points to task t.
Holders(t) ==
  {<<"post", s>> : s \in {s \in Servers : spc[s] = "push" /\ newTask[s] = t}}
    \cup (UNION {{<<"queue", w, i>> : i \in {i \in 1 .. Len(tasks[w]) : tasks[w][i] = t}}
                   : w \in Workers})
    \cup {<<"worker", w>> : w \in {w \in Workers : pCmd[w] = t}}
    \cup {<<"return", i>> : i \in {i \in 1 .. Len(poolsRet) : poolsRet[i] = t}}
    \cup {<<"update", i>> : i \in {i \in 1 .. Len(lstRet) : lstRet[i] = t}}
    \cup (IF updCmd = t THEN {<<"resuming">>} ELSE {})

\* A _LuaTask has exactly one owner from new to delete (no double delete, no
\* use after delete, none leaked), across posters, workers and the loop; a
\* task that was deleted or never built has none; and it holds the registry
\* reference of its coroutine for exactly that long.
SingleOwner ==
  \A t \in Calls :
    LET building == \E s \in Servers : spc[s] = "push" /\ newTask[s] = t
        live == building \/ outcome[t] = "pending" \/ updCmd = t
    IN /\ Cardinality(Holders(t)) = IF live THEN 1 ELSE 0
       /\ t \in refs <=> live /\ taskCo[t] # NoCo

\* The results of the calls made to one worker for coroutines are handed over
\* in call order: neither the queue, the return list nor the swap reorders.
CallOrder ==
  \A t, u \in Calls :
    /\ t < u
    /\ taskWorker[t] = taskWorker[u]
    /\ taskCo[t] # NoCo
    /\ outcome[u] \in {"resumed", "dropped"}
    => outcome[t] \in {"refused", "resumed", "dropped"}

\* Update throws a result away only when the coroutine has ended: a coroutine
\* of g_server that will still yield cannot be met while it runs.
DropsOnlyEnded ==
  \A t \in Calls : outcome[t] = "dropped" => coStatus[taskCo[t]] = "dead"

WorkerGone(t) == taskWorker[t] \in Workers /\ wpc[taskWorker[t]] = "dead"

\* The outcomes a call never leaves.
Settled == {"refused", "discarded", "resumed", "dropped"}

\* What becomes of a call is decided once: PostTask does not queue what it
\* refused, no chunk runs twice, no result is handed over twice.
OutcomeFinal ==
  [][\A t \in Calls : outcome[t] \in Settled => outcome'[t] = outcome[t]]_vars

\* Every queued task is executed and, if it names a coroutine, handed over by
\* Update, unless the thread of its worker is gone.
PendingSettles ==
  \A t \in Calls :
    outcome[t] = "pending" ~> outcome[t] \in Settled \/ WorkerGone(t)

\* A coroutine that has yielded while one of its tasks is queued is resumed,
\* unless the thread of the task's worker is gone.
YieldedResumes ==
  \A c \in Coroutines, t \in Calls :
    coStatus[c] = "yield" /\ taskCo[t] = c /\ outcome[t] = "pending"
      ~> coStatus[c] # "yield" \/ WorkerGone(t)
-----------------------------------------------------------------------------
\* What worker w has accepted and not finished: the task it has popped is still
\* the first of them.
Pipeline(w) == (IF pCmd[w] = NoTask THEN <<>> ELSE <<pCmd[w]>>) \o tasks[w]

\* The pool is a task service; what Update swapped out precedes _poolsRet.
Service == INSTANCE TaskService WITH
  accepted <- [w \in Workers |-> Pipeline(w)],
  finished <- lstRet \o poolsRet,
  stopped <- {w \in Workers : wpc[w] = "dead"}

\* Every behaviour of the pool, its scheduling assumptions included, is one of
\* TaskService.
ImplementsService == Service!Spec
=============================================================================
