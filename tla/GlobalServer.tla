---------------------------- MODULE GlobalServer ----------------------------
(***************************************************************************)
(* g_server, the server that main makes and that the worker pool reports   *)
(* to (gameserver.cpp, LuaThread.cpp, LuaThreadMgr.cpp), composed of the   *)
(* object of ServerLifecycle, one worker, and a second server that the     *)
(* script of g_server started.  A worker that has executed a task puts it  *)
(* on the return list and calls g_server->user_trigger(), which activates  *)
(* the event _user_trigger; the loop of g_server then resumes the          *)
(* coroutines of the list, whoever they belong to.                         *)
(*                                                                         *)
(* Scripts may post tasks before the user event exists, stop g_server      *)
(* while tasks are under way, and name coroutines of either server; three  *)
(* constants restrict them.  A trigger of an event that does not exist, or *)
(* of a deleted object, is undefined; the model notes it and keeps the     *)
(* outcome in which nothing else changes.  The queue, the locks and the    *)
(* semaphore are those of LuaThreadPool and are taken as the FIFO they are *)
(* shown to be there.                                                      *)
(***************************************************************************)
EXTENDS ServerLifecycle

CONSTANTS
  MaxTasks,         \* bound: tasks posted
  EarlyWork,        \* the start-up script of g_server posts tasks or starts the other
  StopsWhen,        \* when a script of g_server stops g_server: "any time", or when all
                    \* "results are back" and no task is posted after that
  OtherCoroutines   \* the second server's tasks may name a coroutine

ASSUME TaskAssumption == MaxTasks \in Nat
ASSUME StartAssumption == MaxStarts > 0   \* main starts the server
ASSUME ScriptAssumption ==
  EarlyWork \in BOOLEAN /\ StopsWhen \in {"any time", "results are back"}
  /\ OtherCoroutines \in BOOLEAN

VARIABLES
  trigger,   \* _user_trigger was made; until then it is not initialised
  active,    \* the user event is active in the base
  lua,       \* thread -> the server whose Lua state it runs, or "none"
  queue,     \* the tasks the worker has not taken
  task,      \* the task the worker executes, or <<>>
  poolsRet,  \* the results nobody took yet
  lstRet,    \* the results Update took and has not handed over
  posted,    \* how many tasks were posted
  back,      \* how many tasks of g_server were handed over
  misuse,    \* the worker used what does not exist (history)
  early,     \* a task was posted while g_server had not reached its loop (history)
  late,      \* g_server was stopped with tasks under way, or one was posted to it
             \*   after that (history)
  named      \* a task of the second server named a coroutine (history)

scriptVars == <<early, late, named>>
poolVars == <<queue, task, poolsRet, lstRet, posted, back, scriptVars>>
allVars == <<vars, trigger, active, lua, poolVars, misuse>>

g == 1   \* the one DoProc thread of g_server

LuaThreads == {"g_server", "other", "worker"}

GInit ==
  /\ Init
  /\ trigger = FALSE
  /\ active = FALSE
  /\ lua = [t \in LuaThreads |-> "none"]
  /\ queue = <<>>
  /\ task = <<>>
  /\ poolsRet = <<>>
  /\ lstRet = <<>>
  /\ posted = 0
  /\ back = 0
  /\ misuse = {}
  /\ early = FALSE
  /\ late = FALSE
  /\ named = FALSE
-----------------------------------------------------------------------------
(* The thread of g_server                                                  *)

\* No callback is under way in the loop.
LoopIdle == lua["g_server"] = "none" /\ lstRet = <<>>

\* main: new and Start, once.
MainStarts == starts = 0 /\ Start /\ UNCHANGED <<trigger, active, lua, poolVars, misuse>>

\* The steps of DoProc that the pool has no part in.
ServerSteps ==
  /\ LoopIdle
  /\ \/ LoadCfg(g) \/ MakeBase(g) \/ NotifyTimer(g) \/ DispatchMessage(g)
     \/ LeaveLoop(g) \/ Close(g)
  /\ UNCHANGED <<trigger, active, lua, poolVars, misuse>>

\* The start-up script is run from here to the end of it.
StartupScript ==
  \/ OpenState(g) /\ lua' = [lua EXCEPT !["g_server"] = "g_server"]
                  /\ UNCHANGED <<trigger, active, poolVars, misuse>>
  \/ EndStartupScript(g) /\ lua' = [lua EXCEPT !["g_server"] = "none"]
                         /\ UNCHANGED <<trigger, active, poolVars, misuse>>

\* Mutant: the user event is made with the user timer, if there is one.
SetupAll_WithTimer ==
  /\ Setup(g)
  /\ trigger' \in {trigger, trigger \/ dpc'[g] = "loop"}
  /\ UNCHANGED <<active, lua, poolVars, misuse>>

\* Set-up makes the user event behind everything that can fail.
SetupAll ==
  /\ Setup(g)
  /\ trigger' = (trigger \/ dpc'[g] = "loop")
  /\ UNCHANGED <<active, lua, poolVars, misuse>>

\* A callback of the loop runs a script, of g_server or of the result in front.
HandlerBegins ==
  /\ dpc[g] = "loop" /\ LoopIdle
  /\ lua' = [lua EXCEPT !["g_server"] = "g_server"]
  /\ UNCHANGED <<vars, trigger, active, poolVars, misuse>>

HandlerEnds ==
  /\ dpc[g] = "loop" /\ lua["g_server"] # "none"
  /\ lua' = [lua EXCEPT !["g_server"] = "none"]
  /\ UNCHANGED <<vars, trigger, active, poolVars, misuse>>

\* Stop, called by a script of g_server on g_server.
StopsItself ==
  /\ lua["g_server"] = "g_server"
  /\ StopsWhen = "results are back" => back = posted
  /\ Stop
  /\ late' = (late \/ queue # <<>> \/ task # <<>>)
  /\ UNCHANGED <<trigger, active, lua, queue, task, poolsRet, lstRet, posted, back, early,
                 named, misuse>>

\* usertrigger_cb, and Update up to the end of the swap.
UserTriggerCb ==
  /\ dpc[g] = "loop" /\ LoopIdle
  /\ active
  /\ active' = FALSE
  /\ lstRet' = poolsRet
  /\ poolsRet' = <<>>
  /\ UNCHANGED <<vars, trigger, lua, queue, task, posted, back, scriptVars, misuse>>

\* Update resumes the coroutine of the next result, on thread t.
HandOver(t, results) ==
  /\ lua[t] = "none"
  /\ results # <<>>
  /\ lua' = [lua EXCEPT ![t] = Head(results).owner]
  /\ back' = IF Head(results).owner = "g_server" THEN back + 1 ELSE back

Resume ==
  /\ HandOver("g_server", lstRet)
  /\ lstRet' = Tail(lstRet)
  /\ UNCHANGED <<vars, trigger, active, queue, task, poolsRet, posted, scriptVars, misuse>>
-----------------------------------------------------------------------------
(* The second server and the worker                                        *)

\* The loop of the second server runs a script, or the script returns.
OtherRuns ==
  /\ starts > 0 /\ dpc[g] \notin {"load", "open"}
  /\ EarlyWork \/ trigger
  /\ lua' = [lua EXCEPT !["other"] = IF @ = "none" THEN "other" ELSE "none"]
  /\ UNCHANGED <<vars, trigger, active, poolVars, misuse>>

\* A script of the second server notifies g_server.
OtherNotifies ==
  /\ lua["other"] = "other"
  /\ Notify
  /\ UNCHANGED <<trigger, active, lua, poolVars, misuse>>

\* ThreadExecute, called by a script of server s on the thread of that server, with a
\* coroutine to resume or without.
ThreadExecute(s, co) ==
  /\ lua[s] = s
  /\ dpc[g] = "script" => EarlyWork
  /\ s = "other" /\ co => OtherCoroutines
  /\ destroy => StopsWhen = "any time"
  /\ posted < MaxTasks
  /\ posted' = posted + 1
  /\ queue' = Append(queue, [owner |-> s, co |-> co])
  /\ early' = (early \/ dpc[g] \notin {"loop", "notify", "close", "ended"})
  /\ late' = (late \/ destroy)
  /\ named' = (named \/ (s = "other" /\ co))
  /\ UNCHANGED <<vars, trigger, active, lua, task, poolsRet, lstRet, back, misuse>>

\* WorkProc takes a task and executes it.
TakeTask ==
  /\ task = <<>> /\ lua["worker"] = "none"
  /\ queue # <<>>
  /\ task' = <<Head(queue)>>
  /\ queue' = Tail(queue)
  /\ UNCHANGED <<vars, trigger, active, lua, poolsRet, lstRet, posted, back, scriptVars, misuse>>

\* PostTaskReturn, for a task that names a coroutine; the other is deleted.
ReturnTask ==
  /\ task # <<>> /\ task[1].co
  /\ poolsRet' = Append(poolsRet, task[1])
  /\ task' = <<[task[1] EXCEPT !.co = FALSE]>>
  /\ UNCHANGED <<vars, trigger, active, lua, queue, lstRet, posted, back, scriptVars, misuse>>

\* Mutant: the worker calls Update itself, as the line behind the call once did.
Trigger_UpdatesItself ==
  /\ task # <<>> /\ ~task[1].co
  /\ task' = <<>>
  /\ IF poolsRet = <<>> THEN UNCHANGED <<lua, poolsRet, back>>
     ELSE HandOver("worker", poolsRet) /\ poolsRet' = Tail(poolsRet)
  /\ UNCHANGED <<vars, trigger, active, queue, lstRet, posted, scriptVars, misuse>>

\* The test of g_server, which DoProc never makes NULL, and user_trigger.
Trigger ==
  /\ task # <<>> /\ ~task[1].co
  /\ task' = <<>>
  /\ active' = (active \/ (trigger /\ ~deleted))
  /\ misuse' = misuse \cup (IF deleted THEN {"deleted server"} ELSE {})
                      \cup (IF trigger THEN {} ELSE {"no event"})
  /\ UNCHANGED <<vars, trigger, lua, queue, poolsRet, lstRet, posted, back, scriptVars>>

WorkerStep == TakeTask \/ ReturnTask \/ Trigger
-----------------------------------------------------------------------------
GNext ==
  \/ MainStarts \/ ServerSteps \/ StartupScript \/ SetupAll
  \/ HandlerBegins \/ HandlerEnds \/ StopsItself \/ UserTriggerCb \/ Resume
  \/ OtherRuns \/ OtherNotifies
  \/ \E s \in {"g_server", "other"}, co \in BOOLEAN : ThreadExecute(s, co)
  \/ WorkerStep

GSpec == GInit /\ [][GNext]_allVars
-----------------------------------------------------------------------------
\* A worker that finds g_server not NULL finds a server: whenever it reports a
\* task, the object exists and DoProc has made its user event.
TriggerIsSafe == misuse = {}

\* When it does not: the event is missing only after a task was posted before the loop
\* of g_server, or although its set-up failed; and the object is gone only if g_server
\* was stopped while a worker had a task it had not reported, or a task was posted
\* after Stop.  That all results have come back is not enough.
TriggerMisusedOnly ==
  /\ "no event" \in misuse => early
  /\ "deleted server" \in misuse => late

\* Results come back to scripts on the thread of g_server, and no two threads ever run
\* one server's Lua state at the same time, except where Update resumes a coroutine of
\* the second server there, which a task of that server must have named.
OneThreadPerState ==
  \A t, u \in LuaThreads :
    t # u /\ lua[t] # "none" /\ lua[t] = lua[u] =>
      {t, u} = {"g_server", "other"} /\ lua[t] = "other" /\ named
=============================================================================
