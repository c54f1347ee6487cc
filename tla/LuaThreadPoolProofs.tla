------------------------ MODULE LuaThreadPoolProofs ------------------------
(***************************************************************************)
(* Theorems about LuaThreadPool for any number of servers, workers and     *)
(* coroutines, any queue limits and any number of calls.                   *)
(***************************************************************************)
EXTENDS LuaThreadPool, FiniteSetTheorems, TLAPS

InCall == {"spawn", "count", "limit", "push"}

\* Where a server's thread is determines which of its locals are set; a
\* CLuaThread waits for the one thread that is about to start it.
CallPc ==
  /\ \A s \in Servers : spc[s] \in InCall \cup {"signal"} => target[s] \in Workers
  /\ \A s \in Servers : spc[s] \in InCall => newTask[s] \in Calls
  /\ \A s \in Servers : spc[s] = "spawn" => wpc[target[s]] = "created"
  /\ \A s, r \in Servers :
       spc[s] = "spawn" /\ spc[r] = "spawn" /\ target[s] = target[r] => s = r

\* A worker holds a task from the pop to the return or the delete.
WorkerPc ==
  \A w \in Workers : IF wpc[w] \in {"run", "return"} THEN pCmd[w] \in Calls
                                                     ELSE pCmd[w] = NoTask

TypeInv == TypeOK /\ CallPc /\ WorkerPc

\* Taking the front off a non-empty std::list.
LEMMA HeadTail ==
  ASSUME NEW S, NEW q \in Seq(S), q # <<>>
  PROVE  Head(q) \in S /\ Tail(q) \in Seq(S)
  OBVIOUS

\* Initially no thread is in a call and all lists are empty.
LEMMA InitTypeInv == Init => TypeInv
<1> SUFFICES ASSUME Init PROVE TypeInv
  OBVIOUS
<1> USE ServersAssumption, LimitAssumption, BoundAssumption
<1> USE DEF Init, Calls, NoTask, Limits
<1>1. WorkerTypes
  BY DEF WorkerTypes, WorkerPcs
<1>2. CallTypes
  BY DEF CallTypes, ServerPcs
<1>3. ReturnTypes
  BY DEF ReturnTypes
<1>4. LuaTypes
  BY DEF LuaTypes, CoStatus, Outcomes
<1>5. CallPc /\ WorkerPc
  BY DEF CallPc, WorkerPc, InCall
<1>6. QED
  BY <1>1, <1>2, <1>3, <1>4, <1>5 DEF TypeInv, TypeOK

\* Next, one disjunct per operation.
LEMMA NextCases ==
  ASSUME Next
  PROVE  \/ \E s \in Servers : \/ StartScript(s) \/ Spawn(s) \/ GetTaskCount(s)
                               \/ CheckLimit(s) \/ PushTask(s) \/ SetEvent(s)
                               \/ EndScript(s)
         \/ \E s \in Servers, w \in Workers, c \in Coroutines \cup {NoCo} :
              ThreadExecute(s, w, c)
         \/ \E s \in Servers, w \in Workers, m \in MaxTaskValues :
              SetMaxTask(s, w, m)
         \/ \E c \in Coroutines : StartCoroutine(c)
         \/ \E w \in Workers : \/ Initialize(w) \/ PopTask(w) \/ Wait(w)
                               \/ WaitFails(w) \/ RunTask(w) \/ PostTaskReturn(w)
                               \/ UserTrigger(w)
         \/ DispatchUserEvent \/ SwapReturns \/ Deliver
  BY DEF Next, ServerStep, CallStep, WorkerStep, LoopStep

\* The steps that touch a CLuaThread.
LEMMA WorkerTypesStep == TypeInv /\ [Next]_vars => WorkerTypes'
<1> SUFFICES ASSUME TypeInv, [Next]_vars PROVE WorkerTypes'
  OBVIOUS
<1> USE DEF TypeInv, TypeOK, WorkerTypes, WorkerPcs
<1>1. CASE UNCHANGED workerVars
  BY <1>1 DEF workerVars
<1>2. ASSUME NEW s \in Servers, NEW w \in Workers, NEW c \in Coroutines \cup {NoCo},
             ThreadExecute(s, w, c)
      PROVE  WorkerTypes'
  BY <1>2 DEF ThreadExecute
<1>3. ASSUME NEW s \in Servers, Spawn(s) PROVE WorkerTypes'
  BY <1>3 DEF Spawn
<1>4. ASSUME NEW s \in Servers, PushTask(s) PROVE WorkerTypes'
  <2>1. newTask[s] \in Calls /\ target[s] \in Workers
    BY <1>4 DEF PushTask, CallPc, InCall
  <2>2. Append(tasks[target[s]], newTask[s]) \in Seq(Calls)
    BY <2>1
  <2>3. QED
    BY <1>4, <2>1, <2>2 DEF PushTask
<1>5. ASSUME NEW s \in Servers, SetEvent(s) PROVE WorkerTypes'
  BY <1>5 DEF SetEvent
<1>6. ASSUME NEW s \in Servers, NEW w \in Workers, NEW m \in MaxTaskValues,
             SetMaxTask(s, w, m)
      PROVE  WorkerTypes'
  BY <1>6 DEF SetMaxTask, Limits, callVars
<1>7. ASSUME NEW w \in Workers, Initialize(w) PROVE WorkerTypes'
  BY <1>7 DEF Initialize
<1>8. ASSUME NEW w \in Workers, PopTask(w) PROVE WorkerTypes'
  <2>1. CASE tasks[w] = <<>>
    BY <1>8, <2>1 DEF PopTask
  <2>2. CASE tasks[w] # <<>>
    <3>1. Head(tasks[w]) \in Calls /\ Tail(tasks[w]) \in Seq(Calls)
      BY <2>2, HeadTail
    <3>2. QED
      BY <1>8, <2>2, <3>1 DEF PopTask
  <2>3. QED
    BY <2>1, <2>2
<1>9. ASSUME NEW w \in Workers, Wait(w) \/ WaitFails(w) PROVE WorkerTypes'
  <2>1. CASE w \in semReady /\ Wait(w)
    <3>1. sem[w] - 1 \in Nat
      BY <2>1 DEF Wait
    <3>2. QED
      BY <2>1, <3>1 DEF Wait
  <2>2. CASE w \notin semReady \/ WaitFails(w)
    BY <1>9, <2>2 DEF Wait, WaitFails
  <2>3. QED
    BY <1>9, <2>1, <2>2
<1>10. ASSUME NEW w \in Workers, RunTask(w) \/ PostTaskReturn(w) \/ UserTrigger(w)
       PROVE  WorkerTypes'
  BY <1>10 DEF RunTask, PostTaskReturn, UserTrigger
<1>11. QED
  <2>1. ASSUME NEW s \in Servers,
               StartScript(s) \/ GetTaskCount(s) \/ CheckLimit(s) \/ EndScript(s)
        PROVE  UNCHANGED workerVars
    BY <2>1 DEF StartScript, GetTaskCount, CheckLimit, EndScript
  <2>2. ASSUME NEW c \in Coroutines, StartCoroutine(c) PROVE UNCHANGED workerVars
    BY <2>2 DEF StartCoroutine
  <2>3. ASSUME DispatchUserEvent \/ SwapReturns \/ Deliver
        PROVE  UNCHANGED workerVars
    BY <2>3 DEF DispatchUserEvent, SwapReturns, Deliver
  <2>4. UNCHANGED vars => UNCHANGED workerVars
    BY DEF vars
  <2>5. QED
    BY NextCases, <1>1, <1>2, <1>3, <1>4, <1>5, <1>6, <1>7, <1>8, <1>9, <1>10,
       <2>1, <2>2, <2>3, <2>4

\* The steps that touch the locals of a call.
LEMMA CallTypesStep == TypeInv /\ [Next]_vars => CallTypes'
<1> SUFFICES ASSUME TypeInv, [Next]_vars PROVE CallTypes'
  OBVIOUS
<1> USE DEF TypeInv, TypeOK, CallTypes, ServerPcs
<1> USE ServersAssumption
<1>1. CASE UNCHANGED callVars
  BY <1>1 DEF callVars
<1>2. ASSUME NEW s \in Servers, NEW w \in Workers, NEW c \in Coroutines \cup {NoCo},
             ThreadExecute(s, w, c)
      PROVE  CallTypes'
  <2>1. calls + 1 \in Calls
    BY <1>2, BoundAssumption DEF ThreadExecute, LuaTypes, Calls
  <2>2. QED
    BY <1>2, <2>1 DEF ThreadExecute
<1>3. ASSUME NEW s \in Servers, StartScript(s) \/ Spawn(s) \/ SetEvent(s) \/ EndScript(s)
      PROVE  CallTypes'
  BY <1>3 DEF StartScript, Spawn, SetEvent, EndScript
<1>4. ASSUME NEW s \in Servers, GetTaskCount(s) PROVE CallTypes'
  <2>1. target[s] \in Workers
    BY <1>4 DEF GetTaskCount, CallPc, InCall
  <2>2. Len(tasks[target[s]]) \in Nat
    BY <2>1 DEF WorkerTypes
  <2>3. QED
    BY <1>4, <2>2 DEF GetTaskCount
<1>5. ASSUME NEW s \in Servers, CheckLimit(s) \/ PushTask(s) PROVE CallTypes'
  <2>1. /\ spc' \in {[spc EXCEPT ![s] = pc] : pc \in {"script", "push", "signal"}}
        /\ target' \in {target, [target EXCEPT ![s] = NoWorker]}
        /\ newTask' \in {newTask, [newTask EXCEPT ![s] = NoTask]}
        /\ count' \in {count, [count EXCEPT ![s] = 0]}
    BY <1>5 DEF CheckLimit, PushTask
  <2>2. QED
    BY <2>1
<1>6. ASSUME NEW c \in Coroutines, StartCoroutine(c) PROVE CallTypes'
  BY <1>6 DEF StartCoroutine
<1>7. ASSUME DispatchUserEvent \/ SwapReturns \/ Deliver PROVE CallTypes'
  BY <1>7 DEF DispatchUserEvent, SwapReturns, Deliver
<1>8. QED
  <2>1. ASSUME NEW w \in Workers, \/ Initialize(w) \/ PopTask(w) \/ Wait(w)
                                  \/ WaitFails(w) \/ RunTask(w)
                                  \/ PostTaskReturn(w) \/ UserTrigger(w)
        PROVE  UNCHANGED callVars
    BY <2>1 DEF Initialize, PopTask, Wait, WaitFails, RunTask, PostTaskReturn,
                UserTrigger
  <2>2. ASSUME NEW s \in Servers, NEW w \in Workers, NEW m \in MaxTaskValues,
               SetMaxTask(s, w, m)
        PROVE  UNCHANGED callVars
    BY <2>2 DEF SetMaxTask
  <2>3. UNCHANGED vars => UNCHANGED callVars
    BY DEF vars
  <2>4. QED
    BY NextCases, <1>1, <1>2, <1>3, <1>4, <1>5, <1>6, <1>7, <2>1, <2>2, <2>3

\* The steps that touch the return list and Update's state.
LEMMA ReturnTypesStep == TypeInv /\ [Next]_vars => ReturnTypes'
<1> SUFFICES ASSUME TypeInv, [Next]_vars PROVE ReturnTypes'
  OBVIOUS
<1> USE DEF TypeInv, TypeOK, ReturnTypes
<1>1. CASE UNCHANGED returnVars
  BY <1>1 DEF returnVars
<1>2. ASSUME NEW s \in Servers, EndScript(s) PROVE ReturnTypes'
  BY <1>2 DEF EndScript
<1>3. ASSUME NEW w \in Workers, PostTaskReturn(w) PROVE ReturnTypes'
  <2>1. pCmd[w] \in Calls
    BY <1>3 DEF PostTaskReturn, WorkerPc
  <2>2. QED
    BY <1>3, <2>1 DEF PostTaskReturn
<1>4. ASSUME NEW w \in Workers, UserTrigger(w) PROVE ReturnTypes'
  BY <1>4 DEF UserTrigger
<1>5. CASE DispatchUserEvent \/ SwapReturns
  <2>1. CASE DispatchUserEvent
    BY <2>1 DEF DispatchUserEvent
  <2>2. CASE SwapReturns
    BY <2>2 DEF SwapReturns
  <2>3. QED
    BY <1>5, <2>1, <2>2
<1>6. CASE Deliver
  <2>1. CASE lstRet = <<>>
    BY <1>6, <2>1 DEF Deliver
  <2>2. CASE lstRet # <<>>
    <3>1. Head(lstRet) \in Calls /\ Tail(lstRet) \in Seq(Calls)
      BY <2>2, HeadTail
    <3>2. QED
      BY <1>6, <2>2, <3>1 DEF Deliver
  <2>3. QED
    BY <2>1, <2>2
<1>7. QED
  <2>1. ASSUME NEW s \in Servers, \/ StartScript(s) \/ Spawn(s) \/ GetTaskCount(s)
                                  \/ CheckLimit(s) \/ PushTask(s) \/ SetEvent(s)
        PROVE  UNCHANGED returnVars
    BY <2>1 DEF StartScript, Spawn, GetTaskCount, CheckLimit, PushTask, SetEvent
  <2>2. ASSUME NEW s \in Servers, NEW w \in Workers, NEW c \in Coroutines \cup {NoCo},
               ThreadExecute(s, w, c)
        PROVE  UNCHANGED returnVars
    BY <2>2 DEF ThreadExecute
  <2>3. ASSUME NEW s \in Servers, NEW w \in Workers, NEW m \in MaxTaskValues,
               SetMaxTask(s, w, m)
        PROVE  UNCHANGED returnVars
    BY <2>3 DEF SetMaxTask
  <2>4. ASSUME NEW c \in Coroutines, StartCoroutine(c) PROVE UNCHANGED returnVars
    BY <2>4 DEF StartCoroutine
  <2>5. ASSUME NEW w \in Workers, \/ Initialize(w) \/ PopTask(w) \/ Wait(w)
                                  \/ WaitFails(w) \/ RunTask(w)
        PROVE  UNCHANGED returnVars
    BY <2>5 DEF Initialize, PopTask, Wait, WaitFails, RunTask
  <2>6. UNCHANGED vars => UNCHANGED returnVars
    BY DEF vars
  <2>7. QED
    BY NextCases, <1>1, <1>2, <1>3, <1>4, <1>5, <1>6, <2>1, <2>2, <2>3, <2>4,
       <2>5, <2>6

\* The steps that touch coroutines, references and outcomes.
LEMMA LuaTypesStep == TypeInv /\ [Next]_vars => LuaTypes'
<1> SUFFICES ASSUME TypeInv, [Next]_vars PROVE LuaTypes'
  OBVIOUS
<1> USE DEF TypeInv, TypeOK, LuaTypes, CoStatus, Outcomes
<1>1. CASE UNCHANGED <<luaVars, outcome, calls>>
  BY <1>1 DEF luaVars
<1>2. ASSUME NEW s \in Servers, NEW w \in Workers, NEW c \in Coroutines \cup {NoCo},
             ThreadExecute(s, w, c)
      PROVE  LuaTypes'
  <2>1. calls + 1 \in Calls /\ calls + 1 \in 0 .. MaxCalls
    BY <1>2, BoundAssumption DEF ThreadExecute, Calls
  <2>2. QED
    BY <1>2, <2>1 DEF ThreadExecute
<1>3. ASSUME NEW s \in Servers, CheckLimit(s) PROVE LuaTypes'
  <2>1. newTask[s] \in Calls
    BY <1>3 DEF CheckLimit, CallPc, InCall
  <2>2. /\ UNCHANGED <<coStatus, runCo, taskCo, taskWorker, calls>>
        /\ outcome' \in {outcome, [outcome EXCEPT ![newTask[s]] = "refused"]}
        /\ refs' \in {refs, refs \cup {newTask[s]}}
    BY <1>3 DEF CheckLimit
  <2>3. QED
    BY <2>1, <2>2
<1>4. ASSUME NEW s \in Servers, PushTask(s) PROVE LuaTypes'
  BY <1>4 DEF PushTask, luaVars
<1>5. ASSUME NEW s \in Servers, EndScript(s) PROVE LuaTypes'
  BY <1>5 DEF EndScript
<1>6. ASSUME NEW c \in Coroutines, StartCoroutine(c) PROVE LuaTypes'
  BY <1>6 DEF StartCoroutine
<1>7. ASSUME NEW w \in Workers, RunTask(w) PROVE LuaTypes'
  BY <1>7 DEF RunTask, luaVars
<1>8. CASE Deliver
  <2>1. CASE lstRet = <<>>
    BY <1>8, <2>1 DEF Deliver
  <2>2. CASE lstRet # <<>>
    <3> DEFINE t == Head(lstRet)
    <3>1. t \in Calls
      BY <2>2, HeadTail DEF ReturnTypes
    <3>2. /\ UNCHANGED <<taskCo, taskWorker, calls>>
          /\ runCo' \in {runCo, taskCo[t]}
          /\ coStatus' \in {coStatus, [coStatus EXCEPT ![taskCo[t]] = "running"]}
          /\ refs' \in {refs, refs \ {t}}
          /\ outcome' \in {[outcome EXCEPT ![t] = "resumed"],
                           [outcome EXCEPT ![t] = "dropped"]}
      BY <1>8, <2>2 DEF Deliver
    <3> HIDE DEF t
    <3>3. QED
      BY <3>1, <3>2
  <2>3. QED
    BY <2>1, <2>2
<1>9. QED
  <2>1. ASSUME NEW s \in Servers, \/ StartScript(s) \/ Spawn(s) \/ GetTaskCount(s)
                                  \/ SetEvent(s)
        PROVE  UNCHANGED <<luaVars, outcome, calls>>
    BY <2>1 DEF StartScript, Spawn, GetTaskCount, SetEvent
  <2>2. ASSUME NEW s \in Servers, NEW w \in Workers, NEW m \in MaxTaskValues,
               SetMaxTask(s, w, m)
        PROVE  UNCHANGED <<luaVars, outcome, calls>>
    BY <2>2 DEF SetMaxTask
  <2>3. ASSUME NEW w \in Workers, \/ Initialize(w) \/ PopTask(w) \/ Wait(w)
                                  \/ WaitFails(w) \/ PostTaskReturn(w)
                                  \/ UserTrigger(w)
        PROVE  UNCHANGED <<luaVars, outcome, calls>>
    BY <2>3 DEF Initialize, PopTask, Wait, WaitFails, PostTaskReturn, UserTrigger
  <2>4. ASSUME DispatchUserEvent \/ SwapReturns
        PROVE  UNCHANGED <<luaVars, outcome, calls>>
    BY <2>4 DEF DispatchUserEvent, SwapReturns
  <2>5. UNCHANGED vars => UNCHANGED <<luaVars, outcome, calls>>
    BY DEF vars
  <2>6. QED
    BY NextCases, <1>1, <1>2, <1>3, <1>4, <1>5, <1>6, <1>7, <1>8, <2>1, <2>2,
       <2>3, <2>4, <2>5

\* The locals of a call are set on its way and nobody else starts its worker.
LEMMA CallPcStep == TypeInv /\ [Next]_vars => CallPc'
<1> SUFFICES ASSUME TypeInv, [Next]_vars PROVE CallPc'
  OBVIOUS
<1> USE DEF TypeInv, TypeOK, CallPc, InCall, CallTypes, WorkerTypes
<1> USE ServersAssumption
<1>1. CASE UNCHANGED <<callVars, wpc>>
  BY <1>1 DEF callVars
<1>2. ASSUME NEW s \in Servers, NEW w \in Workers, NEW c \in Coroutines \cup {NoCo},
             ThreadExecute(s, w, c)
      PROVE  CallPc'
  <2>1. calls + 1 \in Calls
    BY <1>2, BoundAssumption DEF ThreadExecute, LuaTypes, Calls
  <2>2. CASE w \in Pools
    BY <1>2, <2>1, <2>2 DEF ThreadExecute
  <2>3. CASE w \notin Pools
    <3>1. wpc[w] = "absent"
      BY <2>3 DEF Pools
    <3>2. QED
      BY <1>2, <2>1, <2>3, <3>1 DEF ThreadExecute
  <2>4. QED
    BY <2>2, <2>3
<1>3. ASSUME NEW s \in Servers, Spawn(s) PROVE CallPc'
  BY <1>3 DEF Spawn
<1>4. ASSUME NEW s \in Servers,
             StartScript(s) \/ GetTaskCount(s) \/ SetEvent(s) \/ EndScript(s)
      PROVE  CallPc'
  <2>1. /\ \A x \in Servers \ {s} : spc'[x] = spc[x] /\ target'[x] = target[x]
        /\ \/ spc'[s] \in {"script", "loop", "deliver"}
           \/ spc[s] = "count" /\ spc'[s] = "limit" /\ target'[s] = target[s]
        /\ UNCHANGED <<wpc, newTask>>
    BY <1>4 DEF StartScript, GetTaskCount, SetEvent, EndScript, workerVars
  <2>2. QED
    BY <2>1, ZenonT(30)
<1>5. ASSUME NEW s \in Servers, CheckLimit(s) PROVE CallPc'
  <2>1. /\ \A x \in Servers \ {s} : /\ spc'[x] = spc[x] /\ target'[x] = target[x]
                                    /\ newTask'[x] = newTask[x]
        /\ \/ spc'[s] = "script"
           \/ /\ spc[s] = "limit" /\ spc'[s] = "push"
              /\ target'[s] = target[s] /\ newTask'[s] = newTask[s]
        /\ UNCHANGED wpc
    BY <1>5 DEF CheckLimit, workerVars
  <2>2. \A x \in Servers :
          spc'[x] \in InCall \cup {"signal"} =>
            /\ spc[x] \in InCall \cup {"signal"} /\ target'[x] = target[x]
            /\ spc'[x] \in InCall => spc[x] \in InCall /\ newTask'[x] = newTask[x]
            /\ spc'[x] = "spawn" => spc[x] = "spawn"
    BY <2>1
  <2>3. QED
    BY <2>1, <2>2
<1>6. ASSUME NEW s \in Servers, PushTask(s) PROVE CallPc'
  BY <1>6 DEF PushTask
<1>7. ASSUME NEW c \in Coroutines, StartCoroutine(c) PROVE CallPc'
  BY <1>7 DEF StartCoroutine, workerVars
<1>8. ASSUME DispatchUserEvent \/ SwapReturns \/ Deliver PROVE CallPc'
  <2>1. /\ UNCHANGED <<wpc, target, newTask>>
        /\ \E pc \in {"swap", "deliver", "loop", "script"} :
             spc' = [spc EXCEPT ![MainServer] = pc] \/ spc' = spc
    BY <1>8 DEF DispatchUserEvent, SwapReturns, Deliver, workerVars
  <2>2. QED
    BY <2>1, ZenonT(30)
<1>9. ASSUME NEW w \in Workers, \/ Initialize(w) \/ PopTask(w) \/ Wait(w)
                                \/ WaitFails(w) \/ RunTask(w)
                                \/ PostTaskReturn(w) \/ UserTrigger(w)
      PROVE  CallPc'
  <2>1. /\ UNCHANGED <<spc, target, newTask>>
        /\ wpc[w] # "created"
        /\ \E pc \in WorkerPcs : wpc' = [wpc EXCEPT ![w] = pc]
    BY <1>9 DEF Initialize, PopTask, Wait, WaitFails, RunTask, PostTaskReturn,
                UserTrigger, WorkerPcs, callVars
  <2>2. QED
    BY <2>1
<1>10. QED
  <2>1. ASSUME NEW s \in Servers, NEW w \in Workers, NEW m \in MaxTaskValues,
               SetMaxTask(s, w, m)
        PROVE  UNCHANGED <<callVars, wpc>>
    BY <2>1 DEF SetMaxTask
  <2>2. UNCHANGED vars => UNCHANGED <<callVars, wpc>>
    BY DEF vars, workerVars
  <2>3. QED
    BY NextCases, <1>1, <1>2, <1>3, <1>4, <1>5, <1>6, <1>7, <1>8, <1>9, <2>1,
       <2>2

\* A worker holds a task exactly while it runs or returns it.
LEMMA WorkerPcStep == TypeInv /\ [Next]_vars => WorkerPc'
<1> SUFFICES ASSUME TypeInv, [Next]_vars PROVE WorkerPc'
  OBVIOUS
<1> USE DEF TypeInv, TypeOK, WorkerPc, WorkerTypes
<1>1. CASE UNCHANGED <<wpc, pCmd>>
  BY <1>1
<1>2. ASSUME NEW s \in Servers, NEW w \in Workers, NEW c \in Coroutines \cup {NoCo},
             ThreadExecute(s, w, c)
      PROVE  WorkerPc'
  BY <1>2 DEF ThreadExecute, Pools
<1>3. ASSUME NEW s \in Servers, Spawn(s) PROVE WorkerPc'
  <2>1. target[s] \in Workers /\ wpc[target[s]] = "created"
    BY <1>3 DEF Spawn, CallPc, InCall
  <2>2. QED
    BY <1>3, <2>1 DEF Spawn
<1>4. ASSUME NEW w \in Workers, Initialize(w) \/ Wait(w) \/ WaitFails(w)
                                  \/ UserTrigger(w)
      PROVE  WorkerPc'
  BY <1>4 DEF Initialize, Wait, WaitFails, UserTrigger
<1>5. ASSUME NEW w \in Workers, PopTask(w) PROVE WorkerPc'
  <2>1. CASE tasks[w] = <<>>
    BY <1>5, <2>1 DEF PopTask
  <2>2. CASE tasks[w] # <<>>
    <3>1. Head(tasks[w]) \in Calls
      BY <2>2, HeadTail
    <3>2. QED
      BY <1>5, <2>2, <3>1 DEF PopTask
  <2>3. QED
    BY <2>1, <2>2
<1>6. ASSUME NEW w \in Workers, RunTask(w) PROVE WorkerPc'
  BY <1>6 DEF RunTask
<1>7. ASSUME NEW w \in Workers, PostTaskReturn(w) PROVE WorkerPc'
  BY <1>7 DEF PostTaskReturn
<1>8. QED
  <2>1. ASSUME NEW s \in Servers, \/ StartScript(s) \/ GetTaskCount(s)
                                  \/ CheckLimit(s) \/ PushTask(s) \/ SetEvent(s)
                                  \/ EndScript(s)
        PROVE  UNCHANGED <<wpc, pCmd>>
    BY <2>1 DEF StartScript, GetTaskCount, CheckLimit, PushTask, SetEvent,
                EndScript, workerVars
  <2>2. ASSUME NEW s \in Servers, NEW w \in Workers, NEW m \in MaxTaskValues,
               SetMaxTask(s, w, m)
        PROVE  UNCHANGED <<wpc, pCmd>>
    BY <2>2 DEF SetMaxTask
  <2>3. ASSUME NEW c \in Coroutines, StartCoroutine(c) PROVE UNCHANGED <<wpc, pCmd>>
    BY <2>3 DEF StartCoroutine, workerVars
  <2>4. ASSUME DispatchUserEvent \/ SwapReturns \/ Deliver
        PROVE  UNCHANGED <<wpc, pCmd>>
    BY <2>4 DEF DispatchUserEvent, SwapReturns, Deliver, workerVars
  <2>5. UNCHANGED vars => UNCHANGED <<wpc, pCmd>>
    BY DEF vars, workerVars
  <2>6. QED
    BY NextCases, <1>1, <1>2, <1>3, <1>4, <1>5, <1>6, <1>7, <2>1, <2>2, <2>3,
       <2>4, <2>5

\* Every step of every thread keeps the types and the locals.
LEMMA NextTypeInv == TypeInv /\ [Next]_vars => TypeInv'
  BY WorkerTypesStep, CallTypesStep, ReturnTypesStep, LuaTypesStep, CallPcStep,
     WorkerPcStep
  DEF TypeInv, TypeOK

\* TypeInv holds throughout.
LEMMA AlwaysTypeInv == SafeSpec => []TypeInv
  BY InitTypeInv, NextTypeInv, PTL DEF SafeSpec

\* Type correctness: every thread of the pool keeps its variables in their
\* types and its locals in step with its program counter, whatever the
\* interleaving and however many servers and workers there are.
THEOREM TypeCorrect == SafeSpec => []TypeOK
<1>1. TypeInv => TypeOK
  BY DEF TypeInv
<1>2. QED
  BY <1>1, AlwaysTypeInv, PTL
-----------------------------------------------------------------------------
(* No lost wakeups                                                         *)

\* The steps of the other threads leave a poster that owes a SetEvent alone.
LEMMA WakeupStep == TypeInv /\ NoLostWakeup /\ [Next]_vars => NoLostWakeup'
<1> SUFFICES ASSUME TypeInv, NoLostWakeup, [Next]_vars PROVE NoLostWakeup'
  OBVIOUS
<1> USE DEF TypeInv, TypeOK, NoLostWakeup, WorkerTypes, CallTypes
<1> USE ServersAssumption
<1> DEFINE SignalsKept ==
      \A r \in Servers : spc[r] = "signal" => spc'[r] = "signal" /\ target'[r] = target[r]
<1>1. CASE UNCHANGED <<wpc, semReady, sem, tasks>> /\ SignalsKept
  <2> SUFFICES ASSUME NEW w \in Workers, wpc'[w] = "wait", w \in semReady',
                      sem'[w] = 0, tasks'[w] # <<>>
               PROVE  \E r \in Servers : spc'[r] = "signal" /\ target'[r] = w
    OBVIOUS
  <2>1. PICK r \in Servers : spc[r] = "signal" /\ target[r] = w
    BY <1>1
  <2>2. QED
    BY <1>1, <2>1
<1>2. ASSUME NEW s \in Servers, NEW w \in Workers, NEW c \in Coroutines \cup {NoCo},
             ThreadExecute(s, w, c)
      PROVE  NoLostWakeup'
  BY <1>2, ZenonT(30) DEF ThreadExecute
<1>3. ASSUME NEW s \in Servers, Spawn(s) PROVE NoLostWakeup'
  BY <1>3 DEF Spawn
<1>4. ASSUME NEW s \in Servers, PushTask(s) PROVE NoLostWakeup'
  <2> SUFFICES ASSUME NEW w \in Workers, wpc'[w] = "wait", w \in semReady',
                      sem'[w] = 0, tasks'[w] # <<>>
               PROVE  \E r \in Servers : spc'[r] = "signal" /\ target'[r] = w
    OBVIOUS
  <2>1. w # target[s] => tasks'[w] = tasks[w]
    BY <1>4 DEF PushTask
  <2>2. /\ spc'[s] = "signal" /\ UNCHANGED <<wpc, semReady, sem, target>>
        /\ SignalsKept
    BY <1>4 DEF PushTask
  <2>3. CASE w = target[s]
    BY <2>2, <2>3
  <2>4. CASE w # target[s]
    <3>1. PICK r \in Servers : spc[r] = "signal" /\ target[r] = w
      BY <2>1, <2>2, <2>4
    <3>2. QED
      BY <2>2, <3>1
  <2>5. QED
    BY <2>3, <2>4
<1>5. ASSUME NEW s \in Servers, SetEvent(s) PROVE NoLostWakeup'
  <2> SUFFICES ASSUME NEW w \in Workers, wpc'[w] = "wait", w \in semReady',
                      sem'[w] = 0, tasks'[w] # <<>>
               PROVE  \E r \in Servers : spc'[r] = "signal" /\ target'[r] = w
    OBVIOUS
  <2>1. /\ \A r \in Servers \ {s} : spc'[r] = spc[r] /\ target'[r] = target[r]
        /\ w # target[s] => sem'[w] = sem[w]
        /\ UNCHANGED <<wpc, semReady, tasks>>
    BY <1>5 DEF SetEvent
  <2>2. w # target[s]
    BY <1>5 DEF SetEvent
  <2>3. PICK r \in Servers : spc[r] = "signal" /\ target[r] = w
    BY <2>1, <2>2
  <2>4. QED
    BY <2>1, <2>2, <2>3
<1>6. ASSUME NEW w \in Workers, Initialize(w) PROVE NoLostWakeup'
  BY <1>6 DEF Initialize, callVars
<1>7. ASSUME NEW w \in Workers, PopTask(w) PROVE NoLostWakeup'
  BY <1>7, ZenonT(30) DEF PopTask, callVars
<1>8. ASSUME NEW w \in Workers, Wait(w) \/ WaitFails(w) PROVE NoLostWakeup'
  BY <1>8 DEF Wait, WaitFails, callVars
<1>9. ASSUME NEW w \in Workers, RunTask(w) \/ PostTaskReturn(w) \/ UserTrigger(w)
      PROVE  NoLostWakeup'
  BY <1>9, SMTT(30) DEF RunTask, PostTaskReturn, UserTrigger, callVars
<1>10. QED
  <2>1. ASSUME NEW s \in Servers,
               StartScript(s) \/ GetTaskCount(s) \/ CheckLimit(s) \/ EndScript(s)
        PROVE  UNCHANGED <<wpc, semReady, sem, tasks>> /\ SignalsKept
    BY <2>1 DEF StartScript, GetTaskCount, CheckLimit, EndScript, workerVars
  <2>2. ASSUME NEW s \in Servers, NEW w \in Workers, NEW m \in MaxTaskValues,
               SetMaxTask(s, w, m)
        PROVE  UNCHANGED <<wpc, semReady, sem, tasks>> /\ SignalsKept
    BY <2>2 DEF SetMaxTask, callVars
  <2>3. ASSUME NEW c \in Coroutines, StartCoroutine(c)
        PROVE  UNCHANGED <<wpc, semReady, sem, tasks>> /\ SignalsKept
    BY <2>3 DEF StartCoroutine, workerVars
  <2>4. ASSUME DispatchUserEvent \/ SwapReturns \/ Deliver
        PROVE  UNCHANGED <<wpc, semReady, sem, tasks>> /\ SignalsKept
    BY <2>4 DEF DispatchUserEvent, SwapReturns, Deliver, workerVars
  <2>5. UNCHANGED vars => UNCHANGED <<wpc, semReady, sem, tasks>> /\ SignalsKept
    BY DEF vars, workerVars, callVars
  <2> HIDE DEF SignalsKept
  <2>6. QED
    BY NextCases, <1>1, <1>2, <1>3, <1>4, <1>5, <1>6, <1>7, <1>8, <1>9, <2>1,
       <2>2, <2>3, <2>4, <2>5

\* No worker ever sleeps in sem_wait on a queue that holds a task while nobody
\* is about to post its semaphore, for any number of posters and workers and
\* although SetEvent is lost before Initialize.
THEOREM NoLostWakeupHolds == SafeSpec => []NoLostWakeup
<1>1. Init => NoLostWakeup
  BY DEF Init, NoLostWakeup
<1>2. QED
  BY <1>1, WakeupStep, AlwaysTypeInv, PTL DEF SafeSpec
-----------------------------------------------------------------------------
(* No lost results                                                         *)

\* Only the swap empties the return list, and only after the user event.
LEMMA ReturnStep == TypeInv /\ NoLostReturn /\ [Next]_vars => NoLostReturn'
<1> SUFFICES ASSUME TypeInv, NoLostReturn, [Next]_vars PROVE NoLostReturn'
  OBVIOUS
<1> USE DEF TypeInv, TypeOK, NoLostReturn, WorkerTypes, CallTypes
<1> USE ServersAssumption
<1> DEFINE SwapKept == spc[MainServer] = "swap" => spc'[MainServer] = "swap"
           TriggersKept == \A w \in Workers : wpc[w] = "trigger" => wpc'[w] = "trigger"
           Frame == /\ UNCHANGED <<poolsRet, userEvent>>
                    /\ SwapKept /\ TriggersKept
<1>1. CASE Frame
  BY <1>1
<1>2. ASSUME NEW w \in Workers, PostTaskReturn(w) PROVE NoLostReturn'
  <2>1. wpc'[w] = "trigger"
    BY <1>2 DEF PostTaskReturn
  <2>2. QED
    BY <2>1
<1>3. ASSUME NEW w \in Workers, UserTrigger(w) PROVE NoLostReturn'
  BY <1>3 DEF UserTrigger
<1>4. CASE DispatchUserEvent
  BY <1>4 DEF DispatchUserEvent
<1>5. CASE SwapReturns
  BY <1>5 DEF SwapReturns
<1>6. QED
  <2>1. ASSUME NEW s \in Servers, \/ StartScript(s) \/ GetTaskCount(s)
                                  \/ CheckLimit(s) \/ PushTask(s) \/ SetEvent(s)
                                  \/ EndScript(s)
        PROVE  Frame
    BY <2>1 DEF StartScript, GetTaskCount, CheckLimit, PushTask, SetEvent,
                EndScript, workerVars, returnVars
  <2>2. ASSUME NEW s \in Servers, Spawn(s) PROVE Frame
    BY <2>2 DEF Spawn, returnVars, CallPc, InCall
  <2>3. ASSUME NEW s \in Servers, NEW w \in Workers,
               NEW c \in Coroutines \cup {NoCo}, ThreadExecute(s, w, c)
        PROVE  Frame
    BY <2>3 DEF ThreadExecute, returnVars, Pools
  <2>4. ASSUME NEW s \in Servers, NEW w \in Workers, NEW m \in MaxTaskValues,
               SetMaxTask(s, w, m)
        PROVE  Frame
    BY <2>4 DEF SetMaxTask, returnVars, callVars
  <2>5. ASSUME NEW c \in Coroutines, StartCoroutine(c) PROVE Frame
    BY <2>5 DEF StartCoroutine, workerVars, returnVars
  <2>6. ASSUME NEW w \in Workers, \/ Initialize(w) \/ PopTask(w) \/ Wait(w)
                                  \/ WaitFails(w) \/ RunTask(w)
        PROVE  Frame
    BY <2>6 DEF Initialize, PopTask, Wait, WaitFails, RunTask, callVars,
                returnVars
  <2>7. ASSUME Deliver PROVE Frame
    BY <2>7 DEF Deliver, workerVars
  <2>8. UNCHANGED vars => Frame
    BY DEF vars, workerVars, callVars, returnVars
  <2> HIDE DEF Frame
  <2>9. QED
    BY NextCases, <1>1, <1>2, <1>3, <1>4, <1>5, <2>1, <2>2, <2>3, <2>4, <2>5,
       <2>6, <2>7, <2>8

\* No result is left on the return list with nobody on the way to collect it:
\* the single user event, though it coalesces the triggers of all workers, is
\* enough.
THEOREM NoLostReturnHolds == SafeSpec => []NoLostReturn
<1>1. Init => NoLostReturn
  BY DEF Init, NoLostReturn
<1>2. QED
  BY <1>1, ReturnStep, AlwaysTypeInv, PTL DEF SafeSpec
-----------------------------------------------------------------------------
(* The queue limit                                                         *)

\* The servers that have decided, or will decide, to push a task to w when the
\* limit is at most m.
Committed(w, m) ==
  {s \in Servers : /\ target[s] = w
                   /\ spc[s] = "push" \/ (spc[s] = "limit" /\ count[s] < m)}

Highest(m) == \A n \in Limits : n <= m

\* The queue and the pushes under way together respect the bound.
QueueInv ==
  \A w \in Workers, m \in Limits :
    Highest(m) =>
      Len(tasks[w]) + Cardinality(Committed(w, m)) <= m + Cardinality(Servers) - 1

\* A count under the limit adds the counting server to the committed ones; a
\* push takes it away as the queue grows; nothing else raises the sum.
LEMMA QueueStep == TypeInv /\ QueueInv /\ [Next]_vars => QueueInv'
<1> SUFFICES ASSUME TypeInv, QueueInv, [Next]_vars,
                    NEW w \in Workers, NEW m \in Limits, Highest(m)
             PROVE  Len(tasks'[w]) + Cardinality(Committed(w, m)')
                      <= m + Cardinality(Servers) - 1
  BY DEF QueueInv, Highest
<1> DEFINE C == Committed(w, m)
           D == Committed(w, m)'
<1> USE DEF TypeInv, TypeOK, WorkerTypes, CallTypes
<1> USE ServersAssumption
<1>1. /\ C \in SUBSET Servers /\ D \in SUBSET Servers
      /\ IsFiniteSet(C) /\ IsFiniteSet(D)
      /\ Cardinality(C) \in Nat /\ Cardinality(D) \in Nat
      /\ Cardinality(Servers) \in Nat /\ Cardinality(D) <= Cardinality(Servers)
  BY FS_Subset, FS_CardinalityType DEF Committed
<1>2. m \in Nat /\ Len(tasks[w]) \in Nat
  BY LimitAssumption DEF Limits
<1>3. Len(tasks[w]) + Cardinality(C) <= m + Cardinality(Servers) - 1
  BY DEF QueueInv
<1> DEFINE Goal == Len(tasks'[w]) + Cardinality(D) <= m + Cardinality(Servers) - 1
<1> HIDE DEF C, D
<1>4. ASSUME D \subseteq C, Len(tasks'[w]) \in Nat, Len(tasks'[w]) <= Len(tasks[w])
      PROVE  Goal
  <2>1. Cardinality(D) <= Cardinality(C)
    BY <1>1, <1>4, FS_Subset
  <2>2. QED
    BY <1>1, <1>2, <1>3, <1>4, <2>1
<1>5. ASSUME UNCHANGED <<spc, target, count, tasks>> PROVE Goal
  <2>1. D = C
    BY <1>5 DEF C, D, Committed
  <2>2. QED
    BY <1>2, <1>4, <1>5, <2>1
<1>6. ASSUME NEW s \in Servers, GetTaskCount(s) PROVE Goal
  <2>1. UNCHANGED <<tasks, target>>
    BY <1>6 DEF GetTaskCount, workerVars
  <2>2. CASE Len(tasks[w]) < m
    BY <1>1, <1>2, <2>1, <2>2
  <2>3. CASE ~(Len(tasks[w]) < m)
    <3>1. s \notin D
      BY <1>2, <1>6, <2>1, <2>3 DEF GetTaskCount, D, Committed
    <3>2. D \subseteq C
      BY <1>6, <3>1 DEF GetTaskCount, C, D, Committed
    <3>3. QED
      BY <1>2, <1>4, <2>1, <3>2
  <2>4. QED
    BY <2>2, <2>3
<1>7. ASSUME NEW s \in Servers, CheckLimit(s) PROVE Goal
  <2>1. target[s] \in Workers
    BY <1>7 DEF CheckLimit, CallPc, InCall
  <2>2. maxTasks[target[s]] \in Nat /\ maxTasks[target[s]] <= m
    BY <2>1, LimitAssumption DEF Highest, Limits
  <2>3. ASSUME s \in D PROVE s \in C
    BY <1>2, <1>7, <2>2, <2>3 DEF CheckLimit, C, D, Committed
  <2>4. \A r \in Servers \ {s} : r \in D => r \in C
    BY <1>7 DEF CheckLimit, C, D, Committed
  <2>5. D \subseteq C /\ tasks' = tasks
    BY <1>1, <1>7, <2>3, <2>4 DEF CheckLimit, workerVars
  <2>6. QED
    BY <1>2, <1>4, <2>5
<1>8. ASSUME NEW s \in Servers, PushTask(s) PROVE Goal
  <2>1. target[s] \in Workers /\ newTask[s] \in Calls
    BY <1>8 DEF PushTask, CallPc, InCall
  <2>2. CASE target[s] = w
    <3>1. D = C \ {s} /\ s \in C
      BY <1>8, <2>2 DEF PushTask, C, D, Committed
    <3>2. Cardinality(D) = Cardinality(C) - 1
      BY <1>1, <3>1, FS_RemoveElement
    <3>3. Len(tasks'[w]) = Len(tasks[w]) + 1
      BY <1>8, <2>1, <2>2 DEF PushTask
    <3>4. QED
      BY <1>1, <1>2, <1>3, <3>2, <3>3
  <2>3. CASE target[s] # w
    <3>1. tasks'[w] = tasks[w]
      BY <1>8, <2>3 DEF PushTask
    <3>2. D \subseteq C
      BY <1>8 DEF PushTask, C, D, Committed
    <3>3. QED
      BY <1>2, <1>4, <3>1, <3>2
  <2>4. QED
    BY <2>2, <2>3
<1>9. ASSUME NEW x \in Workers, PopTask(x) PROVE Goal
  <2>1. D = C
    BY <1>9 DEF PopTask, callVars, C, D, Committed
  <2>2. Len(tasks'[w]) \in Nat /\ Len(tasks'[w]) <= Len(tasks[w])
    <3>1. CASE x # w \/ tasks[x] = <<>>
      BY <1>2, <1>9, <3>1 DEF PopTask
    <3>2. CASE x = w /\ tasks[x] # <<>>
      <4>1. tasks'[w] = Tail(tasks[w])
        BY <1>9, <3>2 DEF PopTask
      <4>2. QED
        BY <3>2, <4>1
    <3>3. QED
      BY <3>1, <3>2
  <2>3. QED
    BY <1>4, <2>1, <2>2
<1>10. ASSUME NEW s \in Servers,
              StartScript(s) \/ Spawn(s) \/ SetEvent(s) \/ EndScript(s)
       PROVE  Goal
  <2>1. /\ \A r \in Servers \ {s} : spc'[r] = spc[r] /\ target'[r] = target[r]
        /\ spc'[s] \notin {"push", "limit"} /\ count' = count /\ tasks' = tasks
    BY <1>10 DEF StartScript, Spawn, SetEvent, EndScript, workerVars
  <2>2. D \subseteq C
    BY <2>1 DEF C, D, Committed
  <2>3. QED
    BY <1>2, <1>4, <2>1, <2>2
<1>11. ASSUME NEW s \in Servers, NEW x \in Workers, NEW c \in Coroutines \cup {NoCo},
              ThreadExecute(s, x, c)
       PROVE  Goal
  <2>1. /\ \A r \in Servers \ {s} : spc'[r] = spc[r] /\ target'[r] = target[r]
        /\ spc'[s] \notin {"push", "limit"} /\ count' = count /\ tasks' = tasks
    BY <1>11 DEF ThreadExecute
  <2>2. D \subseteq C
    BY <2>1 DEF C, D, Committed
  <2>3. QED
    BY <1>2, <1>4, <2>1, <2>2
<1>12. ASSUME \/ \E c \in Coroutines : StartCoroutine(c)
              \/ DispatchUserEvent \/ SwapReturns \/ Deliver
       PROVE  Goal
  <2>1. /\ \A r \in Servers \ {MainServer} : spc'[r] = spc[r]
        /\ spc'[MainServer] \notin {"push", "limit"}
        /\ UNCHANGED <<target, count, tasks>>
    BY <1>12 DEF StartCoroutine, DispatchUserEvent, SwapReturns, Deliver, workerVars
  <2>2. D \subseteq C
    BY <2>1 DEF C, D, Committed
  <2>3. QED
    BY <1>2, <1>4, <2>1, <2>2
<1>13. QED
  <2>1. ASSUME NEW s \in Servers, NEW x \in Workers, NEW n \in MaxTaskValues,
               SetMaxTask(s, x, n)
        PROVE  UNCHANGED <<spc, target, count, tasks>>
    BY <2>1 DEF SetMaxTask, callVars
  <2>2. ASSUME NEW x \in Workers, \/ Initialize(x) \/ Wait(x) \/ WaitFails(x)
                                  \/ RunTask(x) \/ PostTaskReturn(x)
                                  \/ UserTrigger(x)
        PROVE  UNCHANGED <<spc, target, count, tasks>>
    BY <2>2 DEF Initialize, Wait, WaitFails, RunTask, PostTaskReturn, UserTrigger,
                callVars
  <2>3. UNCHANGED vars => UNCHANGED <<spc, target, count, tasks>>
    BY DEF vars, workerVars, callVars
  <2>4. Goal
    <3> HIDE DEF Goal
    <3> QED
      BY NextCases, <1>5, <1>6, <1>7, <1>8, <1>9, <1>10, <1>11, <1>12, <2>1,
         <2>2, <2>3
  <2>5. QED
    BY <2>4 DEF D

\* Although PostTask checks and pushes in two critical sections, a queue never
\* holds more than the largest limit plus one task for each other server.
THEOREM QueueBoundHolds == SafeSpec => []QueueBound
<1>1. Init => QueueInv
  <2> SUFFICES ASSUME Init, NEW w \in Workers, NEW m \in Limits
               PROVE  Len(tasks[w]) + Cardinality(Committed(w, m))
                        <= m + Cardinality(Servers) - 1
    BY DEF QueueInv
  <2>1. Committed(w, m) = {} /\ Len(tasks[w]) = 0
    BY DEF Init, Committed
  <2>2. Cardinality(Servers) \in Nat /\ Cardinality(Servers) # 0
    BY ServersAssumption, FS_CardinalityType, FS_EmptySet
  <2>3. QED
    BY <2>1, <2>2, FS_EmptySet, LimitAssumption DEF Limits
<1>2. TypeInv /\ QueueInv => QueueBound
  <2> SUFFICES ASSUME TypeInv, QueueInv, NEW w \in Workers, NEW m \in Limits,
                      Highest(m)
               PROVE  Len(tasks[w]) <= m + Cardinality(Servers) - 1
    BY DEF QueueBound, Highest
  <2>1. Cardinality(Committed(w, m)) \in Nat /\ Cardinality(Servers) \in Nat
    BY ServersAssumption, FS_Subset, FS_CardinalityType DEF Committed
  <2>2. m \in Nat /\ Len(tasks[w]) \in Nat
    BY LimitAssumption DEF Limits, TypeInv, TypeOK, WorkerTypes
  <2>3. QED
    BY <2>1, <2>2 DEF QueueInv
<1>3. QED
  BY <1>1, <1>2, QueueStep, AlwaysTypeInv, PTL DEF SafeSpec
=============================================================================
