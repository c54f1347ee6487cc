------------------------- MODULE TaskServiceProofs -------------------------
(***************************************************************************)
(* The worker pool implements the safety part of TaskService, and what     *)
(* follows from it: the outcome of a call is final, a task has one owner,  *)
(* the results of one worker are handed over in call order and only those  *)
(* of ended coroutines are dropped; for any number of servers, workers,    *)
(* coroutines and calls.                                                   *)
(*                                                                         *)
(* The argument: a step of the pool has one of six effects on the          *)
(* pipelines of the workers and on the list of finished calls, and only    *)
(* these six have to be looked at for ownership and order.                 *)
(***************************************************************************)
EXTENDS LuaThreadPoolProofs, SequenceTheorems

\* The executed calls whose result has not been handed over.
Finished == lstRet \o poolsRet

\* What each worker has accepted and not finished.
Pipes == [w \in Workers |-> Pipeline(w)]

\* A call is with one server from ThreadExecute to PostTask's push or refusal,
\* and nothing else knows of it.
PostInv ==
  /\ \A s \in Servers : newTask[s] # NoTask => spc[s] \in InCall
  /\ \A s, r \in Servers : newTask[s] = newTask[r] /\ newTask[s] # NoTask => s = r
  /\ \A s \in Servers : newTask[s] # NoTask =>
       /\ newTask[s] <= calls
       /\ outcome[newTask[s]] = "unused"
       /\ taskWorker[newTask[s]] = target[s]
  /\ \A t \in Calls : t > calls => outcome[t] = "unused" /\ taskCo[t] = NoCo

\* Only the thread of g_server names coroutines, one call at a time.
NamedInv ==
  /\ \A t \in Calls :
       outcome[t] = "unused" /\ taskCo[t] # NoCo => newTask[MainServer] = t
  /\ newTask[MainServer] # NoTask =>
       \A u \in Calls : u > newTask[MainServer] => taskCo[u] = NoCo

\* Update takes the return list when it has dealt with the last one, and is in one
\* coroutine at a time.
UpdateInv ==
  /\ spc[MainServer] \in {"loop", "swap"} => lstRet = <<>>
  /\ spc[MainServer] \in {"loop", "swap", "deliver"} => updCmd = NoTask
  /\ lstRet # <<>> => spc[MainServer] = "deliver" \/ updCmd # NoTask
  /\ updCmd # NoTask => outcome[updCmd] = "resumed"
  /\ \A w \in Workers : wpc[w] = "return" => taskCo[pCmd[w]] # NoCo

\* Types, the calls being made and Update.
CallInv == TypeInv /\ PostInv /\ NamedInv /\ UpdateInv

\* Every pending call is in one place: a pipeline or the list of finished calls.
PlaceInv ==
  /\ \A w \in Workers : \A i \in DOMAIN Pipes[w] :
       outcome[Pipes[w][i]] = "pending" /\ taskWorker[Pipes[w][i]] = w
  /\ \A i \in DOMAIN Finished :
       outcome[Finished[i]] = "pending" /\ taskCo[Finished[i]] # NoCo
  /\ \A w \in Workers : \A i, j \in DOMAIN Pipes[w] :
       i # j => Pipes[w][i] # Pipes[w][j]
  /\ \A i, j \in DOMAIN Finished : i # j => Finished[i] # Finished[j]
  /\ \A w \in Workers : \A i \in DOMAIN Pipes[w], j \in DOMAIN Finished :
       Pipes[w][i] # Finished[j]
  /\ \A t \in Calls : outcome[t] = "pending" =>
       \/ \E w \in Workers : \E i \in DOMAIN Pipes[w] : Pipes[w][i] = t
       \/ \E i \in DOMAIN Finished : Finished[i] = t

\* What became of a call says whether it named a coroutine.
FateInv ==
  \A t \in Calls : /\ outcome[t] \in {"resumed", "dropped"} => taskCo[t] # NoCo
                   /\ outcome[t] = "discarded" => taskCo[t] = NoCo

\* Two calls of coroutines to one worker.
InOrder(t, u) ==
  /\ t < u
  /\ taskWorker[t] = taskWorker[u]
  /\ taskCo[t] # NoCo
  /\ taskCo[u] # NoCo

\* The earlier one is never behind the later one.
OrderInv ==
  \A t, u \in Calls : InOrder(t, u) =>
    /\ \A w \in Workers : \A i, j \in DOMAIN Pipes[w] :
         Pipes[w][i] = t /\ Pipes[w][j] = u => i < j
    /\ \A w \in Workers : \A i \in DOMAIN Pipes[w], j \in DOMAIN Finished :
         ~(Pipes[w][i] = t /\ Finished[j] = u)
    /\ \A i, j \in DOMAIN Finished : Finished[i] = t /\ Finished[j] = u => i < j
    /\ outcome[u] \in {"resumed", "dropped"} => outcome[t] # "pending"

\* The registry reference of a coroutine is held while the task exists.
RefInv ==
  \A t \in Calls :
    t \in refs <=> /\ taskCo[t] # NoCo
                   /\ \/ \E s \in Servers : spc[s] = "push" /\ newTask[s] = t
                      \/ outcome[t] = "pending"
                      \/ updCmd = t

\* One coroutine runs at a time, on the thread of g_server, and only one that ran
\* has made calls.
CoInv ==
  /\ \A c \in Coroutines : coStatus[c] = "running" <=> runCo = c
  /\ spc[MainServer] \in {"loop", "swap", "deliver"} => runCo = NoCo
  /\ \A t \in Calls : taskCo[t] # NoCo => coStatus[taskCo[t]] # "fresh"

\* The inductive invariant.
AllInv == CallInv /\ PlaceInv /\ FateInv /\ OrderInv /\ RefInv /\ CoInv
            /\ DropsOnlyEnded
-----------------------------------------------------------------------------
(* Lists                                                                   *)

\* Appending to the second of two lists appends to both.
LEMMA ConcatAppend ==
  ASSUME NEW S, NEW a \in Seq(S), NEW b \in Seq(S), NEW t \in S
  PROVE  a \o Append(b, t) = Append(a \o b, t)
  OBVIOUS

\* A list is its front and the rest.
LEMMA FrontAndRest ==
  ASSUME NEW S, NEW q \in Seq(S), q # <<>>
  PROVE  <<Head(q)>> \o Tail(q) = q
  OBVIOUS

\* Taking off what was put in front.
LEMMA FrontRemoved ==
  ASSUME NEW S, NEW q \in Seq(S), NEW t \in S
  PROVE  /\ <<t>> \o q \in Seq(S) /\ <<t>> \o q # <<>>
         /\ Head(<<t>> \o q) = t /\ Tail(<<t>> \o q) = q
  OBVIOUS

\* The front of two lists is the front of the first.
LEMMA ConcatTail ==
  ASSUME NEW S, NEW a \in Seq(S), NEW b \in Seq(S), a # <<>>
  PROVE  /\ a \o b \in Seq(S) /\ a \o b # <<>>
         /\ Head(a \o b) = Head(a) /\ Tail(a \o b) = Tail(a) \o b
  OBVIOUS

\* An empty list adds nothing.
LEMMA ConcatNothing ==
  ASSUME NEW S, NEW a \in Seq(S)
  PROVE  a \o <<>> = a /\ <<>> \o a = a
  OBVIOUS

\* The pipelines and the finished calls are lists of calls.
LEMMA PlaceTypes ==
  ASSUME TypeInv
  PROVE  Pipes \in [Workers -> Seq(Calls)] /\ Finished \in Seq(Calls)
<1>1. ASSUME NEW w \in Workers PROVE Pipeline(w) \in Seq(Calls)
  BY DEF TypeInv, TypeOK, WorkerTypes, Pipeline, NoTask
<1>2. Finished \in Seq(Calls)
  BY DEF TypeInv, TypeOK, ReturnTypes, Finished
<1>3. QED
  BY <1>1, <1>2 DEF Pipes
-----------------------------------------------------------------------------
(* The six effects of a step                                               *)

\* Nothing that a call that was made would notice.
NoEffect ==
  /\ UNCHANGED <<Pipes, Finished, outcome>>
  /\ \A t \in Calls : outcome[t] # "unused" =>
       taskCo'[t] = taskCo[t] /\ taskWorker'[t] = taskWorker[t]

\* PostTask turned the call away.
Refused(t) ==
  /\ outcome[t] = "unused"
  /\ outcome' = [outcome EXCEPT ![t] = "refused"]
  /\ UNCHANGED <<Pipes, Finished, taskCo, taskWorker>>

\* PostTask queued the call: it is the last of its worker's pipeline.
Accepted(w, t) ==
  /\ outcome[t] = "unused" /\ taskWorker[t] = w
  /\ outcome' = [outcome EXCEPT ![t] = "pending"]
  /\ Pipes' = [Pipes EXCEPT ![w] = Append(@, t)]
  /\ UNCHANGED <<Finished, taskCo, taskWorker>>

\* The worker executed a call that named no coroutine.
Forgotten(w) ==
  /\ wpc[w] # "dead" /\ Pipes[w] # <<>> /\ taskCo[Head(Pipes[w])] = NoCo
  /\ outcome' = [outcome EXCEPT ![Head(Pipes[w])] = "discarded"]
  /\ Pipes' = [Pipes EXCEPT ![w] = Tail(@)]
  /\ UNCHANGED <<Finished, taskCo, taskWorker>>

\* The worker executed a call and returned its result.
Executed(w) ==
  /\ wpc[w] # "dead" /\ Pipes[w] # <<>> /\ taskCo[Head(Pipes[w])] # NoCo
  /\ Pipes' = [Pipes EXCEPT ![w] = Tail(@)]
  /\ Finished' = Append(Finished, Head(Pipes[w]))
  /\ UNCHANGED <<outcome, taskCo, taskWorker>>

\* Update took the oldest result and resumed its coroutine or dropped it.
HandedOver(o) ==
  /\ Finished # <<>>
  /\ outcome' = [outcome EXCEPT ![Head(Finished)] = o]
  /\ Finished' = Tail(Finished)
  /\ UNCHANGED <<Pipes, taskCo, taskWorker>>

\* The workers whose thread is gone, as TaskService sees them.
Gone == {w \in Workers : wpc[w] = "dead"}

\* Nothing changes for the service but, perhaps, that a worker is gone.
Silent == NoEffect /\ (UNCHANGED Gone \/ \E w \in Workers : Gone' = Gone \cup {w})

\* A visible effect, which stops no worker.
Visible ==
  /\ UNCHANGED Gone
  /\ \/ \E t \in Calls : Refused(t)
     \/ \E w \in Workers, t \in Calls : Accepted(w, t)
     \/ \E w \in Workers : Forgotten(w) \/ Executed(w)
     \/ \E o \in {"resumed", "dropped"} : HandedOver(o)

\* The steps of a worker's thread.
LEMMA WorkerEffects ==
  ASSUME CallInv, NEW w \in Workers,
         \/ Initialize(w) \/ PopTask(w) \/ Wait(w) \/ WaitFails(w) \/ RunTask(w)
         \/ PostTaskReturn(w) \/ UserTrigger(w)
  PROVE  Silent \/ Visible
<1> USE DEF CallInv, TypeInv, TypeOK, WorkerTypes, LuaTypes, ReturnTypes
<1>1. CASE Initialize(w) \/ Wait(w) \/ WaitFails(w) \/ UserTrigger(w)
  <2>1. UNCHANGED <<tasks, pCmd, poolsRet, lstRet, outcome, taskCo, taskWorker>>
    BY <1>1 DEF Initialize, Wait, WaitFails, UserTrigger, returnVars, luaVars
  <2>2. NoEffect
    BY <2>1 DEF NoEffect, Pipes, Pipeline, Finished
  <2>3. \E pc \in WorkerPcs : wpc' = [wpc EXCEPT ![w] = pc] /\ wpc[w] # "dead"
    BY <1>1 DEF Initialize, Wait, WaitFails, UserTrigger, WorkerPcs
  <2>4. UNCHANGED Gone \/ Gone' = Gone \cup {w}
    BY <2>3 DEF Gone
  <2>5. QED
    BY <2>2, <2>4 DEF Silent
<1>2. CASE PopTask(w)
  <2>1. UNCHANGED <<poolsRet, lstRet, outcome, taskCo, taskWorker>>
    BY <1>2 DEF PopTask, returnVars, luaVars
  <2>2. pCmd[w] = NoTask /\ UNCHANGED Gone
    BY <1>2 DEF PopTask, WorkerPc, Gone
  <2>3. Pipeline(w)' = Pipeline(w)
    <3>1. CASE tasks[w] = <<>>
      BY <1>2, <3>1 DEF PopTask, Pipeline
    <3>2. CASE tasks[w] # <<>>
      <4>1. pCmd'[w] = Head(tasks[w]) /\ tasks'[w] = Tail(tasks[w])
        BY <1>2, <3>2 DEF PopTask
      <4>2. Head(tasks[w]) # NoTask
        <5>1. Head(tasks[w]) \in Calls
          BY <3>2, HeadTail
        <5>2. QED
          BY <5>1 DEF Calls, NoTask
      <4>3. Pipeline(w)' = <<Head(tasks[w])>> \o Tail(tasks[w])
        BY <4>1, <4>2 DEF Pipeline
      <4>4. Pipeline(w) = <<>> \o tasks[w]
        BY <2>2 DEF Pipeline
      <4>5. QED
        BY <3>2, <4>3, <4>4, FrontAndRest, ConcatNothing
    <3>3. QED
      BY <3>1, <3>2
  <2>4. \A x \in Workers : x # w => Pipeline(x)' = Pipeline(x)
    BY <1>2 DEF PopTask, Pipeline
  <2>5. Pipes' = Pipes
    BY <2>3, <2>4 DEF Pipes
  <2>6. QED
    BY <2>1, <2>2, <2>5 DEF Silent, NoEffect, Finished
<1>3. CASE RunTask(w) \/ PostTaskReturn(w)
  <2>1. pCmd[w] \in Calls /\ pCmd[w] # NoTask /\ UNCHANGED Gone /\ wpc[w] # "dead"
    BY <1>3 DEF RunTask, PostTaskReturn, WorkerPc, Gone, Calls, NoTask
  <2>2. /\ Pipes[w] = <<pCmd[w]>> \o tasks[w] /\ Pipes[w] # <<>>
        /\ Head(Pipes[w]) = pCmd[w] /\ Tail(Pipes[w]) = tasks[w]
    BY <2>1, FrontRemoved DEF Pipes, Pipeline
  <2>3. UNCHANGED <<tasks, taskCo, taskWorker, lstRet>>
    BY <1>3 DEF RunTask, PostTaskReturn, returnVars, luaVars
  <2>4. ASSUME pCmd' = [pCmd EXCEPT ![w] = NoTask]
        PROVE  Pipes' = [Pipes EXCEPT ![w] = Tail(@)]
    <3>1. Pipeline(w)' = tasks[w]
      BY <2>3, <2>4, ConcatNothing DEF Pipeline
    <3>2. \A x \in Workers : x # w => Pipeline(x)' = Pipeline(x)
      BY <2>3, <2>4 DEF Pipeline
    <3>3. QED
      BY <2>2, <3>1, <3>2 DEF Pipes
  <2>5. CASE RunTask(w) /\ taskCo[pCmd[w]] = NoCo
    <3>1. /\ pCmd' = [pCmd EXCEPT ![w] = NoTask]
          /\ outcome' = [outcome EXCEPT ![pCmd[w]] = "discarded"]
          /\ UNCHANGED poolsRet
      BY <2>5 DEF RunTask, returnVars
    <3>2. Forgotten(w)
      BY <2>1, <2>2, <2>3, <2>4, <2>5, <3>1 DEF Forgotten, Finished
    <3>3. QED
      BY <2>1, <3>2 DEF Visible
  <2>6. CASE RunTask(w) /\ taskCo[pCmd[w]] # NoCo
    <3>1. UNCHANGED <<pCmd, outcome, poolsRet>>
      BY <2>6 DEF RunTask, returnVars
    <3>2. NoEffect
      BY <2>3, <3>1 DEF NoEffect, Pipes, Pipeline, Finished
    <3>3. QED
      BY <2>1, <3>2 DEF Silent
  <2>7. CASE PostTaskReturn(w)
    <3>1. /\ pCmd' = [pCmd EXCEPT ![w] = NoTask]
          /\ poolsRet' = Append(poolsRet, pCmd[w])
          /\ UNCHANGED outcome
          /\ taskCo[pCmd[w]] # NoCo
      BY <2>7 DEF PostTaskReturn, UpdateInv
    <3>2. Finished' = Append(Finished, pCmd[w])
      BY <2>1, <2>3, <3>1, ConcatAppend DEF Finished
    <3>3. Executed(w)
      BY <2>1, <2>2, <2>3, <2>4, <3>1, <3>2 DEF Executed
    <3>4. QED
      BY <2>1, <3>3 DEF Visible
  <2>8. QED
    BY <1>3, <2>5, <2>6, <2>7
<1>4. QED
  BY <1>1, <1>2, <1>3

\* The steps of scripts: PostTask refuses or accepts, nothing else is noticed.
LEMMA ServerEffects ==
  ASSUME CallInv,
         \/ \E s \in Servers : \/ StartScript(s) \/ Spawn(s) \/ GetTaskCount(s)
                               \/ CheckLimit(s) \/ PushTask(s) \/ SetEvent(s)
                               \/ EndScript(s)
         \/ \E s \in Servers, w \in Workers, c \in Coroutines \cup {NoCo} :
              ThreadExecute(s, w, c)
         \/ \E s \in Servers, w \in Workers, m \in MaxTaskValues :
              SetMaxTask(s, w, m)
         \/ \E c \in Coroutines : StartCoroutine(c)
  PROVE  Silent \/ Visible
<1> USE DEF CallInv, TypeInv, TypeOK, WorkerTypes, LuaTypes, CallTypes
<1> DEFINE Places == UNCHANGED <<tasks, pCmd, poolsRet, lstRet>>
<1>0. Places => UNCHANGED <<Pipes, Finished>>
  BY DEF Pipes, Pipeline, Finished
<1>1. ASSUME NEW s \in Servers,
             StartScript(s) \/ GetTaskCount(s) \/ SetEvent(s) \/ EndScript(s)
      PROVE  Silent
  <2>1. Places /\ UNCHANGED <<wpc, outcome, taskCo, taskWorker>>
    BY <1>1 DEF StartScript, GetTaskCount, SetEvent, EndScript, workerVars,
                returnVars, luaVars
  <2>2. QED
    BY <1>0, <2>1 DEF Silent, NoEffect, Gone
<1>2. ASSUME NEW s \in Servers, Spawn(s) PROVE Silent
  <2>1. Places /\ UNCHANGED <<outcome, taskCo, taskWorker>>
    BY <1>2 DEF Spawn, returnVars, luaVars
  <2>2. target[s] \in Workers /\ wpc[target[s]] = "created"
    BY <1>2 DEF Spawn, CallPc, InCall
  <2>3. UNCHANGED Gone \/ Gone' = Gone \cup {target[s]}
    BY <1>2, <2>2 DEF Spawn, Gone
  <2>4. QED
    BY <1>0, <2>1, <2>2, <2>3 DEF Silent, NoEffect
<1>3. ASSUME NEW s \in Servers, CheckLimit(s) PROVE Silent \/ Visible
  <2>1. Places /\ UNCHANGED <<wpc, taskCo, taskWorker>>
    BY <1>3 DEF CheckLimit, workerVars, returnVars
  <2>2. newTask[s] \in Calls /\ newTask[s] # NoTask
    BY <1>3 DEF CheckLimit, CallPc, InCall, Calls, NoTask
  <2>3. outcome[newTask[s]] = "unused"
    BY <2>2 DEF PostInv
  <2>4. outcome' = outcome \/ outcome' = [outcome EXCEPT ![newTask[s]] = "refused"]
    BY <1>3 DEF CheckLimit
  <2>5. CASE outcome' = outcome
    BY <1>0, <2>1, <2>5 DEF Silent, NoEffect, Gone
  <2>6. CASE outcome' = [outcome EXCEPT ![newTask[s]] = "refused"]
    <3>1. Refused(newTask[s]) /\ UNCHANGED Gone
      BY <1>0, <2>1, <2>3, <2>6 DEF Refused, Gone
    <3>2. QED
      BY <2>2, <3>1 DEF Visible
  <2>7. QED
    BY <2>4, <2>5, <2>6
<1>4. ASSUME NEW s \in Servers, PushTask(s) PROVE Visible
  <2>1. UNCHANGED <<pCmd, wpc, poolsRet, lstRet, taskCo, taskWorker>>
    BY <1>4 DEF PushTask, returnVars, luaVars
  <2>2. PICK w \in Workers, t \in Calls : w = target[s] /\ t = newTask[s]
    BY <1>4 DEF PushTask, CallPc, InCall
  <2>3. outcome[t] = "unused" /\ taskWorker[t] = w
    BY <2>2 DEF PostInv, Calls, NoTask
  <2>4. /\ tasks' = [tasks EXCEPT ![w] = Append(@, t)]
        /\ outcome' = [outcome EXCEPT ![t] = "pending"]
    BY <1>4, <2>2 DEF PushTask
  <2>5. Pipeline(w)' = Append(Pipeline(w), t)
    <3>1. CASE pCmd[w] = NoTask
      BY <2>1, <2>4, <3>1, ConcatNothing DEF Pipeline
    <3>2. CASE pCmd[w] # NoTask
      <4>1. <<pCmd[w]>> \in Seq(Calls) /\ tasks[w] \in Seq(Calls)
        BY <3>2
      <4>2. Pipeline(w)' = <<pCmd[w]>> \o Append(tasks[w], t)
        BY <2>1, <2>4, <3>2 DEF Pipeline
      <4>3. Pipeline(w) = <<pCmd[w]>> \o tasks[w]
        BY <3>2 DEF Pipeline
      <4> HIDE DEF CallInv
      <4>4. QED
        BY <4>1, <4>2, <4>3, ConcatAppend
    <3>3. QED
      BY <3>1, <3>2
  <2>6. \A x \in Workers : x # w => Pipeline(x)' = Pipeline(x)
    BY <2>1, <2>4 DEF Pipeline
  <2>7. Pipes' = [Pipes EXCEPT ![w] = Append(@, t)]
    BY <2>5, <2>6 DEF Pipes
  <2>8. Accepted(w, t) /\ UNCHANGED Gone
    BY <2>1, <2>3, <2>4, <2>7 DEF Accepted, Finished, Gone
  <2>9. QED
    BY <2>8 DEF Visible
<1>5. ASSUME NEW s \in Servers, NEW w \in Workers, NEW c \in Coroutines \cup {NoCo},
             ThreadExecute(s, w, c)
      PROVE  Silent
  <2>1. Places /\ UNCHANGED outcome
    BY <1>5 DEF ThreadExecute, returnVars
  <2>2. calls + 1 \in Calls /\ outcome[calls + 1] = "unused"
    BY <1>5, BoundAssumption DEF ThreadExecute, Calls, PostInv
  <2>3. \A t \in Calls : outcome[t] # "unused" =>
          taskCo'[t] = taskCo[t] /\ taskWorker'[t] = taskWorker[t]
    BY <1>5, <2>2 DEF ThreadExecute
  <2>4. UNCHANGED Gone
    BY <1>5 DEF ThreadExecute, Gone, Pools
  <2>5. QED
    BY <1>0, <2>1, <2>3, <2>4 DEF Silent, NoEffect
<1>6. ASSUME NEW s \in Servers, NEW w \in Workers, NEW m \in MaxTaskValues,
             SetMaxTask(s, w, m)
      PROVE  Silent
  BY <1>0, <1>6 DEF SetMaxTask, returnVars, luaVars, Silent, NoEffect, Gone
<1>7. ASSUME NEW c \in Coroutines, StartCoroutine(c) PROVE Silent
  BY <1>0, <1>7 DEF StartCoroutine, workerVars, returnVars, Silent, NoEffect, Gone
<1>8. QED
  BY <1>1, <1>2, <1>3, <1>4, <1>5, <1>6, <1>7

\* The loop of g_server: only Update's turns are noticed.
LEMMA LoopEffects ==
  ASSUME CallInv, DispatchUserEvent \/ SwapReturns \/ Deliver
  PROVE  Silent \/ Visible
<1> USE DEF CallInv, TypeInv, TypeOK, ReturnTypes
<1>0. UNCHANGED <<Pipes, Gone, taskCo, taskWorker>>
  BY DEF DispatchUserEvent, SwapReturns, Deliver, workerVars, luaVars, Pipes,
         Pipeline, Gone
<1>1. CASE DispatchUserEvent
  BY <1>0, <1>1 DEF DispatchUserEvent, luaVars, Finished, Silent, NoEffect
<1>2. CASE SwapReturns
  <2>1. lstRet = <<>> /\ lstRet' = poolsRet /\ poolsRet' = <<>> /\ UNCHANGED outcome
    BY <1>2 DEF SwapReturns, UpdateInv
  <2>2. Finished' = Finished
    BY <2>1, ConcatNothing DEF Finished
  <2>3. QED
    BY <1>0, <2>1, <2>2 DEF Silent, NoEffect
<1>3. CASE Deliver /\ lstRet = <<>>
  BY <1>0, <1>3 DEF Deliver, Finished, Silent, NoEffect
<1>4. CASE Deliver /\ lstRet # <<>>
  <2>1. lstRet' = Tail(lstRet) /\ UNCHANGED poolsRet
    BY <1>4 DEF Deliver
  <2>2. /\ Finished # <<>> /\ Head(Finished) = Head(lstRet)
        /\ Finished' = Tail(Finished)
    BY <1>4, <2>1, ConcatTail DEF Finished
  <2>3. \E o \in {"resumed", "dropped"} : outcome' = [outcome EXCEPT ![Head(lstRet)] = o]
    BY <1>4 DEF Deliver
  <2>4. \E o \in {"resumed", "dropped"} : HandedOver(o)
    BY <1>0, <2>2, <2>3 DEF HandedOver
  <2>5. QED
    BY <1>0, <2>4 DEF Visible
<1>5. QED
  BY <1>1, <1>2, <1>3, <1>4

\* Every step of the pool has one of the effects.
LEMMA StepEffect ==
  ASSUME CallInv, [Next]_vars
  PROVE  Silent \/ Visible
<1>1. CASE UNCHANGED vars
  BY <1>1 DEF vars, workerVars, returnVars, luaVars, Silent, NoEffect, Pipes,
              Pipeline, Finished, Gone
<1>2. CASE Next
  BY <1>2, NextCases, WorkerEffects, ServerEffects, LoopEffects
<1>3. QED
  BY <1>1, <1>2
-----------------------------------------------------------------------------
(* Where calls are, and in which order                                     *)

\* Ownership and order of the calls that were made.
Places == PlaceInv /\ FateInv /\ OrderInv

\* The calls in a list.
LEMMA ListElements ==
  ASSUME NEW S, NEW q \in Seq(S)
  PROVE  \A i \in DOMAIN q : q[i] \in S
  OBVIOUS

\* A list with t at its end.
LEMMA AppendElements ==
  ASSUME NEW S, NEW q \in Seq(S), NEW t \in S
  PROVE  /\ Append(q, t) \in Seq(S)
         /\ DOMAIN q \subseteq Nat /\ Len(q) + 1 \in Nat
         /\ Len(q) + 1 \in DOMAIN Append(q, t) /\ Append(q, t)[Len(q) + 1] = t
         /\ \A i \in DOMAIN q : /\ i \in DOMAIN Append(q, t)
                                /\ Append(q, t)[i] = q[i] /\ i < Len(q) + 1
         /\ \A i \in DOMAIN Append(q, t) : i \in DOMAIN q \/ i = Len(q) + 1
  OBVIOUS

\* A list without its front.
LEMMA TailElements ==
  ASSUME NEW S, NEW q \in Seq(S), q # <<>>
  PROVE  /\ Tail(q) \in Seq(S) /\ Head(q) \in S
         /\ DOMAIN q \subseteq Nat /\ DOMAIN Tail(q) \subseteq Nat
         /\ 1 \in DOMAIN q /\ Head(q) = q[1]
         /\ \A i \in DOMAIN Tail(q) : i + 1 \in DOMAIN q /\ Tail(q)[i] = q[i + 1]
         /\ \A i \in DOMAIN q : i > 1 => i - 1 \in DOMAIN Tail(q)
         /\ \A i \in DOMAIN q : i = 1 \/ i > 1
  OBVIOUS

\* What no made call notices misplaces none.
LEMMA NoEffectPlaces ==
  ASSUME CallInv, Places, NoEffect
  PROVE  Places'
<1>1. Pipes \in [Workers -> Seq(Calls)] /\ Finished \in Seq(Calls)
  BY PlaceTypes DEF CallInv
<1>2. /\ \A w \in Workers : \A i \in DOMAIN Pipes[w] : Pipes[w][i] \in Calls
      /\ \A i \in DOMAIN Finished : Finished[i] \in Calls
  BY <1>1, ListElements
<1> USE <1>2 DEF Places, NoEffect
<1>3. PlaceInv'
  BY DEF PlaceInv
<1>4. FateInv'
  BY DEF FateInv
<1>5. OrderInv'
  <2> SUFFICES ASSUME NEW t \in Calls, NEW u \in Calls, InOrder(t, u)'
               PROVE  /\ \A w \in Workers : \A i, j \in DOMAIN Pipes'[w] :
                           Pipes'[w][i] = t /\ Pipes'[w][j] = u => i < j
                      /\ \A w \in Workers :
                           \A i \in DOMAIN Pipes'[w], j \in DOMAIN Finished' :
                             ~(Pipes'[w][i] = t /\ Finished'[j] = u)
                      /\ \A i, j \in DOMAIN Finished' :
                           Finished'[i] = t /\ Finished'[j] = u => i < j
                      /\ outcome'[u] \in {"resumed", "dropped"} => outcome'[t] # "pending"
    BY DEF OrderInv
  <2>1. CASE outcome[t] # "unused" /\ outcome[u] # "unused"
    <3>1. InOrder(t, u)
      BY <2>1 DEF InOrder
    <3>2. QED
      BY <3>1 DEF OrderInv
  <2>2. CASE outcome[t] = "unused" \/ outcome[u] = "unused"
    BY <2>2 DEF PlaceInv
  <2>3. QED
    BY <2>1, <2>2
<1>6. QED
  BY <1>3, <1>4, <1>5

\* A refused call was nowhere.
LEMMA RefusedPlaces ==
  ASSUME CallInv, Places, NEW r \in Calls, Refused(r)
  PROVE  Places'
<1>1. Pipes \in [Workers -> Seq(Calls)] /\ Finished \in Seq(Calls)
  BY PlaceTypes DEF CallInv
<1>2. /\ \A w \in Workers : \A i \in DOMAIN Pipes[w] : Pipes[w][i] \in Calls
      /\ \A i \in DOMAIN Finished : Finished[i] \in Calls
  BY <1>1, ListElements
<1>3. \A t \in Calls : outcome'[t] = IF t = r THEN "refused" ELSE outcome[t]
  BY DEF Refused, CallInv, TypeInv, TypeOK, LuaTypes
<1> USE <1>2, <1>3 DEF Places, Refused
<1>4. PlaceInv'
  BY DEF PlaceInv
<1>5. FateInv'
  BY DEF FateInv
<1>6. OrderInv'
  BY DEF OrderInv, InOrder
<1>7. QED
  BY <1>4, <1>5, <1>6

\* An accepted call is the last of its worker, and no later one of a coroutine has
\* been made.
LEMMA AcceptedPlaces ==
  ASSUME CallInv, Places, NEW x \in Workers, NEW r \in Calls, Accepted(x, r)
  PROVE  Places'
<1>1. Pipes \in [Workers -> Seq(Calls)] /\ Finished \in Seq(Calls)
  BY PlaceTypes DEF CallInv
<1>2. /\ \A w \in Workers : \A i \in DOMAIN Pipes[w] : Pipes[w][i] \in Calls
      /\ \A i \in DOMAIN Finished : Finished[i] \in Calls
  BY <1>1, ListElements
<1>3. \A t \in Calls : outcome'[t] = IF t = r THEN "pending" ELSE outcome[t]
  BY DEF Accepted, CallInv, TypeInv, TypeOK, LuaTypes
<1>4. /\ outcome[r] = "unused" /\ taskWorker[r] = x
      /\ UNCHANGED <<Finished, taskCo, taskWorker>>
      /\ \A w \in Workers : w # x => Pipes'[w] = Pipes[w]
      /\ Pipes'[x] = Append(Pipes[x], r)
  BY <1>1 DEF Accepted
<1> DEFINE n == Len(Pipes[x]) + 1
<1>5. /\ n \in DOMAIN Pipes'[x] /\ Pipes'[x][n] = r
      /\ \A i \in DOMAIN Pipes[x] :
           i \in DOMAIN Pipes'[x] /\ Pipes'[x][i] = Pipes[x][i] /\ i < n
      /\ \A i \in DOMAIN Pipes'[x] : i \in DOMAIN Pipes[x] \/ i = n
  BY <1>1, <1>4, AppendElements
<1> HIDE DEF n
<1>6. /\ \A w \in Workers : \A i \in DOMAIN Pipes[w] : Pipes[w][i] # r
      /\ \A i \in DOMAIN Finished : Finished[i] # r
  BY <1>4 DEF Places, PlaceInv
<1>7. PlaceInv'
  <2> USE DEF Places, PlaceInv
  <2>1. \A w \in Workers : \A i \in DOMAIN Pipes'[w] :
          outcome'[Pipes'[w][i]] = "pending" /\ taskWorker'[Pipes'[w][i]] = w
    BY <1>2, <1>3, <1>4, <1>5, <1>6
  <2>2. \A i \in DOMAIN Finished' :
          outcome'[Finished'[i]] = "pending" /\ taskCo'[Finished'[i]] # NoCo
    BY <1>2, <1>3, <1>4, <1>6
  <2>3. \A w \in Workers : \A i, j \in DOMAIN Pipes'[w] :
          i # j => Pipes'[w][i] # Pipes'[w][j]
    BY <1>4, <1>5, <1>6
  <2>4. \A w \in Workers : \A i \in DOMAIN Pipes'[w], j \in DOMAIN Finished' :
          Pipes'[w][i] # Finished'[j]
    BY <1>4, <1>5, <1>6
  <2>5. \A t \in Calls : outcome'[t] = "pending" =>
          \/ \E w \in Workers : \E i \in DOMAIN Pipes'[w] : Pipes'[w][i] = t
          \/ \E i \in DOMAIN Finished' : Finished'[i] = t
    <3> SUFFICES ASSUME NEW t \in Calls, outcome'[t] = "pending"
                 PROVE  \/ \E w \in Workers : \E i \in DOMAIN Pipes'[w] : Pipes'[w][i] = t
                        \/ \E i \in DOMAIN Finished' : Finished'[i] = t
      OBVIOUS
    <3>1. CASE t = r
      BY <1>5, <3>1
    <3>2. CASE t # r
      <4>1. \/ \E w \in Workers : \E i \in DOMAIN Pipes[w] : Pipes[w][i] = t
            \/ \E i \in DOMAIN Finished : Finished[i] = t
        BY <1>3, <3>2
      <4>2. ASSUME NEW w \in Workers, NEW i \in DOMAIN Pipes[w], Pipes[w][i] = t
            PROVE  i \in DOMAIN Pipes'[w] /\ Pipes'[w][i] = t
        BY <1>4, <1>5, <4>2
      <4>3. QED
        BY <1>4, <4>1, <4>2
    <3>3. QED
      BY <3>1, <3>2
  <2>6. QED
    BY <1>4, <2>1, <2>2, <2>3, <2>4, <2>5
<1>8. FateInv'
  BY <1>3, <1>4 DEF Places, FateInv
<1>9. OrderInv'
  <2> SUFFICES ASSUME NEW t \in Calls, NEW u \in Calls, InOrder(t, u)'
               PROVE  /\ \A w \in Workers : \A i, j \in DOMAIN Pipes'[w] :
                           Pipes'[w][i] = t /\ Pipes'[w][j] = u => i < j
                      /\ \A w \in Workers :
                           \A i \in DOMAIN Pipes'[w], j \in DOMAIN Finished' :
                             ~(Pipes'[w][i] = t /\ Finished'[j] = u)
                      /\ \A i, j \in DOMAIN Finished' :
                           Finished'[i] = t /\ Finished'[j] = u => i < j
                      /\ outcome'[u] \in {"resumed", "dropped"} => outcome'[t] # "pending"
    BY DEF OrderInv
  <2>1. InOrder(t, u)
    BY <1>4 DEF InOrder
  <2>2. t # r
    <3> SUFFICES ASSUME t = r PROVE FALSE
      OBVIOUS
    <3>1. newTask[MainServer] = r /\ r # NoTask
      BY <1>4, <2>1 DEF CallInv, NamedInv, InOrder, Calls, NoTask
    <3>2. taskCo[u] = NoCo
      BY <2>1, <3>1 DEF CallInv, NamedInv, InOrder, Calls
    <3>3. QED
      BY <2>1, <3>2 DEF InOrder
  <2>3. \A w \in Workers : \A i \in DOMAIN Pipes'[w] :
          Pipes'[w][i] = t => i \in DOMAIN Pipes[w] /\ Pipes[w][i] = t
    BY <1>4, <1>5, <2>2
  <2>4. \A w \in Workers : \A i \in DOMAIN Pipes'[w] :
          Pipes'[w][i] = u =>
            \/ i \in DOMAIN Pipes[w] /\ Pipes[w][i] = u
            \/ w = x /\ i = n
    BY <1>4, <1>5
  <2>5. QED
    BY <1>3, <1>4, <1>5, <1>6, <2>1, <2>2, <2>3, <2>4 DEF Places, OrderInv
<1>10. QED
  BY <1>7, <1>8, <1>9 DEF Places

\* The front h of a pipeline has left it: the rest is as it was, and neither there nor
\* among the finished calls is one that should be elsewhere.
Left(h) ==
  /\ outcome[h] = "pending"
  /\ \A w \in Workers : \A i \in DOMAIN Pipes'[w] :
       /\ Pipes'[w][i] \in Calls /\ Pipes'[w][i] # h
       /\ outcome[Pipes'[w][i]] = "pending" /\ taskWorker[Pipes'[w][i]] = w
       /\ ~InOrder(Pipes'[w][i], h)
  /\ \A w \in Workers : \A i, j \in DOMAIN Pipes'[w] :
       i # j => Pipes'[w][i] # Pipes'[w][j]
  /\ \A w \in Workers : \A i \in DOMAIN Pipes'[w], j \in DOMAIN Finished :
       Pipes'[w][i] # Finished[j]
  /\ \A j \in DOMAIN Finished : Finished[j] # h /\ ~InOrder(h, Finished[j])
  /\ \A t \in Calls : outcome[t] = "pending" =>
       \/ t = h
       \/ \E w \in Workers : \E i \in DOMAIN Pipes'[w] : Pipes'[w][i] = t
       \/ \E i \in DOMAIN Finished : Finished[i] = t
  /\ \A t, u \in Calls : InOrder(t, u) =>
       /\ \A w \in Workers : \A i, j \in DOMAIN Pipes'[w] :
            Pipes'[w][i] = t /\ Pipes'[w][j] = u => i < j
       /\ \A w \in Workers : \A i \in DOMAIN Pipes'[w], j \in DOMAIN Finished :
            ~(Pipes'[w][i] = t /\ Finished[j] = u)

\* What a worker leaves behind when it is done with the front of its pipeline.
LEMMA FrontLeaves ==
  ASSUME CallInv, Places, NEW x \in Workers, NEW h \in Calls,
         Pipes[x] # <<>>, h = Head(Pipes[x]),
         Pipes' = [Pipes EXCEPT ![x] = Tail(@)]
  PROVE  Left(h)
<1>1. Pipes \in [Workers -> Seq(Calls)] /\ Finished \in Seq(Calls)
  BY PlaceTypes DEF CallInv
<1>2. /\ \A w \in Workers : \A i \in DOMAIN Pipes[w] : Pipes[w][i] \in Calls
      /\ \A i \in DOMAIN Finished : Finished[i] \in Calls
  BY <1>1, ListElements
<1>3. /\ \A w \in Workers : w # x => Pipes'[w] = Pipes[w]
      /\ Pipes'[x] = Tail(Pipes[x])
  BY <1>1
<1>4. /\ DOMAIN Pipes[x] \subseteq Nat /\ DOMAIN Pipes'[x] \subseteq Nat
      /\ 1 \in DOMAIN Pipes[x] /\ h = Pipes[x][1]
      /\ \A i \in DOMAIN Pipes'[x] :
           i + 1 \in DOMAIN Pipes[x] /\ Pipes'[x][i] = Pipes[x][i + 1]
      /\ \A i \in DOMAIN Pipes[x] : i > 1 => i - 1 \in DOMAIN Pipes'[x]
      /\ \A i \in DOMAIN Pipes[x] : i = 1 \/ i > 1
  <2>1. PICK q \in Seq(Calls) : q = Pipes[x]
    BY <1>1
  <2>2. Pipes'[x] = Tail(q) /\ q # <<>> /\ h = Head(q)
    BY <1>3, <2>1
  <2>3. /\ DOMAIN q \subseteq Nat /\ DOMAIN Tail(q) \subseteq Nat
        /\ 1 \in DOMAIN q /\ Head(q) = q[1]
        /\ \A i \in DOMAIN Tail(q) : i + 1 \in DOMAIN q /\ Tail(q)[i] = q[i + 1]
        /\ \A i \in DOMAIN q : i > 1 => i - 1 \in DOMAIN Tail(q)
        /\ \A i \in DOMAIN q : i = 1 \/ i > 1
    BY <2>2, TailElements
  <2>4. QED
    BY <2>1, <2>2, <2>3, Zenon
<1>5. \A i \in DOMAIN Pipes'[x] : i + 1 # 1 /\ ~(i + 1 < 1) /\ 0 \notin DOMAIN Pipes'[x]
  <2>1. 0 \notin DOMAIN Pipes'[x]
    <3>1. Tail(Pipes[x]) \in Seq(Calls)
      BY <1>1, TailElements
    <3>2. QED
      BY <1>3, <3>1
  <2>2. QED
    BY <1>4, <2>1
<1>6. \A w \in Workers : \A i \in DOMAIN Pipes'[w] :
        \E k \in DOMAIN Pipes[w] : Pipes[w][k] = Pipes'[w][i] /\ (w = x => k # 1)
  BY <1>3, <1>4, <1>5
<1>7. outcome[h] = "pending" /\ taskWorker[h] = x
  BY <1>4 DEF Places, PlaceInv
<1>8. \A w \in Workers : \A i \in DOMAIN Pipes'[w] :
         /\ Pipes'[w][i] \in Calls
         /\ outcome[Pipes'[w][i]] = "pending" /\ taskWorker[Pipes'[w][i]] = w
  BY <1>2, <1>6 DEF Places, PlaceInv
<1>9. ASSUME NEW w \in Workers, NEW i \in DOMAIN Pipes'[w]
      PROVE  Pipes'[w][i] # h /\ ~InOrder(Pipes'[w][i], h)
  <2>1. CASE w = x
    <3>1. /\ i + 1 \in DOMAIN Pipes[x] /\ Pipes'[x][i] = Pipes[x][i + 1] /\ i + 1 # 1
          /\ ~(i + 1 < 1)
      BY <1>4, <1>5, <2>1
    <3>2. Pipes[x][i + 1] # h
      BY <1>4, <3>1 DEF Places, PlaceInv
    <3>3. ~InOrder(Pipes[x][i + 1], h)
      BY <1>2, <1>4, <3>1 DEF Places, OrderInv
    <3>4. QED
      BY <2>1, <3>1, <3>2, <3>3
  <2>2. CASE w # x
    BY <1>7, <1>8, <2>2 DEF InOrder
  <2>3. QED
    BY <2>1, <2>2
<1>10. ASSUME NEW w \in Workers, NEW i \in DOMAIN Pipes'[w], NEW j \in DOMAIN Pipes'[w]
       PROVE  /\ i # j => Pipes'[w][i] # Pipes'[w][j]
              /\ InOrder(Pipes'[w][i], Pipes'[w][j]) => i < j
  <2>1. CASE w = x
    <3>1. /\ i + 1 \in DOMAIN Pipes[x] /\ Pipes'[x][i] = Pipes[x][i + 1]
          /\ j + 1 \in DOMAIN Pipes[x] /\ Pipes'[x][j] = Pipes[x][j + 1]
          /\ i \in Nat /\ j \in Nat
      BY <1>4, <2>1
    <3>2. i # j => Pipes'[w][i] # Pipes'[w][j]
      BY <2>1, <3>1 DEF Places, PlaceInv
    <3>3. InOrder(Pipes[x][i + 1], Pipes[x][j + 1]) => i + 1 < j + 1
      BY <1>2, <3>1 DEF Places, OrderInv
    <3>4. QED
      BY <2>1, <3>1, <3>2, <3>3
  <2>2. CASE w # x
    <3>1. /\ Pipes'[w] = Pipes[w]
          /\ i \in DOMAIN Pipes[w] /\ j \in DOMAIN Pipes[w]
      BY <1>3, <2>2
    <3>2. i # j => Pipes[w][i] # Pipes[w][j]
      BY <3>1 DEF Places, PlaceInv
    <3>3. InOrder(Pipes[w][i], Pipes[w][j]) => i < j
      BY <1>2, <3>1 DEF Places, OrderInv
    <3>4. QED
      BY <3>1, <3>2, <3>3
  <2>3. QED
    BY <2>1, <2>2
<1>11. ASSUME NEW w \in Workers, NEW i \in DOMAIN Pipes'[w], NEW j \in DOMAIN Finished
       PROVE  /\ Pipes'[w][i] # Finished[j]
              /\ ~InOrder(Pipes'[w][i], Finished[j])
  BY <1>2, <1>6 DEF Places, PlaceInv, OrderInv
<1>12. \A j \in DOMAIN Finished : Finished[j] # h /\ ~InOrder(h, Finished[j])
  BY <1>2, <1>4 DEF Places, PlaceInv, OrderInv
<1>13. ASSUME NEW t \in Calls, outcome[t] = "pending", t # h
       PROVE  \/ \E w \in Workers : \E i \in DOMAIN Pipes'[w] : Pipes'[w][i] = t
              \/ \E i \in DOMAIN Finished : Finished[i] = t
  <2>1. CASE \E i \in DOMAIN Finished : Finished[i] = t
    BY <2>1
  <2>2. ASSUME NEW w \in Workers, NEW i \in DOMAIN Pipes[w], Pipes[w][i] = t
        PROVE  \E k \in DOMAIN Pipes'[w] : Pipes'[w][k] = t
    <3>1. CASE w = x
      <4>1. i > 1 /\ i - 1 \in DOMAIN Pipes'[x] /\ i \in Nat
        BY <1>4, <1>13, <2>2, <3>1
      <4>2. Pipes'[x][i - 1] = Pipes[x][(i - 1) + 1] /\ (i - 1) + 1 = i
        BY <1>4, <4>1
      <4>3. QED
        BY <2>2, <3>1, <4>1, <4>2
    <3>2. CASE w # x
      BY <1>3, <2>2, <3>2
    <3>3. QED
      BY <3>1, <3>2
  <2>3. QED
    BY <1>13, <2>1, <2>2 DEF Places, PlaceInv
<1>14. QED
  BY <1>7, <1>8, <1>9, <1>10, <1>11, <1>12, <1>13 DEF Left

\* A chunk that named no coroutine was executed.
LEMMA ForgottenPlaces ==
  ASSUME CallInv, Places, NEW x \in Workers, Forgotten(x)
  PROVE  Places'
<1>1. Pipes \in [Workers -> Seq(Calls)] /\ Finished \in Seq(Calls)
  BY PlaceTypes DEF CallInv
<1>2. Pipes[x] \in Seq(Calls) /\ Pipes[x] # <<>>
  BY <1>1 DEF Forgotten
<1>3. PICK h \in Calls : h = Head(Pipes[x])
  BY <1>2, HeadTail
<1>4. /\ Pipes' = [Pipes EXCEPT ![x] = Tail(@)]
      /\ taskCo[h] = NoCo /\ UNCHANGED <<Finished, taskCo, taskWorker>>
  BY <1>3 DEF Forgotten
<1>5. \A t \in Calls : outcome'[t] = IF t = h THEN "discarded" ELSE outcome[t]
  BY <1>3 DEF Forgotten, CallInv, TypeInv, TypeOK, LuaTypes
<1>6. Left(h)
  BY <1>2, <1>3, <1>4, FrontLeaves
<1>7. \A i \in DOMAIN Finished : Finished[i] \in Calls
  BY <1>1, ListElements
<1>8. PlaceInv'
  BY <1>4, <1>5, <1>6, <1>7 DEF Left, Places, PlaceInv
<1>9. FateInv'
  BY <1>4, <1>5, <1>6 DEF Left, Places, FateInv
<1>10. \A t, u \in Calls : InOrder(t, u)' <=> InOrder(t, u)
  BY <1>4 DEF InOrder
<1>11. OrderInv'
  BY <1>4, <1>5, <1>6, <1>10 DEF Left, Places, OrderInv
<1>12. QED
  BY <1>8, <1>9, <1>11 DEF Places

\* A result goes to the end of the finished calls: the earlier calls of coroutines
\* to that worker have gone before it.
LEMMA ExecutedPlaces ==
  ASSUME CallInv, Places, NEW x \in Workers, Executed(x)
  PROVE  Places'
<1>1. Pipes \in [Workers -> Seq(Calls)] /\ Finished \in Seq(Calls)
  BY PlaceTypes DEF CallInv
<1>2. Pipes[x] \in Seq(Calls) /\ Pipes[x] # <<>>
  BY <1>1 DEF Executed
<1>3. PICK h \in Calls : h = Head(Pipes[x])
  BY <1>2, HeadTail
<1>4. /\ Pipes' = [Pipes EXCEPT ![x] = Tail(@)]
      /\ Finished' = Append(Finished, h)
      /\ taskCo[h] # NoCo /\ UNCHANGED <<outcome, taskCo, taskWorker>>
  BY <1>3 DEF Executed
<1>5. Left(h)
  BY <1>2, <1>3, <1>4, FrontLeaves
<1> DEFINE n == Len(Finished) + 1
<1>6. /\ n \in DOMAIN Finished' /\ Finished'[n] = h
      /\ \A i \in DOMAIN Finished :
           i \in DOMAIN Finished' /\ Finished'[i] = Finished[i] /\ i < n
      /\ \A i \in DOMAIN Finished' : i \in DOMAIN Finished \/ i = n
  BY <1>1, <1>4, AppendElements
<1> HIDE DEF n
<1>7. \A i \in DOMAIN Finished : Finished[i] \in Calls
  BY <1>1, ListElements
<1>8. PlaceInv'
  <2>1. \A w \in Workers : \A i \in DOMAIN Pipes'[w] :
          outcome'[Pipes'[w][i]] = "pending" /\ taskWorker'[Pipes'[w][i]] = w
    BY <1>4, <1>5 DEF Left
  <2>2. \A i \in DOMAIN Finished' :
          outcome'[Finished'[i]] = "pending" /\ taskCo'[Finished'[i]] # NoCo
    BY <1>4, <1>5, <1>6 DEF Left, Places, PlaceInv
  <2>3. \A i, j \in DOMAIN Finished' : i # j => Finished'[i] # Finished'[j]
    BY <1>5, <1>6 DEF Left, Places, PlaceInv
  <2>4. \A w \in Workers : \A i \in DOMAIN Pipes'[w], j \in DOMAIN Finished' :
          Pipes'[w][i] # Finished'[j]
    BY <1>5, <1>6 DEF Left
  <2>5. \A t \in Calls : outcome'[t] = "pending" =>
          \/ \E w \in Workers : \E i \in DOMAIN Pipes'[w] : Pipes'[w][i] = t
          \/ \E i \in DOMAIN Finished' : Finished'[i] = t
    BY <1>4, <1>5, <1>6 DEF Left
  <2>6. QED
    BY <1>5, <2>1, <2>2, <2>3, <2>4, <2>5 DEF Left, PlaceInv
<1>9. FateInv'
  BY <1>4 DEF Places, FateInv
<1>10. \A t, u \in Calls : InOrder(t, u)' <=> InOrder(t, u)
  BY <1>4 DEF InOrder
<1>11. OrderInv'
  <2> SUFFICES ASSUME NEW t \in Calls, NEW u \in Calls, InOrder(t, u)
               PROVE  /\ \A w \in Workers : \A i, j \in DOMAIN Pipes'[w] :
                           Pipes'[w][i] = t /\ Pipes'[w][j] = u => i < j
                      /\ \A w \in Workers :
                           \A i \in DOMAIN Pipes'[w], j \in DOMAIN Finished' :
                             ~(Pipes'[w][i] = t /\ Finished'[j] = u)
                      /\ \A i, j \in DOMAIN Finished' :
                           Finished'[i] = t /\ Finished'[j] = u => i < j
                      /\ outcome'[u] \in {"resumed", "dropped"} => outcome'[t] # "pending"
    BY <1>10 DEF OrderInv
  <2>1. \A w \in Workers : \A i, j \in DOMAIN Pipes'[w] :
          Pipes'[w][i] = t /\ Pipes'[w][j] = u => i < j
    BY <1>5 DEF Left
  <2>2. \A w \in Workers : \A i \in DOMAIN Pipes'[w], j \in DOMAIN Finished' :
          ~(Pipes'[w][i] = t /\ Finished'[j] = u)
    BY <1>5, <1>6 DEF Left
  <2>3. \A i, j \in DOMAIN Finished' : Finished'[i] = t /\ Finished'[j] = u => i < j
    <3> SUFFICES ASSUME NEW i \in DOMAIN Finished', NEW j \in DOMAIN Finished',
                        Finished'[i] = t, Finished'[j] = u
                 PROVE  i < j
      OBVIOUS
    <3>1. i \in DOMAIN Finished
      <4>1. CASE i = n /\ j = n
        BY <1>6, <4>1 DEF InOrder, Calls
      <4>2. CASE i = n /\ j \in DOMAIN Finished
        BY <1>5, <1>6, <4>2 DEF Left
      <4>3. QED
        BY <1>6, <4>1, <4>2
    <3>2. CASE j = n
      BY <1>6, <3>1, <3>2
    <3>3. CASE j \in DOMAIN Finished
      BY <1>6, <3>1, <3>3 DEF Places, OrderInv
    <3>4. QED
      BY <1>6, <3>2, <3>3
  <2>4. outcome'[u] \in {"resumed", "dropped"} => outcome'[t] # "pending"
    BY <1>4 DEF Places, OrderInv
  <2>5. QED
    BY <2>1, <2>2, <2>3, <2>4
<1>12. QED
  BY <1>8, <1>9, <1>11 DEF Places

\* The oldest result goes: no earlier call of a coroutine to its worker is pending.
LEMMA HandedOverPlaces ==
  ASSUME CallInv, Places, NEW o \in {"resumed", "dropped"}, HandedOver(o)
  PROVE  Places'
<1>1. Pipes \in [Workers -> Seq(Calls)] /\ Finished \in Seq(Calls)
  BY PlaceTypes DEF CallInv
<1>2. Finished # <<>>
  BY DEF HandedOver
<1>3. PICK h \in Calls : h = Head(Finished)
  BY <1>1, <1>2, HeadTail
<1>4. Finished' = Tail(Finished) /\ UNCHANGED <<Pipes, taskCo, taskWorker>>
  BY <1>3 DEF HandedOver
<1>5. \A t \in Calls : outcome'[t] = IF t = h THEN o ELSE outcome[t]
  BY <1>3 DEF HandedOver, CallInv, TypeInv, TypeOK, LuaTypes
<1>6. /\ \A w \in Workers : \A i \in DOMAIN Pipes[w] : Pipes[w][i] \in Calls
      /\ \A i \in DOMAIN Finished : Finished[i] \in Calls
  BY <1>1, ListElements
<1>7. /\ DOMAIN Finished \subseteq Nat /\ DOMAIN Finished' \subseteq Nat
      /\ 1 \in DOMAIN Finished /\ h = Finished[1]
      /\ \A i \in DOMAIN Finished' :
           i + 1 \in DOMAIN Finished /\ Finished'[i] = Finished[i + 1]
      /\ \A i \in DOMAIN Finished : i > 1 => i - 1 \in DOMAIN Finished'
      /\ \A i \in DOMAIN Finished : i = 1 \/ i > 1
  BY <1>1, <1>2, <1>3, <1>4, TailElements
<1>8. 0 \notin DOMAIN Finished'
  <2>1. Tail(Finished) \in Seq(Calls)
    BY <1>1, <1>2, TailElements
  <2>2. QED
    BY <1>4, <2>1
<1>9. \A i \in DOMAIN Finished' : /\ i \in Nat /\ i + 1 \in DOMAIN Finished
                                  /\ i + 1 # 1 /\ Finished'[i] = Finished[i + 1]
                                  /\ Finished'[i] \in Calls
  BY <1>6, <1>7, <1>8
<1>10. outcome[h] = "pending" /\ taskCo[h] # NoCo
  BY <1>7 DEF Places, PlaceInv
<1>11. /\ \A w \in Workers : \A i \in DOMAIN Pipes[w] : Pipes[w][i] # h
       /\ \A i \in DOMAIN Finished' : Finished'[i] # h
  BY <1>7, <1>9 DEF Places, PlaceInv
<1>12. PlaceInv'
  <2>1. \A w \in Workers : \A i \in DOMAIN Pipes'[w] :
          outcome'[Pipes'[w][i]] = "pending" /\ taskWorker'[Pipes'[w][i]] = w
    BY <1>4, <1>5, <1>6, <1>11 DEF Places, PlaceInv
  <2>2. \A i \in DOMAIN Finished' :
          outcome'[Finished'[i]] = "pending" /\ taskCo'[Finished'[i]] # NoCo
    BY <1>4, <1>5, <1>9, <1>11 DEF Places, PlaceInv
  <2>3. \A i, j \in DOMAIN Finished' : i # j => Finished'[i] # Finished'[j]
    <3> SUFFICES ASSUME NEW i \in DOMAIN Finished', NEW j \in DOMAIN Finished', i # j
                 PROVE  Finished'[i] # Finished'[j]
      OBVIOUS
    <3>1. i + 1 # j + 1
      BY <1>9
    <3>2. QED
      BY <1>9, <3>1 DEF Places, PlaceInv
  <2>4. \A w \in Workers : \A i \in DOMAIN Pipes'[w], j \in DOMAIN Finished' :
          Pipes'[w][i] # Finished'[j]
    BY <1>4, <1>9 DEF Places, PlaceInv
  <2>5. \A t \in Calls : outcome'[t] = "pending" =>
          \/ \E w \in Workers : \E i \in DOMAIN Pipes'[w] : Pipes'[w][i] = t
          \/ \E i \in DOMAIN Finished' : Finished'[i] = t
    <3> SUFFICES ASSUME NEW t \in Calls, outcome'[t] = "pending"
                 PROVE  \/ \E w \in Workers : \E i \in DOMAIN Pipes[w] : Pipes[w][i] = t
                        \/ \E i \in DOMAIN Finished' : Finished'[i] = t
      BY <1>4
    <3>1. t # h /\ outcome[t] = "pending"
      BY <1>5
    <3>2. ASSUME NEW i \in DOMAIN Finished, Finished[i] = t
          PROVE  \E k \in DOMAIN Finished' : Finished'[k] = t
      <4>1. i > 1 /\ i - 1 \in DOMAIN Finished' /\ i \in Nat
        BY <1>7, <3>1, <3>2
      <4>2. Finished'[i - 1] = Finished[(i - 1) + 1] /\ (i - 1) + 1 = i
        BY <1>7, <4>1
      <4>3. QED
        BY <3>2, <4>1, <4>2
    <3>3. QED
      BY <3>1, <3>2 DEF Places, PlaceInv
  <2>6. QED
    BY <1>4, <2>1, <2>2, <2>3, <2>4, <2>5 DEF Places, PlaceInv
<1>13. FateInv'
  BY <1>4, <1>5, <1>10 DEF Places, FateInv
<1>14. \A t, u \in Calls : InOrder(t, u)' <=> InOrder(t, u)
  BY <1>4 DEF InOrder
<1>15. OrderInv'
  <2> SUFFICES ASSUME NEW t \in Calls, NEW u \in Calls, InOrder(t, u)
               PROVE  /\ \A w \in Workers : \A i, j \in DOMAIN Pipes'[w] :
                           Pipes'[w][i] = t /\ Pipes'[w][j] = u => i < j
                      /\ \A w \in Workers :
                           \A i \in DOMAIN Pipes'[w], j \in DOMAIN Finished' :
                             ~(Pipes'[w][i] = t /\ Finished'[j] = u)
                      /\ \A i, j \in DOMAIN Finished' :
                           Finished'[i] = t /\ Finished'[j] = u => i < j
                      /\ outcome'[u] \in {"resumed", "dropped"} => outcome'[t] # "pending"
    BY <1>14 DEF OrderInv
  <2>1. \A w \in Workers : \A i, j \in DOMAIN Pipes'[w] :
          Pipes'[w][i] = t /\ Pipes'[w][j] = u => i < j
    BY <1>4 DEF Places, OrderInv
  <2>2. \A w \in Workers : \A i \in DOMAIN Pipes'[w], j \in DOMAIN Finished' :
          ~(Pipes'[w][i] = t /\ Finished'[j] = u)
    BY <1>4, <1>9 DEF Places, OrderInv
  <2>3. ASSUME NEW i \in DOMAIN Finished', NEW j \in DOMAIN Finished',
               Finished'[i] = t, Finished'[j] = u
        PROVE  i < j
    <3>1. i + 1 < j + 1
      BY <1>9, <2>3 DEF Places, OrderInv
    <3>2. QED
      BY <1>9, <3>1
  <2>4. outcome'[u] \in {"resumed", "dropped"} => outcome'[t] # "pending"
    <3>1. CASE u # h
      BY <1>5, <3>1 DEF Places, OrderInv
    <3>2. CASE u = h
      <4>1. t # h
        BY <3>2 DEF InOrder, Calls
      <4>2. SUFFICES ASSUME outcome[t] = "pending" PROVE FALSE
        BY <1>5, <4>1
      <4>3. ~ \E w \in Workers : \E i \in DOMAIN Pipes[w] : Pipes[w][i] = t
        BY <1>7, <3>2 DEF Places, OrderInv
      <4>4. PICK i \in DOMAIN Finished : Finished[i] = t
        BY <4>2, <4>3 DEF Places, PlaceInv
      <4>5. i < 1
        BY <1>7, <3>2, <4>4 DEF Places, OrderInv
      <4>6. QED
        BY <1>7, <4>4, <4>5
    <3>3. QED
      BY <3>1, <3>2
  <2>5. QED
    BY <2>1, <2>2, <2>3, <2>4
<1>16. QED
  BY <1>12, <1>13, <1>15 DEF Places

\* No step of the pool misplaces a call or reorders two.
LEMMA PlacesStep ==
  ASSUME CallInv, Places, [Next]_vars
  PROVE  Places'
<1>1. CASE Silent
  BY <1>1, NoEffectPlaces DEF Silent
<1>2. CASE Visible
  BY <1>2, RefusedPlaces, AcceptedPlaces, ForgottenPlaces, ExecutedPlaces,
     HandedOverPlaces DEF Visible
<1>3. QED
  BY <1>1, <1>2, StepEffect
-----------------------------------------------------------------------------
(* Calls that are being made, coroutines and references                    *)

\* The task a worker has popped and the ones Update goes through are pending.
LEMMA HeldPending ==
  ASSUME CallInv, Places
  PROVE  /\ \A w \in Workers : pCmd[w] # NoTask => outcome[pCmd[w]] = "pending"
         /\ lstRet # <<>> => /\ Head(lstRet) \in Calls
                             /\ outcome[Head(lstRet)] = "pending"
                             /\ taskCo[Head(lstRet)] # NoCo
<1> USE DEF CallInv, TypeInv, TypeOK, WorkerTypes, ReturnTypes
<1>1. ASSUME NEW w \in Workers, pCmd[w] # NoTask
      PROVE  outcome[pCmd[w]] = "pending"
  <2>1. Pipes[w] = <<pCmd[w]>> \o tasks[w]
    BY <1>1 DEF Pipes, Pipeline
  <2>2. pCmd[w] \in Calls
    BY <1>1
  <2>3. Pipes[w] \in Seq(Calls) /\ Pipes[w] # <<>> /\ Head(Pipes[w]) = pCmd[w]
    BY <2>1, <2>2, FrontRemoved
  <2>4. 1 \in DOMAIN Pipes[w] /\ Pipes[w][1] = pCmd[w]
    BY <2>3, TailElements
  <2>5. QED
    BY <2>4 DEF Places, PlaceInv
<1>2. ASSUME lstRet # <<>>
      PROVE  /\ Head(lstRet) \in Calls
             /\ outcome[Head(lstRet)] = "pending" /\ taskCo[Head(lstRet)] # NoCo
  <2>1. /\ Finished \in Seq(Calls) /\ Finished # <<>>
        /\ Head(Finished) = Head(lstRet)
    BY <1>2, ConcatTail DEF Finished
  <2>2. 1 \in DOMAIN Finished /\ Finished[1] = Head(lstRet)
    BY <2>1, TailElements
  <2>3. QED
    BY <1>2, <2>2, HeadTail DEF Places, PlaceInv
<1>3. QED
  BY <1>1, <1>2

\* A call being made stays with its server and is new to everything else.
LEMMA PostStep ==
  ASSUME CallInv, Places, [Next]_vars
  PROVE  PostInv'
<1>0. /\ \A w \in Workers : pCmd[w] # NoTask => outcome[pCmd[w]] = "pending"
      /\ lstRet # <<>> => outcome[Head(lstRet)] = "pending" /\ Head(lstRet) \in Calls
  BY HeldPending
<1> USE DEF CallInv, TypeInv, TypeOK, CallTypes, LuaTypes, InCall, PostInv
<1>1. ASSUME NEW s \in Servers,
             StartScript(s) \/ Spawn(s) \/ GetTaskCount(s) \/ SetEvent(s) \/ EndScript(s)
      PROVE  PostInv'
  <2>1. UNCHANGED <<newTask, calls, outcome, taskCo, taskWorker>>
    BY <1>1 DEF StartScript, Spawn, GetTaskCount, SetEvent, EndScript, luaVars
  <2>2. \A r \in Servers : newTask[r] # NoTask => spc'[r] \in InCall
    BY <1>1 DEF StartScript, Spawn, GetTaskCount, SetEvent, EndScript
  <2>3. \A r \in Servers : newTask[r] # NoTask => target'[r] = target[r]
    BY <1>1 DEF StartScript, Spawn, GetTaskCount, SetEvent, EndScript
  <2>4. QED
    BY <2>1, <2>2, <2>3
<1>2. ASSUME NEW s \in Servers, CheckLimit(s) PROVE PostInv'
  <2>1. newTask[s] \in Calls /\ newTask[s] # NoTask /\ newTask[s] <= calls
    BY <1>2 DEF CheckLimit, CallPc, Calls, NoTask
  <2>2. \A r \in Servers : newTask'[r] # NoTask =>
          /\ newTask'[r] = newTask[r] /\ spc'[r] \in InCall /\ target'[r] = target[r]
          /\ outcome'[newTask[r]] = outcome[newTask[r]]
    BY <1>2, <2>1 DEF CheckLimit
  <2>3. \A t \in Calls : t > calls => outcome'[t] = outcome[t]
    <3>1. \A t \in Calls : t # newTask[s] => outcome'[t] = outcome[t]
      BY <1>2, <2>1 DEF CheckLimit
    <3>2. \A t \in Calls : t > calls => t # newTask[s]
      BY <2>1 DEF Calls
    <3>3. QED
      BY <3>1, <3>2
  <2>4. UNCHANGED <<calls, taskCo, taskWorker>>
    BY <1>2 DEF CheckLimit
  <2>5. QED
    BY <2>2, <2>3, <2>4
<1>3. ASSUME NEW s \in Servers, PushTask(s) PROVE PostInv'
  BY <1>3 DEF PushTask, luaVars, CallPc, Calls, NoTask
<1>4. ASSUME NEW s \in Servers, NEW w \in Workers, NEW c \in Coroutines \cup {NoCo},
             ThreadExecute(s, w, c)
      PROVE  PostInv'
  BY <1>4, BoundAssumption DEF ThreadExecute, Calls, NoTask
<1>5. ASSUME \/ \E s \in Servers, w \in Workers, m \in MaxTaskValues :
                  SetMaxTask(s, w, m)
             \/ \E c \in Coroutines : StartCoroutine(c)
             \/ DispatchUserEvent \/ SwapReturns
             \/ UNCHANGED vars
      PROVE  PostInv'
  <2>1. UNCHANGED <<newTask, target, calls, outcome, taskCo, taskWorker>>
    BY <1>5 DEF SetMaxTask, StartCoroutine, DispatchUserEvent, SwapReturns, vars, callVars,
                luaVars
  <2>2. \/ UNCHANGED spc
        \/ /\ spc[MainServer] \in {"loop", "swap"}
           /\ \E pc : spc' = [spc EXCEPT ![MainServer] = pc]
    BY <1>5 DEF SetMaxTask, StartCoroutine, DispatchUserEvent, SwapReturns, vars, callVars
  <2>3. \A r \in Servers : newTask[r] # NoTask => spc'[r] = spc[r]
    BY <2>2
  <2>4. QED
    BY <2>1, <2>3
<1>6. ASSUME Deliver PROVE PostInv'
  <2>1. UNCHANGED <<newTask, target, calls, taskCo, taskWorker>>
    BY <1>6 DEF Deliver
  <2>2. /\ spc[MainServer] = "deliver"
        /\ UNCHANGED spc \/ \E pc : spc' = [spc EXCEPT ![MainServer] = pc]
    BY <1>6 DEF Deliver
  <2>3. \A r \in Servers : newTask[r] # NoTask => spc'[r] = spc[r]
    BY <2>2
  <2>4. UNCHANGED outcome \/ /\ lstRet # <<>>
                             /\ \E v : outcome' = [outcome EXCEPT ![Head(lstRet)] = v]
    BY <1>6 DEF Deliver
  <2>5. \A t \in Calls : outcome[t] = "unused" => outcome'[t] = "unused"
    BY <1>0, <2>4
  <2>6. QED
    BY <2>1, <2>3, <2>5 DEF Calls, NoTask
<1>7. ASSUME NEW w \in Workers, \/ Initialize(w) \/ PopTask(w) \/ Wait(w) \/ WaitFails(w)
                                \/ PostTaskReturn(w) \/ UserTrigger(w)
      PROVE  PostInv'
  BY <1>7 DEF Initialize, PopTask, Wait, WaitFails, PostTaskReturn, UserTrigger,
              callVars, luaVars
<1>8. ASSUME NEW w \in Workers, RunTask(w) PROVE PostInv'
  <2>1. pCmd[w] \in Calls /\ outcome[pCmd[w]] = "pending"
    BY <1>0, <1>8 DEF RunTask, WorkerPc, Calls, NoTask
  <2>2. UNCHANGED <<spc, target, newTask, calls, taskCo, taskWorker>>
    BY <1>8 DEF RunTask, callVars, luaVars
  <2>3. \A t \in Calls : outcome[t] = "unused" => outcome'[t] = "unused"
    BY <1>8, <2>1 DEF RunTask
  <2>4. QED
    BY <2>2, <2>3 DEF Calls, NoTask
<1> HIDE DEF CallInv, PostInv
<1>9. QED
  BY NextCases, <1>1, <1>2, <1>3, <1>4, <1>5, <1>6, <1>7, <1>8

\* Only g_server's thread names coroutines.
LEMMA NamedStep ==
  ASSUME CallInv, Places, [Next]_vars
  PROVE  NamedInv'
<1>0. /\ \A w \in Workers : pCmd[w] # NoTask => outcome[pCmd[w]] = "pending"
      /\ lstRet # <<>> => outcome[Head(lstRet)] = "pending" /\ Head(lstRet) \in Calls
  BY HeldPending
<1> USE ServersAssumption
<1> USE DEF CallInv, TypeInv, TypeOK, CallTypes, LuaTypes, InCall, NamedInv
<1>1. ASSUME NEW s \in Servers,
             StartScript(s) \/ Spawn(s) \/ GetTaskCount(s) \/ SetEvent(s) \/ EndScript(s)
      PROVE  NamedInv'
  BY <1>1 DEF StartScript, Spawn, GetTaskCount, SetEvent, EndScript, luaVars
<1>2. ASSUME NEW s \in Servers, CheckLimit(s) PROVE NamedInv'
  BY <1>2 DEF CheckLimit, CallPc, Calls, NoTask
<1>3. ASSUME NEW s \in Servers, PushTask(s) PROVE NamedInv'
  BY <1>3 DEF PushTask, luaVars, CallPc, Calls, NoTask
<1>4. ASSUME NEW s \in Servers, NEW w \in Workers, NEW c \in Coroutines \cup {NoCo},
             ThreadExecute(s, w, c)
      PROVE  NamedInv'
  <2>1. calls + 1 \in Calls /\ calls \in Nat /\ calls + 1 # NoTask
    BY <1>4, BoundAssumption DEF ThreadExecute, Calls, NoTask
  <2>2. newTask[s] = NoTask
    BY <1>4 DEF ThreadExecute, PostInv
  <2>3. \A t \in Calls : t > calls => taskCo[t] = NoCo
    BY DEF PostInv
  <2>4. /\ UNCHANGED outcome
        /\ newTask'[s] = calls + 1
        /\ \A r \in Servers : r # s => newTask'[r] = newTask[r]
        /\ taskCo'[calls + 1] = c
        /\ \A t \in Calls : t # calls + 1 => taskCo'[t] = taskCo[t]
        /\ c # NoCo => s = MainServer
    BY <1>4, <2>1 DEF ThreadExecute
  <2>5. CASE s = MainServer
    <3>1. \A t \in Calls : outcome[t] = "unused" => taskCo[t] = NoCo
      BY <2>2, <2>5 DEF Calls, NoTask
    <3>2. \A t \in Calls : t > calls + 1 => taskCo'[t] = NoCo
      BY <2>1, <2>3, <2>4 DEF Calls
    <3>3. QED
      BY <2>4, <2>5, <3>1, <3>2
  <2>6. CASE s # MainServer
    BY <2>4, <2>6
  <2>7. QED
    BY <2>5, <2>6
<1>5. ASSUME \/ \E s \in Servers, w \in Workers, m \in MaxTaskValues :
                  SetMaxTask(s, w, m)
             \/ \E c \in Coroutines : StartCoroutine(c)
             \/ DispatchUserEvent \/ SwapReturns
             \/ UNCHANGED vars
      PROVE  NamedInv'
  BY <1>5
     DEF SetMaxTask, StartCoroutine, DispatchUserEvent, SwapReturns, vars, callVars, luaVars
<1>6. ASSUME Deliver PROVE NamedInv'
  BY <1>0, <1>6 DEF Deliver
<1>7. ASSUME NEW w \in Workers, \/ Initialize(w) \/ PopTask(w) \/ Wait(w) \/ WaitFails(w)
                                \/ PostTaskReturn(w) \/ UserTrigger(w)
      PROVE  NamedInv'
  BY <1>7 DEF Initialize, PopTask, Wait, WaitFails, PostTaskReturn, UserTrigger,
              callVars, luaVars
<1>8. ASSUME NEW w \in Workers, RunTask(w) PROVE NamedInv'
  BY <1>0, <1>8 DEF RunTask, callVars, luaVars, WorkerPc, Calls, NoTask
<1> HIDE DEF CallInv, NamedInv
<1>9. QED
  BY NextCases, <1>1, <1>2, <1>3, <1>4, <1>5, <1>6, <1>7, <1>8

\* Update works through one list, one coroutine at a time.
LEMMA UpdateStep ==
  ASSUME CallInv, Places, [Next]_vars
  PROVE  UpdateInv'
<1>0. /\ \A w \in Workers : pCmd[w] # NoTask => outcome[pCmd[w]] = "pending"
      /\ lstRet # <<>> => outcome[Head(lstRet)] = "pending" /\ Head(lstRet) \in Calls
  BY HeldPending
<1> USE ServersAssumption
<1> USE DEF CallInv, TypeInv, TypeOK, CallTypes, LuaTypes, WorkerTypes, ReturnTypes,
            InCall, UpdateInv
<1>1. ASSUME NEW s \in Servers,
             StartScript(s) \/ GetTaskCount(s) \/ SetEvent(s) \/ EndScript(s)
      PROVE  UpdateInv'
  BY <1>1 DEF StartScript, GetTaskCount, SetEvent, EndScript, luaVars, returnVars,
              workerVars
<1>2. ASSUME NEW s \in Servers, Spawn(s) PROVE UpdateInv'
  BY <1>2 DEF Spawn, CallPc, luaVars, returnVars
<1>3. ASSUME NEW s \in Servers, CheckLimit(s) PROVE UpdateInv'
  <2>1. newTask[s] \in Calls /\ outcome[newTask[s]] = "unused"
    BY <1>3 DEF CheckLimit, CallPc, PostInv, Calls, NoTask
  <2>2. UNCHANGED <<lstRet, updCmd, wpc, pCmd, taskCo>>
    BY <1>3 DEF CheckLimit, returnVars, workerVars
  <2>3. \A t \in Calls : outcome[t] = "resumed" => outcome'[t] = "resumed"
    BY <1>3, <2>1 DEF CheckLimit
  <2>4. spc'[MainServer] = spc[MainServer] \/ spc'[MainServer] \in {"script", "push"}
    BY <1>3 DEF CheckLimit
  <2>5. s = MainServer => spc[MainServer] = "limit"
    BY <1>3 DEF CheckLimit
  <2>6. updCmd # NoTask => outcome'[updCmd] = "resumed"
    BY <2>3
  <2>7. lstRet # <<>> => spc'[MainServer] = "deliver" \/ updCmd # NoTask
    BY <1>3 DEF CheckLimit
  <2>8. QED
    BY <2>2, <2>4, <2>6, <2>7
<1>4. ASSUME NEW s \in Servers, PushTask(s) PROVE UpdateInv'
  BY <1>4 DEF PushTask, luaVars, returnVars, CallPc, PostInv, Calls, NoTask
<1>5. ASSUME NEW s \in Servers, NEW w \in Workers, NEW c \in Coroutines \cup {NoCo},
             ThreadExecute(s, w, c)
      PROVE  UpdateInv'
  <2>1. UNCHANGED <<lstRet, updCmd, outcome, pCmd>>
    BY <1>5 DEF ThreadExecute, returnVars
  <2>2. \/ spc'[MainServer] = spc[MainServer]
        \/ spc[MainServer] = "script" /\ spc'[MainServer] \in {"count", "spawn"}
    BY <1>5 DEF ThreadExecute
  <2>3. \A x \in Workers : wpc'[x] = "return" => wpc[x] = "return"
    BY <1>5 DEF ThreadExecute, Pools
  <2>4. \A x \in Workers : wpc[x] = "return" =>
          pCmd[x] \in Calls /\ pCmd[x] <= calls /\ taskCo[pCmd[x]] # NoCo
    BY <1>0 DEF WorkerPc, PostInv, Calls, NoTask
  <2>5. \A t \in Calls : t <= calls => taskCo'[t] = taskCo[t]
    BY <1>5, BoundAssumption DEF ThreadExecute, Calls
  <2>6. \A x \in Workers : wpc'[x] = "return" => taskCo'[pCmd[x]] # NoCo
    BY <2>3, <2>4, <2>5
  <2>7. QED
    BY <2>1, <2>2, <2>6
<1>6. ASSUME \/ \E s \in Servers, w \in Workers, m \in MaxTaskValues :
                  SetMaxTask(s, w, m)
             \/ \E c \in Coroutines : StartCoroutine(c)
             \/ DispatchUserEvent \/ SwapReturns
             \/ UNCHANGED vars
      PROVE  UpdateInv'
  BY <1>6
     DEF SetMaxTask, StartCoroutine, DispatchUserEvent, SwapReturns, vars, callVars,
         luaVars, returnVars, workerVars
<1>7. ASSUME Deliver PROVE UpdateInv'
  <2>1. UNCHANGED <<wpc, pCmd, taskCo>> /\ updCmd = NoTask
    BY <1>7 DEF Deliver, workerVars
  <2>2. CASE lstRet = <<>>
    BY <1>7, <2>1, <2>2 DEF Deliver
  <2>3. CASE lstRet # <<>> /\ UNCHANGED spc
    BY <1>7, <2>1, <2>3 DEF Deliver
  <2>4. CASE lstRet # <<>> /\ spc' # spc
    <3>1. /\ updCmd' = Head(lstRet) /\ outcome'[Head(lstRet)] = "resumed"
          /\ spc'[MainServer] = "script"
      BY <1>0, <1>7, <2>4 DEF Deliver
    <3>2. updCmd' # NoTask
      BY <1>0, <2>4, <3>1 DEF Calls, NoTask
    <3>3. QED
      BY <2>1, <3>1, <3>2
  <2>5. QED
    BY <2>2, <2>3, <2>4
<1>8. ASSUME NEW w \in Workers, \/ Initialize(w) \/ PopTask(w) \/ Wait(w) \/ WaitFails(w)
                                \/ PostTaskReturn(w) \/ UserTrigger(w)
      PROVE  UpdateInv'
  BY <1>8 DEF Initialize, PopTask, Wait, WaitFails, PostTaskReturn, UserTrigger,
              callVars, luaVars, returnVars
<1>9. ASSUME NEW w \in Workers, RunTask(w) PROVE UpdateInv'
  <2>1. pCmd[w] \in Calls /\ outcome[pCmd[w]] = "pending"
    BY <1>0, <1>9 DEF RunTask, WorkerPc, Calls, NoTask
  <2>2. UNCHANGED <<spc, lstRet, updCmd, taskCo>>
    BY <1>9 DEF RunTask, callVars, luaVars, returnVars
  <2>3. \A t \in Calls : outcome[t] = "resumed" => outcome'[t] = "resumed"
    BY <1>9, <2>1 DEF RunTask
  <2>4. \A x \in Workers : wpc'[x] = "return" => taskCo[pCmd'[x]] # NoCo
    BY <1>9 DEF RunTask
  <2>5. QED
    BY <2>2, <2>3, <2>4
<1> HIDE DEF CallInv, UpdateInv
<1>10. QED
  BY NextCases, <1>1, <1>2, <1>3, <1>4, <1>5, <1>6, <1>7, <1>8, <1>9

\* A registry reference is held from the building of a task to its delete.
LEMMA RefStep ==
  ASSUME CallInv, Places, RefInv, [Next]_vars
  PROVE  RefInv'
<1>0. /\ \A w \in Workers : pCmd[w] # NoTask => outcome[pCmd[w]] = "pending"
      /\ lstRet # <<>> => /\ outcome[Head(lstRet)] = "pending"
                          /\ Head(lstRet) \in Calls /\ taskCo[Head(lstRet)] # NoCo
  BY HeldPending
<1> USE ServersAssumption
<1> USE DEF CallInv, TypeInv, TypeOK, CallTypes, LuaTypes, WorkerTypes, ReturnTypes,
            InCall, RefInv
<1>1. ASSUME NEW s \in Servers,
             StartScript(s) \/ Spawn(s) \/ GetTaskCount(s) \/ SetEvent(s)
      PROVE  RefInv'
  <2>1. UNCHANGED <<newTask, outcome, taskCo, refs, updCmd>>
    BY <1>1 DEF StartScript, Spawn, GetTaskCount, SetEvent, luaVars, returnVars
  <2>2. \A r \in Servers : spc'[r] = "push" <=> spc[r] = "push"
    BY <1>1 DEF StartScript, Spawn, GetTaskCount, SetEvent
  <2>3. QED
    BY <2>1, <2>2
<1>2. ASSUME NEW s \in Servers, EndScript(s) PROVE RefInv'
  <2>1. /\ UNCHANGED <<newTask, outcome, taskCo>>
        /\ \A r \in Servers : spc'[r] = "push" <=> spc[r] = "push"
    BY <1>2 DEF EndScript
  <2>2. CASE s = MainServer
    <3>1. refs' = refs \ {updCmd} /\ updCmd' = NoTask
      BY <1>2, <2>2 DEF EndScript
    <3>2. \A t \in Calls : t # NoTask
      BY DEF Calls, NoTask
    <3>3. \A t \in Calls : t = updCmd => outcome[t] # "pending"
      BY <3>2 DEF UpdateInv
    <3>4. \A t \in Calls, r \in Servers :
            t = updCmd => ~(spc[r] = "push" /\ newTask[r] = t)
      BY <3>2 DEF UpdateInv, PostInv
    <3>5. QED
      BY <2>1, <3>1, <3>2, <3>3, <3>4
  <2>3. CASE s # MainServer
    <3>1. UNCHANGED <<refs, updCmd>>
      BY <1>2, <2>3 DEF EndScript
    <3>2. QED
      BY <2>1, <3>1
  <2>4. QED
    BY <2>2, <2>3
<1>3. ASSUME NEW s \in Servers, CheckLimit(s) PROVE RefInv'
  <2>1. newTask[s] \in Calls /\ outcome[newTask[s]] = "unused" /\ spc[s] = "limit"
    BY <1>3 DEF CheckLimit, CallPc, PostInv, Calls, NoTask
  <2>2. updCmd # newTask[s]
    BY <2>1 DEF UpdateInv, Calls, NoTask
  <2>3. \A r \in Servers : newTask[r] = newTask[s] => r = s
    BY <2>1 DEF PostInv, Calls, NoTask
  <2>4. newTask[s] \notin refs
    BY <2>1, <2>2, <2>3
  <2>5. UNCHANGED <<taskCo, updCmd>>
    BY <1>3 DEF CheckLimit, returnVars
  <2>6. \A r \in Servers : r # s => newTask'[r] = newTask[r] /\ spc'[r] = spc[r]
    BY <1>3 DEF CheckLimit
  <2>7. CASE spc'[s] = "push"
    <3>1. /\ UNCHANGED <<outcome, newTask>>
          /\ refs' = IF taskCo[newTask[s]] # NoCo THEN refs \cup {newTask[s]} ELSE refs
      BY <1>3, <2>7 DEF CheckLimit
    <3>2. \A t \in Calls : (\E r \in Servers : spc'[r] = "push" /\ newTask'[r] = t)
            <=> t = newTask[s] \/ \E r \in Servers : spc[r] = "push" /\ newTask[r] = t
      BY <2>1, <2>6, <2>7, <3>1
    <3>3. \A t \in Calls : t \in refs' <=> t \in refs \/ (t = newTask[s] /\ taskCo[t] # NoCo)
      BY <3>1
    <3> HIDE DEF CallInv
    <3>4. QED
      BY <2>5, <3>1, <3>2, <3>3
  <2>8. CASE spc'[s] # "push"
    <3>1. /\ outcome' = [outcome EXCEPT ![newTask[s]] = "refused"]
          /\ UNCHANGED refs
      BY <1>3, <2>8 DEF CheckLimit
    <3>2. \A t \in Calls : outcome'[t] = "pending" <=> outcome[t] = "pending"
      BY <2>1, <3>1
    <3>3. \A t \in Calls : (\E r \in Servers : spc'[r] = "push" /\ newTask'[r] = t)
            <=> \E r \in Servers : spc[r] = "push" /\ newTask[r] = t
      BY <2>1, <2>6, <2>8
    <3> HIDE DEF CallInv
    <3>4. QED
      BY <2>5, <3>1, <3>2, <3>3
  <2>9. QED
    BY <2>7, <2>8
<1>4. ASSUME NEW s \in Servers, PushTask(s) PROVE RefInv'
  <2>1. newTask[s] \in Calls /\ outcome[newTask[s]] = "unused" /\ spc[s] = "push"
    BY <1>4 DEF PushTask, CallPc, PostInv, Calls, NoTask
  <2>2. UNCHANGED <<taskCo, updCmd, refs>> /\ spc'[s] # "push"
    BY <1>4 DEF PushTask, returnVars, luaVars
  <2>3. \A r \in Servers : r # s => newTask'[r] = newTask[r] /\ spc'[r] = spc[r]
    BY <1>4 DEF PushTask
  <2>4. \A t \in Calls : outcome'[t] = IF t = newTask[s] THEN "pending" ELSE outcome[t]
    BY <1>4, <2>1 DEF PushTask
  <2>5. \A r \in Servers : newTask[r] = newTask[s] => r = s
    BY <2>1 DEF PostInv, Calls, NoTask
  <2>6. \A t \in Calls : (\E r \in Servers : spc[r] = "push" /\ newTask[r] = t)
          <=> t = newTask[s] \/ \E r \in Servers : spc'[r] = "push" /\ newTask'[r] = t
    BY <2>1, <2>2, <2>3
  <2> HIDE DEF CallInv
  <2>7. QED
    BY <2>2, <2>4, <2>6
<1>5. ASSUME NEW s \in Servers, NEW w \in Workers, NEW c \in Coroutines \cup {NoCo},
             ThreadExecute(s, w, c)
      PROVE  RefInv'
  <2>1. calls + 1 \in Calls /\ outcome[calls + 1] = "unused" /\ taskCo[calls + 1] = NoCo
    BY <1>5, BoundAssumption DEF ThreadExecute, Calls, PostInv
  <2>2. UNCHANGED <<outcome, updCmd, refs>>
    BY <1>5 DEF ThreadExecute, returnVars
  <2>3. /\ \A r \in Servers : r # s => newTask'[r] = newTask[r] /\ spc'[r] = spc[r]
        /\ spc[s] # "push" /\ spc'[s] # "push"
    BY <1>5 DEF ThreadExecute
  <2>4. \A t \in Calls : t # calls + 1 => taskCo'[t] = taskCo[t]
    BY <1>5, <2>1 DEF ThreadExecute
  <2>5. updCmd # calls + 1
    BY <2>1 DEF UpdateInv, Calls, NoTask
  <2>6. \A r \in Servers : newTask[r] # calls + 1
    <3>1. \A r \in Servers : newTask[r] # NoTask => newTask[r] <= calls
      BY DEF PostInv
    <3>2. calls \in Nat /\ ~(calls + 1 <= calls) /\ calls + 1 # NoTask
      BY DEF NoTask
    <3>3. QED
      BY <3>1, <3>2
  <2>7. calls + 1 \notin refs
    BY <2>1
  <2>8. \A t \in Calls : (\E r \in Servers : spc'[r] = "push" /\ newTask'[r] = t)
          <=> \E r \in Servers : spc[r] = "push" /\ newTask[r] = t
    BY <2>3
  <2>9. \A r \in Servers : ~(spc[r] = "push" /\ newTask[r] = calls + 1)
    BY <2>6
  <2> HIDE DEF CallInv
  <2>10. QED
    BY <2>1, <2>2, <2>4, <2>5, <2>7, <2>8, <2>9
<1>6. ASSUME \/ \E s \in Servers, w \in Workers, m \in MaxTaskValues :
                  SetMaxTask(s, w, m)
             \/ \E c \in Coroutines : StartCoroutine(c)
             \/ DispatchUserEvent \/ SwapReturns
             \/ UNCHANGED vars
      PROVE  RefInv'
  <2>1. UNCHANGED <<newTask, outcome, taskCo, refs, updCmd>>
    BY <1>6 DEF SetMaxTask, StartCoroutine, DispatchUserEvent, SwapReturns, vars, callVars,
                luaVars, returnVars
  <2>2. \A r \in Servers : spc'[r] = "push" <=> spc[r] = "push"
    BY <1>6 DEF SetMaxTask, StartCoroutine, DispatchUserEvent, SwapReturns, vars, callVars
  <2>3. QED
    BY <2>1, <2>2
<1>7. ASSUME Deliver PROVE RefInv'
  <2>1. UNCHANGED <<newTask, taskCo>> /\ updCmd = NoTask
    BY <1>7 DEF Deliver, UpdateInv
  <2>2. \A r \in Servers : spc'[r] = "push" <=> spc[r] = "push"
    BY <1>7 DEF Deliver
  <2>3. CASE UNCHANGED <<updCmd, refs, outcome>>
    BY <2>1, <2>2, <2>3
  <2>4. CASE /\ lstRet # <<>> /\ UNCHANGED refs /\ updCmd' = Head(lstRet)
             /\ outcome' = [outcome EXCEPT ![Head(lstRet)] = "resumed"]
    <3>1. \A t \in Calls :
            outcome'[t] = IF t = Head(lstRet) THEN "resumed" ELSE outcome[t]
      BY <2>4
    <3>2. \A t \in Calls : t # NoTask
      BY DEF Calls, NoTask
    <3>3. QED
      BY <1>0, <2>1, <2>2, <2>4, <3>1, <3>2
  <2>5. CASE /\ lstRet # <<>> /\ refs' = refs \ {Head(lstRet)} /\ UNCHANGED updCmd
             /\ outcome' = [outcome EXCEPT ![Head(lstRet)] = "dropped"]
    <3>1. \A t \in Calls :
            outcome'[t] = IF t = Head(lstRet) THEN "dropped" ELSE outcome[t]
      BY <2>5
    <3>2. \A t \in Calls : t # NoTask
      BY DEF Calls, NoTask
    <3>3. \A r \in Servers : newTask[r] # Head(lstRet)
      <4>1. \A r \in Servers : newTask[r] # NoTask => outcome[newTask[r]] = "unused"
        BY DEF PostInv
      <4>2. outcome[Head(lstRet)] = "pending" /\ Head(lstRet) # NoTask
        BY <1>0, <2>5, <3>2
      <4> HIDE DEF CallInv
      <4>3. QED
        BY <4>1, <4>2
    <3>4. QED
      BY <1>0, <2>1, <2>2, <2>5, <3>1, <3>2, <3>3
  <2>6. QED
    BY <1>7, <2>3, <2>4, <2>5 DEF Deliver
<1>8. ASSUME NEW w \in Workers, \/ Initialize(w) \/ PopTask(w) \/ Wait(w) \/ WaitFails(w)
                                \/ PostTaskReturn(w) \/ UserTrigger(w)
      PROVE  RefInv'
  <2>1. UNCHANGED <<spc, newTask, outcome, taskCo, refs, updCmd>>
    BY <1>8 DEF Initialize, PopTask, Wait, WaitFails, PostTaskReturn, UserTrigger,
                callVars, luaVars, returnVars
  <2>2. QED
    BY <2>1
<1>9. ASSUME NEW w \in Workers, RunTask(w) PROVE RefInv'
  <2>1. pCmd[w] \in Calls
    BY <1>9 DEF RunTask, WorkerPc
  <2>2. UNCHANGED <<spc, newTask, updCmd, taskCo, refs>>
    BY <1>9 DEF RunTask, callVars, luaVars, returnVars
  <2>3. \A t \in Calls : taskCo[t] # NoCo => outcome'[t] = outcome[t]
    BY <1>9, <2>1 DEF RunTask
  <2>4. QED
    BY <2>2, <2>3
<1> HIDE DEF CallInv, RefInv
<1>10. QED
  BY NextCases, <1>1, <1>2, <1>3, <1>4, <1>5, <1>6, <1>7, <1>8, <1>9

\* Coroutines run one at a time, and a result is dropped only when its coroutine has
\* ended.
LEMMA CoStep ==
  ASSUME CallInv, Places, CoInv, DropsOnlyEnded, [Next]_vars
  PROVE  CoInv' /\ DropsOnlyEnded'
<1>0. lstRet # <<>> => /\ outcome[Head(lstRet)] = "pending"
                      /\ Head(lstRet) \in Calls /\ taskCo[Head(lstRet)] # NoCo
  BY HeldPending
<1>00. \A t \in Calls : outcome[t] = "dropped" => taskCo[t] # NoCo
  BY DEF Places, FateInv
<1> USE ServersAssumption, NoneAssumption
<1> USE DEF CallInv, TypeInv, TypeOK, CallTypes, LuaTypes, WorkerTypes, ReturnTypes,
            InCall, CoInv, DropsOnlyEnded
<1> DEFINE Kept == \A t \in Calls : outcome'[t] = "dropped" => outcome[t] = "dropped"
<1>1. ASSUME UNCHANGED <<coStatus, runCo, taskCo>>, Kept,
             spc'[MainServer] \in {"loop", "swap", "deliver"} =>
               spc[MainServer] \in {"loop", "swap", "deliver"}
      PROVE  CoInv' /\ DropsOnlyEnded'
  BY <1>1
<1>2. ASSUME NEW s \in Servers,
             StartScript(s) \/ Spawn(s) \/ GetTaskCount(s) \/ SetEvent(s)
      PROVE  CoInv' /\ DropsOnlyEnded'
  <2>1. UNCHANGED <<coStatus, runCo, taskCo, outcome>>
    BY <1>2 DEF StartScript, Spawn, GetTaskCount, SetEvent, luaVars
  <2>2. spc'[MainServer] = spc[MainServer] \/ spc'[MainServer] \in {"script", "count", "limit"}
    BY <1>2 DEF StartScript, Spawn, GetTaskCount, SetEvent
  <2>3. QED
    BY <1>1, <2>1, <2>2
<1>3. ASSUME NEW s \in Servers, EndScript(s) PROVE CoInv' /\ DropsOnlyEnded'
  <2>1. UNCHANGED <<taskCo, outcome>>
    BY <1>3 DEF EndScript
  <2>2. CASE s # MainServer \/ runCo = NoCo
    <3>1. UNCHANGED <<coStatus, runCo>>
      BY <1>3, <2>2 DEF EndScript
    <3>2. s # MainServer => spc'[MainServer] = spc[MainServer]
      BY <1>3 DEF EndScript
    <3>3. QED
      BY <2>1, <2>2, <3>1, <3>2
  <2>3. CASE s = MainServer /\ runCo # NoCo
    <3>1. PICK st \in {"yield", "dead"} : coStatus' = [coStatus EXCEPT ![runCo] = st]
      BY <1>3, <2>3 DEF EndScript
    <3>2. runCo' = NoCo
      BY <1>3, <2>3 DEF EndScript
    <3>3. coStatus[runCo] = "running" /\ runCo \in Coroutines
      BY <2>3
    <3>4. \A c \in Coroutines : coStatus'[c] = IF c = runCo THEN st ELSE coStatus[c]
      BY <3>1
    <3>5. CoInv'
      <4>0. \A c \in Coroutines : coStatus[c] = "running" => c = runCo
        OBVIOUS
      <4>1. \A c \in Coroutines : coStatus'[c] # "running"
        <5> HIDE DEF CallInv, CoInv, DropsOnlyEnded
        <5> QED
          BY <3>4, <4>0
      <4>2. \A c \in Coroutines : coStatus[c] # "fresh" => coStatus'[c] # "fresh"
        BY <3>4
      <4>3. \A t \in Calls : taskCo[t] # NoCo =>
              taskCo[t] \in Coroutines /\ coStatus[taskCo[t]] # "fresh"
        OBVIOUS
      <4>4. \A t \in Calls : taskCo[t] # NoCo => coStatus'[taskCo[t]] # "fresh"
        BY <4>2, <4>3
      <4>5. \A c \in Coroutines : coStatus'[c] = "running" <=> runCo' = c
        BY <3>2, <4>1
      <4>6. QED
        BY <2>1, <3>2, <4>4, <4>5
    <3>6. DropsOnlyEnded'
      BY <1>00, <2>1, <3>3, <3>4
    <3>7. QED
      BY <3>5, <3>6
  <2>4. QED
    BY <2>2, <2>3
<1>4. ASSUME NEW s \in Servers, CheckLimit(s) \/ PushTask(s)
      PROVE  CoInv' /\ DropsOnlyEnded'
  <2>1. UNCHANGED <<coStatus, runCo, taskCo>>
    BY <1>4 DEF CheckLimit, PushTask, luaVars
  <2>2. Kept
    BY <1>4 DEF CheckLimit, PushTask, CallPc
  <2>3. spc'[MainServer] = spc[MainServer] \/ spc'[MainServer] \in {"script", "push", "signal"}
    BY <1>4 DEF CheckLimit, PushTask
  <2>4. QED
    BY <1>1, <2>1, <2>2, <2>3
<1>5. ASSUME NEW s \in Servers, NEW w \in Workers, NEW c \in Coroutines \cup {NoCo},
             ThreadExecute(s, w, c)
      PROVE  CoInv' /\ DropsOnlyEnded'
  <2>1. calls + 1 \in Calls /\ outcome[calls + 1] = "unused"
    BY <1>5, BoundAssumption DEF ThreadExecute, Calls, PostInv
  <2>2. UNCHANGED <<outcome, coStatus, runCo>>
    BY <1>5 DEF ThreadExecute
  <2>3. spc'[MainServer] = spc[MainServer] \/ spc'[MainServer] \in {"count", "spawn"}
    BY <1>5 DEF ThreadExecute
  <2>4. \A t \in Calls : taskCo'[t] = IF t = calls + 1 THEN c ELSE taskCo[t]
    BY <1>5, <2>1 DEF ThreadExecute
  <2>5. c # NoCo => c = runCo
    BY <1>5 DEF ThreadExecute
  <2>6. CoInv'
    BY <2>2, <2>3, <2>4, <2>5
  <2>7. DropsOnlyEnded'
    BY <2>1, <2>2, <2>4
  <2>8. QED
    BY <2>6, <2>7
<1>6. ASSUME \/ \E s \in Servers, w \in Workers, m \in MaxTaskValues :
                  SetMaxTask(s, w, m)
             \/ DispatchUserEvent \/ SwapReturns
             \/ UNCHANGED vars
      PROVE  CoInv' /\ DropsOnlyEnded'
  <2>1. UNCHANGED <<coStatus, runCo, taskCo, outcome>>
    BY <1>6 DEF SetMaxTask, DispatchUserEvent, SwapReturns, vars, luaVars
  <2>2. spc'[MainServer] \in {"loop", "swap", "deliver"} =>
          spc[MainServer] \in {"loop", "swap", "deliver"}
    BY <1>6 DEF SetMaxTask, DispatchUserEvent, SwapReturns, vars, callVars
  <2>3. QED
    BY <1>1, <2>1, <2>2
<1>7. ASSUME NEW c \in Coroutines, StartCoroutine(c) PROVE CoInv' /\ DropsOnlyEnded'
  <2>1. UNCHANGED <<taskCo, outcome>> /\ runCo = NoCo /\ runCo' = c
    BY <1>7 DEF StartCoroutine
  <2>2. spc'[MainServer] = "script" /\ coStatus[c] \in {"fresh", "yield"}
    BY <1>7 DEF StartCoroutine
  <2>3. \A d \in Coroutines : coStatus'[d] = IF d = c THEN "running" ELSE coStatus[d]
    BY <1>7 DEF StartCoroutine
  <2>4. CoInv'
    BY <2>1, <2>2, <2>3
  <2>5. DropsOnlyEnded'
    BY <1>00, <2>1, <2>2, <2>3
  <2>6. QED
    BY <2>4, <2>5
<1>8. ASSUME Deliver PROVE CoInv' /\ DropsOnlyEnded'
  <2>1. UNCHANGED taskCo /\ runCo = NoCo
    BY <1>8 DEF Deliver
  <2>2. CASE lstRet = <<>>
    <3>1. UNCHANGED <<coStatus, runCo, outcome>>
      BY <1>8, <2>2 DEF Deliver
    <3>2. QED
      BY <2>1, <3>1
  <2>3. CASE lstRet # <<>>
    <3>1. PICK t \in Calls, c \in Coroutines : t = Head(lstRet) /\ c = taskCo[t]
      BY <1>0, <2>3
    <3>2. outcome[t] = "pending" /\ coStatus[c] # "fresh" /\ coStatus[c] # "running"
      BY <1>0, <2>1, <2>3, <3>1
    <3>3. CASE coStatus[c] = "yield"
      <4>1. /\ coStatus' = [coStatus EXCEPT ![c] = "running"] /\ runCo' = c
            /\ outcome' = [outcome EXCEPT ![t] = "resumed"]
            /\ spc'[MainServer] = "script"
        BY <1>8, <2>3, <3>1, <3>3 DEF Deliver
      <4>2. \A d \in Coroutines : coStatus'[d] = IF d = c THEN "running" ELSE coStatus[d]
        BY <4>1
      <4>3. \A u \in Calls : outcome'[u] = IF u = t THEN "resumed" ELSE outcome[u]
        BY <4>1
      <4>4. CoInv'
        BY <2>1, <4>1, <4>2
      <4>5. DropsOnlyEnded'
        <5> SUFFICES ASSUME NEW u \in Calls, outcome'[u] = "dropped"
                     PROVE  coStatus'[taskCo[u]] = "dead"
          BY <2>1
        <5>1. outcome[u] = "dropped"
          BY <4>3
        <5>2. taskCo[u] \in Coroutines /\ coStatus[taskCo[u]] = "dead"
          BY <1>00, <5>1
        <5>3. QED
          BY <3>3, <4>2, <5>2
      <4>6. QED
        BY <4>4, <4>5
    <3>4. CASE coStatus[c] # "yield"
      <4>1. /\ UNCHANGED <<coStatus, runCo>>
            /\ outcome' = [outcome EXCEPT ![t] = "dropped"]
        BY <1>8, <2>3, <3>1, <3>4 DEF Deliver
      <4>2. \A u \in Calls : outcome'[u] = IF u = t THEN "dropped" ELSE outcome[u]
        BY <4>1
      <4>3. coStatus[c] = "dead"
        BY <3>2, <3>4 DEF CoStatus
      <4>4. CoInv'
        BY <2>1, <4>1
      <4>5. DropsOnlyEnded'
        BY <2>1, <3>1, <4>1, <4>2, <4>3
      <4>6. QED
        BY <4>4, <4>5
    <3>5. QED
      BY <3>3, <3>4
  <2>4. QED
    BY <2>2, <2>3
<1>9. ASSUME NEW w \in Workers, \/ Initialize(w) \/ PopTask(w) \/ Wait(w) \/ WaitFails(w)
                                \/ RunTask(w) \/ PostTaskReturn(w) \/ UserTrigger(w)
      PROVE  CoInv' /\ DropsOnlyEnded'
  <2>1. UNCHANGED <<spc, coStatus, runCo, taskCo>>
    BY <1>9 DEF Initialize, PopTask, Wait, WaitFails, RunTask, PostTaskReturn, UserTrigger,
                callVars, luaVars
  <2>2. Kept
    BY <1>9 DEF Initialize, PopTask, Wait, WaitFails, RunTask, PostTaskReturn, UserTrigger,
                WorkerPc
  <2>3. QED
    BY <1>1, <2>1, <2>2
<1> HIDE DEF CallInv, CoInv, DropsOnlyEnded
<1>10. QED
  BY NextCases, <1>2, <1>3, <1>4, <1>5, <1>6, <1>7, <1>8, <1>9
-----------------------------------------------------------------------------
(* The whole invariant                                                     *)

\* Nothing has been called when the servers start.
LEMMA InitAllInv == Init => AllInv
<1> SUFFICES ASSUME Init PROVE AllInv
  OBVIOUS
<1> USE ServersAssumption, NoneAssumption
<1>1. TypeInv
  BY InitTypeInv
<1>2. \A w \in Workers : Pipes[w] = <<>>
  BY DEF Init, Pipes, Pipeline, NoTask
<1>3. Finished = <<>>
  BY DEF Init, Finished
<1>4. PostInv /\ NamedInv /\ UpdateInv
  BY DEF Init, PostInv, NamedInv, UpdateInv, InCall
<1>5. Places
  <2>1. \A t \in Calls : outcome[t] = "unused"
    BY DEF Init
  <2>2. PlaceInv
    BY <1>2, <1>3, <2>1 DEF PlaceInv
  <2>3. FateInv
    BY <2>1 DEF FateInv
  <2>4. OrderInv
    BY <1>2, <1>3, <2>1 DEF OrderInv
  <2>5. QED
    BY <2>2, <2>3, <2>4 DEF Places
<1>6. RefInv
  BY DEF Init, RefInv
<1>7. CoInv /\ DropsOnlyEnded
  BY DEF Init, CoInv, DropsOnlyEnded
<1>8. QED
  BY <1>1, <1>4, <1>5, <1>6, <1>7 DEF AllInv, CallInv, Places

\* Every step preserves the whole invariant.
LEMMA NextAllInv == AllInv /\ [Next]_vars => AllInv'
<1> SUFFICES ASSUME AllInv, [Next]_vars PROVE AllInv'
  OBVIOUS
<1>1. CallInv /\ Places /\ RefInv /\ CoInv /\ DropsOnlyEnded
  BY DEF AllInv, Places
<1>2. TypeInv'
  BY <1>1, NextTypeInv DEF CallInv
<1>3. PostInv' /\ NamedInv' /\ UpdateInv' /\ Places' /\ RefInv'
  BY <1>1, PostStep, NamedStep, UpdateStep, PlacesStep, RefStep
<1>4. CoInv' /\ DropsOnlyEnded'
  BY <1>1, CoStep
<1>5. QED
  BY <1>2, <1>3, <1>4 DEF AllInv, CallInv, Places

\* The invariant of the pool holds in every state.
LEMMA AlwaysAllInv == SafeSpec => []AllInv
  BY InitAllInv, NextAllInv, PTL DEF SafeSpec
-----------------------------------------------------------------------------
(* What the invariant is for                                               *)

\* A step of the pool is a step of the service it provides, or nothing to it.
LEMMA StepImplements ==
  ASSUME AllInv, [Next]_vars
  PROVE  [Service!Next]_(Service!vars)
<1>1. Silent \/ Visible
  BY StepEffect DEF AllInv
<1>2. CASE Silent
  <2>1. UNCHANGED <<Pipes, Finished, outcome>>
    BY <1>2 DEF Silent, NoEffect
  <2>2. CASE UNCHANGED Gone
    BY <2>1, <2>2 DEF Service!vars, Pipes, Finished, Gone
  <2>3. CASE \E w \in Workers : Gone' = Gone \cup {w}
    <3>1. \E w \in Workers : Service!StopWorker(w)
      BY <2>1, <2>3 DEF Service!StopWorker, Pipes, Finished, Gone
    <3>2. QED
      BY <3>1 DEF Service!Next
  <2>4. QED
    BY <1>2, <2>2, <2>3 DEF Silent
<1>3. CASE Visible
  <2>1. UNCHANGED Gone
    BY <1>3 DEF Visible
  <2>2. ASSUME NEW t \in Calls, Refused(t) PROVE Service!Refuse(t)
    BY <2>1, <2>2 DEF Refused, Service!Refuse, Pipes, Finished, Gone
  <2>3. ASSUME NEW w \in Workers, NEW t \in Calls, Accepted(w, t)
        PROVE  Service!Accept(w, t)
    BY <2>1, <2>3 DEF Accepted, Service!Accept, Pipes, Finished, Gone
  <2>4. ASSUME NEW w \in Workers, Forgotten(w) PROVE Service!ExecuteAndForget(w)
    BY <2>1, <2>4 DEF Forgotten, Service!ExecuteAndForget, Pipes, Finished, Gone
  <2>5. ASSUME NEW w \in Workers, Executed(w) PROVE Service!Execute(w)
    BY <2>1, <2>5 DEF Executed, Service!Execute, Pipes, Finished, Gone
  <2>6. ASSUME NEW o \in {"resumed", "dropped"}, HandedOver(o) PROVE Service!HandOver
    BY <2>1, <2>6 DEF HandedOver, Service!HandOver, Pipes, Finished, Gone
  <2>7. QED
    BY <1>3, <2>2, <2>3, <2>4, <2>5, <2>6 DEF Visible, Service!Next
<1>4. QED
  BY <1>1, <1>2, <1>3

\* The safety part of ImplementsService: threads, locks, the semaphore and the user
\* event together are a task service, whatever the number of threads and calls.
THEOREM ImplementsTaskService == SafeSpec => Service!SafeSpec
<1>1. Init => Service!Init
  <2> SUFFICES ASSUME Init PROVE Service!Init
    OBVIOUS
  <2>1. [w \in Workers |-> Pipeline(w)] = [w \in Workers |-> <<>>]
    BY DEF Init, Pipeline, NoTask
  <2>2. lstRet \o poolsRet = <<>>
    BY DEF Init
  <2>3. {w \in Workers : wpc[w] = "dead"} = {}
    BY DEF Init
  <2>4. QED
    BY <2>1, <2>2, <2>3 DEF Service!Init, Init
<1>2. AllInv /\ [Next]_vars => [Service!Next]_(Service!vars)
  BY StepImplements
<1>3. QED
  BY <1>1, <1>2, AlwaysAllInv, PTL DEF SafeSpec, Service!SafeSpec

\* OutcomeFinal: what PostTask, RunTask or Update decided about a call is not revised.
THEOREM OutcomeFinalHolds == SafeSpec => OutcomeFinal
<1> DEFINE Final == \A t \in Calls : outcome[t] \in Settled => outcome'[t] = outcome[t]
<1>1. ASSUME AllInv, [Next]_vars PROVE Final
  <2>1. CallInv /\ Places /\ outcome \in [Calls -> Outcomes]
    BY <1>1 DEF AllInv, Places, CallInv, TypeInv, TypeOK, LuaTypes
  <2>2. Pipes \in [Workers -> Seq(Calls)] /\ Finished \in Seq(Calls)
    BY <2>1, PlaceTypes DEF CallInv
  <2>3. Silent \/ Visible
    BY <1>1, <2>1, StepEffect
  <2>4. ASSUME NEW t \in Calls, Refused(t) PROVE Final
    BY <2>1, <2>4 DEF Refused, Settled
  <2>5. ASSUME NEW w \in Workers, NEW t \in Calls, Accepted(w, t) PROVE Final
    BY <2>1, <2>5 DEF Accepted, Settled
  <2>6. ASSUME NEW w \in Workers, Forgotten(w) PROVE Final
    <3>1. Pipes[w] \in Seq(Calls) /\ Pipes[w] # <<>>
      BY <2>2, <2>6 DEF Forgotten
    <3>2. PICK h \in Calls : h = Head(Pipes[w])
      BY <3>1, HeadTail
    <3>3. outcome[h] = "pending"
      BY <2>1, <3>1, <3>2, TailElements DEF Places, PlaceInv
    <3>4. outcome' = [outcome EXCEPT ![h] = "discarded"]
      BY <2>6, <3>2 DEF Forgotten
    <3>5. QED
      BY <2>1, <3>3, <3>4 DEF Settled
  <2>7. ASSUME NEW o \in {"resumed", "dropped"}, HandedOver(o) PROVE Final
    <3>1. Finished # <<>>
      BY <2>7 DEF HandedOver
    <3>2. PICK h \in Calls : h = Head(Finished)
      BY <2>2, <3>1, HeadTail
    <3>3. outcome[h] = "pending"
      BY <2>1, <2>2, <3>1, <3>2, TailElements DEF Places, PlaceInv
    <3>4. outcome' = [outcome EXCEPT ![h] = o]
      BY <2>7, <3>2 DEF HandedOver
    <3>5. QED
      BY <2>1, <3>3, <3>4 DEF Settled
  <2>8. QED
    BY <2>3, <2>4, <2>5, <2>6, <2>7 DEF Silent, NoEffect, Visible, Executed
<1>2. SafeSpec => [][Final]_vars
  BY <1>1, AlwaysAllInv, PTL DEF SafeSpec
<1>3. QED
  BY <1>2 DEF OutcomeFinal

\* CallOrder: neither the queue, the return list nor the swap lets a later call of a
\* coroutine to the same worker overtake an earlier one.
THEOREM CallOrderHolds == SafeSpec => []CallOrder
<1>1. ASSUME AllInv PROVE CallOrder
  <2> SUFFICES ASSUME NEW t \in Calls, NEW u \in Calls, t < u,
                      taskWorker[t] = taskWorker[u], taskCo[t] # NoCo,
                      outcome[u] \in {"resumed", "dropped"}
               PROVE  outcome[t] \in {"refused", "resumed", "dropped"}
    BY DEF CallOrder
  <2>1. taskCo[u] # NoCo
    BY <1>1 DEF AllInv, FateInv
  <2>2. outcome[t] # "pending"
    BY <1>1, <2>1 DEF AllInv, OrderInv, InOrder
  <2>3. outcome[t] # "discarded"
    BY <1>1 DEF AllInv, FateInv
  <2>4. outcome[t] # "unused"
    <3> SUFFICES ASSUME outcome[t] = "unused" PROVE FALSE
      OBVIOUS
    <3>1. newTask[MainServer] = t /\ t # NoTask
      BY <1>1 DEF AllInv, CallInv, NamedInv, Calls, NoTask
    <3>2. taskCo[u] = NoCo
      BY <1>1, <3>1 DEF AllInv, CallInv, NamedInv, Calls
    <3>3. QED
      BY <2>1, <3>2
  <2>5. outcome[t] \in Outcomes
    BY <1>1 DEF AllInv, CallInv, TypeInv, TypeOK, LuaTypes
  <2>6. QED
    BY <2>2, <2>3, <2>4, <2>5 DEF Outcomes
<1>2. QED
  BY <1>1, AlwaysAllInv, PTL

\* DropsOnlyEnded: when Update meets a coroutine that is not yielded, it has ended.
THEOREM DropsOnlyEndedHolds == SafeSpec => []DropsOnlyEnded
<1>1. AllInv => DropsOnlyEnded
  BY DEF AllInv
<1>2. QED
  BY <1>1, AlwaysAllInv, PTL
-----------------------------------------------------------------------------
(* One owner                                                               *)

\* Where a call can be while it is pending: in a queue, with the thread of a worker,
\* in the list Update is going through or in _poolsRet.
Queued(t, w, i) == i \in 1 .. Len(tasks[w]) /\ tasks[w][i] = t
Taken(t, i) == i \in 1 .. Len(lstRet) /\ lstRet[i] = t
Returned(t, i) == i \in 1 .. Len(poolsRet) /\ poolsRet[i] = t

\* The indices of two lists put one behind the other.
LEMMA ConcatElements ==
  ASSUME NEW S, NEW a \in Seq(S), NEW b \in Seq(S)
  PROVE  /\ Len(a) \in Nat /\ Len(b) \in Nat
         /\ \A i \in 1 .. Len(a) : i \in DOMAIN (a \o b) /\ (a \o b)[i] = a[i]
         /\ \A i \in 1 .. Len(b) : /\ Len(a) + i \in DOMAIN (a \o b)
                                  /\ (a \o b)[Len(a) + i] = b[i]
         /\ \A i \in DOMAIN (a \o b) :
              \/ i \in 1 .. Len(a)
              \/ i \in Nat /\ i - Len(a) \in 1 .. Len(b)
  OBVIOUS

\* A list behind a first element.
LEMMA FrontElements ==
  ASSUME NEW S, NEW q \in Seq(S), NEW t \in S
  PROVE  /\ 1 \in DOMAIN (<<t>> \o q) /\ (<<t>> \o q)[1] = t
         /\ \A i \in 1 .. Len(q) : /\ i + 1 \in DOMAIN (<<t>> \o q) /\ i + 1 # 1
                                  /\ (<<t>> \o q)[i + 1] = q[i]
         /\ \A i \in DOMAIN (<<t>> \o q) :
              \/ i = 1
              \/ i \in Nat /\ i - 1 \in 1 .. Len(q)
  OBVIOUS

\* The members of Holders(t).
LEMMA HolderCases ==
  ASSUME NEW t \in Calls, NEW h
  PROVE  h \in Holders(t) <=>
           \/ \E s \in Servers : spc[s] = "push" /\ newTask[s] = t /\ h = <<"post", s>>
           \/ \E w \in Workers, i \in Nat : Queued(t, w, i) /\ h = <<"queue", w, i>>
           \/ \E w \in Workers : pCmd[w] = t /\ h = <<"worker", w>>
           \/ \E i \in Nat : Returned(t, i) /\ h = <<"return", i>>
           \/ \E i \in Nat : Taken(t, i) /\ h = <<"update", i>>
           \/ updCmd = t /\ h = <<"resuming">>
<1> DEFINE P == {<<"post", s>> : s \in {s \in Servers : spc[s] = "push" /\ newTask[s] = t}}
           Q == UNION {{<<"queue", w, i>> :
                          i \in {i \in 1 .. Len(tasks[w]) : tasks[w][i] = t}} : w \in Workers}
           W == {<<"worker", w>> : w \in {w \in Workers : pCmd[w] = t}}
           R == {<<"return", i>> : i \in {i \in 1 .. Len(poolsRet) : poolsRet[i] = t}}
           U == {<<"update", i>> : i \in {i \in 1 .. Len(lstRet) : lstRet[i] = t}}
           X == IF updCmd = t THEN {<<"resuming">>} ELSE {}
<1>1. h \in P
        <=> \E s \in Servers : spc[s] = "push" /\ newTask[s] = t /\ h = <<"post", s>>
  OBVIOUS
<1>2. h \in Q
        <=> \E w \in Workers, i \in Nat : Queued(t, w, i) /\ h = <<"queue", w, i>>
  BY DEF Queued
<1>3. h \in W <=> \E w \in Workers : pCmd[w] = t /\ h = <<"worker", w>>
  OBVIOUS
<1>4. h \in R <=> \E i \in Nat : Returned(t, i) /\ h = <<"return", i>>
  BY DEF Returned
<1>5. h \in U <=> \E i \in Nat : Taken(t, i) /\ h = <<"update", i>>
  BY DEF Taken
<1>6. h \in X <=> updCmd = t /\ h = <<"resuming">>
  OBVIOUS
<1>7. Holders(t) = P \cup Q \cup W \cup R \cup U \cup X
  BY DEF Holders
<1> HIDE DEF P, Q, W, R, U, X
<1>8. QED
  BY <1>1, <1>2, <1>3, <1>4, <1>5, <1>6, <1>7

\* The places of PlaceInv in terms of the lists of the code.
LEMMA Positions ==
  ASSUME TypeInv, NEW t \in Calls
  PROVE  /\ \A w \in Workers : pCmd[w] = t =>
              1 \in DOMAIN Pipes[w] /\ Pipes[w][1] = t
         /\ \A w \in Workers, i \in Nat : Queued(t, w, i) =>
              \E k \in DOMAIN Pipes[w] :
                /\ Pipes[w][k] = t
                /\ k = IF pCmd[w] = NoTask THEN i ELSE i + 1
                /\ pCmd[w] # NoTask => k # 1
         /\ \A w \in Workers : \A k \in DOMAIN Pipes[w] : Pipes[w][k] = t =>
              pCmd[w] = t \/ \E i \in Nat : Queued(t, w, i)
         /\ \A i \in Nat : Taken(t, i) => i \in DOMAIN Finished /\ Finished[i] = t
         /\ \A i \in Nat : Returned(t, i) =>
              /\ Len(lstRet) + i \in DOMAIN Finished /\ Finished[Len(lstRet) + i] = t
         /\ \A k \in DOMAIN Finished : Finished[k] = t =>
              \E i \in Nat : Taken(t, i) \/ Returned(t, i)
<1> USE DEF TypeInv, TypeOK, WorkerTypes, ReturnTypes
<1>1. ASSUME NEW w \in Workers
      PROVE  /\ pCmd[w] = t => 1 \in DOMAIN Pipes[w] /\ Pipes[w][1] = t
             /\ \A i \in Nat : Queued(t, w, i) =>
                  \E k \in DOMAIN Pipes[w] :
                    /\ Pipes[w][k] = t
                    /\ k = IF pCmd[w] = NoTask THEN i ELSE i + 1
                    /\ pCmd[w] # NoTask => k # 1
             /\ \A k \in DOMAIN Pipes[w] : Pipes[w][k] = t =>
                  pCmd[w] = t \/ \E i \in Nat : Queued(t, w, i)
  <2>1. CASE pCmd[w] = NoTask
    <3>1. Pipes[w] = tasks[w] /\ tasks[w] \in Seq(Calls)
      BY <2>1, ConcatNothing DEF Pipes, Pipeline
    <3>2. DOMAIN Pipes[w] = 1 .. Len(tasks[w]) /\ pCmd[w] # t
      BY <2>1, <3>1 DEF Calls, NoTask
    <3>3. QED
      BY <2>1, <3>1, <3>2 DEF Queued
  <2>2. CASE pCmd[w] # NoTask
    <3>1. PICK q \in Seq(Calls), p \in Calls : q = tasks[w] /\ p = pCmd[w]
      BY <2>2
    <3>2. Pipes[w] = <<p>> \o q
      BY <2>2, <3>1 DEF Pipes, Pipeline
    <3>3. /\ 1 \in DOMAIN Pipes[w] /\ Pipes[w][1] = p
          /\ \A i \in 1 .. Len(q) : /\ i + 1 \in DOMAIN Pipes[w] /\ i + 1 # 1
                                   /\ Pipes[w][i + 1] = q[i]
          /\ \A i \in DOMAIN Pipes[w] :
               \/ i = 1
               \/ i \in Nat /\ i - 1 \in 1 .. Len(q)
      BY <3>2, FrontElements
    <3>4. \A k \in DOMAIN Pipes[w] : Pipes[w][k] = t =>
            p = t \/ \E i \in Nat : i \in 1 .. Len(q) /\ q[i] = t
      <4> SUFFICES ASSUME NEW k \in DOMAIN Pipes[w], Pipes[w][k] = t, k # 1
                   PROVE  \E i \in Nat : i \in 1 .. Len(q) /\ q[i] = t
        BY <3>3
      <4>1. k \in Nat /\ k - 1 \in 1 .. Len(q)
        BY <3>3
      <4>2. Pipes[w][(k - 1) + 1] = q[k - 1] /\ (k - 1) + 1 = k
        BY <3>3, <4>1
      <4>3. QED
        BY <4>1, <4>2
    <3>5. QED
      BY <2>2, <3>1, <3>3, <3>4 DEF Queued
  <2>3. QED
    BY <2>1, <2>2
<1>2. PICK a \in Seq(Calls), b \in Seq(Calls) : a = lstRet /\ b = poolsRet
  OBVIOUS
<1>3. /\ Len(a) \in Nat /\ Len(b) \in Nat
      /\ \A i \in 1 .. Len(a) : i \in DOMAIN Finished /\ Finished[i] = a[i]
      /\ \A i \in 1 .. Len(b) : /\ Len(a) + i \in DOMAIN Finished
                               /\ Finished[Len(a) + i] = b[i]
      /\ \A i \in DOMAIN Finished :
           \/ i \in 1 .. Len(a)
           \/ i \in Nat /\ i - Len(a) \in 1 .. Len(b)
  BY <1>2, ConcatElements DEF Finished
<1>4. ASSUME NEW k \in DOMAIN Finished, Finished[k] = t
      PROVE  \E i \in Nat : Taken(t, i) \/ Returned(t, i)
  <2>1. CASE k \in 1 .. Len(a)
    BY <1>2, <1>3, <1>4, <2>1 DEF Taken
  <2>2. CASE k \in Nat /\ k - Len(a) \in 1 .. Len(b)
    <3>1. Len(a) + (k - Len(a)) = k /\ k - Len(a) \in Nat
      BY <1>3, <2>2
    <3>2. b[k - Len(a)] = t
      BY <1>3, <1>4, <2>2, <3>1
    <3>3. QED
      BY <1>2, <2>2, <3>1, <3>2 DEF Returned
  <2>3. QED
    BY <1>3, <2>1, <2>2
<1>5. \A i \in Nat : /\ Taken(t, i) => i \in DOMAIN Finished /\ Finished[i] = t
                     /\ Returned(t, i) => /\ Len(lstRet) + i \in DOMAIN Finished
                                          /\ Finished[Len(lstRet) + i] = t
  BY <1>2, <1>3 DEF Taken, Returned
<1>6. QED
  BY <1>1, <1>4, <1>5

\* SingleOwner: a _LuaTask has exactly one owner from new to delete, and holds the
\* registry reference of its coroutine for exactly that long.
THEOREM SingleOwnerHolds == SafeSpec => []SingleOwner
<1>1. ASSUME AllInv PROVE SingleOwner
  <2> DEFINE building(t) == \E s \in Servers : spc[s] = "push" /\ newTask[s] = t
             live(t) == building(t) \/ outcome[t] = "pending" \/ updCmd = t
  <2> SUFFICES ASSUME NEW t \in Calls
               PROVE  /\ Cardinality(Holders(t)) = IF live(t) THEN 1 ELSE 0
                      /\ t \in refs <=> live(t) /\ taskCo[t] # NoCo
    BY DEF SingleOwner
  <2>1. t \in refs <=> live(t) /\ taskCo[t] # NoCo
    BY <1>1 DEF AllInv, RefInv
  <2>2. /\ t # NoTask
        /\ building(t) => outcome[t] = "unused"
        /\ updCmd = t => outcome[t] = "resumed"
        /\ \A s, r \in Servers : newTask[s] = t /\ newTask[r] = t => s = r
    BY <1>1 DEF AllInv, CallInv, PostInv, UpdateInv, Calls, NoTask
  <2>3. TypeInv /\ PlaceInv
    BY <1>1 DEF AllInv, CallInv
  <2>4. \A w \in Workers, i \in Nat : Queued(t, w, i) =>
          \E k \in DOMAIN Pipes[w] :
            /\ Pipes[w][k] = t
            /\ k = IF pCmd[w] = NoTask THEN i ELSE i + 1
            /\ pCmd[w] # NoTask => k # 1
    BY <2>3, Positions
  <2>5. \A w \in Workers : pCmd[w] = t => 1 \in DOMAIN Pipes[w] /\ Pipes[w][1] = t
    BY <2>3, Positions
  <2>6. \A i \in Nat : Taken(t, i) => i \in DOMAIN Finished /\ Finished[i] = t
    BY <2>3, Positions
  <2>7. \A i \in Nat : Returned(t, i) =>
          Len(lstRet) + i \in DOMAIN Finished /\ Finished[Len(lstRet) + i] = t
    BY <2>3, Positions
  <2> DEFINE inPipe == \E w \in Workers : \E k \in DOMAIN Pipes[w] : Pipes[w][k] = t
             inList == \E k \in DOMAIN Finished : Finished[k] = t
  <2>8. /\ outcome[t] = "pending" <=> inPipe \/ inList
        /\ ~(inPipe /\ inList)
    BY <2>3 DEF PlaceInv
  <2>9. /\ \A w \in Workers, i \in Nat : Queued(t, w, i) => inPipe
        /\ \A w \in Workers : pCmd[w] = t => inPipe
        /\ \A i \in Nat : Taken(t, i) \/ Returned(t, i) => inList
    BY <2>4, <2>5, <2>6, <2>7
  <2>10. inPipe => \E w \in Workers : pCmd[w] = t \/ \E i \in Nat : Queued(t, w, i)
    BY <2>3, Positions
  <2>11. inList => \E i \in Nat : Taken(t, i) \/ Returned(t, i)
    BY <2>3, Positions
  <2>12. ASSUME NEW w \in Workers, NEW x \in Workers,
                pCmd[w] = t \/ \E i \in Nat : Queued(t, w, i),
                pCmd[x] = t \/ \E i \in Nat : Queued(t, x, i)
         PROVE  w = x
    BY <2>3, <2>4, <2>5, <2>12 DEF PlaceInv
  <2>13. ASSUME NEW w \in Workers, NEW i \in Nat, Queued(t, w, i)
         PROVE  /\ pCmd[w] # t
                /\ \A j \in Nat : Queued(t, w, j) => j = i
    <3>1. PICK k \in DOMAIN Pipes[w] : /\ Pipes[w][k] = t
                                       /\ k = IF pCmd[w] = NoTask THEN i ELSE i + 1
                                       /\ pCmd[w] # NoTask => k # 1
      BY <2>4, <2>13
    <3>2. pCmd[w] # t
      BY <2>2, <2>3, <2>5, <3>1 DEF PlaceInv
    <3>3. ASSUME NEW j \in Nat, Queued(t, w, j) PROVE j = i
      <4>1. PICK n \in DOMAIN Pipes[w] : /\ Pipes[w][n] = t
                                         /\ n = IF pCmd[w] = NoTask THEN j ELSE j + 1
        BY <2>4, <3>3
      <4>2. n = k
        BY <2>3, <3>1, <4>1 DEF PlaceInv
      <4>3. QED
        BY <3>1, <4>1, <4>2
    <3>4. QED
      BY <3>2, <3>3
  <2>14. Len(lstRet) \in Nat
    BY <2>3 DEF TypeInv, TypeOK, ReturnTypes
  <2>15. \A i \in Nat : Taken(t, i) => i <= Len(lstRet)
    BY <2>14 DEF Taken
  <2>16. \A i \in Nat : Returned(t, i) => i > 0
    BY DEF Returned
  <2>17. ASSUME NEW i \in Nat, NEW j \in Nat
         PROVE  /\ Taken(t, i) /\ Taken(t, j) => i = j
                /\ Returned(t, i) /\ Returned(t, j) => i = j
                /\ ~(Taken(t, i) /\ Returned(t, j))
    <3>1. Taken(t, i) /\ Taken(t, j) => i = j
      BY <2>3, <2>6 DEF PlaceInv
    <3>2. Returned(t, i) /\ Returned(t, j) => Len(lstRet) + i = Len(lstRet) + j
      BY <2>3, <2>7 DEF PlaceInv
    <3>3. Taken(t, i) /\ Returned(t, j) => i = Len(lstRet) + j
      BY <2>3, <2>6, <2>7 DEF PlaceInv
    <3>4. QED
      BY <2>14, <2>15, <2>16, <3>1, <3>2, <3>3
  <2> HIDE DEF inPipe, inList
  <2>18. CASE ~live(t)
    <3>1. \A h : h \notin Holders(t)
      BY <2>8, <2>9, <2>18, HolderCases
    <3>2. Holders(t) = {}
      BY <3>1
    <3>3. QED
      BY <2>1, <2>18, <3>2, FS_EmptySet
  <2>19. CASE live(t)
    <3>0. SUFFICES \E o : Holders(t) = {o}
      BY <2>1, <2>19, FS_Singleton
    <3>1. ASSUME NEW o, \A h : h \in Holders(t) <=> h = o
          PROVE  \E p : Holders(t) = {p}
      <4>1. Holders(t) = {o}
        BY <3>1
      <4>2. QED
        BY <4>1
    <3>2. CASE building(t)
      <4>1. PICK s \in Servers : spc[s] = "push" /\ newTask[s] = t
        BY <3>2
      <4>2. updCmd # t /\ ~inPipe /\ ~inList
        BY <2>2, <2>8, <3>2
      <4>3. PICK o : o = <<"post", s>>
        OBVIOUS
      <4>4. \A h : h \in Holders(t) <=> h = o
        BY <2>2, <2>9, <4>1, <4>2, <4>3, HolderCases
      <4>5. QED
        BY <3>1, <4>4
    <3>3. CASE updCmd = t
      <4>1. ~building(t) /\ ~inPipe /\ ~inList
        BY <2>2, <2>8, <3>3
      <4>2. PICK o : o = <<"resuming">>
        OBVIOUS
      <4>3. \A h : h \in Holders(t) <=> h = o
        BY <2>9, <3>3, <4>1, <4>2, HolderCases
      <4>4. QED
        BY <3>1, <4>3
    <3>4. CASE inPipe
      <4>1. ~building(t) /\ updCmd # t /\ ~inList
        BY <2>2, <2>8, <3>4
      <4>2. PICK w \in Workers : pCmd[w] = t \/ \E i \in Nat : Queued(t, w, i)
        BY <2>10, <3>4
      <4>3. CASE pCmd[w] = t
        <5>1. \A x \in Workers, i \in Nat : ~Queued(t, x, i)
          BY <2>12, <2>13, <4>3
        <5>2. PICK o : o = <<"worker", w>>
          OBVIOUS
        <5>3. \A h : h \in Holders(t) <=> h = o
          BY <2>9, <2>12, <4>1, <4>3, <5>1, <5>2, HolderCases
        <5>4. QED
          BY <3>1, <5>3
      <4>4. ASSUME NEW i \in Nat, Queued(t, w, i)
            PROVE  \E p : Holders(t) = {p}
        <5>1. \A x \in Workers : pCmd[x] # t
          BY <2>12, <2>13, <4>4
        <5>2. \A x \in Workers, j \in Nat : Queued(t, x, j) => x = w /\ j = i
          BY <2>12, <2>13, <4>4
        <5>3. PICK o : o = <<"queue", w, i>>
          OBVIOUS
        <5>4. \A h : h \in Holders(t) <=> h = o
          BY <2>9, <4>1, <4>4, <5>1, <5>2, <5>3, HolderCases
        <5>5. Holders(t) = {o}
          BY <5>4
        <5>6. QED
          BY <5>5
      <4>5. QED
        BY <4>2, <4>3, <4>4, Zenon
    <3>5. CASE inList
      <4>1. ~building(t) /\ updCmd # t /\ ~inPipe
        BY <2>2, <2>8, <3>5
      <4>2. PICK i \in Nat : Taken(t, i) \/ Returned(t, i)
        BY <2>11, <3>5
      <4>3. CASE Taken(t, i)
        <5>1. PICK o : o = <<"update", i>>
          OBVIOUS
        <5>2. \A h : h \in Holders(t) <=> h = o
          BY <2>9, <2>17, <4>1, <4>3, <5>1, HolderCases
        <5>3. QED
          BY <3>1, <5>2
      <4>4. CASE Returned(t, i)
        <5>1. PICK o : o = <<"return", i>>
          OBVIOUS
        <5>2. \A h : h \in Holders(t) <=> h = o
          BY <2>9, <2>17, <4>1, <4>4, <5>1, HolderCases
        <5>3. QED
          BY <3>1, <5>2
      <4>5. QED
        BY <4>2, <4>3, <4>4
    <3>6. QED
      BY <2>8, <2>19, <3>2, <3>3, <3>4, <3>5
  <2>20. QED
    BY <2>18, <2>19
<1>2. QED
  BY <1>1, AlwaysAllInv, PTL
=============================================================================
