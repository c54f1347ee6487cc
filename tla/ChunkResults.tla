---------------------------- MODULE ChunkResults ----------------------------
(***************************************************************************)
(* What a worker reports for the chunks it runs (the middle of             *)
(* CLuaThread::WorkProc, ldocall and CurrentTask:SetUserResult).  A worker *)
(* has one Lua state for all its chunks, and what a chunk leaves on the    *)
(* stack is still there when the next one ends: LuaThreadPool abstracts    *)
(* from results, this module from threads.                                 *)
(*                                                                         *)
(* A Lua value is the task whose chunk made it, its place among the values *)
(* of that chunk and whether lua_isstring holds of it.                     *)
(***************************************************************************)
EXTENDS Naturals, Sequences, SequencesExt

CONSTANTS
  MaxTasks,     \* bound: the tasks of one behaviour
  MaxReturns    \* bound: the values one chunk returns

ASSUME BoundAssumption == MaxTasks \in Nat /\ MaxReturns \in Nat

Tasks == 1 .. MaxTasks
Values == [from : Tasks, place : Nat, str : BOOLEAN]

\* How a chunk ends: the values it returns or the value it raises, and whether
\* it called SetUserResult before.
Endings ==
  [user : BOOLEAN, raised : {FALSE}, strs : BoundedSeq(BOOLEAN, MaxReturns)]
    \cup [user : BOOLEAN, raised : {TRUE}, strs : {<<TRUE>>, <<FALSE>>}]

NoValue == [from |-> 0, place |-> 0, str |-> FALSE]

VARIABLES
  stack,     \* the values on the stack of _state between two chunks
  ran,       \* how many tasks were run
  ok,        \* task -> pCmd->ok
  retbuf,    \* task -> the value in pCmd->retbuf, NoValue when cplen is 0
  aborted,   \* a Lua error was raised outside any protected call
  clean      \* every chunk so far ended cleanly (history)

vars == <<stack, ran, ok, retbuf, aborted, clean>>

Init ==
  /\ stack = <<>>
  /\ ran = 0
  /\ ok = [t \in Tasks |-> FALSE]
  /\ retbuf = [t \in Tasks |-> NoValue]
  /\ aborted = FALSE
  /\ clean = TRUE

\* The values of an ending, made by task t.
Made(t, strs) ==
  [i \in 1 .. Len(strs) |-> [from |-> t, place |-> i, str |-> strs[i]]]

\* The stack when luaL_loadbuffer || ldocall is over.  Without a coroutine the
\* chunk is called for no result (clear).
StackAfterCall(t, co, e) ==
  stack \o (IF e.raised \/ co THEN Made(t, e.strs) ELSE <<>>)

\* lua_isstring(_state, -1): below an empty stack there is nil.
TopIsString(st) == st # <<>> /\ Last(st).str

\* A chunk that returns at most one value, a string, and leaves the reporting
\* to WorkProc, or raises a string.
EndsCleanly(co, e) ==
  ~e.user /\ (~e.raised /\ co => Len(e.strs) <= 1 /\ \A i \in DOMAIN e.strs : e.strs[i])

\* SetUserResult was called: ok is false; nothing is popped and, as its cplen
\* was never set, retbuf reads as empty.
UserResult(t, co, e) ==
  /\ e.user
  /\ stack' = StackAfterCall(t, co, e)
  /\ UNCHANGED <<ok, retbuf, aborted>>

\* Mutant: the error message is not popped.
ErrorResult_NoPop(t, co, e) ==
  /\ ~e.user
  /\ e.raised
  /\ IF e.strs[1]
       THEN /\ retbuf' = [retbuf EXCEPT ![t] = Last(StackAfterCall(t, co, e))]
            /\ stack' = StackAfterCall(t, co, e)
            /\ UNCHANGED <<ok, aborted>>
       ELSE /\ aborted' = TRUE
            /\ UNCHANGED <<stack, ok, retbuf>>

\* Mutant: the message is taken from the bottom of the stack.
ErrorResult_Bottom(t, co, e) ==
  /\ ~e.user
  /\ e.raised
  /\ IF e.strs[1]
       THEN /\ retbuf' = [retbuf EXCEPT ![t] = StackAfterCall(t, co, e)[1]]
            /\ stack' = Front(StackAfterCall(t, co, e))
            /\ UNCHANGED <<ok, aborted>>
       ELSE /\ aborted' = TRUE
            /\ UNCHANGED <<stack, ok, retbuf>>

\* The chunk failed: the message is copied and popped.  luaL_checklstring
\* raises an error of its own when the value raised is not a string, and no
\* protected call is there to catch it.
ErrorResult(t, co, e) ==
  /\ ~e.user
  /\ e.raised
  /\ IF e.strs[1]
       THEN /\ retbuf' = [retbuf EXCEPT ![t] = Last(StackAfterCall(t, co, e))]
            /\ stack' = Front(StackAfterCall(t, co, e))
            /\ UNCHANGED <<ok, aborted>>
       ELSE /\ aborted' = TRUE
            /\ UNCHANGED <<stack, ok, retbuf>>

\* Mutant: the result is not popped.
OkResult_NoPop(t, co, e) ==
  /\ ~e.user
  /\ ~e.raised
  /\ ok' = [ok EXCEPT ![t] = TRUE]
  /\ stack' = StackAfterCall(t, co, e)
  /\ retbuf' = IF co /\ TopIsString(stack')
                 THEN [retbuf EXCEPT ![t] = Last(stack')] ELSE retbuf
  /\ UNCHANGED aborted

\* The chunk succeeded: a coroutine gets the string on top of the stack.
OkResult(t, co, e) ==
  /\ ~e.user
  /\ ~e.raised
  /\ ok' = [ok EXCEPT ![t] = TRUE]
  /\ LET st == StackAfterCall(t, co, e)
     IN IF co /\ TopIsString(st)
          THEN /\ retbuf' = [retbuf EXCEPT ![t] = Last(st)]
               /\ stack' = Front(st)
          ELSE /\ stack' = st
               /\ UNCHANGED retbuf
  /\ UNCHANGED aborted

\* One turn of WorkProc from the pop to PostTaskReturn or delete.
RunTask(co, e) ==
  /\ ~aborted
  /\ ran < MaxTasks
  /\ ran' = ran + 1
  /\ clean' = (clean /\ EndsCleanly(co, e))
  /\ \/ UserResult(ran + 1, co, e)
     \/ ErrorResult(ran + 1, co, e)
     \/ OkResult(ran + 1, co, e)

Next == \E co \in BOOLEAN, e \in Endings : RunTask(co, e)

Spec == Init /\ [][Next]_vars
-----------------------------------------------------------------------------
\* The stack holds values of tasks that ran; there is one result per task.
TypeOK ==
  /\ stack \in Seq(Values)
  /\ ran \in 0 .. MaxTasks
  /\ ok \in [Tasks -> BOOLEAN]
  /\ retbuf \in [Tasks -> Values \cup {NoValue}]
  /\ aborted \in BOOLEAN
  /\ clean \in BOOLEAN

\* As long as every chunk returns at most one value, a string, and none uses
\* SetUserResult, the stack is empty between chunks, so that no task can be
\* handed the value of another.  One chunk that does not is enough to break
\* this for every later chunk that returns nothing.
CleanWorker ==
  clean => /\ stack = <<>>
           /\ \A t \in Tasks : retbuf[t] # NoValue => retbuf[t].from = t

\* A value is handed over once: what WorkProc copied into a result is off the
\* stack, so that no later task can be handed it again.
HandedOverOnce ==
  \A t \in Tasks :
    retbuf[t] # NoValue =>
      /\ \A i \in DOMAIN stack : stack[i] # retbuf[t]
      /\ \A u \in Tasks \ {t} : retbuf[u] # retbuf[t]

\* A task is handed the value of another only if its own chunk, run without an
\* error, returned nothing; the stale value is then the youngest one left.  A
\* failure is reported with the message of its own chunk.
StaleOnlyWhenSilent ==
  [][\A t \in Tasks :
       t = ran + 1 /\ retbuf'[t].from \notin {0, t}
         => /\ ok'[t]
            /\ stack # <<>> /\ retbuf'[t] = Last(stack)
            /\ stack' = Front(stack)]_vars
=============================================================================
