---------------------------- MODULE TaskService ----------------------------
(***************************************************************************)
(* What EventServer:ThreadExecute promises a script, without any thread,   *)
(* lock, semaphore or event: a call is refused or accepted by one worker;  *)
(* a worker executes what it accepted in that order and once; the result   *)
(* of a call that named a coroutine is handed over once, in the order in   *)
(* which executions finished.  A worker may stop for good, and then what   *)
(* it still holds is never executed.                                       *)
(* LuaThreadPool implements this specification.                            *)
(***************************************************************************)
EXTENDS Naturals, Sequences

CONSTANTS
  Calls,      \* the calls of ThreadExecute, numbered in the order they start
  Workers     \* the worker thread ids

VARIABLES
  accepted,   \* worker -> accepted calls it has not finished executing
  finished,   \* executed calls whose result has not been handed over
  outcome,    \* call -> what became of it
  stopped     \* the workers that will execute nothing more

vars == <<accepted, finished, outcome, stopped>>

Outcomes == {"unused", "refused", "pending", "discarded", "resumed", "dropped"}

TypeOK ==
  /\ accepted \in [Workers -> Seq(Calls)]
  /\ finished \in Seq(Calls)
  /\ outcome \in [Calls -> Outcomes]
  /\ stopped \in SUBSET Workers

Init ==
  /\ accepted = [w \in Workers |-> <<>>]
  /\ finished = <<>>
  /\ outcome = [t \in Calls |-> "unused"]
  /\ stopped = {}

\* The queue limit turns the call away.
Refuse(t) ==
  /\ outcome[t] = "unused"
  /\ outcome' = [outcome EXCEPT ![t] = "refused"]
  /\ UNCHANGED <<accepted, finished, stopped>>

\* A stopped worker still accepts.
Accept(w, t) ==
  /\ outcome[t] = "unused"
  /\ outcome' = [outcome EXCEPT ![t] = "pending"]
  /\ accepted' = [accepted EXCEPT ![w] = Append(@, t)]
  /\ UNCHANGED <<finished, stopped>>

\* The oldest accepted call is executed and its result is kept.
Execute(w) ==
  /\ w \notin stopped
  /\ accepted[w] # <<>>
  /\ accepted' = [accepted EXCEPT ![w] = Tail(@)]
  /\ finished' = Append(finished, Head(accepted[w]))
  /\ UNCHANGED <<outcome, stopped>>

\* The oldest accepted call is executed and nobody wants its result.
ExecuteAndForget(w) ==
  /\ w \notin stopped
  /\ accepted[w] # <<>>
  /\ accepted' = [accepted EXCEPT ![w] = Tail(@)]
  /\ outcome' = [outcome EXCEPT ![Head(accepted[w])] = "discarded"]
  /\ UNCHANGED <<finished, stopped>>

\* The oldest result resumes its coroutine, or is dropped.
HandOver ==
  /\ finished # <<>>
  /\ finished' = Tail(finished)
  /\ \E o \in {"resumed", "dropped"} :
       outcome' = [outcome EXCEPT ![Head(finished)] = o]
  /\ UNCHANGED <<accepted, stopped>>

StopWorker(w) ==
  /\ stopped' = stopped \cup {w}
  /\ UNCHANGED <<accepted, finished, outcome>>

Next ==
  \/ \E t \in Calls : Refuse(t)
  \/ \E w \in Workers, t \in Calls : Accept(w, t)
  \/ \E w \in Workers : Execute(w) \/ ExecuteAndForget(w) \/ StopWorker(w)
  \/ HandOver

Fairness ==
  /\ \A w \in Workers : WF_vars(Execute(w) \/ ExecuteAndForget(w))
  /\ WF_vars(HandOver)

SafeSpec == Init /\ [][Next]_vars

Spec == SafeSpec /\ Fairness
=============================================================================
