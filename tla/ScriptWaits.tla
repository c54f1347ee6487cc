---------------------------- MODULE ScriptWaits ----------------------------
(***************************************************************************)
(* What a Lua script of a server waits for on the server's own loop        *)
(* (EventServer.cpp): WaitTime timers and the requests of the HTTP client. *)
(* Both hold the waiting coroutine by a registry reference, resume it from *)
(* a libevent callback and then free their own record.                     *)
(*                                                                         *)
(* Everything runs on one thread: a callback runs with no script on the C  *)
(* stack, and the scripts it starts end before it goes on.  The script is  *)
(* any Lua program, of which some coroutines make one wait at a time.      *)
(* evhttp and the Lua collector are external.  Calls that go through a     *)
(* NULL pointer end the process, and nothing happens after that.           *)
(***************************************************************************)
EXTENDS Naturals, Sequences

CONSTANTS
  Coroutines,    \* the coroutines of the script
  Dispatcher,    \* the main Lua thread, which runs the dispatcher function
  MaxWaits,      \* bound: timers and requests started
  MaxRedirects,  \* bound: how often a server moves one request (the code has none)
  OneWait        \* the coroutines that start one wait, for themselves, and then yield

ASSUME DispatcherAssumption == Dispatcher \notin Coroutines
ASSUME WaitBoundAssumption == MaxWaits \in Nat /\ MaxRedirects \in Nat
ASSUME OneWaitAssumption == OneWait \subseteq Coroutines

Waits == 1 .. MaxWaits
NoCall == 0

VARIABLES
  co,       \* coroutine -> its lua_status, and whether it was collected
  waits,    \* self_tv, http_request_get and http_request_post records
  started,  \* how many records were made
  calling,  \* the record whose callback is on the C stack, or NoCall
  resumed,  \* that callback found its coroutine yielded
  stack,    \* the scripts under way, the innermost first
  died,     \* the process ended
  awaits    \* coroutine -> the record it made since it was resumed (history)

waitVars == <<co, waits, started, calling, resumed, stack, died, awaits>>

WaitRecord ==
  [kind : {"timer", "get", "post"}, thread : Coroutines \cup {Dispatcher},
   state : {"unused", "pending", "calling", "lost", "freed"},
   ref : BOOLEAN, moves : 0 .. MaxRedirects]

WaitInit ==
  /\ co = [c \in Coroutines |-> "new"]
  /\ waits = [w \in Waits |-> [kind |-> "timer", thread |-> Dispatcher,
                               state |-> "unused", ref |-> FALSE, moves |-> 0]]
  /\ started = 0
  /\ calling = NoCall
  /\ resumed = FALSE
  /\ stack = <<>>
  /\ died = FALSE
  /\ awaits = [c \in Coroutines |-> NoCall]

\* No callback and no script is on the C stack: libevent may call the next one.
LoopIdle == ~died /\ calling = NoCall /\ stack = <<>>

Is(w, kind, state) == waits[w].kind = kind /\ waits[w].state = state
-----------------------------------------------------------------------------
(* Scripts                                                                 *)

\* Some other event, a connection's or a client request's, calls the dispatcher.
DispatchEvent ==
  /\ LoopIdle
  /\ stack' = <<Dispatcher>>
  /\ UNCHANGED <<co, waits, started, calling, resumed, died, awaits>>

\* coroutine.resume, called by a script.
ScriptResume(c) ==
  /\ ~died /\ Len(stack) = 1
  /\ co[c] = "new" \/ (c \notin OneWait /\ co[c] = "yield")
  /\ co' = [co EXCEPT ![c] = "running"]
  /\ stack' = <<c>> \o stack
  /\ awaits' = [awaits EXCEPT ![c] = NoCall]
  /\ UNCHANGED <<waits, started, calling, resumed, died>>

\* The innermost script gives control back: a coroutine yields or ends.
ScriptReturns ==
  /\ ~died /\ stack # <<>>
  /\ stack' = Tail(stack)
  /\ IF Head(stack) = Dispatcher
       THEN UNCHANGED co
       ELSE \E s \in {"yield", "dead"} : co' = [co EXCEPT ![Head(stack)] = s]
  /\ UNCHANGED <<waits, started, calling, resumed, died, awaits>>

\* The collector frees a coroutine that only waits could still reach.
Collect(c) ==
  /\ ~died /\ co[c] \in {"yield", "dead"}
  /\ \A w \in Waits : waits[w].ref => waits[w].thread # c
  /\ co' = [co EXCEPT ![c] = "collected"]
  /\ UNCHANGED <<waits, started, calling, resumed, stack, died, awaits>>

\* The threads a script may name in a call that starts a wait.
MayWait(c) ==
  /\ ~died /\ stack # <<>>
  /\ started < MaxWaits
  /\ \/ c = Dispatcher
     \/ /\ c \in Coroutines
        /\ IF c \in OneWait THEN Head(stack) = c /\ awaits[c] = NoCall
                      ELSE co[c] # "collected"

\* A new record for thread c, in the given state and with or without a reference.
AddWait(kind, c, state, ref) ==
  /\ started' = started + 1
  /\ waits' = [waits EXCEPT ![started + 1] =
                 [kind |-> kind, thread |-> c, state |-> state, ref |-> ref, moves |-> 0]]
  /\ awaits' = IF c = Dispatcher THEN awaits ELSE [awaits EXCEPT ![c] = started + 1]
  /\ UNCHANGED <<co, calling, resumed, stack, died>>

\* The process ends.
Dies ==
  /\ died' = TRUE
  /\ UNCHANGED <<co, waits, started, calling, resumed, stack, awaits>>

\* Mutant: the timer does not keep the coroutine alive.
WaitTime_NoRef(c) ==
  /\ MayWait(c)
  /\ IF c = Dispatcher THEN Dies ELSE AddWait("timer", c, "pending", FALSE)

\* lua_wait_time with a positive time; with 0 the call does nothing.  If its argument
\* is not a coroutine it pushes the thread NULL.
WaitTime(c) ==
  /\ MayWait(c)
  /\ IF c = Dispatcher THEN Dies ELSE AddWait("timer", c, "pending", TRUE)

\* What comes of a request on a new connection: evhttp queues it, or it fails and its
\* callback runs at once with NULL, or it is refused, or the process dies of an URL
\* that cannot be parsed.  A POST that failed at once is used all the same.
StartUrlRequest(kind) == {"pending", "lost", "dies", IF kind = "get" THEN "failed" ELSE "dies"}

\* send_http_get: a request that failed at once is freed and -1 returned.  The
\* return value of start_url_request is not looked at, so a refused request
\* counts as sent.
SendHttpGet(c) ==
  /\ MayWait(c)
  /\ \E s \in StartUrlRequest("get") :
       CASE s = "dies" -> Dies
         [] s = "failed" -> AddWait("get", c, "freed", FALSE)
         [] OTHER -> AddWait("get", c, s, c # Dispatcher)

\* send_http_post.
SendHttpPost(c) ==
  /\ MayWait(c)
  /\ \E s \in StartUrlRequest("post") :
       IF s = "dies" THEN Dies ELSE AddWait("post", c, s, c # Dispatcher)

\* connect2websocket: a GET without a coroutine, whose outcome is not looked at.
Connect2Websocket ==
  /\ MayWait(Dispatcher)
  /\ \E s \in StartUrlRequest("get") :
       IF s = "dies" THEN Dies
                     ELSE AddWait("get", Dispatcher, IF s = "failed" THEN "lost" ELSE s, FALSE)
-----------------------------------------------------------------------------
(* Callbacks                                                               *)

\* The callback of w calls the script of thread c: the dispatcher, or the
\* coroutine if it is yielded; a coroutine that is not is passed over.
CallScript(w, c) ==
  /\ calling' = w
  /\ waits' = [waits EXCEPT ![w].state = "calling"]
  /\ resumed' = (c # Dispatcher /\ co[c] = "yield")
  /\ stack' = IF c = Dispatcher \/ resumed' THEN <<c>> ELSE <<>>
  /\ co' = IF resumed' THEN [co EXCEPT ![c] = "running"] ELSE co
  /\ awaits' = IF resumed' THEN [awaits EXCEPT ![c] = NoCall] ELSE awaits
  /\ UNCHANGED <<started, died>>

\* The record of w leaves the state "pending" and no script is called.
Settle(w, state) ==
  /\ waits' = [waits EXCEPT ![w].state = state]
  /\ UNCHANGED <<co, started, calling, resumed, stack, died, awaits>>

\* Mutant: the test of lua_status is the wrong way round.
WaitTimer_NotYielded(w) ==
  /\ LoopIdle
  /\ Is(w, "timer", "pending")
  /\ waits' = [waits EXCEPT ![w].state = "freed", ![w].ref = FALSE]
  /\ UNCHANGED <<co, started, calling, resumed, stack, died, awaits>>

\* _lua_wait_timer_cb, up to the end of lua_resume.
WaitTimer(w) ==
  /\ LoopIdle
  /\ Is(w, "timer", "pending")
  /\ CallScript(w, waits[w].thread)

\* A moved request starts again on a new connection, for the new location; there may
\* be none.
Restart(w) ==
  /\ waits[w].moves < MaxRedirects
  /\ \/ /\ waits' = [waits EXCEPT ![w].moves = @ + 1]
        /\ UNCHANGED <<co, started, calling, resumed, stack, died, awaits>>
     \/ Settle(w, "lost")
     \/ Dies

\* get_cb: 301 and 302 start the request again, any other answer goes to the
\* coroutine or to the dispatcher.
GetCb(w) ==
  /\ LoopIdle
  /\ Is(w, "get", "pending")
  /\ CallScript(w, waits[w].thread) \/ Restart(w)

\* post_cb: the answer goes to the dispatcher whoever asked; 301 frees the
\* request without a word and 302 starts it again.
PostCb(w) ==
  /\ LoopIdle
  /\ Is(w, "post", "pending")
  /\ CallScript(w, Dispatcher) \/ Settle(w, "freed") \/ Restart(w)

\* http_requset_get_cb and http_requset_post_cb with NULL: evhttp gave up on
\* the request, and the record is forgotten.
GiveUp(w) ==
  /\ LoopIdle
  /\ waits[w].kind # "timer" /\ waits[w].state = "pending"
  /\ Settle(w, "lost")

\* The callback of a record in the given state, with its reference kept or not,
\* gives control back to libevent.
LeaveCallback(state, ref) ==
  /\ ~died /\ calling # NoCall
  /\ stack = <<>>
  /\ waits' = [waits EXCEPT ![calling].state = state, ![calling].ref = @ /\ ref]
  /\ calling' = NoCall
  /\ resumed' = FALSE
  /\ UNCHANGED <<co, started, stack, died, awaits>>

\* Mutant: a timer drops its reference only if the coroutine was yielded.
CallbackEnds_TimerLikeGet == LeaveCallback("freed", ~resumed)

\* Mutant: a timer is a persistent event, is not freed and fires again.
CallbackEnds_Persist ==
  LeaveCallback(IF waits[calling].kind = "timer" THEN "pending" ELSE "freed",
                waits[calling].kind = "timer" \/ ~resumed)

\* Mutant: the record is freed only if the coroutine was yielded.
CallbackEnds_KeepsRecord ==
  LeaveCallback(IF resumed THEN "freed" ELSE "calling", ~resumed)

\* The script is back in the callback: the reference is dropped (by a timer
\* always, by a GET if the coroutine was yielded, by a POST never), then the
\* record is freed.
CallbackEnds ==
  LeaveCallback("freed", waits[calling].kind # "timer" /\ ~resumed)
-----------------------------------------------------------------------------
Callback(w) == WaitTimer(w) \/ GetCb(w) \/ PostCb(w) \/ GiveUp(w)

WaitNext ==
  \/ DispatchEvent \/ ScriptReturns \/ CallbackEnds \/ Connect2Websocket
  \/ \E c \in Coroutines : ScriptResume(c) \/ Collect(c)
  \/ \E c \in Coroutines \cup {Dispatcher} :
       WaitTime(c) \/ SendHttpGet(c) \/ SendHttpPost(c)
  \/ \E w \in Waits : Callback(w)

\* Scripts and callbacks end, also a script that keeps resuming coroutines (SF on
\* the outermost one).  libevent serves a due timer and a finished request
\* although other events keep the loop busy (SF); evhttp answers every request it
\* queued or gives it up when the connection times out.
WaitFairness ==
  /\ WF_waitVars(ScriptReturns) /\ SF_waitVars(Len(stack) = 1 /\ ScriptReturns)
  /\ WF_waitVars(CallbackEnds)
  /\ \A w \in Waits : SF_waitVars(Callback(w))

WaitSpec == WaitInit /\ [][WaitNext]_waitVars /\ WaitFairness
-----------------------------------------------------------------------------
\* Coroutines, records and scripts are what their declarations allow, and the record in
\* use by a callback is the one of the callback on the C stack.
RecordsOK ==
  /\ co \in [Coroutines -> {"new", "running", "yield", "dead", "collected"}]
  /\ waits \in [Waits -> WaitRecord]
  /\ started \in 0 .. MaxWaits
  /\ calling \in Waits \cup {NoCall} /\ resumed \in BOOLEAN
  /\ stack \in Seq(Coroutines \cup {Dispatcher}) /\ Len(stack) <= 2
  /\ awaits \in [Coroutines -> Waits \cup {NoCall}]
  /\ \A w \in Waits : waits[w].state = "calling" <=> calling = w

\* The type invariant: that, and the state of the process.
WaitTypeOK == RecordsOK /\ died \in BOOLEAN

\* No callback is left for a coroutine the collector freed: a timer or a GET keeps
\* its coroutine from the moment it starts until its callback is over.
WaitsKeepCoroutines ==
  \A w \in Waits :
    waits[w].state \in {"pending", "calling"} /\ waits[w].thread \in Coroutines
      => co[waits[w].thread] # "collected"

\* For a coroutine that starts one wait at a time, a reference outlives its record in
\* two cases only: a POST, and a GET whose coroutine ended without waiting for the
\* answer.  A timer always returns its reference.  (A forgotten request keeps both
\* its record and its reference.)
ReferenceReturned ==
  \A w \in Waits :
    waits[w].thread \in OneWait /\ waits[w].ref /\ waits[w].state = "freed" =>
      \/ waits[w].kind = "post"
      \/ waits[w].kind = "get" /\ co[waits[w].thread] = "dead"

\* When a coroutine starts one wait and yields, what resumes it is that wait:
\* never an earlier request, a moved one or a timer that was already served.
RightWake ==
  [][\A c \in OneWait :
       co[c] = "yield" /\ co'[c] = "running" =>
         awaits[c] # NoCall /\ calling' = awaits[c]]_waitVars

\* The record a coroutine waits for is a timer or a GET, in the given state.
Awaits(c, state) ==
  /\ awaits[c] # NoCall
  /\ waits[awaits[c]].kind \in {"timer", "get"} /\ waits[awaits[c]].state = state

\* A coroutine that yields for a timer or a GET is resumed, unless evhttp gives
\* the GET up or refuses it: then nothing ever resumes the coroutine.  Or a script
\* ends the process first.
WaitEnds ==
  \A c \in OneWait :
    (co[c] = "yield" /\ Awaits(c, "pending")) ~>
      (co[c] # "yield" \/ Awaits(c, "lost") \/ died)
=============================================================================
