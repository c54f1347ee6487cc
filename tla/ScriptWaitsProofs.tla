-------------------------- MODULE ScriptWaitsProofs --------------------------
(***************************************************************************)
(* Theorems about ScriptWaits for any number of coroutines, timers,        *)
(* requests and redirections: a callback never meets a collected           *)
(* coroutine, references come back, and a coroutine is woken by the wait   *)
(* it made.                                                                *)
(***************************************************************************)
EXTENDS ScriptWaits, TLAPS

Threads == Coroutines \cup {Dispatcher}

\* Records are made in order.
FreshInv == \A w \in Waits : w > started => waits[w].state = "unused" /\ ~waits[w].ref

\* The running coroutines are the ones on the stack, each once.
StackInv ==
  /\ \A i \in DOMAIN stack : stack[i] \in Coroutines => co[stack[i]] = "running"
  /\ \A i, j \in DOMAIN stack : i # j => stack[i] # stack[j]
  /\ \A c \in Coroutines : co[c] = "running" => \E i \in DOMAIN stack : stack[i] = c

\* A record that has still to call its coroutine has its reference.
HeldInv ==
  \A w \in Waits :
    waits[w].state \in {"pending", "calling"} /\ waits[w].thread \in Coroutines
      => waits[w].ref

\* A coroutine that starts one wait at a time has run, and waits for no other.
OneInv ==
  \A w \in Waits :
    waits[w].thread \in OneWait =>
      /\ co[waits[w].thread] # "new"
      /\ waits[w].state = "pending" => awaits[waits[w].thread] = w

\* A GET that passes its coroutine over passes over one that has ended.
PassedInv ==
  calling # NoCall /\ waits[calling].kind = "get" /\ ~resumed
    /\ waits[calling].thread \in OneWait
      => co[waits[calling].thread] = "dead"

\* The inductive invariant.
WaitInv == RecordsOK /\ FreshInv /\ StackInv /\ HeldInv /\ WaitsKeepCoroutines
             /\ OneInv /\ PassedInv /\ ReferenceReturned
-----------------------------------------------------------------------------
\* Nothing waits when the server starts.
LEMMA InitWaitInv == WaitInit => WaitInv
<1> SUFFICES ASSUME WaitInit PROVE WaitInv
  OBVIOUS
<1> USE DispatcherAssumption, WaitBoundAssumption, OneWaitAssumption DEF WaitInit
<1>1. RecordsOK
  <2>1. waits \in [Waits -> WaitRecord]
    BY DEF WaitRecord
  <2>2. \A w \in Waits : waits[w].state = "unused" /\ calling # w
    BY DEF Waits, NoCall
  <2>3. /\ co \in [Coroutines -> {"new", "running", "yield", "dead", "collected"}]
        /\ started \in 0 .. MaxWaits
        /\ calling \in Waits \cup {NoCall}
        /\ awaits \in [Coroutines -> Waits \cup {NoCall}]
    OBVIOUS
  <2>4. stack \in Seq(Coroutines \cup {Dispatcher}) /\ Len(stack) <= 2
    OBVIOUS
  <2>5. resumed \in BOOLEAN
    OBVIOUS
  <2>6. QED
    BY <2>1, <2>2, <2>3, <2>4, <2>5 DEF RecordsOK
<1>2. FreshInv
  BY DEF FreshInv
<1>3. StackInv
  BY DEF StackInv
<1>4. HeldInv /\ WaitsKeepCoroutines
  BY DEF HeldInv, WaitsKeepCoroutines
<1>5. OneInv /\ PassedInv /\ ReferenceReturned
  BY DEF OneInv, PassedInv, ReferenceReturned
<1>6. QED
  BY <1>1, <1>2, <1>3, <1>4, <1>5 DEF WaitInv

\* A script of thread c starts a wait: its record is new, and c, if it is a
\* coroutine, is not collected.
LEMMA AddStep ==
  ASSUME WaitInv, NEW kind \in {"timer", "get", "post"}, NEW c \in Threads,
         NEW state \in {"pending", "lost", "freed"}, NEW ref \in BOOLEAN,
         state = "pending" /\ c \in Coroutines => ref,
         state = "freed" => ~ref,
         MayWait(c), AddWait(kind, c, state, ref)
  PROVE  WaitInv'
<1> USE DispatcherAssumption, WaitBoundAssumption, OneWaitAssumption
<1>0. PICK n \in Waits : n = started + 1
  BY DEF WaitInv, RecordsOK, MayWait, Waits
<1>1. /\ waits[n].state = "unused" /\ calling # n /\ n # NoCall
      /\ waits \in [Waits -> WaitRecord]
      /\ \A w \in Waits : w > n => w > started
  BY <1>0 DEF WaitInv, RecordsOK, FreshInv, Waits, NoCall
<1>2. /\ waits' = [waits EXCEPT ![n] = [kind |-> kind, thread |-> c, state |-> state,
                                        ref |-> ref, moves |-> 0]]
      /\ started' = n
      /\ UNCHANGED <<co, calling, resumed, stack>>
      /\ \A d \in Coroutines : awaits'[d] = IF d = c THEN n ELSE awaits[d]
  BY <1>0 DEF AddWait, WaitInv, RecordsOK
<1>3. /\ waits'[n].kind = kind /\ waits'[n].thread = c
      /\ waits'[n].state = state /\ waits'[n].ref = ref
      /\ \A w \in Waits : w # n => waits'[w] = waits[w]
  BY <1>1, <1>2
<1>4. c \in Coroutines => co[c] # "collected"
  <2>1. ASSUME c \in OneWait PROVE co[c] = "running"
    <3>1. stack # <<>> /\ Head(stack) = c /\ stack \in Seq(Threads)
      BY <2>1, DispatcherAssumption DEF MayWait, WaitInv, RecordsOK, Threads
    <3>2. 1 \in DOMAIN stack /\ stack[1] = c
      BY <3>1
    <3>3. QED
      BY <2>1, <3>2 DEF WaitInv, StackInv
  <2>2. ASSUME c \in Coroutines, c \notin OneWait PROVE co[c] # "collected"
    BY <2>2 DEF MayWait
  <2>3. QED
    BY <2>1, <2>2
<1>5. c \in OneWait => co[c] # "new" /\ awaits[c] = NoCall
  <2> SUFFICES ASSUME c \in OneWait PROVE co[c] # "new" /\ awaits[c] = NoCall
    OBVIOUS
  <2>1. stack # <<>> /\ Head(stack) = c /\ stack \in Seq(Threads) /\ awaits[c] = NoCall
    BY DEF MayWait, WaitInv, RecordsOK, Threads
  <2>2. 1 \in DOMAIN stack /\ stack[1] = c
    BY <2>1
  <2>3. QED
    BY <2>1, <2>2 DEF WaitInv, StackInv
<1>6. RecordsOK'
  <2>1. waits' \in [Waits -> WaitRecord]
    BY <1>1, <1>2 DEF WaitRecord, Threads
  <2>2. started' \in 0 .. MaxWaits
    BY <1>2 DEF Waits
  <2>3. awaits' \in [Coroutines -> Waits \cup {NoCall}]
    BY <1>0 DEF AddWait, WaitInv, RecordsOK, Threads
  <2>4. \A w \in Waits : waits'[w].state = "calling" <=> calling = w
    BY <1>1, <1>3 DEF WaitInv, RecordsOK
  <2>5. QED
    BY <1>2, <2>1, <2>2, <2>3, <2>4 DEF WaitInv, RecordsOK
<1>7. FreshInv'
  <2>1. \A w \in Waits : w > n => w # n
    BY DEF Waits
  <2>2. QED
    BY <1>1, <1>2, <1>3, <2>1 DEF WaitInv, FreshInv
<1>8. StackInv'
  BY <1>2 DEF WaitInv, StackInv
<1>9. HeldInv'
  BY <1>3 DEF WaitInv, HeldInv
<1>10. WaitsKeepCoroutines'
  BY <1>2, <1>3, <1>4 DEF WaitInv, WaitsKeepCoroutines
<1>11. OneInv'
  <2> SUFFICES ASSUME NEW w \in Waits, waits'[w].thread \in OneWait
               PROVE  /\ co[waits'[w].thread] # "new"
                      /\ waits'[w].state = "pending" => awaits'[waits'[w].thread] = w
    BY <1>2 DEF OneInv
  <2>1. CASE w = n
    BY <1>2, <1>3, <1>5, <2>1
  <2>2. CASE w # n
    <3>1. waits'[w] = waits[w] /\ waits[w].thread \in Coroutines
      BY <1>3, <2>2
    <3>2. CASE waits[w].thread # c
      BY <1>2, <3>1, <3>2 DEF WaitInv, OneInv
    <3>3. CASE waits[w].thread = c
      <4>1. awaits[c] = NoCall /\ w # NoCall
        BY <1>5, <3>1, <3>3 DEF Waits, NoCall
      <4>2. QED
        BY <3>1, <3>3, <4>1 DEF WaitInv, OneInv
    <3>4. QED
      BY <3>2, <3>3
  <2>3. QED
    BY <2>1, <2>2
<1>12. PassedInv'
  BY <1>1, <1>2, <1>3 DEF WaitInv, PassedInv, RecordsOK
<1>13. ReferenceReturned'
  BY <1>2, <1>3 DEF WaitInv, ReferenceReturned
<1>14. QED
  BY <1>6, <1>7, <1>8, <1>9, <1>10, <1>11, <1>12, <1>13 DEF WaitInv

\* A callback calls the script of its coroutine, of the dispatcher or of nobody: a
\* coroutine that is passed over has ended, because nothing runs on an idle loop.
LEMMA CallStep ==
  ASSUME WaitInv, LoopIdle, NEW w \in Waits, waits[w].state = "pending",
         NEW c \in Threads, CallScript(w, c),
         c = waits[w].thread \/ (c = Dispatcher /\ waits[w].kind = "post")
  PROVE  /\ WaitInv'
         /\ \A d \in OneWait : co[d] = "yield" /\ co'[d] = "running" =>
              awaits[d] # NoCall /\ calling' = awaits[d]
<1> USE DispatcherAssumption, WaitBoundAssumption, OneWaitAssumption
<1>1. /\ waits \in [Waits -> WaitRecord] /\ w # NoCall
      /\ calling = NoCall /\ stack = <<>> /\ calling' = w
      /\ co \in [Coroutines -> {"new", "running", "yield", "dead", "collected"}]
      /\ awaits \in [Coroutines -> Waits \cup {NoCall}]
  BY DEF WaitInv, RecordsOK, LoopIdle, CallScript, Waits, NoCall
<1>2. /\ waits' \in [Waits -> WaitRecord]
      /\ waits'[w].state = "calling"
      /\ \A x \in Waits : x # w => waits'[x].state = waits[x].state
      /\ \A x \in Waits : /\ waits'[x].kind = waits[x].kind
                           /\ waits'[x].thread = waits[x].thread
                           /\ waits'[x].ref = waits[x].ref
  BY <1>1 DEF CallScript, WaitRecord
<1>3. UNCHANGED started
  BY DEF CallScript
<1>4. \A d \in Coroutines : co[d] # "running"
  BY <1>1 DEF WaitInv, StackInv
<1>5. \A x \in Waits : waits[x].state # "calling"
  BY <1>1 DEF WaitInv, RecordsOK, Waits, NoCall
<1>6. FreshInv'
  BY <1>2, <1>3 DEF WaitInv, FreshInv
<1>7. HeldInv'
  BY <1>2 DEF WaitInv, HeldInv
<1>8. CASE c \in Coroutines /\ co[c] = "yield"
  <2>1. c # Dispatcher /\ c = waits[w].thread
    BY <1>8
  <2>2. resumed' /\ resumed' \in BOOLEAN
    BY <1>8, <2>1 DEF CallScript
  <2>3. stack' = <<c>>
    BY <2>2 DEF CallScript
  <2>4. /\ co' = [co EXCEPT ![c] = "running"]
        /\ awaits' = [awaits EXCEPT ![c] = NoCall]
    BY <2>2 DEF CallScript
  <2>5. /\ \A d \in Coroutines : co'[d] = IF d = c THEN "running" ELSE co[d]
        /\ \A d \in Coroutines : awaits'[d] = IF d = c THEN NoCall ELSE awaits[d]
    BY <1>1, <1>8, <2>4
  <2>6. RecordsOK'
    <3>1. stack' \in Seq(Coroutines \cup {Dispatcher}) /\ Len(stack') <= 2
      BY <1>8, <2>3
    <3>2. /\ co' \in [Coroutines -> {"new", "running", "yield", "dead", "collected"}]
          /\ awaits' \in [Coroutines -> Waits \cup {NoCall}]
      BY <1>1, <1>8, <2>4
    <3>3. \A x \in Waits : waits'[x].state = "calling" <=> calling' = x
      BY <1>1, <1>2, <1>5
    <3>4. started' \in 0 .. MaxWaits
      BY <1>3 DEF WaitInv, RecordsOK
    <3>5. QED
      BY <1>1, <1>2, <2>2, <3>1, <3>2, <3>3, <3>4 DEF RecordsOK
  <2>7. StackInv'
    BY <1>4, <1>8, <2>3, <2>5 DEF StackInv
  <2>8. WaitsKeepCoroutines'
    BY <1>2, <1>8, <2>5 DEF WaitInv, WaitsKeepCoroutines
  <2>9. OneInv'
    <3> SUFFICES ASSUME NEW x \in Waits, waits[x].thread \in OneWait
                 PROVE  /\ co'[waits[x].thread] # "new"
                        /\ waits'[x].state = "pending" => awaits'[waits[x].thread] = x
      BY <1>2 DEF OneInv
    <3>1. co'[waits[x].thread] # "new"
      BY <2>5 DEF WaitInv, OneInv
    <3>2. ASSUME waits'[x].state = "pending" PROVE awaits'[waits[x].thread] = x
      <4>1. x # w /\ waits[x].state = "pending"
        BY <1>2, <3>2
      <4>2. awaits[waits[x].thread] = x
        BY <4>1 DEF WaitInv, OneInv
      <4>3. waits[x].thread # c
        BY <2>1, <4>1, <4>2 DEF WaitInv, OneInv
      <4>4. QED
        BY <2>5, <4>2, <4>3
    <3>3. QED
      BY <3>1, <3>2
  <2>10. PassedInv'
    BY <2>2 DEF PassedInv
  <2>11. ReferenceReturned'
    BY <1>2, <1>8, <2>5 DEF WaitInv, ReferenceReturned
  <2>12. \A d \in OneWait : co[d] = "yield" /\ co'[d] = "running" =>
           awaits[d] # NoCall /\ calling' = awaits[d]
    <3> SUFFICES ASSUME NEW d \in OneWait, co[d] = "yield", co'[d] = "running"
                 PROVE  awaits[d] # NoCall /\ calling' = awaits[d]
      OBVIOUS
    <3>1. d = c
      BY <2>5
    <3>2. awaits[d] = w
      BY <2>1, <3>1 DEF WaitInv, OneInv
    <3>3. QED
      BY <1>1, <3>2
  <2>13. QED
    BY <1>6, <1>7, <2>6, <2>7, <2>8, <2>9, <2>10, <2>11, <2>12 DEF WaitInv
<1>9. CASE c = Dispatcher \/ co[c] # "yield"
  <2>1. resumed' = FALSE
    BY <1>9 DEF CallScript
  <2>2. UNCHANGED <<co, awaits>> /\ stack' = IF c = Dispatcher THEN <<c>> ELSE <<>>
    BY <2>1 DEF CallScript
  <2>3. RecordsOK'
    <3>1. stack' \in Seq(Coroutines \cup {Dispatcher}) /\ Len(stack') <= 2
      <4>1. CASE c = Dispatcher
        BY <2>2, <4>1
      <4>2. CASE c # Dispatcher
        BY <2>2, <4>2
      <4>3. QED
        BY <4>1, <4>2
    <3>2. \A x \in Waits : waits'[x].state = "calling" <=> calling' = x
      BY <1>1, <1>2, <1>5
    <3>3. started' \in 0 .. MaxWaits
      BY <1>3 DEF WaitInv, RecordsOK
    <3>4. resumed' \in BOOLEAN
      BY <2>1
    <3>5. QED
      BY <1>1, <1>2, <2>2, <3>1, <3>2, <3>3, <3>4 DEF RecordsOK
  <2>4. StackInv'
    BY <1>4, <2>2 DEF StackInv
  <2>5. WaitsKeepCoroutines'
    BY <1>2, <2>2 DEF WaitInv, WaitsKeepCoroutines
  <2>6. OneInv'
    BY <1>2, <2>2 DEF WaitInv, OneInv
  <2>7. PassedInv'
    <3> SUFFICES ASSUME waits[w].kind = "get", waits[w].thread \in OneWait
                 PROVE  co[waits[w].thread] = "dead"
      BY <1>1, <1>2, <2>2 DEF PassedInv
    <3>1. c = waits[w].thread /\ c \in Coroutines /\ co[c] # "yield"
      BY <1>9
    <3>2. co[c] # "new" /\ co[c] # "collected"
      BY <3>1 DEF WaitInv, OneInv, WaitsKeepCoroutines
    <3>3. QED
      BY <1>1, <1>4, <3>1, <3>2
  <2>8. ReferenceReturned'
    BY <1>2, <2>2 DEF WaitInv, ReferenceReturned
  <2>9. QED
    BY <1>6, <1>7, <2>2, <2>3, <2>4, <2>5, <2>6, <2>7, <2>8 DEF WaitInv
<1>10. QED
  BY <1>8, <1>9 DEF Threads

\* A pending request is moved, forgotten, or freed without a word: no script runs.
LEMMA SettleStep ==
  ASSUME WaitInv, NEW w \in Waits, waits[w].state = "pending",
         NEW state \in {"pending", "lost", "freed"}, NEW moves \in 0 .. MaxRedirects,
         state = "freed" => waits[w].kind = "post",
         waits' = [waits EXCEPT ![w].state = state, ![w].moves = moves],
         UNCHANGED <<co, started, calling, resumed, stack, awaits>>
  PROVE  WaitInv'
<1> USE DispatcherAssumption, WaitBoundAssumption, OneWaitAssumption
<1>1. waits \in [Waits -> WaitRecord]
  BY DEF WaitInv, RecordsOK
<1>2. /\ waits' \in [Waits -> WaitRecord]
      /\ waits'[w].state = state
      /\ \A x \in Waits : x # w => waits'[x].state = waits[x].state
      /\ \A x \in Waits : /\ waits'[x].kind = waits[x].kind
                           /\ waits'[x].thread = waits[x].thread
                           /\ waits'[x].ref = waits[x].ref
  BY <1>1 DEF WaitRecord
<1>3. RecordsOK'
  BY <1>2 DEF WaitInv, RecordsOK
<1>4. FreshInv'
  BY <1>2 DEF WaitInv, FreshInv
<1>5. StackInv'
  BY DEF WaitInv, StackInv
<1>6. HeldInv'
  BY <1>2 DEF WaitInv, HeldInv
<1>7. WaitsKeepCoroutines'
  BY <1>2 DEF WaitInv, WaitsKeepCoroutines
<1>8. OneInv'
  BY <1>2 DEF WaitInv, OneInv
<1>9. PassedInv'
  BY <1>2 DEF WaitInv, PassedInv, RecordsOK
<1>10. ReferenceReturned'
  BY <1>2 DEF WaitInv, ReferenceReturned
<1>11. QED
  BY <1>3, <1>4, <1>5, <1>6, <1>7, <1>8, <1>9, <1>10 DEF WaitInv

\* A callback ends: a timer returns its reference, a GET does if it resumed its
\* coroutine.
LEMMA EndStep ==
  ASSUME WaitInv, CallbackEnds
  PROVE  WaitInv'
<1> USE DispatcherAssumption, WaitBoundAssumption, OneWaitAssumption
<1> USE DEF CallbackEnds, LeaveCallback
<1>1. /\ waits \in [Waits -> WaitRecord] /\ calling \in Waits /\ stack = <<>>
      /\ UNCHANGED <<co, started, stack, awaits>> /\ calling' = NoCall
      /\ resumed \in BOOLEAN
  BY DEF WaitInv, RecordsOK
<1>2. PICK w \in Waits : w = calling
  BY <1>1
<1>3. waits[w].ref \in BOOLEAN /\ waits[w].state = "calling"
  BY <1>1, <1>2 DEF WaitInv, RecordsOK, WaitRecord
<1>4. PICK r \in BOOLEAN : r = (waits[w].ref /\ waits[w].kind # "timer" /\ ~resumed)
  OBVIOUS
<1>5. waits' = [waits EXCEPT ![w].state = "freed", ![w].ref = r]
  BY <1>2, <1>3, <1>4
<1>6. resumed' \in BOOLEAN
  OBVIOUS
<1> HIDE DEF CallbackEnds, LeaveCallback
<1>7. /\ waits' \in [Waits -> WaitRecord]
      /\ waits'[w].state = "freed" /\ waits'[w].ref = r
      /\ \A x \in Waits : x # w => /\ waits'[x].state = waits[x].state
                                   /\ waits'[x].ref = waits[x].ref
      /\ \A x \in Waits : /\ waits'[x].kind = waits[x].kind
                           /\ waits'[x].thread = waits[x].thread
  BY <1>1, <1>5, ZenonT(30) DEF WaitRecord
<1>8. RecordsOK'
  <2>1. \A x \in Waits : waits'[x].state = "calling" <=> calling' = x
    BY <1>1, <1>2, <1>7 DEF WaitInv, RecordsOK, Waits, NoCall
  <2>2. QED
    BY <1>1, <1>6, <1>7, <2>1 DEF WaitInv, RecordsOK
<1>9. FreshInv'
  BY <1>1, <1>3, <1>7 DEF WaitInv, FreshInv
<1>10. StackInv'
  BY <1>1 DEF WaitInv, StackInv
<1>11. HeldInv'
  BY <1>7 DEF WaitInv, HeldInv
<1>12. WaitsKeepCoroutines'
  BY <1>1, <1>7 DEF WaitInv, WaitsKeepCoroutines
<1>13. OneInv'
  BY <1>1, <1>7 DEF WaitInv, OneInv
<1>14. PassedInv'
  BY <1>1 DEF PassedInv
<1>15. ReferenceReturned'
  <2> SUFFICES ASSUME NEW x \in Waits, waits[x].thread \in OneWait, waits'[x].ref,
                      waits'[x].state = "freed"
               PROVE  \/ waits[x].kind = "post"
                      \/ waits[x].kind = "get" /\ co[waits[x].thread] = "dead"
    BY <1>1, <1>7 DEF ReferenceReturned
  <2>1. CASE x = w
    <3>1. waits[w].kind # "timer" /\ ~resumed
      BY <1>4, <1>7, <2>1
    <3>2. waits[w].kind \in {"get", "post"}
      BY <1>1, <3>1 DEF WaitRecord
    <3>3. QED
      BY <1>1, <1>2, <2>1, <3>1, <3>2 DEF WaitInv, PassedInv, Waits, NoCall
  <2>2. CASE x # w
    BY <1>7, <2>2 DEF WaitInv, ReferenceReturned
  <2>3. QED
    BY <2>1, <2>2
<1>16. QED
  BY <1>8, <1>9, <1>10, <1>11, <1>12, <1>13, <1>14, <1>15 DEF WaitInv

\* A script under another: the indices of the stack.
LEMMA PushElements ==
  ASSUME NEW S, NEW q \in Seq(S), NEW t \in S
  PROVE  /\ <<t>> \o q \in Seq(S) /\ Len(<<t>> \o q) = Len(q) + 1
         /\ 1 \in DOMAIN (<<t>> \o q) /\ (<<t>> \o q)[1] = t
         /\ \A i \in DOMAIN q : /\ i + 1 \in DOMAIN (<<t>> \o q) /\ i \in Nat
                                /\ (<<t>> \o q)[i + 1] = q[i]
         /\ \A i \in DOMAIN (<<t>> \o q) : i = 1 \/ (i \in Nat /\ i - 1 \in DOMAIN q)
  OBVIOUS

\* The innermost script is gone: the indices of the stack.
LEMMA PopElements ==
  ASSUME NEW S, NEW q \in Seq(S), q # <<>>
  PROVE  /\ Tail(q) \in Seq(S) /\ Len(Tail(q)) <= Len(q)
         /\ Head(q) \in S /\ 1 \in DOMAIN q /\ Head(q) = q[1]
         /\ \A i \in DOMAIN Tail(q) : /\ i + 1 \in DOMAIN q /\ Tail(q)[i] = q[i + 1]
                                      /\ i \in Nat /\ i + 1 # 1
         /\ \A i \in DOMAIN q : i = 1 \/ (i \in Nat /\ i - 1 \in DOMAIN Tail(q))
  OBVIOUS

\* Steps that leave the records alone keep what is said of them, if a coroutine a
\* record can still reach is not collected or made new, and the ended stay ended.
LEMMA RecordsKept ==
  ASSUME WaitInv, UNCHANGED <<waits, started, calling, resumed>>,
         RecordsOK', StackInv',
         \A c \in Coroutines : /\ co[c] # "new" => co'[c] # "new"
                               /\ co[c] # "new" /\ c \in OneWait => awaits'[c] = awaits[c]
                               /\ co[c] = "dead" => \/ co'[c] = "dead"
                                                    \/ \A w \in Waits : waits[w].ref => waits[w].thread # c
                               /\ co'[c] = "collected" =>
                                    \/ co[c] = "collected"
                                    \/ \A w \in Waits : waits[w].ref => waits[w].thread # c
  PROVE  WaitInv'
<1> USE OneWaitAssumption
<1>1. FreshInv' /\ HeldInv'
  BY DEF WaitInv, FreshInv, HeldInv
<1>2. WaitsKeepCoroutines'
  BY DEF WaitInv, HeldInv, WaitsKeepCoroutines
<1>3. OneInv'
  BY DEF WaitInv, OneInv
<1>4. PassedInv'
  <2> SUFFICES ASSUME calling # NoCall, waits[calling].kind = "get", ~resumed,
                      waits[calling].thread \in OneWait
               PROVE  co'[waits[calling].thread] = "dead"
    BY DEF PassedInv
  <2>1. calling \in Waits /\ waits[calling].state = "calling"
    BY DEF WaitInv, RecordsOK
  <2>2. waits[calling].ref /\ co[waits[calling].thread] = "dead"
    BY <2>1 DEF WaitInv, HeldInv, PassedInv
  <2>3. QED
    BY <2>1, <2>2
<1>5. ReferenceReturned'
  BY DEF WaitInv, ReferenceReturned
<1>6. QED
  BY <1>1, <1>2, <1>3, <1>4, <1>5 DEF WaitInv

\* Scripts start, resume a coroutine and return, and the collector runs.
LEMMA ScriptStep ==
  ASSUME WaitInv,
         \/ DispatchEvent \/ ScriptReturns
         \/ \E c \in Coroutines : ScriptResume(c) \/ Collect(c)
  PROVE  /\ WaitInv'
         /\ \A d \in OneWait : ~(co[d] = "yield" /\ co'[d] = "running")
<1> USE DispatcherAssumption, WaitBoundAssumption, OneWaitAssumption
<1>0. /\ stack \in Seq(Threads) /\ Len(stack) <= 2
      /\ co \in [Coroutines -> {"new", "running", "yield", "dead", "collected"}]
      /\ awaits \in [Coroutines -> Waits \cup {NoCall}]
  BY DEF WaitInv, RecordsOK, Threads
<1>1. UNCHANGED <<waits, started, calling, resumed>>
  BY DEF DispatchEvent, ScriptReturns, ScriptResume, Collect
<1>2. CASE DispatchEvent
  <2>1. stack = <<>> /\ stack' = <<Dispatcher>> /\ UNCHANGED <<co, awaits>>
    BY <1>2 DEF DispatchEvent, LoopIdle
  <2>2. StackInv'
    BY <2>1 DEF WaitInv, StackInv
  <2>3. stack' \in Seq(Threads) /\ Len(stack') <= 2
    BY <2>1 DEF Threads
  <2>4. RecordsOK'
    BY <1>1, <2>1, <2>3 DEF WaitInv, RecordsOK, Threads
  <2>5. QED
    BY <1>1, <2>1, <2>2, <2>4, RecordsKept
<1>3. ASSUME NEW c \in Coroutines, ScriptResume(c)
      PROVE  WaitInv' /\ \A d \in OneWait : ~(co[d] = "yield" /\ co'[d] = "running")
  <2>1. PICK q \in Seq(Threads), t \in Threads : q = stack /\ t = c
    BY <1>0 DEF Threads
  <2>2. /\ Len(q) = 1 /\ stack' = <<t>> \o q
        /\ co' = [co EXCEPT ![c] = "running"]
        /\ awaits' = [awaits EXCEPT ![c] = NoCall]
        /\ co[c] = "new" \/ (c \notin OneWait /\ co[c] = "yield")
    BY <1>3, <2>1 DEF ScriptResume
  <2>3. /\ \A d \in Coroutines : co'[d] = IF d = c THEN "running" ELSE co[d]
        /\ \A d \in Coroutines : awaits'[d] = IF d = c THEN NoCall ELSE awaits[d]
        /\ co' \in [Coroutines -> {"new", "running", "yield", "dead", "collected"}]
        /\ awaits' \in [Coroutines -> Waits \cup {NoCall}]
    BY <1>0, <2>2
  <2>4. /\ stack' \in Seq(Threads) /\ Len(stack') = Len(q) + 1
        /\ 1 \in DOMAIN stack' /\ stack'[1] = c
        /\ \A i \in DOMAIN q : /\ i + 1 \in DOMAIN stack' /\ i \in Nat
                               /\ stack'[i + 1] = q[i]
        /\ \A i \in DOMAIN stack' : i = 1 \/ (i \in Nat /\ i - 1 \in DOMAIN q)
    <3>1. /\ <<t>> \o q \in Seq(Threads) /\ Len(<<t>> \o q) = Len(q) + 1
          /\ 1 \in DOMAIN (<<t>> \o q) /\ (<<t>> \o q)[1] = t
          /\ \A i \in DOMAIN q : /\ i + 1 \in DOMAIN (<<t>> \o q) /\ i \in Nat
                                 /\ (<<t>> \o q)[i + 1] = q[i]
          /\ \A i \in DOMAIN (<<t>> \o q) : i = 1 \/ (i \in Nat /\ i - 1 \in DOMAIN q)
      BY PushElements
    <3>2. QED
      BY <2>1, <2>2, <3>1, Zenon
  <2>5. \A i \in DOMAIN q : q[i] # c
    BY <2>1, <2>2 DEF WaitInv, StackInv
  <2>6. \A i \in DOMAIN stack' : i # 1 => i - 1 \in DOMAIN q /\ i \in Nat /\ stack'[i] = q[i - 1]
    <3> SUFFICES ASSUME NEW i \in DOMAIN stack', i # 1
                 PROVE  i - 1 \in DOMAIN q /\ i \in Nat /\ stack'[i] = q[i - 1]
      OBVIOUS
    <3>1. i - 1 \in DOMAIN q /\ i \in Nat
      BY <2>4
    <3>2. stack'[(i - 1) + 1] = q[i - 1] /\ (i - 1) + 1 = i
      BY <2>4, <3>1
    <3>3. QED
      BY <3>1, <3>2
  <2>7. StackInv'
    <3>1. \A i \in DOMAIN stack' : stack'[i] \in Coroutines => co'[stack'[i]] = "running"
      <4> SUFFICES ASSUME NEW i \in DOMAIN stack', stack'[i] \in Coroutines
                   PROVE  co'[stack'[i]] = "running"
        OBVIOUS
      <4>1. CASE i = 1
        BY <2>3, <2>4, <4>1
      <4>2. CASE i # 1
        <5>1. PICK j \in DOMAIN q : stack'[i] = q[j]
          BY <2>6, <4>2
        <5>2. co[q[j]] = "running"
          BY <2>1, <5>1 DEF WaitInv, StackInv
        <5>3. QED
          BY <2>3, <5>1, <5>2
      <4>3. QED
        BY <4>1, <4>2
    <3>2. ASSUME NEW i \in DOMAIN stack', NEW j \in DOMAIN stack', i # j
          PROVE  stack'[i] # stack'[j]
      <4>1. CASE i = 1 \/ j = 1
        BY <2>4, <2>5, <2>6, <3>2, <4>1
      <4>2. CASE i # 1 /\ j # 1
        <5>1. i - 1 # j - 1
          BY <2>6, <3>2, <4>2
        <5>2. QED
          BY <2>1, <2>6, <4>2, <5>1 DEF WaitInv, StackInv
      <4>3. QED
        BY <4>1, <4>2
    <3>3. \A d \in Coroutines : co'[d] = "running" => \E i \in DOMAIN stack' : stack'[i] = d
      BY <2>1, <2>3, <2>4 DEF WaitInv, StackInv
    <3>4. QED
      BY <3>1, <3>2, <3>3 DEF StackInv
  <2>8. RecordsOK'
    <3>1. Len(stack') <= 2
      BY <2>2, <2>4
    <3>2. QED
      BY <1>1, <2>3, <2>4, <3>1 DEF WaitInv, RecordsOK, Threads
  <2>9. \A d \in Coroutines : co[d] # "new" /\ d \in OneWait => awaits'[d] = awaits[d]
    BY <2>2, <2>3
  <2>10. WaitInv'
    BY <1>1, <2>2, <2>3, <2>7, <2>8, <2>9, RecordsKept
  <2>11. QED
    BY <2>2, <2>3, <2>10
<1>4. CASE ScriptReturns
  <2>1. PICK q \in Seq(Threads), h \in Threads : q = stack /\ q # <<>> /\ h = Head(q)
    BY <1>0, <1>4, PopElements DEF ScriptReturns
  <2>2. stack' = Tail(q) /\ UNCHANGED awaits
    BY <1>4, <2>1 DEF ScriptReturns
  <2>3. PICK st \in {"yield", "dead"} :
          \A d \in Coroutines : co'[d] = IF d = h THEN st ELSE co[d]
    BY <1>0, <1>4, <2>1 DEF ScriptReturns
  <2>4. co' \in [Coroutines -> {"new", "running", "yield", "dead", "collected"}]
    BY <1>0, <1>4, <2>1 DEF ScriptReturns, Threads
  <2>5. /\ stack' \in Seq(Threads) /\ Len(stack') <= Len(q)
        /\ 1 \in DOMAIN q /\ h = q[1]
        /\ \A i \in DOMAIN stack' : /\ i + 1 \in DOMAIN q /\ stack'[i] = q[i + 1]
                                    /\ i \in Nat /\ i + 1 # 1
        /\ \A i \in DOMAIN q : i = 1 \/ (i \in Nat /\ i - 1 \in DOMAIN stack')
    BY <2>1, <2>2, PopElements
  <2>6. h \in Coroutines => co[h] = "running"
    BY <2>1, <2>5 DEF WaitInv, StackInv
  <2>7. StackInv'
    <3>1. ASSUME NEW i \in DOMAIN stack'
          PROVE  stack'[i] # h /\ (stack'[i] \in Coroutines => co'[stack'[i]] = "running")
      <4>1. stack'[i] # h
        BY <2>1, <2>5 DEF WaitInv, StackInv
      <4>2. stack'[i] \in Coroutines => co[stack'[i]] = "running"
        BY <2>1, <2>5 DEF WaitInv, StackInv
      <4>3. QED
        BY <2>3, <4>1, <4>2
    <3>2. ASSUME NEW i \in DOMAIN stack', NEW j \in DOMAIN stack', i # j
          PROVE  stack'[i] # stack'[j]
      <4>1. i + 1 # j + 1
        BY <2>5, <3>2
      <4>2. QED
        BY <2>1, <2>5, <4>1 DEF WaitInv, StackInv
    <3>3. ASSUME NEW d \in Coroutines, co'[d] = "running"
          PROVE  \E i \in DOMAIN stack' : stack'[i] = d
      <4>1. d # h /\ co[d] = "running"
        BY <2>3, <3>3
      <4>2. PICK i \in DOMAIN q : q[i] = d
        BY <2>1, <4>1 DEF WaitInv, StackInv
      <4>3. i \in Nat /\ i - 1 \in DOMAIN stack'
        BY <2>5, <4>1, <4>2
      <4>4. stack'[i - 1] = q[(i - 1) + 1] /\ (i - 1) + 1 = i
        BY <2>5, <4>3
      <4>5. QED
        BY <4>2, <4>3, <4>4
    <3>4. QED
      BY <3>1, <3>2, <3>3 DEF StackInv
  <2>8. RecordsOK'
    <3>1. Len(stack') <= 2
      BY <1>0, <2>1, <2>5
    <3>2. QED
      BY <1>1, <2>2, <2>4, <2>5, <3>1 DEF WaitInv, RecordsOK, Threads
  <2>9. WaitInv'
    BY <1>1, <2>2, <2>3, <2>6, <2>7, <2>8, RecordsKept
  <2>10. QED
    BY <2>3, <2>9
<1>5. ASSUME NEW c \in Coroutines, Collect(c)
      PROVE  WaitInv' /\ \A d \in OneWait : ~(co[d] = "yield" /\ co'[d] = "running")
  <2>1. /\ \A d \in Coroutines : co'[d] = IF d = c THEN "collected" ELSE co[d]
        /\ co' \in [Coroutines -> {"new", "running", "yield", "dead", "collected"}]
        /\ UNCHANGED <<stack, awaits>>
        /\ co[c] \in {"yield", "dead"}
    BY <1>0, <1>5 DEF Collect
  <2>2. \A w \in Waits : waits[w].ref => waits[w].thread # c
    BY <1>5 DEF Collect
  <2>3. StackInv'
    BY <2>1 DEF WaitInv, StackInv
  <2>4. RecordsOK'
    BY <1>1, <2>1 DEF WaitInv, RecordsOK
  <2>5. WaitInv'
    BY <1>1, <2>1, <2>2, <2>3, <2>4, RecordsKept
  <2>6. QED
    BY <2>1, <2>5
<1>6. QED
  BY <1>2, <1>3, <1>4, <1>5

\* A pending record that only changes its state, or only counts one more move.
LEMMA SettleForms ==
  ASSUME waits \in [Waits -> WaitRecord], NEW w \in Waits
  PROVE  /\ waits[w].moves \in 0 .. MaxRedirects
         /\ \A state \in {"lost", "freed"} :
              [waits EXCEPT ![w].state = state]
                = [waits EXCEPT ![w].state = state, ![w].moves = waits[w].moves]
         /\ waits[w].state = "pending" /\ waits[w].moves < MaxRedirects =>
              /\ waits[w].moves + 1 \in 0 .. MaxRedirects
              /\ [waits EXCEPT ![w].moves = @ + 1]
                   = [waits EXCEPT ![w].state = "pending", ![w].moves = waits[w].moves + 1]
<1> USE WaitBoundAssumption
<1>1. waits[w] \in WaitRecord
  OBVIOUS
<1>2. PICK r : r = waits[w] /\ r \in WaitRecord
  BY <1>1
<1>3. r.moves \in 0 .. MaxRedirects
  BY <1>2 DEF WaitRecord
<1>4. \A state \in {"lost", "freed"} :
        [r EXCEPT !.state = state] = [[r EXCEPT !.state = state] EXCEPT !.moves = r.moves]
  BY <1>2 DEF WaitRecord
<1>5. r.state = "pending" =>
        [r EXCEPT !.moves = r.moves + 1]
          = [[r EXCEPT !.state = "pending"] EXCEPT !.moves = r.moves + 1]
  BY <1>2 DEF WaitRecord
<1>6. r.moves < MaxRedirects => r.moves + 1 \in 0 .. MaxRedirects
  BY <1>3
<1>7. QED
  BY <1>2, <1>3, <1>4, <1>5, <1>6

\* A request is settled without a script, or starts again.
LEMMA QuietStep ==
  ASSUME WaitInv, NEW w \in Waits, waits[w].state = "pending",
         \/ Settle(w, "lost") \/ (Restart(w) /\ ~Dies)
         \/ Settle(w, "freed") /\ waits[w].kind = "post"
  PROVE  WaitInv' /\ UNCHANGED co
<1>1. waits \in [Waits -> WaitRecord]
  BY DEF WaitInv, RecordsOK
<1>2. UNCHANGED <<co, started, calling, resumed, stack, awaits>>
  BY DEF Settle, Restart
<1>3. ASSUME NEW state \in {"lost", "freed"}, Settle(w, state),
             state = "freed" => waits[w].kind = "post"
      PROVE  WaitInv'
  <2>1. PICK m \in 0 .. MaxRedirects :
          waits' = [waits EXCEPT ![w].state = state, ![w].moves = m]
    BY <1>1, <1>3, SettleForms, ZenonT(30) DEF Settle
  <2>2. QED
    BY <1>2, <1>3, <2>1, SettleStep
<1>4. ASSUME waits[w].moves < MaxRedirects, waits' = [waits EXCEPT ![w].moves = @ + 1]
      PROVE  WaitInv'
  <2>1. PICK m \in 0 .. MaxRedirects :
          waits' = [waits EXCEPT ![w].state = "pending", ![w].moves = m]
    BY <1>1, <1>4, SettleForms
  <2>2. QED
    BY <1>2, <2>1, SettleStep
<1>5. QED
  BY <1>2, <1>3, <1>4 DEF Restart

\* What a step may do to a coroutine that starts one wait at a time.
WakeStep ==
  \A c \in OneWait : co[c] = "yield" /\ co'[c] = "running" =>
    awaits[c] # NoCall /\ calling' = awaits[c]

\* Nothing but died changes.
LEMMA SameStep ==
  ASSUME WaitInv, UNCHANGED <<co, waits, started, calling, resumed, stack, awaits>>
  PROVE  WaitInv'
  BY DEF WaitInv, RecordsOK, FreshInv, StackInv, HeldInv, WaitsKeepCoroutines, OneInv,
         PassedInv, ReferenceReturned

\* The process lives on or has ended.
DiedInv == died \in BOOLEAN

LEMMA DiedStep == DiedInv /\ [WaitNext]_waitVars => DiedInv'
  BY DEF DiedInv, waitVars, WaitNext, DispatchEvent, ScriptReturns, CallbackEnds, LeaveCallback,
         Connect2Websocket, ScriptResume, Collect, WaitTime, SendHttpGet, SendHttpPost,
         AddWait, Dies, Callback, WaitTimer, GetCb, PostCb, GiveUp, CallScript, Settle,
         Restart

\* Every step keeps the invariant and wakes by the right wait.
LEMMA WaitStep == WaitInv /\ [WaitNext]_waitVars => WaitInv' /\ WakeStep
<1> SUFFICES ASSUME WaitInv, [WaitNext]_waitVars PROVE WaitInv' /\ WakeStep
  OBVIOUS
<1> USE DispatcherAssumption, OneWaitAssumption
<1>0. UNCHANGED co => WakeStep
  BY DEF WakeStep
<1>1. CASE UNCHANGED waitVars
  BY <1>0, <1>1, SameStep DEF waitVars
<1>d. CASE Dies
  BY <1>0, <1>d, SameStep DEF Dies
<1>2. CASE \/ DispatchEvent \/ ScriptReturns
           \/ \E c \in Coroutines : ScriptResume(c) \/ Collect(c)
  BY <1>2, ScriptStep DEF WakeStep
<1>3. CASE CallbackEnds
  <2>1. WaitInv'
    BY <1>3, EndStep
  <2>2. QED
    BY <1>0, <1>3, <2>1 DEF CallbackEnds, LeaveCallback
<1>4. CASE Connect2Websocket /\ ~Dies
  <2>1. PICK s \in {"pending", "lost"} :
          MayWait(Dispatcher) /\ AddWait("get", Dispatcher, s, FALSE)
    BY <1>4 DEF Connect2Websocket, StartUrlRequest
  <2>2. WaitInv'
    BY <2>1, AddStep DEF Threads
  <2>3. QED
    BY <1>0, <2>1, <2>2 DEF AddWait
<1>5. ASSUME NEW c \in Threads, WaitTime(c), ~Dies PROVE WaitInv' /\ WakeStep
  <2>1. MayWait(c) /\ AddWait("timer", c, "pending", TRUE)
    BY <1>5 DEF WaitTime
  <2>2. WaitInv'
    BY <2>1, AddStep DEF Threads
  <2>3. QED
    BY <1>0, <2>1, <2>2 DEF AddWait
<1>6. ASSUME NEW c \in Threads, SendHttpGet(c), ~Dies PROVE WaitInv' /\ WakeStep
  <2>1. MayWait(c)
    BY <1>6 DEF SendHttpGet
  <2>2. CASE AddWait("get", c, "freed", FALSE)
    <3>1. WaitInv'
      BY <2>1, <2>2, AddStep
    <3>2. QED
      BY <1>0, <2>2, <3>1 DEF AddWait
  <2>3. ASSUME NEW s \in {"pending", "lost"}, AddWait("get", c, s, c # Dispatcher)
        PROVE  WaitInv' /\ WakeStep
    <3>1. PICK r \in BOOLEAN : r = (c # Dispatcher)
      OBVIOUS
    <3>2. AddWait("get", c, s, r) /\ (c \in Coroutines => r)
      BY <2>3, <3>1
    <3>3. WaitInv'
      BY <2>1, <3>2, AddStep
    <3>4. QED
      BY <1>0, <3>2, <3>3 DEF AddWait
  <2>4. QED
    BY <1>6, <2>2, <2>3 DEF SendHttpGet, StartUrlRequest
<1>7. ASSUME NEW c \in Threads, SendHttpPost(c), ~Dies PROVE WaitInv' /\ WakeStep
  <2>1. PICK r \in BOOLEAN : r = (c # Dispatcher)
    OBVIOUS
  <2>2. PICK s \in {"pending", "lost"} :
          MayWait(c) /\ AddWait("post", c, s, r) /\ (c \in Coroutines => r)
    BY <1>7, <2>1 DEF SendHttpPost, StartUrlRequest
  <2>3. WaitInv'
    BY <2>2, AddStep
  <2>4. QED
    BY <1>0, <2>2, <2>3 DEF AddWait
<1>8. ASSUME NEW w \in Waits, Callback(w), ~Dies PROVE WaitInv' /\ WakeStep
  <2>1. waits[w].state = "pending" /\ LoopIdle
    BY <1>8 DEF Callback, WaitTimer, GetCb, PostCb, GiveUp, Is
  <2>2. ASSUME NEW c \in Threads, CallScript(w, c),
               c = waits[w].thread \/ (c = Dispatcher /\ waits[w].kind = "post")
        PROVE  WaitInv' /\ WakeStep
    BY <2>1, <2>2, CallStep DEF WakeStep
  <2>3. CASE \/ Settle(w, "lost") \/ (Restart(w) /\ ~Dies)
             \/ Settle(w, "freed") /\ waits[w].kind = "post"
    BY <1>0, <2>1, <2>3, QuietStep
  <2>4. waits[w].thread \in Threads /\ Dispatcher \in Threads
    BY DEF WaitInv, RecordsOK, WaitRecord, Threads
  <2>5. QED
    BY <1>8, <2>2, <2>3, <2>4 DEF Callback, WaitTimer, GetCb, PostCb, GiveUp, Is
<1>9. QED
  BY <1>1, <1>2, <1>3, <1>4, <1>5, <1>6, <1>7, <1>8, <1>d DEF WaitNext, Threads
-----------------------------------------------------------------------------
\* Every record, coroutine and script keeps its type, and the record a callback
\* works on is the one on the C stack.
THEOREM WaitTypeCorrect == WaitSpec => []WaitTypeOK
<1>1. WaitInv /\ DiedInv => WaitTypeOK
  BY DEF WaitInv, WaitTypeOK, DiedInv
<1>2. WaitInit => DiedInv
  BY DEF WaitInit, DiedInv
<1>3. QED
  BY <1>1, <1>2, InitWaitInv, WaitStep, DiedStep, PTL DEF WaitSpec

\* No callback of a timer or of a request is ever left for a coroutine that the
\* collector freed, whatever the script does.
THEOREM WaitsKeepCoroutinesHolds == WaitSpec => []WaitsKeepCoroutines
<1>1. WaitInv => WaitsKeepCoroutines
  BY DEF WaitInv
<1>2. QED
  BY <1>1, InitWaitInv, WaitStep, PTL DEF WaitSpec

\* The registry reference of a wait outlives its record only for a POST and for a
\* GET whose coroutine ended without waiting.
THEOREM ReferenceReturnedHolds == WaitSpec => []ReferenceReturned
<1>1. WaitInv => ReferenceReturned
  BY DEF WaitInv
<1>2. QED
  BY <1>1, InitWaitInv, WaitStep, PTL DEF WaitSpec

\* A coroutine that starts one wait and yields is resumed by that wait only, not by
\* an earlier request, a moved one or a timer that was served.
THEOREM RightWakeHolds == WaitSpec => RightWake
<1>1. WaitInv /\ [WaitNext]_waitVars => WaitInv'
  BY WaitStep
<1>2. WaitInv /\ [WaitNext]_waitVars =>
        [\A c \in OneWait : co[c] = "yield" /\ co'[c] = "running" =>
           awaits[c] # NoCall /\ calling' = awaits[c]]_waitVars
  BY WaitStep DEF WakeStep
<1>3. QED
  BY <1>1, <1>2, InitWaitInv, PTL DEF WaitSpec, RightWake
=============================================================================
