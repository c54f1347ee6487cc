# EventServer: specifications and proofs

EventServer is a C++ process that runs Lua scripts on libevent loops.  A
`CEventServer` owns one event loop thread and one Lua state; scripts serve TCP
clients, HTTP requests and WebSockets from it, make HTTP requests, and send
chunks of Lua code to worker threads.  This directory holds TLA+ models of its
parts, TLC configurations that check them, and TLAPS proofs of nearly all of
their safety properties.

Line numbers refer to `src/`.  The Linux build is the one modelled
(`EVENT__HAVE_OPENSSL` defined, as in `CMakeLists.txt:43`).

## 1. Inventory

| Component | State | Operations | What makes it correct |
|---|---|---|---|
| Worker pool (`LuaThread.cpp`, `LuaThreadMgr.cpp`) | `_pools`; per worker `_tasks`, `_max_tasks`, `_event`, `_pCmd`, a Lua state; the return list `_poolsRet` | `ThreadExecute` = `GetThread` + `PostTask`, `SetMaxTask`, `WorkProc`, `PostTaskReturn`, `Update` | no wakeup and no result is lost, every task has one owner, one worker's results keep their order, the queue is bounded, a waiting coroutine is resumed |
| Locks and events (`LXZLock.h`) | mutex; semaphore and `pSem` | `Initialize`, `Wait`, `SetEvent` | a `SetEvent` before `Initialize` is lost and must not matter |
| Server lifecycle (`EventServer.cpp` 347-409, 2176-2329) | `_base`, `_state`, `_destroy`, `_vvMsg` | `Start`, `DoProc`, `Stop`, `Notify`, the notify timer | one loop thread per object, notifications in order, `Stop` leads to deletion |
| Script dispatch (`_lua_proc`, 813-863) | `_lua_ref`, coroutine status | call the dispatcher, or resume a coroutine | a coroutine is resumed only when it has yielded, by the answer it waits for; its reference is dropped |
| Timers of scripts (1169-1203) | pending timers, references | `WaitTime` | every sleeper wakes once |
| HTTP client (161-328, 727-811, 1418-1500) | request objects, references | get, post, redirect, failure | every request ends once, its coroutine is resumed, its memory freed |
| HTTP and WebSocket server (1250, 1506, 1674, 1710, 2113-2172) | open requests | request, reply, chunks, close | one reply per request, nothing after close |
| Client connections (456-668, 1013-1114, 1371-1386) | bufferevents, their messages | accept, connect, read, error, send, close | whole messages in order, nothing used after close |
| Helpers (1263-1331, 1535-1565, 1883-2001) | none | hash, 64-bit arithmetic, splitting, byte order | equal to a reference definition |
| Messages (`LXZMessage.cpp`, `IMemFile.cpp`, `IArchive.cpp`, `FastBufAlloc.h`) | buffer, read and write positions | read, write, copy, serialise, WebSocket frames | what is written is what is read; copies are independent |
| Message pool and Lua binding (`LuaLXZMessage.cpp`) | free list | new, delete, collect, CRC16 | a message is never handed out twice |
| Configuration (`LXZCoreCfg.cpp`, `LuaLXZCoreCfg.cpp`) | list of named, typed values | load, save, release, get, set, by name, alias or reference | save then load is the identity; misuse of one name does not touch another |

The parts meet in four places.  Scripts call the pool from any server's thread.
Workers hand results back through `_poolsRet` and activate the user event of
`g_server`, whose loop runs `Update` and resumes coroutines.  Servers send each
other messages with `Notify`, which the receiver takes once a second.  And
everything a coroutine can wait for (a timer, an HTTP answer, a task) resumes it
through the same `lua_status(co) == LUA_YIELD` test.

Hard behaviour: posters on several threads racing the worker's limit and sleep;
one event standing for many results; workers whose thread cannot be made or
dies; a Lua stack shared by all chunks of a worker; start-up that fails half
way; callers that start or stop a server while `DoProc` is under way; workers
that report to a server which is not there yet or no more; callbacks whose script
closes the connection, starts other waits or lets the collector run; input cut
into pieces at any byte; memory that moves from one buffer to another.
`PROJECT.json` lists each hazard at its line with the properties that cover it.

## 2. Modules

| Module | What it is |
|---|---|
| `TaskService` | abstract: what `ThreadExecute` promises a script |
| `LuaThreadPool` | the worker pool with its threads, locks, semaphores and user event; refines `TaskService` |
| `MCLuaThreadPool` | `LuaThreadPool` with the symmetry set TLC uses |
| `LuaThreadPoolProofs` | theorems about `LuaThreadPool`: types, wakeups, returns, the queue |
| `TaskServiceProofs` | `LuaThreadPool` implements `TaskService`; ownership and order of tasks |
| `ChunkResults` | what a worker reports for the chunks it runs, as seen on its Lua stack |
| `ServerLifecycle` | `Start`, `DoProc`, `Stop`, `Notify` of one `CEventServer` |
| `GlobalServer` | composition: `g_server` (extends `ServerLifecycle`), a worker that reports to it, a second server |
| `ServerProofs` | theorems about these two |
| `MCServers` | `ServerLifecycle` and `GlobalServer` for TLC |
| `ScriptWaits` | `WaitTime` timers and the HTTP client: what a coroutine waits for on its own loop |
| `ClientConnections` | accepted and opened stream connections, their callbacks and their messages |
| `MCServerLoop` | `ScriptWaits` and `ClientConnections` for TLC |
| `ScriptWaitsProofs`, `ClientConnectionsProofs` | theorems about each of them, and about both side by side |
| `ByteFile` | abstract: what the memory of a message promises |
| `MemFile` | the two buffers of a message, positions and modes; refines `ByteFile` |
| `MessagePool` | the free list of messages that all Lua states share |
| `MessageProofs` | theorems about `MemFile`, its refinement of `ByteFile` among them, and about `MessagePool` |
| `MessageFields` | what the `Serial` functions write into a message and read from it |
| `MessageTransfer` | the content of a message that `Notify` copies to another server |
| `WebSocketStream` | WebSocket frames over a byte stream |
| `HandoverProofs` | theorems about `MessageTransfer`, `ChunkResults` and `WebSocketStream` |
| `CoreCfg`, `CfgLoad` | settings with their types, `save` and `load`; how `load` cuts a file into lines |
| `MCSettings` | `CoreCfg` with the names TLC uses |
| `RoundTripProofs` | theorems about `CoreCfg`, `CfgLoad` and `MessageFields`: what is written is what is read |
| `ScriptHelpers` | `int64_op` and `set_char_zero` against reference definitions |
| `MCData` | `ChunkResults` and the modules from `MemFile` on but `CoreCfg`, for TLC |

The `MC` modules hold no model.  `MCServers`, `MCServerLoop` and `MCData` put
modules that share no state side by side: a first variable, chosen initially, says
which of them a behaviour is about, and the others keep an initial state.

### LuaThreadPool

*Grain.*  Every critical section is one action, and so is every access to shared
state outside a lock; what a thread does in between is local and belongs to the
action before.  So `PostTask` is four actions: `GetTaskCount` (locked),
`CheckLimit` (reads `_max_tasks` unlocked, builds the task, takes the reference on
the coroutine), `PushTask` (locked), `SetEvent`.

*State.*  `wpc[w]` and `spc[s]` say where the thread of a worker or server is.
`semReady` is the set of workers whose `pSem` is set, `sem` the semaphores;
`tasks`, `maxTasks`, `pCmd` are `_tasks`, `_max_tasks` and the popped task;
`poolsRet` is `_poolsRet`, `lstRet` and `updCmd` the locals of `Update`;
`userEvent` is libevent's user event (activating an active event does nothing);
`coStatus` is `lua_status`, `runCo` the coroutine on `g_server`'s thread, `refs`
the registry references.  `taskWorker` and `outcome` are history.

*Failures.*  `pthread_create` fails (`Spawn`), `sem_init` fails (`Initialize`),
`sem_wait` fails (`WaitFails`): the worker is dead, its queue stays open.

*Assumptions about scripts.*  A task names the coroutine that makes the call
(the use `coroutine.running()` gives), and only scripts of `g_server` name one:
`Update` always runs on the thread of `g_server`, so a coroutine of another
server would be resumed on the wrong thread, a data race in the Lua library that
the model does not describe.  A coroutine can be resumed for another reason while
it waits (`StartCoroutine`), as timers and HTTP answers do.  `g_server` exists and
its loop runs.

*Left out.*  The text of chunks and results, and the process abort a chunk causes by
raising a value that is not a string (`ChunkResults` looks at both),
the return value of `PostTask`, which no caller in `src/` uses, and
`GetLuaThread`/`GetLuaThreadTaskCount`, which change nothing.

### ChunkResults

One worker, one task after the other.  A chunk ends by returning up to
`MaxReturns` values, strings or not, or by raising a string or another value, and
may have called `CurrentTask:SetUserResult`.  `stack` is what stays on the Lua
stack between chunks; `retbuf` and `ok` are what the coroutine will be resumed
with.  `aborted` is the `luaL_checklstring` of a non-string error outside any
protected call, which ends the process.

### ServerLifecycle

One object and the threads `Start` makes for it; the fields are Booleans for
"not NULL".  Each early return of `DoProc` is a choice: `LoadCfg`,
`EndStartupScript` (closes the Lua state), `Setup` (cleans up nothing).
`Close` includes `delete this`.  Callers do not call a deleted object.  With
`EarlyRestart` FALSE, callers also do not call `Start` while a `DoProc` thread
exists; TRUE removes that discipline.

### GlobalServer

`g_server` is the object of `ServerLifecycle` with what the pool needs of it: the
user event (`trigger`: made, `active`: activated), the list of results and which
thread runs which server's Lua state (`lua`).  A worker takes a task, puts it on the
return list (`ReturnTask`) and then calls `g_server->user_trigger()` (`Trigger`);
between the two the loop may already hand the result over.  `misuse` records a
trigger of a deleted object or of an event that does not exist yet, which are
undefined; the model goes on with the outcome in which nothing else changes.  The
queue, locks and semaphores are taken as the FIFO that `LuaThreadPool` shows them to
be.  Scripts may post tasks before the loop runs, stop `g_server` at any time, and name
coroutines of either server; the constants `EarlyWork`, `StopsWhen` and
`OtherCoroutines` restrict them, in the run `StopAfterWork` only.  `early`, `late` and
`named` are history: a task was posted before the loop; `g_server` was stopped with a
task unreported or one was posted after that; a task of the second server named a
coroutine.

### ScriptWaits

One record per `WaitTime`, `get`, `post` or `connect2websocket` call, with its
registry reference.  `stack` is the C stack of scripts: the dispatcher, or a
coroutine resumed by it or by a callback.  A callback (`WaitTimer`, `GetCb`,
`PostCb`) calls a script (`CallScript`), which may do anything a script may, and
goes on in `CallbackEnds`, where references are dropped and the record is freed.
`GiveUp` is evhttp's callback with NULL, `Restart` a redirect.  `Collect` is Lua's
collector: it takes a coroutine that no reference holds.  Coroutines in `OneWait`
start one wait, for themselves, and yield; the others do what they like.  `Dies` is a
use of NULL: a timer for something that is not a coroutine, a URL that cannot be
parsed, or a POST that `evhttp_make_request` fails at once, whose callback clears
`req` before it is filled (`EventServer.cpp:213`).  Nothing happens after it.

### ClientConnections

A bufferevent with its message.  `read_cb` appends to the message; `read_cb2`,
for connections a script opened, overwrites it from position 0.  Handlers are
not atomic: between the callback and `HandlerReturns` the script reads, removes,
sends and closes, also twice.  It may leave input in a message; for a connection it
opened, `spoilt` records that `read_cb2` found some and wrote over it.  `Connect` has
all its ends: `made` counts the bufferevents it makes, of which one is forgotten at
once without SSL (`EventServer.cpp:1040`) and one is not freed if `inet_pton` refuses
the address (1080).  A second `CloseClient` frees the bufferevent again; what that does
to memory in use again is left out.  A connection by address is enabled for reading only after the script has handled the
connect event (`enableAfter`).

### MemFile and ByteFile

`FastBufAlloc` keeps `CacheSize` bytes in the object and more on the heap; each
array has one cell more for a zero.  `Grown` and `Stored` are its `grow` and the
copy in `CIMemFile::Write`.  `ByteFile` is one array of bytes with a position, and
`FileSpec` the refinement: which array is in use, growth and the removal of a head
do not show.

### MessagePool

`new` and `collect` with the lock of the list, at the grain of the list's
operations, and the emptying of a message outside the lock.  Scripts give a message
back once.

### MessageFields, MessageTransfer, WebSocketStream

`MessageFields` writes fields as bytes (base 4, so that numbers of 1 to 8 bytes
fit TLC's integers, with the widths of the code), and reads them back in order.
64 bit numbers are text to a script: `atoll` makes them, and glibc prints 32 of their
bits for `%I64u`, behind the end of the array (`PrintOverruns`).
`MessageTransfer` is the implicit copy constructor: a copy uses the stream of the
original, in the mode of the original, until its own `setMode`; `FastBufAlloc` copies
its fields only for a content on the heap; and `m_nLuaRef` and `m_nEvent` are copied, so
that `_lua_proc` gives the receiver of a connection's message what its own registry
holds under these numbers (`DispatchByRef`).  `Uses` says which of these scripts do.
`WebSocketStream` counts bytes: a frame is taken for whole
by the test in `GetWebSocketFrame`, which is compared with where the frame ends.  A
script may name any of the ten frame types; one byte of it travels (`ArrivesAs`).

### CoreCfg, CfgLoad, ScriptHelpers

`CoreCfg` keeps the type tag and the union of an entry apart: a getter or a setter
of another type changes one and not the other.  Calls come as scripts make them: by
name, with an alias, or with a reference, which is an index that is used whatever the
name (nil is 0, the first entry) and may point behind the list (`UseStaleRef`).  `mixed`
is the history of names that were used with two types or through a reference of another
name, or that `load` read with another type.  `CfgLoad` has the buffer of
`load` byte by byte, with its block size as a constant, and a byte stands for the line it belongs to.
`ScriptHelpers` has numbers of `Bits` bits and compares with signed arithmetic.

## 3. Runs

| Run | Instance | Shows |
|---|---|---|
| `PoolPosters` | 2 servers, 1 worker, 1 coroutine, limit 1 or 0, 3 calls | `NoLostWakeup`, `QueueBound`, `SingleOwner`, `OutcomeFinal`, `TypeOK`, `ImplementsService` with its fairness |
| `PoolReturns` | 1 server, 2 workers (symmetric), 1 coroutine, limit 2, 3 calls | `NoLostReturn`, `CallOrder`, `DropsOnlyEnded` |
| `PoolLiveness` | 1 server, 2 workers, 1 coroutine, 2 calls | `PendingSettles`, `YieldedResumes` |
| `ServerLifecycle` | an object: 2 starts, 3 notifications; `g_server`: 2 tasks, 3 notifications, scripts unrestricted | `NotifyInOrder`, `NotifiedIsDispatched`, `StopDeletes`, `TriggerMisusedOnly`, `OneThreadPerState`, `TypeOK` |
| `ServerLoop` | 2 coroutines (one free, one that waits once at a time), 2 waits, 1 redirect; an accepted and an opened connection, 2 bytes each, closed up to twice | `WaitsKeepCoroutines`, `ReferenceReturned`, `RightWake`, `WaitEnds`, `InputInOrder`, `FreedOnce`, `InputArrives`, types |
| `Data` | see below | `FileSpec`, `Terminated`, `OneOwner`, `OwnData`, `FieldsComeBack`, `ContentArrives`, `FramesInOrder`, `NoFrameLeft`, `SetsEveryLine`, `HelpersAreExact`, `CleanWorker`, `HandedOverOnce`, `StaleOnlyWhenSilent`, types |
| `Settings` | 2 names, one in two spellings, 3 types, 2 values, calls with every alias and reference | `KeepsValue` |
| `DoubleStart` | 2 starts, undisciplined | `OneDoProc` is violated |
| `FailedSetup` | 2 starts | `RefusalMeansRunning` is violated |
| `StopAfterWork` | `g_server` stopped when its results are back | `TriggerIsSafe` is violated |
| `SmallTransfer` | messages that may fit the array in the object | `TransferIsSafe` is violated |
| `MaskedFrames` | a peer that masks its frames | `FramesInOrder` is violated |

*Bounds.*  With limit 1, two servers and three calls the limit is met, raced past
and refused, and a second task is queued while the first is running.  Two workers
are what it takes for two results to meet in one activation and for one to arrive
while `Update` runs; three calls give one worker two ordered results with another
in between.  The proved invariants show that nothing depends on these numbers for
the properties they cover.

In `ServerLoop` two waits let one be answered while another is pending, for the same
or another coroutine, and let a callback's script start the second; two bytes let
input arrive behind unread input.  In `ServerLifecycle` one task is enough to be posted
too early or too late, and two for one to come back while another is under way.  In
`Settings` calls break no more agreements once a name is mixed (`MaxMixed`), so that
there is a name left of which the property speaks; unsigned settings, objects and
strings are the types with a special case in `load`, `save` and `release`.  In `Data`:

- a stale value needs one chunk to leave it and one to receive it; the third task
  shows that it is received once;
- a message has an array of 2 bytes and up to 7 bytes of content, which takes two
  growths, one of them from heap to heap;
- two threads, four messages and a list that sheds at 3: the list is filled, shed
  and emptied while a message is in hand;
- two fields of all kinds of numbers up to 8 bytes, at both ends and in the middle of
  their ranges, and of strings up to and including the limit of `SerialStr`; a field that
  takes a byte too many shows in the next;
- three notifications, so that the sender refills its message and notifies it again
  while a copy is under way and another is being read;
- three frames of all types and of 0, 2 and 3 bytes with lengths changing their encoding
  behind 2 and 4 (125 and 65535 in the code), cut anywhere;
- blocks of 6 bytes and up to 4 lines of 1 to 4 bytes: lines and line ends straddle
  blocks in every way;
- all pairs of 4 bit numbers, all texts of up to four characters with every cut.

Deadlock is checked in the pool runs; the other models really may stop (the process
aborted, the object deleted, its start-up failed, scripts or peers with nothing more
to do).

*Cases the passing instances exclude.*  Some constants keep a case out of the passing
runs because the property fails there; giving the constant the other value makes TLC
show how.  The first has a run of its own.

| Constant | Other value | What fails, and why |
|---|---|---|
| `Masked` | TRUE | `FramesInOrder`: `GetWebSocketFrame` tests for header and payload and counts the mask afterwards (`LXZMessage.cpp:185-192`), so that a masked frame is returned up to four bytes early |
| `PayloadLengths` | with one above `Medium` | `FramesInOrder`: the 64 bit length is read before it has arrived (`LXZMessage.cpp:170`) |
| `EndsLast` | FALSE | `SetsEveryLine`: the CR LF put behind the last line makes a file with LF ends look like one with CR LF (`LXZCoreCfg.cpp:436-441`) |
| `Little` | FALSE | `FieldsComeBack`: numbers are swapped when read and not when written (`IArchive.cpp:198`) |
| `Ops` | with `<=` | `HelpersAreExact`: the branch for `<` takes it (`EventServer.cpp:1979`) |

*Cases that are exceptions inside a property.*  Here the code does what a caller would
not expect, the passing runs meet it, and the property says that nothing else goes
wrong.

| Property | Exception |
|---|---|
| `TriggerMisusedOnly` | `_user_trigger` is made after the start-up script (`EventServer.cpp:2295`): a worker that reports before has no event.  `delete this` leaves `g_server` set (2316): a worker that reports after a stop uses the deleted object.  `StopAfterWork` shows that waiting for all results does not help. |
| `OneThreadPerState` | `Update` resumes every coroutine on the thread of `g_server` (`LuaThreadMgr.cpp:115`), also one of the second server |
| `InputInOrder` | what a script leaves in the message of a connection it opened (`EventServer.cpp:494`) |
| `FreedOnce` | the bufferevents `Connect` forgets (`EventServer.cpp:1040`, 1080); a connection closed twice is freed twice |
| `WaitEnds` | a request that evhttp refuses or gives up (`EventServer.cpp:176`, 326); the end of the process |
| `ContentArrives` | a content that fits the array in the object may be rubbish (`FastBufAlloc.h:25`, run `SmallTransfer`); a copy read without a `setMode` is read through the sender's stream; the message of a connection arrives as another object (`EventServer.cpp:827-834`) |
| `FieldsComeBack` | a `uint32` from 2^31 turns negative (`LuaLXZMessage.cpp:547`); of 64 bits 32 come back (571, 596); a cstring of 255 bytes is not read and not skipped (`IArchive.cpp:472`), and the fields behind it are not followed |
| `FramesInOrder` | `OPENING_FRAME`, `CLOSING_FRAME`, `INCOMPLETE_FRAME` and `ERROR_FRAME` lose their type in the cast to a byte (`LXZMessage.cpp:104`) and come back as `INCOMPLETE_TEXT_FRAME` |
| `KeepsValue` | names used with two types or through a reference of another name; unsigned settings after `load`, which makes them ints (`LXZCoreCfg.cpp:517`) |

*Fairness.*  Threads are scheduled, so a thread that can always go on does (weak
fairness on call steps, worker steps and `Update`), and Lua code returns (weak
fairness on `EndScript`; a chunk that never returns blocks its worker and is not
something the pool promises about).  libevent serves its active events in queue
order, so that an active user event is not passed over for ever although the loop
is busy with others in between: strong fairness on `DispatchUserEvent`, and for the
same reason on `NotifyTimer`, `LeaveLoop`, the callbacks of timers and requests and
`read_cb`.  For a request it includes that evhttp answers or times out.  In
`ScriptWaits` and `ClientConnections` scripts return also if they keep resuming
coroutines or calling the server in between (strong fairness on the return of the
outermost script and of a handler).  In `MCServers` the fairness of `DoProc` covers
the scripts that the loop of `g_server` calls.  Scripts are not obliged to start, to
call anything or to stop the server; failures are never fair.

*Results worth knowing.*

- `SetEvent` before the worker's `Initialize` is lost and it does not matter,
  because `WorkProc` looks at its queue between `Initialize` and its first `Wait`.
- `PostTask` may overshoot the limit by one task for every other server thread,
  never more.
- `user_trigger` comes after `PostTaskReturn`, and that order is what `NoLostReturn`
  needs; it is also what makes a stop of `g_server` after the last result unsafe.
- A result is thrown away only if its coroutine has ended.
- A task can be reported with the value of an earlier task: exactly when its chunk
  returns nothing and an earlier chunk left a string behind (it returned two
  values, or called `SetUserResult` and returned one).
- A coroutine that makes one wait at a time is resumed by that wait only, and always,
  unless evhttp refuses the request or gives it up: then it waits for ever
  (`EventServer.cpp:176`, 326).
- A registry reference stays for good after every POST, and after a GET whose
  coroutine ended without waiting; a timer always drops its own.
- Input of an opened connection that the script leaves in the message is overwritten
  by `read_cb2`; that of an accepted one is kept.
- An empty WebSocket frame of two bytes is not returned before a byte of the next
  one is there.
- A setting keeps its value if all callers use one type for it and no reference of
  another name, whatever is done to others; only misuse can bring the server down.
- `int64_op` is exact for sums, differences, products and bits of all signed
  numbers, for quotients of numbers that are not negative, and for comparisons of
  numbers of one sign.
- `DoubleStart`: `Start` tests `_base`, which `DoProc` sets only after the start-up
  script has run, so that a second `Start` creates a second thread although it is
  meant to answer "Server is running now!" (`EventServer.cpp:383`).
- `FailedSetup`: after an SSL failure `_base` stays set and `Start` gives that
  answer for ever, with nothing running.

## 4. Proofs

The theorems hold for all values of the constants that satisfy the named
assumptions of the modules: any finite set of servers, any sets of workers,
coroutines, threads, messages and connections, any bounds.  The assumptions say that
sets and bounds are what they are meant to be (`MessagesAssumption`: there is a message
to make; `StartAssumption`: `main` starts `g_server`), with `NoneAssumption`,
`ConnectionAssumption` and the like for values that must differ.

| Module | Theorem | Statement |
|---|---|---|
| `LuaThreadPoolProofs` | `TypeCorrect`, `NoLostWakeupHolds`, `NoLostReturnHolds`, `QueueBoundHolds` | `SafeSpec => []TypeOK`, `[]NoLostWakeup`, `[]NoLostReturn`, `[]QueueBound` |
| `TaskServiceProofs` | `ImplementsTaskService` | `SafeSpec => Service!SafeSpec` |
| | `OutcomeFinalHolds` | `SafeSpec => OutcomeFinal` |
| | `CallOrderHolds`, `DropsOnlyEndedHolds`, `SingleOwnerHolds` | `SafeSpec => []CallOrder`, `[]DropsOnlyEnded`, `[]SingleOwner` |
| `ServerProofs` | `ServerTypeCorrect`, `NotifyInOrderHolds` | if `EarlyRestart = FALSE`: `Spec => []TypeOK`, `[]NotifyInOrder` |
| | `TriggerMisusedOnlyHolds`, `OneThreadPerStateHolds` | `GSpec => []TriggerMisusedOnly`, `[]OneThreadPerState` |
| `ScriptWaitsProofs` | `WaitTypeCorrect`, `WaitsKeepCoroutinesHolds`, `ReferenceReturnedHolds` | `WaitSpec => []WaitTypeOK`, `[]WaitsKeepCoroutines`, `[]ReferenceReturned` |
| | `RightWakeHolds` | `WaitSpec => RightWake` |
| `ClientConnectionsProofs` | `ConnTypeCorrect`, `InputInOrderHolds`, `FreedOnceHolds` | `ConnSpec => []ConnTypeOK`, `[]InputInOrder`, `[]FreedOnce` |
| | `LoopTypeCorrect` | `LoopSpec => []LoopTypeOK` |
| `MessageProofs` | `MemTypeCorrect`, `TerminatedHolds` | `MemSpec => []MemTypeOK`, `[]Terminated` |
| | `ImplementsByteFile` | `MemSpec => FileSpec` |
| | `PoolTypeCorrect`, `OneOwnerHolds`, `OwnDataHolds` | `PoolSpec => []PoolTypeOK`, `[]OneOwner`, `[]OwnData` |
| `HandoverProofs` | `ContentArrivesHolds` | `TransferSpec => []ContentArrives` |
| | `CleanWorkerHolds`, `HandedOverOnceHolds` | `Spec => []CleanWorker`, `[]HandedOverOnce` |
| | `StaleOnlyWhenSilentHolds` | `Spec => StaleOnlyWhenSilent` |
| | `FramesInOrderHolds`, `NoFrameLeftHolds` | if `PlainFrames`: `StreamSpec => []FramesInOrder`, `[]NoFrameLeft` |
| `RoundTripProofs` | `KeepsValueHolds` | `CfgSpec => []KeepsValue` |
| | `SetsEveryLineHolds` | if `EndsLast = TRUE`: `LoadSpec => []SetsEveryLine` |
| | `AnyFieldsComeBack`, `FieldsComeBackHolds` | if `PlainFields`: `AnyFieldSpec => []FieldsComeBack`, `FieldSpec => []FieldsComeBack` |

*Hypotheses.*  Four groups of theorems are about a part of what the code can be made
to do, and each hypothesis is needed: without it the property fails, in a run of its
own or as the table of excluded cases in section 3 says.

- `EarlyRestart = FALSE`: callers do not call `Start` while a `DoProc` thread exists.
  With two of them nothing about the object holds (run `DoubleStart`).
- `PlainFrames`: the peer does not mask its frames, and no payload needs a length of
  64 bits.
- `EndsLast = TRUE`: the last line of a file has its line end, as `save` writes it.
- `PlainFields`: numbers are not swapped (`Little`), kinds are those of the model, and
  the lengths of strings fit a byte, which is what `lstring1` has for one.

The others hold for everything the models let scripts, peers and threads do.

### The worker pool

`TypeOK` is not inductive: `PushTask` needs to know that a server in a call has a
target and a task, `PostTaskReturn` that a worker about to return has one.  `TypeInv`
adds these two facts, `CallPc` and `WorkerPc`.  The steps are proved one group of
variables at a time (`WorkerTypesStep`, `CallTypesStep`, `ReturnTypesStep`,
`LuaTypesStep`, `CallPcStep`, `WorkerPcStep`) from one split of `Next` into its
actions (`NextCases`).

`NoLostWakeup` and `NoLostReturn` are inductive relative to `TypeInv`.  For the
first, a worker goes to sleep only from an empty queue, and whoever makes the queue
non-empty is then at `SetEvent`.

`QueueBound` is not.  `QueueInv` counts the servers that are committed to push to a
worker: those that passed the check (`spc = "push"`) and those whose count, read but
not yet compared, is below the limit.  Queue length plus committed servers never
exceeds the largest limit plus the number of servers less one; the cardinality
facts come from `FiniteSetTheorems`.

For the refinement, a worker's *pipeline* is the task it has in hand and its queue,
and the *finished* calls are `lstRet` followed by `poolsRet`, as in the refinement
mapping.  Every step of the pool has one of six effects on them (`StepEffect`):
`NoEffect` (a stuttering step of `TaskService`, or a worker stops), `Refused`,
`Accepted` (behind one pipeline), `Forgotten` (the front of a
pipeline, without a coroutine), `Executed` (from the front of a pipeline to the end of
the finished), `HandedOver` (the front of the finished).  Each of the
other five is an action of `TaskService`, and where tasks are and in which order is
followed through six effects instead of twenty actions.  `AllInv` has these parts:

- `PostInv`: a call being made is known to its server only.  Without it an accepted
  task could already be queued.
- `NamedInv`: calls that name coroutines are made one at a time, by the thread of
  `g_server`; so their numbers are in the order in which they are queued.
- `UpdateInv`: `Update` takes a new list only when the old one is empty, so that the
  swap does not reorder; a worker at `return` has a task with a coroutine.
- `PlaceInv`: every pending call is in exactly one pipeline or among the finished,
  once.  `OutcomeFinal` follows from it, and with `RefInv` (the registry reference is
  held exactly as long as the task) `SingleOwner`.
- `FateInv` and `OrderInv`: of two calls of coroutines to one worker the earlier is
  never behind the later, in a pipeline, among the finished, or with the later one
  settled first.  The last clause is `CallOrder`.
- `CoInv`: the running coroutine is the one on the thread of `g_server`, and only a
  coroutine that ran has made calls; so a result that is dropped belongs to one that
  has ended (`DropsOnlyEnded`).

### Server lifecycle and g_server

`ServerInv` adds to `TypeOK` and `NotifyInOrder`: `DoProcInv`, that there is one
`DoProc` thread at most, that its Lua state is open where it uses it, and that nobody
else deletes the object; and `TimerInv`, that what the notify timer took is dispatched
before it takes more, without which a swap could overtake messages.

`GInv` is about the pool around `g_server` and does not need `ServerInv`.  `LuaInv`: no
worker runs Lua of a server, the second server's thread only its own, and the thread of
`g_server` that of the second only after a task named a coroutine of it (`named`).
`TaskInv`: as long as no such task was posted, every task and result on the way to
`Update` is one of `g_server`; hence `OneThreadPerState`, whose exception is `named`.
`WorkInv`: the user event exists from the loop on; a task that is queued or with the
worker, and was not posted early, has an event to trigger; if `g_server` was stopped
while a task was unreported, `late` is set; only a stopped object is deleted.  Hence
`TriggerMisusedOnly`.  `MainInv`: nothing happens before `main` calls `Start`.

### Script waits

`WaitInv`: the records are well formed (`RecordsOK`; `WaitTypeOK` adds the type of
`died`, which is `DiedInv`), they are made in order (`FreshInv`), the running coroutines are those on
the C stack, each once (`StackInv`), a record that has still to call a coroutine holds
its reference (`HeldInv`; the collector takes only coroutines without one, hence
`WaitsKeepCoroutines`), a coroutine that starts one wait at a time waits for the only
pending record that names it (`OneInv`; hence `RightWake`), and a GET passes over only
a coroutine that has ended (`PassedInv`; hence `ReferenceReturned`).

### Client connections

`ConnInv` is about one connection at a time, besides types (`CountInv`: the counters are
numbers).  `BevFine` says, for each state of a connection, how many references it has
and how its bufferevents made, freed and forgotten by `Connect` and the calls of
`CloseClient` add up; hence `FreedOnce`.  `MsgFine`: nothing has arrived before the
connection is made; what is in front of the script's position was read, so removing it
loses nothing; the message is no longer than what was sent explains, which also holds
when `read_cb2` overwrites; and, unless input of an opened connection was lost (`Lost`),
what was read, what is unread and what is under way are the stream, which is
`InputInOrder`.  In an empty message `read_cb2` appends in effect (`OverwriteAtEnd`).

`LoopTypeCorrect` puts `WaitInv` and `ConnInv` together for the composition that TLC
checks: each step belongs to one of the two and leaves the variables of the other
alone.

### Messages

`MemTypeOK` and `Terminated` together are inductive (`MemInv`); each operation on the
two buffers is shown to be the operation of `ByteFile` on their content.

`PoolInv` adds to the two properties of the pool: the lock is held exactly in the two
critical sections (`LockInv`); there is room for a message there, the front that `new`
read is still the front when it pops, and no message is listed twice (`ListInv`); a
message between list and script exists and is nobody else's (`HandInv`).

`TransferInv`: a copy whose `setMode` was called uses its own stream (`CopyInv`); what
was read, the copy at hand and the queue are copies of what was notified, in order
(`PassedOn`), where a copy has the references of its original and, if the content was
on the heap, the content intact (`CopyOf`, `ReadOf`).

`ResultInv`: a turn of `WorkProc` either leaves new values on the stack or hands over
the one on top (`RunEffect`, from the stack operations of the code), values come from
tasks that ran (`RanInv`), and none is on the stack twice (`OnceOnStack`).

`StreamInv`: what was delivered and what is queued are the frames sent, in order
with the types that `ArrivesAs` leaves them (`SentInv`), and the bytes in the input and on the wire are those of the queued frames
(`ByteInv`).  The sum of their lengths is stated as the existence of a function that
says where each frame ends (`FrameEnds`), with at least two bytes for each later frame;
so no induction over the queue is needed.

### Round trips

What `load` and the `Serial` functions read was put together byte by byte, so these
three theorems need induction over data.  The induction theorems of the library take
an operator as a parameter, which the provers cannot instantiate.  `LeastNumber`
derives, from the library's fact that `<` is well founded on the natural numbers, that
a set of them that is not empty has a least one; `Induction` is induction for
membership in a set; `Recursion`, that a function may be defined on `0 .. N` by
its first value and its steps, which is what lets a recursive definition be unfolded.
The models write recursion as recursive functions for that reason.  `FlattenSteps` and
`FlattenOf` say where each part is in what `FlattenSeq` puts together.

*Settings.*  `CfgInv`: the entries of a name that is not mixed say what it was given
(`Agreed`), the lines of the file say what it was given when it was saved
(`SavedAgrees`), and only mixed use crashes.  `SaveLines` shows the second from the
first, although `save` prints the line before an object twice: a repeated line repeats
what was said.  `ReloadSays` is the induction over the lines that `load` reads: after
`n` of them a name has the value on disk if one of the `n` is about it, and no entry
otherwise.

*Lines.*  `LoadInv` says that there are the bytes `F` of the file and the places `E`
where its lines end (`FileShape`), and relates the buffer to them.  When `load` reads a
block, the buffer holds the start of a line up to `offset`, and the line does not end
there (`AtRead`); while it takes lines, the buffer holds a part of the file in which
the line in turn ends (`AtLine`).  A line and its end fit in a block
(`BlockAssumption`), so after each read there is a line to take; when none is left, the
rest is copied to the front.  That `strstr` and `strlen` on the buffer find the next line
end and the end of the bytes is `FirstEnd`, `NoEnd` and `StrlenOf`.

*Fields.*  `FieldInv` says that there are sequences of bytes, one behind each field, each
of them the bytes of the next field followed by the next one (`Rests`), and that what
the message still holds is the one behind the last field read.  `FieldReads`: a field
read from its own bytes gives what `ComesBack` says and takes just these bytes, whatever
is behind; a string at the limit (`TooLong`) is not read at all.
For numbers it rests on `NumberBack`, that the digits of a number to the base `Base` give
it back modulo `Size(w)`: one digit at a time, with the quotients as written and the
values as read.  For strings it rests on the length in front coming back
(`LengthField`), and for padded ones on the first zero being where the string ends
(`PaddedField`).  `AnyFieldSpec` is the model with every value that a script may write
(`Writable`: all numbers of the kind's range, all strings of the lengths in `Lengths` below `Base`) in the
place of the edges of the ranges, to which `FieldSpec` restricts the instances that TLC
checks; the theorem about the second follows from that about the first.

### Only model-checked

- *Liveness and fairness* (`PendingSettles`, `YieldedResumes`, `NotifiedIsDispatched`,
  `StopDeletes`, `WaitEnds`, `InputArrives`, and the fairness that `ImplementsService`
  adds to `ImplementsTaskService`): outside the prover's reach.
- `HelpersAreExact`: the bit operators cannot be used from a module with theorems.
- `DataTypeOK`: it is stated in `MCData`, which uses these operators too.  Two of its
  parts, `MemTypeOK` and `PoolTypeOK`, are proved; the types of `ChunkResults` are part
  of `ResultInv`; for `StreamTypeOK`, which adds lengths up with a fold, `ByteInv` is
  what is proved in its place.

## 5. Not modelled

- *Vendored code*: cjson, dtoa, lfs, mime, tolua++, Lua, and the libevent and OpenSSL
  headers and examples.  They are about nine tenths of the lines under `src/`: some
  70000 of 79500, most of them declarations.  The code of the project itself is about
  7500 lines, and the share of all lines that models can stand for is bounded by it.
- *`Lib/lae`*, an older copy of `lae` that the build does not use.
- *HTTP server*: the bindings for requests and replies pass their arguments to a
  modified `http.c` of libevent (`README.md:10`) which is not in the repository, and
  the lifetime of a request is decided there.
- *Lua bindings* that read or write one field, push a pointer, or format text; the
  CRC, hash, byte map, splitting and byte order helpers: straight-line code or tables
  without state that tests reach.
- *Fields* of type float, bool, long and pointer.
- The Windows crash dumper, the Windows and Apple branches, logging.

## 6. Plan

Every invariant and every action property that a passing run checks is proved, but for
the two that need the bit operators.  What is left is a script that gives a message back twice, the HTTP server, once the modified
`http.c` is at hand, and the liveness properties, which are checked on small instances
only.
