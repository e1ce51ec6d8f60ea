# TLA+ specifications of ALS (Another Looking-glass Server)

ALS is a Go server (`src/backend`) with a Vue page (`src/ui`).  A visitor opens
the page, which holds a server-sent event stream (`GET /session`) and starts
*operations* on the server: ping, iperf3, a shell, a speedtest.net run.  Their
output comes back over the stream.  The code below the routes is small, but
nearly all of it is concurrent: a handler per request, a watcher goroutine per
operation, timers, a queue served by one goroutine, and a signal handler.  The
modules here describe those parts, the configurations check them with TLC on
small instances, and TLAPS proves the central properties for instances of any
size.

## 1. Inventory

| component | source (under `src/backend/` unless noted) | status |
|---|---|---|
| speedtest queue | `als/client/queue.go` | modelled, proved |
| session registry | `als/client/client.go` | modelled, proved |
| SSE session handler | `als/controller/session/session.go` | modelled, proved |
| session middleware | `als/controller/middleware.go` | modelled, proved |
| operation contexts | `als/client/client.go` (`GetContext`) | modelled, proved |
| speedtest.net handler | `als/controller/speedtest/speedtest_cli.go` | modelled |
| safe send and pipes | `als/client/safe_send.go` | modelled, proved |
| iperf3 | `als/controller/iperf3` | modelled, proved |
| ping | `als/controller/ping` | modelled, proved |
| shell | `als/controller/shell` | modelled, proved |
| file speedtest, librespeed | `als/controller/speedtest/{fakefile,librespeed}.go` | modelled, proved |
| process lifecycle | `main.go`, `als/als.go`, `http/init.go` | modelled |
| interface cache endpoint | `als/controller/cache` | modelled, proved |
| traffic and memory timers | `als/timer` | partly, proved |
| routes | `als/route.go` | partly |
| configuration | `config/` | partly (what is looked up, and the features) |
| page store and components | `src/ui/src/stores/app.js`, `src/ui/src/components` | partly (where they follow the event stream) |
| fake shell, embedded files, translations | | not modelled |

### Speedtest queue
*State*: `queueEntries` under `queueLock`, the channel `queueWakeup` of capacity
1, the channel `queueShutdown` that is closed once; per caller a context and the
`CancelFunc` of the context it waits on.
*Operations*: `WaitQueue` (append, signal, wait, remove the own entry),
`HandleQueue` (take the head, tell it its position, release it, wait until its
context is done, drop it, tell the others), `ShutdownQueue`,
`GetQueuePositionByCtx`.
*Interaction*: called by the speedtest.net handler with a callback that reads
the queue; `als.Init` starts `HandleQueue` and shuts the queue down on a signal.
*Hard*: an entry leaves the queue by its own caller or by `HandleQueue`, which
took it before and locked again since; the wake-up channel drops signals; the
callback runs in the goroutine of `HandleQueue`, once without and once with the
lock; a shutdown runs in two goroutines.
*Correct when*: no waiting caller is dropped, no wake-up is lost, callers are let
through one at a time in the order of arrival, each has been told that it is
first, those behind it are told their position, each gets its turn, and a shutdown
lets everybody out.

### Session registry and SSE handler
*State*: the map `Clients` under `clientsMu`; per session a `done` channel, a
context and its creation time.
*Operations*: `AddClient`, `GetClient` (not the expired ones), `IsCurrent`,
`RemoveClient`, `RemoveExpiredClients` (hourly), `Close`, `SetContext`; the handler
calls them in sequences: mint, or resume an id; on the way out remove the own
entry.
*Interaction*: every operation finds its session through the map; a resume closes
the session of another handler; timers broadcast to all sessions.
*Hard*: each call is atomic, the sequences are not: a resume, a second resume of
the same id, the old handler's clean-up and the sweep interleave.
*Correct when*: the map holds only sessions whose handler will still clean up, a
session that nobody took over is found, a session enters the map once and never
comes back, a clean-up removes only what is its own, and handlers return.

### Session middleware and operation contexts
*State*: the session pointer in the request's `gin.Context`; per operation a
context and a watcher goroutine.
*Operations*: look up the session or answer 400; `GetContext` derives a context
that ends with the request or with the session.
*Interaction*: reads the registry; reads `c.ctx`, which the SSE handler writes.
*Hard*: the watcher reads `c.ctx` once, unsynchronised, maybe before it is set;
the pointer stays with the operation when a resume replaces the session; ping
detaches from its request.
*Correct when*: every operation ends after its session and is cancelled for no other
reason than the end of that session or of its request, no watcher stays behind,
and a resume leaves operations alone.

### Safe send, pipes, iperf3, ping, speedtest output
*State*: per session a channel of 64 messages, read by the SSE handler; per
process two pipes.
*Operations*: non-blocking send; `PipeToChannel` copies a pipe until the first
refused message; `cmd.Wait` closes the pipes at the exit of the process; a ping
sends `PingStart`, a `PingResult` per reply, `PingEnd`.
*Hard*: a slow consumer at the limit of 64; a pipe that nobody reads blocks the
process; `Wait` races the readers; the final event may be the one dropped.
*Correct when*: what reaches the page of a pipe is a prefix of what the program
wrote to it, no goroutine stays behind, and the page learns of the end.

### Shell
*State*: the fake shell's process, a pty, a websocket, a context, three goroutines.
*Operations*: upgrade the connection, start the process on the pty, copy both ways,
kill on the end of the context, wait, and tear everything down in deferred calls.
*Hard*: each of the process, the page and the session can go first and must take the
others with it, while a goroutine may be blocked in a write to either side.
*Correct when*: a handler that has returned leaves nothing behind, and whichever end
goes first, everything goes.

### Speedtest streams
*State*: a file name, the announced length and what is left of it; the chunks of a
download.
*Hard*: the length is a product that can overflow, the last buffer is shorter, a
parameter of the visitor sets how much is sent.
*Correct when*: a body is as long as was announced, and never unbounded.

### Timers and interface cache
*State*: the cache of interface samples (30 each) under a lock; the sessions.
*Operations*: sample, append and trim, broadcast; snapshot for a new session and
for the endpoint.
*Hard*: the entry is used after the lock; a session may get a sample in its
snapshot, on its stream, in both or in neither.
*Correct when*: the cache holds the newest samples in order and a page misses none
from its first sample on.

### Lifecycle and configuration
*State*: the process context, the HTTP server under a lock, the global `Config`.
*Operations*: load, set up routes by features, start, serve; on a signal cancel, shut
the queue down, shut the server down.
*Hard*: `Start` returns when `Shutdown` is called, not when it is done; a signal may
come before the server exists; before `Shutdown` the signal goroutine needs the lock of
the speedtest queue, which a stuck `HandleQueue` keeps; the goroutines that look up the public address write
`Config` while handlers read it.
*Correct when*: a signal ends the process and gives open requests the promised time,
what was configured stays, what was not is looked up, and a page gets the final
configuration.

### Page store and components
*State*: the current `EventSource` and the closed ones, a timer, a session id, the
loading screen; of a ping its table, its button and its listeners.
*Operations*: connect, learn the id, learn the configuration, reconnect a second after
an error; start and stop a ping, insert a row, learn of the end.
*Interaction*: each `EventSource` is a request to the SSE handler, by which the page
resumes its session.
*Hard*: a reconnect replaces the `EventSource`, while components have listeners on the
old one; the timer that should be cleared is never stored; runs go on after Stop.
*Correct when*: one stream is alive and its session is the one the page uses, an idle
component hears nothing, a table is in order, and a started run ends for the page.

## 2. Modules

| module | models | proofs | TLC |
|---|---|---|---|
| `FifoSlot` | what the queue promises: one client at a time, in order, until it closes | | refined by `SpeedtestQueue` |
| `QueueService` | what the process sees of the queue: idle, busy or stuck, and whether the signal goroutine is past it | | refined by `SpeedtestQueue`, instantiated by `ServerProcess` |
| `SessionLifecycle` | what the map of sessions promises: a session enters it once, before its stream, never again, and is out when its handler has returned | | refined by `SessionRegistry` |
| `SpeedtestQueue` | `queue.go`, its caller `speedtest_cli.go`, the signal goroutine of `als.go` | `SpeedtestQueueProofs` | `MCSpeedtestQueue` |
| `SessionRegistry` | `client.go` (map) and `session.go` | `SessionRegistryProofs` | `MCSessionRegistry` |
| `SessionOperations` | `middleware.go`, `GetContext` and its watcher, composed with `SessionRegistry` | `SessionOperationsProofs` | `MCSessionOperations` |
| `OutputPipes` | `safe_send.go`, its callers `iperf3.go` and `speedtest_cli.go`, the reader in `session.go` | `OutputPipesProofs` | `MCOutputPipes` |
| `TrafficBroadcast` | `timer/interface_traffic.go`, `cache/interface.go`, the broadcast of `client.go`, the stream of `session.go` | `TrafficBroadcastProofs` | `MCTrafficBroadcast` |
| `PageStore` | `app.js` and the mounting of `TrafficDisplay.vue`, composed with `SessionRegistry` | `PingRunProofs` | `MCPingRun` |
| `PingRun` | `Ping.vue` and `ping.go`, composed with `PageStore` | `PingRunProofs` | `MCPingRun` |
| `PublicConfig` | `config/`, the copy of it in `session.go` | `ServerProcessProofs` | `MCServerProcess` |
| `SpeedtestStreams` | `fakefile.go`, `librespeed.go` | `ServerProcessProofs` | `MCServerProcess` |
| `ShellSession` | `shell.go` | `ServerProcessProofs` | `MCServerProcess` |
| `ServerProcess` | `main.go`, `als.go`, `http/init.go`, `route.go`, composed with the three above and `QueueService` | `ServerProcessProofs` | `MCServerProcess` |

### SpeedtestQueue
One caller is one request.  `pc[c]` follows it through `WaitQueue` (`idle`,
`signal`, `parked`) and the rest of the handler (`starting`, `running`, `done`);
`hpc` is the program counter of `HandleQueue` and `spc` that of the signal
goroutine.  A critical section of `queueLock` is one step, enabled when the lock
is free.  One critical section is longer: the clean-up that calls the callbacks
of the remaining entries (`queue.go:223-234`), from `Clean` over `Renotify` to
`Unlock`; only there the variable `queueLock` is `"handler"`.  The callback is a
parameter of `WaitQueue`: `PositionCallers` pass the one of
`HandleSpeedtestDotNet`, which calls `GetQueuePositionByCtx` and needs the lock
(`CallbackReturns`); the others pass one that leaves the queue alone (or nil, as
tests do).  A callback that gets through offers its caller a position (`Offered`), which
`told` remembers, in the clean-up (`Renotify`) as before the release (`SendPosition`); in
the clean-up `CallbackReturns` never lets it.

| action | code |
|---|---|
| `Enqueue`, `Signal`, `Leave` | `WaitQueue`: append; non-blocking send; the select and both deferred functions |
| `StartProcess`, `Return`, `ContextEnds` | the handler after `WaitQueue`; its timeout, disconnect or session end |
| `Check`, `SelectWakeup`, `SelectDone` | the outer loop of `HandleQueue` |
| `Take`, `ExamineContext`, `ExamineHead`, `Skip` | the inner loop up to a live head |
| `NotifyHead`, `SendPosition`, `Release`, `Clean`, `Renotify`, `Unlock` | the service of a head |
| `HandlerCloses`, `HandlerCancelsAll`, `SignalArrives`, `SignalCloses`, `SignalCancelsAll` | the two callers of `ShutdownQueue` |

### SessionRegistry
A handler creates one session, so the handler's name stands for both the session
object and the id it mints; `sid[h]` is the id it uses, its own or a resumed one.
Each registry call is one step.  `ArriveFresh` and `ArriveResuming` are the two
branches on `?resume=` (a visitor can name only ids that were announced to it),
`CloseOld`, `RemoveOld`, `AddReplacement` the resume, `AddMinted` the other branch,
`SetContext` also the first events, `StopStreaming` the end of the select loop
with the cancellation of the context, `CheckCurrent` and `RemoveOwn` the deferred
clean-up.  The environment is `RequestEnds` (the client disconnects, or a
keepalive cannot be written), `GrowOld` (24 hours pass) and the hourly
`RemoveExpiredClients`.  A resume sets a fresh `CreatedAt`, as the code does.
The JSON errors of `Handle` cannot happen for these types and are left out.

### SessionOperations
An operation is admitted by the middleware (`Admit`), calls `GetContext`, runs, and
ends or loses its request; its watcher goroutine reads `c.ctx` once
(`WatcherReads`: set, or nil and thus blind) and then waits for either context
(`WatcherCancels`).  `detached` are the operations that pass
`context.Background()` (ping); which they are is chosen at the start.  The registry is
`INSTANCE`d, its steps interleave
with the operations'.  The unsynchronised read of `c.ctx` is a choice between the
old and the new value; a torn read of the two words of the interface is not
modelled.

### OutputPipes
One request that runs a program.  `hpc` follows the request handler (`Announce`,
`Start`, `StartFails`, `Wait`, `Return`), `copier[p]` the goroutine of
`PipeToChannel` that copies pipe `p` (`Read`, `ReadFails`, `Check`, `Send`).  A chunk
is what one `Read` returns.  The program (`Write`, `Exit`) is external: it writes to
a pipe until that is full and exits when it likes; `Kill` is what
`exec.CommandContext` does.  `extraCheck` tells the two callers apart and is chosen at
the start: speedtest.net stops copying when its flag `closed` is set (by `Return` or
by the goroutine `SetClosed`), iperf3 passes nil.  The session is its channel, other
producers (`OtherMessage`) and the SSE handler (`Forward`, `StopStreaming`).  That
`PipeToChannel` stops at the first full channel is intended
(`TestPipeToChannelStopsWhenChannelFull`), and is what makes the output a prefix.
The wait in the queue and the position messages of the speedtest handler are in
`SpeedtestQueue`; here `Announce` stands for one of them.

### TrafficBroadcast
The timer goroutine samples (`Sample`: one critical section of
`interfaceCachesMu`), lists the sessions (`SnapshotClients`) and tries them one by
one (`SendSample`, `BroadcastEnds`).  A session enters the map (`AddClient`), begins
with a copy of the cache (`SendCache`), forwards its channel (`Forward`) and ends
(`StopStreaming`).  The map is that of `SessionLifecycle`, which is instantiated:
`LeaveMap` and `Return` stand for all the ways in which a session is taken out, and the
map is otherwise free, so that this module assumes of handlers, resumes and the
sweep only what `SessionRegistry` is proved to implement.  `AdmitCacheRequest` and
`AnswerCacheRequest` are the endpoint, `SendOther` the other producers.  `shown` and
`lastLive` are what the page was sent; they are forgotten when its stream ends.
A page may see a sample twice where its copy and its stream meet: the code
promises nothing else.

### PageStore and PingRun
The n-th `EventSource` of the page and the handler that serves its request have the
same name, so `PageStore` instantiates `SessionRegistry` with the numbers of the
sources as handlers.  `es[h]` is what the page has heard on source `h`, `asked[h]` the
id its URL resumes.  `SetupEventSource` is the timer of `reconnectEventSource`,
`ReceiveSessionId` and `ReceiveConfig` the two events, `Error` is `onerror`; `Arrive` and
`Handle` are the server's side.  A request may arrive after the page has given it up.
`chart` is the source on which the traffic chart has its listeners.  Whether a card is
mounted depends on `connecting` alone, so `Chart` is a function of it.

`PingRun` adds the component (`Ping`, `StopPing`, `InsertRow`, `Quit`) and the run (`Admit`,
`Outcome`, `End`).  `Deliver` is the loop of the SSE handler: the page hears a message
when its source is open and has the listeners.  An outcome is a packet and who
answered it, all that the key of a row consists of.  The pinger is external; that each
packet has one outcome, in any order, is assumed.  A run ends when all outcomes are
there or the session's context is done.  Its watcher may also miss that
(`SessionOperations`), so ending is a choice then; that it ends is never needed.

### ServerProcess and its parts
`ServerProcess` is the main goroutine (`Load`, `SetupServer`, `AssignServer`, `Listen`,
`ServeReturns`), the signal goroutine (`Notify`, `CancelContext`, `ShutdownQueue`, `Shutdown`, `Drain`) and
`SignalArrives`, which ends the process as long as nobody has called
`signal.Notify`.  The end of `main` freezes everything: each step inside the process
needs `Alive`.  The parts share nothing, so a behaviour has one kind of visitor with one
`workload`.

Of the speedtest queue the process has the variable `queue`: `"idle"`, `"busy"` with
requests, or `"stuck"` in a callback.  Its steps are those of `QueueService`
(`QueueStep`, `ShutdownQueue`), which assumes of the queue only what `SpeedtestQueue`
implements (`ImplementsService`): it may get stuck whenever requests are in it, there is
no way back, and `ShutdownQueue` returns as long as it is not.  A request that waits in
it is one that `srv.Shutdown` waits for (`OpenRequest`).

`PublicConfig`: `LoadWebConfig` and the goroutines it starts.  An unsynchronised
assignment of a string is two steps with the field in `storing` between them; a read
beside it (`ReadField`) finds the old value, the new one or a torn one, with which
`json.Marshal` faults and the stream ends (`MarshalPanics`).  `StreamIsCut` is
`httpWriteTimeout`.

`SpeedtestStreams`: sizes are integers of `MaxInt`, products wrap around (`Wrap`).  A name
is a number and a unit, or another string; `RequestFile` has the three ways to 404.

`ShellSession`: `hpc` follows the handler through its deferred calls in their order
(`ClosePty`, `Cancel`, `CloseConn`), `killer`, `reader` and `writer` are the goroutines.  `ReadOutput`
and `WriteMessage`, `ReadMessage` and `WriteInput` are separate, so that each copy can be blocked in
its second half.  The fake shell and the page are the environment.

## 3. What is checked

| run | instance | checks | result |
|---|---|---|---|
| `queue` | 2 callers, 1 with the speedtest callback | `TypeOK`, `NoLostWaiter`, `NoLostWakeup`, `ReleasedWasToldFirst`, `StuckOnAnother`, `StuckForGood`, `ImplementsSlot`, `ImplementsService`, `WaiterGetsOut`, `ShutdownReachesServer` | hold |
| `queue_callback_blocks` | 2 callers, both with the speedtest callback | `ShutdownReleasesWaiters` | violated |
| `sessions` | 3 handlers | `NoDeadEntry`, `MintedSessionIsFound`, `ImplementsLifecycle`, `HandlerReturns` | hold |
| `session_stale_handler` | 2 handlers | `StaleHandlerSparesReplacement` | violated |
| `operations` | 2 handlers, 1 operation | `CancelledForAReason`, `EndOfSessionIsSeen`, `MintedSessionEndsOperations` | hold |
| `operations_resume` | 2 handlers, 1 shell | `ResumeKeepsOperations` | violated |
| `output` | 2 pipes of 1, a channel of 2, 3 chunks each | `TypeOK`, `ShownIsPrefix`, `NothingIsLeftRunning`, `HandlerReturns`, `CopiersReturn` | hold |
| `traffic` | 2 handlers, a cache of 2, channels of 1, 3 samples | `TypeOK`, `NoSampleIsMissed`, `LiveSamplesInOrder` | hold |
| `page` | 2 sources, 2 runs of 2 packets, a channel of 1 | `OneLiveSource`, `PageKnowsItsSession`, `TableInOrder`, `IdlePageIsDeaf`, `ComponentsStayMounted`, `EndIsUnderWay`, `PageLearnsOfTheEnd`, `PageReconnects` | hold |
| `reconnect` | 2 sources | `ReconnectIsTransparent` | violated |
| `process` | 8-bit integers, a kilo of 2, 1 kind of visitor, 1 signal | `LengthIsHonest`, `ConfiguredIsKept`, `HandlerLeavesNothing`, `TearDownGoesOn`, `AnyEndTearsDown`, `PageCatchesUp`, `SignalEndsProcess` | hold |
| `shutdown` | the same | `ShutdownIsGraceful` | violated |

What the less obvious ones say:

- `ImplementsSlot`: every behaviour of the queue is one of `FifoSlot`, an abstract
  specification of one slot that is granted in the order of arrival.  `OneLiveTask`
  follows, and is only proved.
- `ImplementsService`: every behaviour of the queue is one of `QueueService`.  The signal
  goroutine gets past the queue only while `HandleQueue` is not stuck, and a stuck
  queue stays stuck even when all its visitors have given up.
- `StuckOnAnother`, `StuckForGood`: when `HandleQueue` blocks (finding 1), and that nothing
  gets it out again.
- `ImplementsLifecycle`: every behaviour of the sessions is one of `SessionLifecycle`.
- `CancelledForAReason`: an operation is cancelled because its own request has ended, which
  a detached one (ping) survives, or because the session it was admitted with has.
  A watcher that waited on the wrong context, or looked its session up
  again after a resume, would break it.
- `EndOfSessionIsSeen`: the end of a session does not fall between `GetContext` and its
  watcher.
- `NothingIsLeftRunning`: when a handler responds its program has exited or was never
  started, and no goroutine reads an open pipe, although the context may have ended
  at any step.
- `EndIsUnderWay`: the `PingEnd` of the run that the page waits for is in the channel that
  the page reads, unless it did not fit.
- `TearDownGoesOn`: as long as something of a shell is left after one of its ends has gone,
  some goroutine can take a step.
- `OneLiveSource`: there is one living `EventSource` and no timer, or no source and
  one timer.  It fails as soon as an error could be reported twice.
- `PageLearnsOfTheEnd` excepts what the code lets happen: the stream breaks or
  `PingEnd` finds the channel full.
- `PageReconnects`: the page is connected again and again as long as the server does
  not end the stream itself, in whatever state it finds the session.
- `LengthIsHonest`: the body is as long as the announced length, and that is the size in
  the name unless the product overflows.  With 8 bits and a kilo of 2, products of
  the offered names wrap to positive, negative and zero.
- `AnyEndTearsDown`: the end of the process or of the session tears a shell down, and so
  does that of the page when somebody reads from it.  While the goroutine that
  would notice is blocked in a write to a pty that is not read, nobody does.
- `PageCatchesUp`: no step tells a connected page of a later look-up; that it shows
  the result in the end is due to `httpWriteTimeout`, which cuts each stream.
- `ConfiguredIsKept`: no look-up overwrites what the operator has configured, and no page
  is told anything else.
- `SignalEndsProcess`: a signal ends the process, whatever is open, with two exceptions.
  `ShutdownQueue` never returns when `HandleQueue` is stuck before or during the call
  (finding 1), and `Shutdown` finds nothing to shut down when `Start` has not assigned the
  server yet (section 5).

**Bounds.**  The instances of the queue and the sessions bound the number of
actors and nothing else: there are no counters to cap.  Two callers are a head and
one that waits behind it, arrives or leaves meanwhile, with one position callback
among them, so that the clean-up blocks in some behaviours and finishes in others;
safety is proved for any number.  Three handlers are one that mints an id and two
that resume it at the same time.  An operation interacts with its own session only,
so one is enough.

`MaxSources` bounds the reconnects of a page: the last source meets no error.  Two are one
reconnect, to a session that is still found, that is gone, or that is being taken
down.  `MaxRuns` bounds the pings: two are one that was stopped or cut, and another
that it may disturb.  Two packets can be answered in either order, and a channel of
one refuses the second message.  `MaxMessages` bounds what the page has typed ahead into a
shell: one is enough for a goroutine to be busy when the page goes.

The queue in `ServerProcess` needs no bound: it counts no requests.

`OutputPipes` and `TrafficBroadcast` are about buffers at their limit, so the
buffers are smaller than what goes through them: `MaxChunks` exceeds `PipeSize` and
`ChannelSize`, so that a chunk is refused while later ones wait in the pipe, and
other messages take the room; `MaxSamples` exceeds `CacheSize`, so that the cache is
trimmed, and `ChannelSize`, so that samples are refused.  Three samples are one that is
copied, one under way and one that could overtake it.  Two handlers are two
targets of one broadcast, one of which may join, leave or be full during it.

**Symmetry** is used in `traffic` only, which has no liveness property.

**Deadlock** is not checked: every instance consists of finitely many requests, and
stops when they have been served or the process has ended.  The one deadlock
of the code is a finding, stated as a liveness property.

**Fairness.**  Goroutines that can run, run: weak fairness for the steps of
`HandleQueue`, of a session handler, of a watcher.  Where a goroutine other than
`HandleQueue` needs `queueLock`, which is taken and released over and over,
fairness is strong: a Go mutex hands itself to a waiter that has starved for a
millisecond.  A speedtest process that was started ends, since its context has a
timeout that kills it (`speedtest_cli.go:28,57-62`), so `Return` is fair in
`SpeedtestQueue`.  In `OutputPipes` that is spelt out: the context ends
(`ContextEnds`: `WithTimeout`), a killed program exits (`Kill`), and the goroutines run;
neither the program nor the SSE handler has to do anything.  In `PingRun` timers
fire, requests arrive and are handled, events that were sent are delivered, and the
pinger gets on (a packet that is not answered times out).  In `ServerProcess` the
look-ups have timeouts, the page reconnects and `httpWriteTimeout` ends its stream; the
write to a websocket has no deadline and none is assumed to return, nor is the fake
shell to read, write or exit.  The signal goroutine gets on: `ShutdownQueue` waits for a
mutex that others give back, unless the queue is stuck, in which case its step is
disabled and fairness says nothing.  Nothing
is assumed about arrivals, disconnects, signals, the passing of 24 hours, or
operations ending by themselves.

## 4. What is proved

Seven modules hold the proofs.  Every invariant that a passing run checks is proved, and
so is every action property and refinement: `StuckForGood`, `ComponentsStayMounted`,
`LiveSamplesInOrder`, `ImplementsSlot`, `ImplementsService`, `ImplementsLifecycle`.
Where a component promises
that something happens in the end, the safety part of the promise (that
whoever has to act can, or that what has to arrive is under way) is an invariant
and proved: `NoLostWakeup` of `WaiterGetsOut`, `EndOfSessionIsSeen` of
`MintedSessionEndsOperations`, `EndIsUnderWay` of `PageLearnsOfTheEnd`, `TearDownGoesOn`
of `AnyEndTearsDown`.  The step from there to the liveness property needs fairness
and stays with TLC.  Some invariants are only proved, since a run would
add nothing: the type invariants of the sessions, the operations, the page and the
process, `OneLiveTask` (which `ImplementsSlot` implies), `MintedSessionIsWatched` (on which
`EndOfSessionIsSeen` rests) and `DownloadIsBounded`.

`SpeedtestQueueProofs`, for any set of callers and any choice of callbacks:
`TypeCorrect`, `NobodyIsLost`, `NoWakeupIsLost`, `AtMostOneLiveTask`, `ToldFirst`,
`StuckBehindAnother`, `StuckIsForGood`, `QueueImplementsSlot`, that every behaviour of the
queue is a behaviour of `FifoSlot`, and `QueueImplementsService`, that it is one of
`QueueService`.  They rest on the
inductive invariant `Inv` at the end of `SpeedtestQueue`.  The properties alone are
not inductive: that the released caller is the only live one needs that it is the
`head` `HandleQueue` waits for (`ReleasedIsHead`); that it was told 1 needs that a
live head stays in front of the queue until it is released (`HeadIsFirst`) although
others leave, which needs that entries are distinct and belong to callers inside
`WaitQueue` (`EntriesWait`, `PastOfCallers`).  That `HandleQueue` blocks on a caller
other than its head needs that the head, dead or alive, has no entry once the front
was dropped (`HeadInFront`), and that those it still has to notify are in the queue
and cannot leave it (`RestIsNotified`).  `FifoSlot` is a statement about order: the
refinement maps the queue to the relation *in front of* between waiting callers,
and the lemmas at the top of the module show what `RemoveAt`, `Tail` and `Append`
do to that relation.  For `QueueService` it takes that a stuck `HandleQueue` holds the
lock and waits behind a caller that is in `WaitQueue` (`RestIsNotified`), so that the
queue gets stuck only with requests in it and stays so.  `ToldFirst` needs that the
clean-up tells nobody (`RenotifyTellsNobody`): each position callback blocks there.

`SessionRegistryProofs`, for any set of handlers: `TypeCorrect`, `NoDeadEntries`,
`MintedSessionsAreFound` and `RegistryImplementsLifecycle`.  The invariant adds that an id
is an id that somebody minted (`LocalsOK`) and that as long as a minted session is
open, every other handler that uses its id is still about to close it
(`OwnIdIsKept`).  The refinement forgets ids: the abstract `registered` is the set of
sessions that are in the map under any id, and `page` how far their handlers are.
That a handler leaves nothing of its own behind, whatever `CheckCurrent` told it,
is where `NoDeadEntry` comes in.

`OutputPipesProofs`, for any pipes, sizes and amounts of output: `TypeCorrect` (no
buffer exceeds its size), `PageSeesPrefix` and `HandlersLeaveNothingRunning`.  The prefix
is not inductive: between a chunk on the page and its successor stand the channel,
the goroutine that holds the next one, and the pipe.  The invariant names the number
*m* of chunks of a pipe that the channel has accepted (`CopiesInOrder`): what is in
the channel are exactly the chunks from the last one shown to *m*, in ascending
order (`ChannelInOrder`), and a goroutine that still copies holds chunk *m*+1 or
nothing (`Sent`).  The lemmas on top of the module show what `Append` and `Tail` do to
that.  That nothing is left running needs that goroutines exist only beside a
program that was started (`CopiersStarted`).

`TrafficBroadcastProofs`, for any sessions and any sizes of the cache and the channels:
`TypeCorrect`, `NoSamplesAreMissed`, `LiveSamplesAreInOrder`.  That nothing is missed
has to be said before the page is sent anything: what the channel of a session holds
and the copy that a pending request is about to add must each reach from their first
sample to the newest, or to the one that the broadcast still owes (`Covered`).  The order
needs more than the numbers on the page: those in the channel ascend, are newer
than the last one shown and, together with it, have no gap (`StreamsAscend`,
`StreamsHaveNoGap`); they end at the sample that the session was offered last, which lags
behind the newest while the session is still a target (`Top`).  `TickKeepsTheNewest` is
the arithmetic of trimming the cache.  What it assumes of the map of sessions is
`SessionLifecycle`, which `RegistryImplementsLifecycle` discharges.

`SessionOperationsProofs`, for any sets of handlers and operations: `TypeCorrect`,
`MintedSessionsAreWatched`, `OperationsAreCancelledForAReason`, `EndsOfSessionsAreSeen` and
`SessionsBelow`.  The invariant of the registry is not proved again but instantiated:
`RegistryStep` shows that a step of the composed system is one of the registry, that
an id once given is kept, and that a context once set stays set and once done stays
done; hence `SessionsBelow`, that the registry inside behaves as `SessionRegistry` says.
What is added is that the session of an operation has an id, which was announced if
it is its own (`SessionsAreAnnounced`), and that an operation has a watcher from when it
works, which exits only after it has cancelled (`WatchedWhileRunning`).

`PingRunProofs`, for any numbers of reconnects, runs and packets and any channel:
`TypeCorrect`, `ReconnectsNeverMultiply`, `TheSessionIsKnown`, `MountedIsMounted`,
`AnIdlePageIsDeaf`, `TheTableIsInOrder`, `TheEndIsUnderWay`, and `ConnectionBelow`, that the
connection below the pings behaves as `PageStore` says.  That there is one living source
is inductive together with the facts that sources are used one after the other
(`UsedInOrder`), that the cards are shown exactly when the page is configured
(`ShownWhenReady`), and that a source that was told an id has a handler that has
settled on it (`NamedIsSettled`); the last needs that a handler never changes its id
once its context is set, which `RegistryStep` shows of each action of the registry.
An idle page is deaf because listeners can only be on a source that was used, and
living ones are current.  The table is the longest: `NoGap` shows that the position at
which `InsertRow` inserts splits a sorted table, by counting, and `InsertKeepsOrder` that
inserting there keeps order and distinctness.  The end of a run is under way although
other runs write to the same channel (`OfferKeepsMessages`) and the page reads from it
(`TailKeeps`): the only message that could be taken before its time is a `PingEnd`, and
that one makes the page idle.  It needs that runs are asked for one after the
other, so that the last one is the one the page waits for (`EndsInv`).

`ServerProcessProofs`, for any sizes, names, limits, features and widths: `TypeCorrect`,
`ShellsLeaveNothing`, `TearDownsGoOn`, `LengthsAreHonest`, `DownloadsAreBounded`,
`ConfigurationIsKept`, and `PartsBelow`, that the configuration, the streams, the shell and
the queue behave inside the process as their own modules say.  Each part has its own inductive
invariant at the end of its module, and a lemma (`StepOfShell`, `StepOfStream`,
`StepOfConfig`, `StepOfQueue`) that a step of the process is a step of the part or leaves
it alone.  What `ServerProcess` assumes of the queue is `QueueService`, which
`QueueImplementsService` discharges.  For
a shell the invariant says what exists at each place of the handler; for a file that
what was sent and what is left add up to what was announced; for the configuration
that no look-up that could replace a configured value is ever started.
`SizeIsHonest` is the arithmetic: a product that fits does not wrap.  `TearDownGoesOn` lists
the conditions under which a goroutine can go on (`SomebodyCanGoOn`), so that no
`ENABLED` is needed to state it.

The assumptions are that the value for "none" is not one of the actors,
that `PositionCallers` are callers, that `Kilo`, `MaxInt`, `MaxChunks`, `MaxSources`,
`CacheSize` and the `ChannelSize` of `TrafficBroadcast` are positive, and that other sizes
and counts are naturals.

**Only model-checked**: the liveness properties (`WaiterGetsOut`, `ShutdownReachesServer`,
both `HandlerReturns`, `MintedSessionEndsOperations`, `CopiersReturn`, `PageLearnsOfTheEnd`,
`PageReconnects`, `AnyEndTearsDown`, `PageCatchesUp`, `SignalEndsProcess`).  Liveness under
fairness and `ENABLED` are out of TLAPS's reach; so is induction over data, which
none of the proofs needs.

## 5. Findings

The violated properties quote the repository's own comments and docs.

1. **A speedtest that ends while another one waits blocks the queue for good**
   (`queue_callback_blocks`).  The clean-up of `HandleQueue` calls the callbacks of
   the waiting entries with `queueLock` held; the callback locks it again.  After
   that every `WaitQueue` and the shutdown wait for the lock.  `StuckBehindAnother` proves
   that it takes a second visitor who waits with a position callback, `StuckIsForGood` that
   no timeout, disconnect or signal resolves it, for any number of visitors.  The signal
   goroutine then never reaches `aHttp.Shutdown`, so that the process has to be killed:
   the exception in `SignalEndsProcess`.
   The update of the remaining entries that `queue.go:228` announces ("Notify remaining
   entries of their updated queue position") is the very place: no waiting visitor of the
   page ever gets it.  What a live visitor is told is that it is first, just before it is
   let go (`ToldFirst`).
2. **A stale session handler can delete its replacement** (`session_stale_handler`):
   `IsCurrent` and `RemoveClient` are two critical sections.
3. **A resume cancels the operations it is meant to keep alive** (`operations_resume`).
4. **The traffic chart stops at the first reconnect** (`reconnect`): its listeners stay on
   the `EventSource` that was closed.
5. **A shutdown gives open requests no time** (`shutdown`): `ListenAndServe` returns as
   soon as `Shutdown` is called, and with it `main`.

Five more disagreements are visible in the models, as behaviours, without a run of their
own:

- **One configured address keeps the other from being looked up**, and the location with
  it: `config/init.go:86` asks whether neither is configured, while `README.md:49-51`
  ("request from", "fetch from") and `docs/config.md:248-250` ("自动获取", obtained
  automatically) give each of the three variables an automatic value of its own
  (`PublicConfig`: `NeedsLookup`).  `docs/config.md:493`, "if IP/Location is set by hand, the
  look-up is skipped", can be read either way.
- **A signal can be lost.**  When its goroutine calls `Shutdown` before `Start` has assigned
  the server, nothing is shut down (`http/init.go:119`), nobody receives later signals, and
  the process serves on, where `docs/backend.md:162` says that a signal closes the HTTP
  service (`ServerProcess`: `Shutdown` before `AssignServer`).
- `queue.go:211` wants "only one task" to run at a time, but `HandleQueue` waits for the end
  of the context, not of the process, and a shutdown releases everybody
  (`SpeedtestQueue`: `ContextEnds` before `Return`, `SignalCancelsAll`).
- `safe_send.go:34` wants a pipe to be copied until it is exhausted; `cmd.Wait` closes it when
  the program has exited (`OutputPipes`: `Wait` before `Read`).
- `client.go:77` wants the context to end with the session; on a resumed session the
  watcher may read `c.ctx` before `SetContext` (`SessionOperations`: `watcher = "blind"`).

Other observations, which no comment contradicts or which are too small for a run:

- `ping.go:76` says that the page recovers from a lost `PingEnd` "via Stop or session
  disconnect".  Stop helps; a disconnect does not: no code of the page ends a run.
- A ping that is started between an error and the reconnect puts its listeners on the
  closed source and hears nothing.  One that is refused (400) leaves the button at Stop.
- After Stop and Ping the events of the stopped run reach the new table, and its
  `PingEnd` ends the new run.
- `session.go:166-172` says that keepalives keep the write deadline fresh; `http/init.go:20-33`
  knows that `WriteTimeout` is absolute.  A stream ends after ten minutes.
- `als.go:67` says that `cleanupExpiredClients` exits when its context is cancelled; in production
  that is `context.Background()`.
- The last output of a shell can be lost: `ptmx.Close` follows `cmd.Wait` at once.

## 6. What could follow

- Simulations between the parts that are now only composed by name: `OutputPipes` and
  `SpeedtestQueue` each have half of the speedtest.net handler.
- An abstract broadcast that `TrafficBroadcast` refines (each session gets the sampled sequence
  without the refused samples).
- The other cards of the page (`IPerf3.vue`, `SpeedtestNet.vue`), which add listeners as
  `Ping.vue` does but await the end of their request.

## 7. Not modelled

The fake shell is a sequential menu in a process of its own, whose commands are
external programs; `ShellSession` sees it exit, read and write.  Embedded files are static,
translations and layout presentation.  Of the configuration, the ports, the sponsor
message and the parsing of the environment are sequential and only pass through.  Of the
timers the end of their loops is left out, since the process ends with it.
`WaitForHandlerParked`, `ResetQueueForTest`, `RemoveAllClients` and the injection points of `als.go`
exist for tests.
