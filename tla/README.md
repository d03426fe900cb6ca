# A verification project for GhostCloud

GhostCloud is a VPN and proxy client: a Flutter application (`src/lib`) around
the Go proxy engine Clash.Meta, which `src/core` wraps.  On Android the engine
is a shared library that Kotlin and Dart call in process; on the desktop it is
a process of its own that the application talks to over a socket.  This
directory holds TLA+ models of the parts where goroutines, callbacks and
processes meet, model-checked with TLC, and machine-checked proofs about them.

Contents: 1. the system; 2. the modules and the code; 3. what the runs check;
4. fairness; 5. what is proved; 6. disagreements found; 7. what is not
modelled; 8. what could come next.

To check a run: `tlc -config MCTunHandler.cfg MCTunHandler.tla`; to check the
proofs: `tlapm` on `TunHandlerProofs.tla`, `CoreHubProofs.tla`,
`LogStreamProofs.tla`, `DesktopCoreProofs.tla`, `CoreRpcProofs.tla`,
`ProviderFetcherProofs.tla`, `VpnRunStateProofs.tla` and `StatusFlowProofs.tla`.  `PROJECT.json` lists the runs, for every
property a mutation of the model that breaks it, the source lines of every
definition, and the hazards of the code.

## 1. The system

| Component | Source | State | Operations |
|---|---|---|---|
| TUN lifecycle (Android) | `core/lib_android.go`, `core/tun/tun.go` | `tunHandler`, `runTime`, `tunLock`, per handler a listener, a JNI callback and a semaphore of 4 permits; the global hooks of the dialer and the process lookup | `startTUN`, `stopTun`, `handleProtect`, `handleResolveProcess`, `getRunTime`, `getAndroidVpnOptions` |
| Request handlers | `core/hub.go`, `common.go`, `action.go` | `currentConfig`, `isInit`, `isRunning`, `proxyDescriptions`, `externalProviders`, `runLock`, the batch of delay tests | 32 methods: configuration, proxies, listeners, connections, providers, delays, log |
| Log stream | `Clash.Meta/log`, `common/observable`, `core/hub.go` | `logSubscriber`, the subscribers and their buffers, the mutex of the observable | log an event, `startLog`, `stopLog` |
| External providers | `Clash.Meta/component/resource`, `adapter/provider`, `core/hub.go` | per object the hash it has loaded, its context, a mutex; shared by all objects of one provider: the local file and the entry of the etag cache; `externalProviders` | load the local file, pull at intervals, list, update, side-load |
| Listeners | `Clash.Meta/listener` | one variable per protocol, `mixedListener` and `mixedUDPLister` among them, and the open sockets | `ReCreate*`, `StopListener` |
| Entry points | `core/server.go`, `core/lib.go` | the connection, the port of the Dart isolate | read a request, spawn its goroutine, send its answer |
| Request/response client | `lib/clash/interface.dart`, `lib.dart`, `lib/common/future.dart` | a completer per request id | `invoke`, `handleResult`, time-outs |
| Desktop core process | `lib/clash/service.dart`, `services/helper` | the process, the server socket, the completer of the core's socket, `isStarting`; in the helper the child | `reStart`, `shutdown`, `sendMessage`; `start`, `stop` |
| Start/stop flow | `lib/state.dart`, `lib/controller.dart` | `startTime`, the timer of the update tasks, debouncers | `handleStart`, `handleStop`, `startUpdateTasks`, configuration updates |
| VPN run state (Android) | `android/app/.../GlobalState.kt`, `plugins/*.kt`, `services/*.kt`, `lib/main.dart` | `runState`, two Flutter engines, the pending action of the tile, the bound service | start, stop and toggle from the tile, the app, a notification; permission dialog; status synchronisation |
| Engine | `core/Clash.Meta` (third party) | tunnel, proxies, DNS, rules | |
| Account services, screens, runners | `lib/services`, `lib/views`, `linux`, `macos`, `windows`, `plugins` | | |

How they interact.  The app sends a request with an id and keeps a completer
for it; the core reads requests in order but handles each in its own goroutine
(`server.go:75`, `lib.go:65`), and the answers come back in any order.  On
Android Kotlin also calls `startTUN` and `stopTun` directly; both only spawn a
goroutine (`lib_android.go:228,241`).  The goroutines of the engine that dial
out call back into Kotlin (`VpnService.protect`, the owner of a connection)
through two global hooks and the JNI callback of the current TUN handler.  The
log of the core runs through one goroutine to every subscriber, and from there
to the app.

What is hard about it:

* *Overlap.*  Requests the client did not wait for overlap.  Most handlers take
  `runLock`; `shutdown`, `startLog` and `stopLog` do not, and `changeProxy`
  locks it in one goroutine and unlocks it in another.
* *Ownership across languages.*  A JNI reference is created in C++, used by any
  number of Go goroutines and must be released exactly once, and not while one
  of them is inside it.
* *Globals read twice.*  Hooks, the current handler and the log subscriber are
  globals that one goroutine tests and another replaces.
* *Partial failure.*  A mixed port consists of a TCP and a UDP listener that
  are opened one after the other; either may fail.
* *Back-pressure.*  A slow or missing reader of the log stops the whole core.
* *Old objects.*  A setup makes new provider objects and ends the old ones only
  through the garbage collector; old and new share a file and an etag.
* *Time-outs and restarts* between the app and the core process; two Flutter
  engines that share one run state.

Correctness, per component:

* TUN lifecycle: a callback is never used after its release nor released
  twice; a stopped core holds no open tunnel; a stop is not starved.
* Request handlers: overlapping requests are answered as if each ran alone;
  the open sockets follow the configuration; every request is answered.
* Log stream: no event goes to a closed channel; every subscriber is read, and
  so nobody who logs is blocked for ever.
* External providers: only what parses is loaded; file and loaded content agree;
  a provider in force that has an interval comes to have what its remote serves;
  old loops end.
* Client: every call ends once, with its own answer or its default.
* Desktop process: at most one core runs; a restart leads to a running core.
* Start/stop flow, run state: after the last request the listeners, the TUN and
  the displayed state agree with it; nothing stays pending.

## 2. The modules and the code

`TunContract` says what the owner of a JNI callback may rely on: the callback
of a start is unused, then held, then released; users are inside it only while
its tunnel is open; it is released once, with nobody inside, together with its
tunnel.

`TunHandler` is the code that implements it.

| Code | Model |
|---|---|
| a call of `startTUN` or `stopTun`, its goroutine; the handler a start creates and the callback it was given | an element of `Starts` or `Stops`; `pc` is where its goroutine is |
| `tunLock` across `close()` and across the opening of the tunnel | `lock`; critical sections in which nobody waits are one step |
| `tunHandler`, `runTime` | `tunHandler`, `runTime` (set or not) |
| `DefaultSocketHook`, `DefaultPackageNameResolver` | `hook`; they are always set and cleared together |
| the semaphore of a handler | `holders`, `waiters`, a first-come queue as in `semaphore.Weighted` |
| a goroutine that dials or resolves a process | an element of `Dials`, `dpc`; `dh` is the handler whose method it has called |

`handleStopTun` is three steps because others act in between: the request for
the permits (`HandleStopTun`), the removal of the hooks (`CloseHooks`), and the
rest of `close()` with the unlocks (`CloseHandler`).  `handleStartTun` runs
`handleStopTun` first and releases `tunLock` before it takes it again; the
model has that gap.  The hooks read the global `tunHandler` when they run, so a
dial may use a handler that is closed or replaced right after.

`HubContract` is the interface of the request handlers as the app sees it: one
record (running, configuration, port, selected proxy, descriptions) which each
request reads or changes in one step.

`CoreHub` is the code: `HandleAction` is the `go handleAction(...)` of the
server; each handler is one or more steps, with a step boundary wherever
another goroutine can act.  A setup is the parse (`SetupConfig`), the hand-over
to the engine (`ApplyConfig`), the selection (`PatchSelectGroup`) and the
listeners (`UpdateListeners`, `RecreateTCP`, `RecreateUDP`).  A configuration
is its name, `PortOf` and `GroupOf`; `Config` is what parsing it yields.  The
open sockets (`bound`) are kept apart from the variables `mixedListener` and
`mixedUDPLister` (`tcp`, `udp`) because the code can close a socket and keep the
variable: when the UDP half fails, `ReCreateMixed` closes the TCP listener but
keeps it in its variable (`listener.go:490`).  Then the next call with the same
port tries to open both again, because the UDP one is missing.

`LogContract` is the log stream as those who log and those who read see it: an
event is put, at one moment and once, into every subscription that is open then.

`LogStream` is the observable of Clash.Meta together with `handleStartLog` and
`handleStopLog`.  Its reading goroutine evaluates `range logSubscriber` when it
first runs, as the code does, and not when it is spawned.  It implements
`LogContract`: an event takes effect when `process` has taken the list of
subscribers, under the mutex, and the contract's queue is what a channel holds
together with what `process` has still to put into it.

`RpcContract` says what a request promises its caller: it is carried out once at
most and returns its own answer or the default of a time-out, after which
nobody knows whether it was carried out.  `CoreRpc` is the code on Android.

| Code | Model |
|---|---|
| the future `invoke` returns | `out`: none, pending, answer, default |
| `callbackCompleterMap` | `completers` |
| the message, from `sendMessage` through the isolate of the service engine and the goroutine of the core, and the answer's way back | `message`, one label for each place it can be at |
| `sendPort`, `receiverPort` | `sendPort`, `ports`: the engines whose port the application has, or is about to get |
| `initServiceEngine`, `destroyServiceEngine` | `engine`, `created`: engines are numbered |

The two timers of `safeFuture` are two actions: `TimeOut` gives the caller the
default, `Remove` takes the completer out of the map.  `Due` says when each is
due from the call on, as `future.dart:13-20` computes it, and they fire in that
order; an answer in time cancels the first (`Disarm`) and nothing cancels the
second.

`ProviderFetcher` is the fetcher of a provider that is downloaded, with the
handlers of `hub.go` that list, update and side-load providers.  A provider is
the number of its setup; the goroutine of its `Initial` and the loop `Initial`
starts follow each other and are one task.  A provider for which the profile gives
no interval (it is optional and 0 then, `adapter/provider/parser.go:63,130`) gets no
loop (`fetcher.go:195`): it comes to rest at "still" instead of "loop" (`Resting`),
and only a request or a new setup loads anything into it again.

| Code | Model |
|---|---|
| the provider of the profile in force; the one in `externalProviders` | `current`, `listed` |
| `Fetcher.hash`, its context | `hash`, `closed` |
| the interval of the profile | `world.pulls`: above zero or not |
| `Initial` and `pullLoop`, and the goroutine of a request | tasks: `at`, `on` (the provider), `buf` (what it has read), `sent` (the etag it sends) |
| `loadBufMutex` | held by whoever is at "writing" (`Writers`) |
| `runLock` while a side load waits | `side` |
| the local file | `file`: a content, `"partial"` during a write and after one that failed, `"mixed"` when two objects write at once or the process ends in a write |
| the etag cache of the process and on disk | `etag` |
| `SetFinalizer` on the wrapper | `Finalize`: an object neither in force nor listed has its context cancelled |

`loadBuf` is two steps under the mutex: it begins to write the file (`Load`), and
then has written it and loads the content (`Written`), or fails (`WriteFails`).
The process may end between them, and another object does not take this object's
mutex.

`DesktopCore` is `ClashService` with the processes and the helper it deals with.

| Code | Model |
|---|---|
| a call of `reStart` or `shutdown` | an element of `Restarts` or `Shutdowns`; `First` is the restart of the constructor; `pc` says which await it is at |
| the process a restart starts itself, or through the helper | the cores `<<r, "app">>` and `<<r, "helper">>` |
| `socketCompleter` | `socket`: the core whose socket completed it, or `Nil`.  A completer that is replaced strands whoever waits for it: its calls become `lost` |
| `lastSocket.close()` | `closed` when it is called; it completes (`flushed`), or throws for a socket whose write has failed (`failed`) |
| `await for (final socket in server)` | `server`: idle, closing the last socket, about to complete, or ended by an exception; `backlog` holds the connections it has not taken |
| `invoke`, `sendMessage` | a call is idle, waiting for the socket, lost, or sent to a core |
| a request to the helper | `stopReq`, `startReq`; it goes on when the application stops waiting |
| `PROCESS` of the helper | `child`; `start` is two steps because it releases the mutex in between |

`_destroySocket` is two steps, and it replaces the completer that is current
after the wait, not the one it found.  A `reStart` installs a new completer
before it calls `shutdown`, whose `_destroySocket` then usually finds nothing
to close: the old core ends because it is killed.  A request that was written to a
core that is gone makes a write fail, of which the sender learns nothing
(`WriteFails`); closing that socket then throws, out of the operation that does it
(`SocketBroken`) or out of the loop that accepts (`LastBroken`).

`VpnRunState` is `GlobalState` and the plugins that write it.  An action is what
the main thread of Android, or one of the two Dart isolates, runs without
giving way.

| Code | Model |
|---|---|
| `runState` | `runState` |
| the engine of the application, the service engine | `ui`, `engine`; the former may start while the latter lives, and replaces it |
| `pendingAction`, the channel "tile" before and after Dart listens | `pending`, `tile`: before anybody listens the channel keeps the newest message |
| `options`, `FoxCloudService`, `isBind`, the bindings in flight | `options`, `service`, `isBind`, `binding` |
| `VpnService.prepare`, the dialogue | `granted`, `asking` |
| `Core.startTun`, `Core.stopTun`, which only spawn | `coreCalls`, run in order by `CoreRuns`, and `tun` |
| the two coroutines of `syncStatus` | `sync`: launched, asked, told, done |
| `exit(0)`, and an application that is killed | `ProcessEnds` |

`StatusFlow` is `updateStatus` and everything that calls it.  An action is the
code between two awaits of Dart.

| Code | Model |
|---|---|
| a call of `updateStatus` or `restartCore` | an element of `Calls`; `pc` says which await it is at |
| `startTime` | `startTime`, set or not |
| `runTimeProvider`, the button | `runTime`, `isStart`; `debounce` is a click that waits |
| `startUpdateTasks`, which calls itself by a timer | `loop`, `timer`: while the tasks run the timer is null, and a stop does not find it |
| `startListener`, `startVpn` and their opposites | `listening`, `channel`, `vpn` |

**Kinds of behaviour.**  Some properties are about calls made one at a time,
others about any overlap.  Each module has a variable that is chosen in the
initial states and never changes, so that one run, and one theorem, is about
both: `serial` in `TunHandler` and `LogStream`; `world` in `DesktopCore` and
`ProviderFetcher`, `may` in `VpnRunState` and `StatusFlow`, with the constant
`Worlds` as its range.  Beside the platform (Android, Windows), such a variable only
guards the arrival of inputs and of failures, never a step of the code.

The modules `MC...` give the constants their values: a few requests and
restarts, three configurations (the default, one with a group and one whose
proxy list is null) and a text that does not parse, two contents that parse and
one that does not, and the symmetry of requests that are interchangeable.

The mutants (definitions introduced by "Mutant:" in the modules) are used by no
specification; they are the forms the code would have with a plausible bug,
and show that each property notices one.

## 3. What the runs check

| Run | Question | Bounds | Result |
|---|---|---|---|
| `tun_overlap` | Do starts and stops, in any overlap, use a callback after its release or end stopped with the handler open?  Does a dial starve a stop, or hang at a closed handler?  One at a time: does anything leak, is an open tunnel hooked?  Is `TunContract` implemented, and with it: is no callback released twice, none while somebody is inside? | 2 starts, 2 stops, 2 dials that come back for ever | holds |
| `tun_hook` | Does the dialer call a hook that is not null where it has tested that it is not? | 2 starts, 1 stop, 1 dial | violated, see 6 |
| `hub_config` | Are overlapping requests answered as if each ran alone (`HubContract`)? | any 4 requests of the configuration operations | holds |
| `hub_listeners` | Do the open sockets follow the configuration?  When can a handler panic?  Is every request answered? | any 3 requests of the listener operations, selections and delay tests; any opening may fail; one slot for delay tests | holds |
| `log_stream` | Does each event reach once every subscription that is open (`LogContract`)?  Is there a send on a closed channel?  One request at a time: is every subscriber read, and does everybody who logs, and a stop, get on? | 2 starts, 1 stop, 2 loggers, buffers of 2 | holds |
| `core_rpc` | Does a request return once, its own answer or a default, and is it carried out twice (`RpcContract`)?  Does an answer that comes in time reach its caller, although the completer is removed by a timer of its own?  Do requests come to go to the engine that lives? | 3 requests, 2 engines that follow each other or end at any time; a time-out of 100 and a common duration of 1, the proportion of the 30 seconds and 300 milliseconds of the code | holds |
| `desktop_safety` | Can restarts and shutdowns in any overlap end the loop that accepts cores, other than by a write that failed?  Does the start of the core lose a request?  One operation at a time: is there ever a core the application is not connected to? | 3 restarts, 1 shutdown, 2 requests; overlapping with crashes and failed starts, or one at a time with a helper that comes up at any time and may be late | holds |
| `desktop_live` | Does a restart lead to a lasting connection, unless a write fails, and is a request of the first start answered? | 3 restarts, 2 requests; a helper in time, or none | holds |
| `vpn_run_state` | Can a VPN be on while the run state says it is stopped?  Is what the tile has accepted carried through? | 5 inputs of the user or the system, 1 sync; VPN and proxy mode; with and without the application, failures, the permission | holds |
| `vpn_sync` | Does the sync at the opening of the application leave the run state equal to the VPN? | 3 inputs, 1 sync, nothing fails | violated, see 6 |
| `status_flow` | Is a run time shown only while the application is started or being stopped?  Calls that wait for each other: do start time, listener, VPN and display agree, and is a started application shown as such? | 4 calls in any overlap and one after the other, on Android and on the desktop | holds |
| `providers` | Is anything loaded that does not parse?  Do file and loaded content agree?  Does a provider in force that has an interval come to have what its remote serves, do old loops end, is every request answered? | 2 setups, 2 requests, crashes, see below | holds |

Why the bounds are enough.  In `TunHandler` a fault needs a handler, a second
one that replaces it, a call that closes it twice or out of order, and a dial
that has read the first: two starts, two stops and one dial; the second dial
lets permits overlap.  The semaphore keeps its four permits.  In `CoreHub` a
handler that is half done meets at most one that reads and one that writes, and
a fourth request makes the state they start from.  A buffer of two is the
smallest that can be neither empty nor full, and events keep coming, so it does
fill; the code has 200.  One slot for delay tests instead of 50 makes two tests
compete.  In `CoreRpc` a request can be queued before there is an engine, sent
to the first, and sent to the second: three requests and two engines.  A fault
of the run state takes a start, a stop, an answer that comes late to one of
them, and the end of the process or a permission: five inputs.  Four calls of
`updateStatus` are those of the beginning, a start, a stop that overlaps it and
a restart of the core.  All safety properties are proved for any number as
well (5).

The worlds of `providers`: one provider in a process at a time (`calm`), with two
requests beside its loop and one change of the environment, or with one request
and two changes; two providers at once, with one request or with one change; and
both without an interval, with a request.
A change is a new content at the remote, an outage, a recovery or a crash.  The
clock is not modelled: the loop's timer fires when it likes.

What some properties leave out, because the code does not have it there:

* `ListenersFollow` excepts runs with a `shutdown`, which takes no lock;
  `PanicOnlyAtTheEdges` says that such a shutdown and an update before the first
  setup are the only ways to a panic of these handlers.
* `StoppedLeavesNothing` and `OpenTunIsHooked` are about calls made one at a time
  (`serial`).  A start whose goroutine runs between the two halves of another
  overwrites a handler without closing it (`lib_android.go:108`).  A start with
  file descriptor 0 keeps no handler for the callback it was given
  (`lib_android.go:107`), and one before the first setup reads a nil
  configuration (`lib_android.go:113`): a start is modelled as the
  application makes it, with a descriptor and after a setup.
* `SubscriberIsRead` and `NobodyBlocks` likewise: two overlapping `startLog`, or a
  `startLog` and a `stopLog`, can leave a subscriber that nobody reads
  (`hub.go:433`), and the 201st event then stops the core.
* `NoStrayCore` and the properties of `desktop_live` are about operations that
  begin when no other is under way.  The application begins a restart when the
  user has granted rights to the core (`controller.dart:753`) and a shutdown when
  it ends or clears its data, seconds apart; but nothing in `ClashService` keeps a
  shutdown out of a restart.  Where they overlap a shutdown drops the socket of
  the new core.  Three restarts that do not wait for what the helper still has in
  hand can leave a core nobody holds (`hub.rs:47`), and a late stop can end the
  core of a later start; `desktop_live` therefore has a helper that is in time.
  Two old cores and a new one, one of them dead in the queue of the server, are
  the most that can meet: three restarts.
* `StartLosesNoCall` is checked where no helper outlasts its 2 seconds.  With one
  that does, its core and the application's may both connect, and a request
  written to the first socket, which the second connection closes, is lost.  The
  theorem `StartKeepsCalls` has the same condition.
* `OnIsNotStopped` excepts a status written back late (`misled`), which is the
  finding of `vpn_sync`.  Its converse, that START means a VPN, fails when the
  system rejects the VPN after the run state was set (`VpnPlugin.kt:278`).
  `PendingEnds` needs the permission: without an activity nobody is asked, and
  PENDING stays until a sync overwrites it.
* `StatusAgrees` is about calls that wait for each other: a stop that overlaps a
  start can leave the listener without a start time or the reverse
  (`state.dart:160`).
* `ServerKeepsAccepting` excepts a socket whose write has failed.  The code closes it
  in the loop without a handler of its own (`service.dart:50,145`), so after a core
  that crashed with a request on its way, or an old core that was accepted late,
  the next core to dial ends the loop, and no core is accepted any more.  A
  `shutdown` or `reStart` that meets such a socket fails before it has killed
  anything, and a `reStart` leaves `isStarting` set.  `RestartConnects` and
  `NoStrayCore` except these cases.
* `AnswerInTimeCounts` is about the caller; that the answer it gets is its own rests
  on identifiers that are unique.
* `Converges` is about providers with an interval.  One without never follows its
  remote by itself, which is what the profile asked for; `OldLoopsEnd` says of it that
  its context is cancelled.
* The error of reading the local file is dropped (`fetcher.go:55`): while the disk
  fails, `Initial` ends with nothing, or with the part that was read if it parses,
  and does not turn to the remote.  A provider with an interval recovers with its
  next pull.  `FileAgrees` is about whole contents.
* `FileAgrees` is about one provider in a process, after its `Initial`.  Two
  objects write one file without a common lock, and a file they have mixed stays
  until the remote changes, since an unchanged content is not written again.
  An old object lives on as long as the list of the last `getExternalProviders`
  has it (`hub.go:326`).

Deadlock is not checked: in every model the inputs are one-shot or bounded, and
the model ends when they are used up or a panic has ended the process.  That
nobody waits for ever is stated by the liveness properties instead.

## 4. Fairness

A goroutine that can run is run, a Dart isolate takes its next event, a timer
fires: weak fairness of the steps of each.  Nobody is made to call, dial, log,
click, set up or send a request, nothing is made to fail or to be repaired, and
a hook may choose every time to use the callback.

* Where several goroutines wait for one mutex or channel (`LogStream`: the mutex
  of the observable, the channel of events; `ProviderFetcher`: `loadBufMutex`),
  the Go runtime serves them in order (the starvation mode of `sync.Mutex`, the
  queue of a channel), so no waiter is passed over for ever: strong fairness for
  each.  The semaphore of a TUN handler needs no such assumption, its queue is
  part of the model.
* A call into the JVM is assumed to return, and a delay test to end, as it does by
  its own time-out (`hub.go:237`).
* `CoreRpc`: both timers of a request fire and a port that was sent arrives.  The
  core need not answer at all.
* `ProviderFetcher`: a download ends, by its time-out (`vehicle.go:123`); the
  `select` of the loop, where the timer and the context are both ready again and
  again, does not choose the timer for ever (Go chooses at random): strong
  fairness of the end of the loop; the runtime collects garbage at least every two
  minutes, so a finalizer that may run does: weak fairness of `Finalize`.
* `StatusFlow`: a request is answered (`CoreRpc` shows that it returns), the
  platform answers, a debouncer's time is over.
* `VpnRunState`: the isolates, the coroutines of a sync and the core go on, a
  service that is bound connects.  The user need not answer the dialogue.
* `DesktopCore`: the event loop of the application, the loop that accepts, the
  helper and a core that lives keep running; nobody has to restart, send a request
  or install the helper.

## 5. What is proved

Each theorem is about every value of the constants that satisfies the named
assumptions of its module (sets are disjoint, `Nil` is in none, numbers are
natural), for any number of requests, calls, dials, loggers, providers,
configurations or worlds, and for both values of `serial`.  Nothing else is
assumed.

**`TunHandlerProofs`**: `TypeCorrect`; `CallbackSafe` (`CallbackLive`);
`ReleasedAtMostOnce`, which says for itself what the contract implies of the
releases; `StopClosesCurrent` (`StoppedIsClosed`);
`StopLeavesNothing` and `TunnelIsHooked`, for calls made one at a time;
`Refinement`: the code implements `TunContract`.  None of these is inductive.
That a callback in use is not released depends on who holds permits; that on who
is inside `close()`; and that on `tunLock`.  The invariant `IInv` has five parts.
`LockInv`: exactly the call in a critical section holds `tunLock`, and works on
the current handler.  `SemInv`: a closing call that holds permits of a handler
holds them alone, and is queued at most once.  `HandlerInv`: a handler is filled
by its own start, has a listener exactly while its tunnel is open, and a listener
only with a callback that is not released.  `DialInv`: a goroutine inside a native
call holds a permit of a handler that has its listener.  `StopInv`: the hooks are
removed before the handler is emptied.  The lemmas `AdmittedPrefix`,
`AcquireFacts` and `ReleaseFacts` say what the semaphore does to its queue,
whatever the queue is.  For the serial properties `SerialInv` adds that at most
one call is running, that the current handler alone may own a callback or a
tunnel, and that it owns none when the next one is installed; it is proved on
top of `IInv`.  `NoWaitInVain`: whoever has asked a handler for permits has them
or is in its queue, once, and the first of a queue is kept out by holders, each of
whom gives its permits back.  `QueueInv` carries it; `AcquireQueue` and
`ReleaseQueue` say that a request is never dropped by the semaphore, and that a
release admits all who fit.

**`CoreHubProofs`**: `TypeCorrect`; `ListenersAgree` (`ListenersFollow`);
`PanicsAtTheEdges`; `Refinement`: the handlers implement `HubContract`.
`IInv` joins the types and the panics with `CallInv` (who is at which label holds
`runLock`, and has asked for what), `ConfigInv` (the tunnel has the proxies of the
configuration unless a setup is about to hand them over) and `ListenInv` (the two
sockets of the mixed port are open both as the variables say, or closed both,
except between the two halves of `ReCreateMixed`; this is where the TCP listener
that stays in its variable after a failure matters).  In the refinement a setup,
an update or a start takes effect when it takes `runLock`: while the lock is held
the abstract configuration is the one the holder will have made, and no request
that would see the difference can run.  `LockComesBack`, about steps: whoever
holds `runLock` goes only forward, in five steps at most, and it alone gives the
lock back, with its answer, unless it panics and so ends the process.

**`LogStreamProofs`**: `TypeCorrect`, with it that no channel holds more than its
buffer; `NeverSendsOnClosed` (`SendOnOpen`), however requests
overlap: a subscription is closed under the mutex that the distributor holds
from taking the list of subscribers to the last of them, and is never subscribed
again.  `EverySubscriberRead` (`SubscriberIsRead`), one request at a time:
`SerialInv` says that there is one subscription at most: that of the start under
way, or the global one, which then has its reader.  From it `NoStandstill`: while
`process` holds the mutex it can go on, or the reader of the full channel it waits
for can.  `Refinement`: the stream implements `LogContract`, for overlapping
requests too; it needs that the subscriptions `process` has still to serve are
open, which the mutex gives.

**`DesktopCoreProofs`**: `TypeCorrect`; `KeepsAccepting` (`ServerKeepsAccepting`);
`NoCoreLeftBehind` (`NoStrayCore`), however late the helper is and whatever fails
to start or crashes, while no write has failed.  `LoopInv`: when the loop is about to
complete the completer, it is a new one, because `_destroySocket` has just replaced
it and others only replace it again; so only a close that throws ends the loop.  For
operations one after the other, `OpInv` follows the process, the child
of the helper and its requests through the labels of the one operation that is
active; a late request of the helper counts as activity.  `HeldInv`: a core that
runs is held by the application or by the helper.  `ReachInv`: a core that is
connected is the one of the current socket, or waits to be accepted, or will end:
its socket is closed, or an operation under way will kill it.

Of the first start, `StartKeepsCalls` (`StartLosesNoCall`): as long as nothing else
begins and no core crashes, a request is never stranded at an old completer, nor
sent to a core whose socket is replaced.  `FirstStage` follows the start through
its labels, with what the helper was asked and has answered: a helper that failed
in time has no child, so only one core ever connects.  `FirstSocket` says that it
is in one place, in the queue, at the loop or at the socket.

For operations one after the other with a helper in time, `HeldIsConnected`: when
nothing is under way, the core that the application or the helper holds is the one
of the current socket; and `RestartReaches`: after a restart that has ended there
is one, unless something, a write included, has failed, crashed or been shut down.  `Reaches` is why:
the core that was started last dials last, so nobody comes after it at the loop
that accepts.

**`CoreRpcProofs`**: `ImplementsContract`: `CoreRpc` implements `RpcContract`;
`AnswerReachesCaller` (`AnswerInTimeCounts`), for any two durations of which the
second is not zero: the time-out is due first, so as long as it is neither fired nor
cancelled the removal is still to come (`TimerInv`), and with it the completer is
there.  A message that has not reached a goroutine
has not been run, and one that is coming back has been run once.  `TypeCorrect`:
`EngineInv` adds that a message in an isolate, on its way there or back, is in the
one that lives.  `EngineIsFound`: the application has the port of the engine that
lives, or that port is the last of those on their way, so no port of an earlier
engine overwrites it; and requests are queued only before the first port.

**`ProviderFetcherProofs`**: `TypeCorrect`, with it that only what parses is
loaded; `FileAgreement` (`FileAgrees`).  `TaskInv`: a task at a label works on a
provider that was made.  `LoopInv`: a task that loops has ended its `Initial`, and
just the providers with an interval loop.
`CalmInv`: with one provider in the process, every task works on it, whoever
writes is alone, and while nobody does the file is what the provider has loaded,
or a part of what was to be written.  `UsedGoesOn`, for any number of providers: one
that is in force or listed is never cancelled, and, if it has an interval, its
`Initial` or its loop is at work, since no error ends a loop.  `OldStaysOld`: one that
is neither will not be again, and once its `Initial` has returned its finalizer may
run or has run.  `LocksGoOn`: each
of `loadBufMutex` and `runLock` has one holder; a side load that has `runLock` waits
at most for the mutex, and whoever has the mutex waits for nothing.

**`VpnRunStateProofs`**: `TypeCorrect`; `OnNotStopped` (`OnIsNotStopped`).  Inductive
together with `AskingHasOptions` (a dialogue is open only for a start whose options
are kept) and `JobNeedsOn` (the foreground job runs only while the VPN is on).
`StartIsOn` is the converse: a run state START means a VPN that is on or will be,
unless a start failed or a sync wrote it.  `PendingIsInHand`: while nothing fails,
the permission is there and the application stays closed, a PENDING run state has
something under way that will end it.

**`StatusFlowProofs`**: `TypeCorrect` and `ShownOnlyIfStarted` (`ShownIsStarted`),
however calls overlap; `CallsAgree` (`StatusAgrees`), for calls that wait for each
other.  `ChannelInv`: who waits for the platform is in its queue, once.
`SerialInv`: at most one call is under way, and none while a click waits for its
debouncer; what the call has done so far depends on its label (`Fits`); the
button shows what is displayed or what the call will display.  `TasksGoOn`, for
calls that wait for each other: an application that is started has a call that is
starting it, or an update task that runs or has its timer; `TaskInv` joins
`startTime`, the timer and the call that stops.

Only model-checked: liveness, which rests on fairness and so on `ENABLED`.  For
most of these properties the theorems above hold what could go wrong in them: that
whoever waits has somebody, or something, that goes on by itself.

| Liveness, checked by a run | The safety in it, proved |
|---|---|
| `NobodyStarves` | `NoWaitInVain` |
| `EveryRequestAnswered` | `LockComesBack` |
| `NobodyBlocks` | `NoStandstill`, `EverySubscriberRead` |
| `EveryCallReturns`, `PortFollows` | `AnswerReachesCaller`, `EngineIsFound` |
| `RestartConnects`, `StartAnswersCalls` | `RestartReaches`, `StartKeepsCalls` |
| `PendingEnds` | `PendingIsInHand` |
| `StartIsShown` | `TasksGoOn` |
| `Converges` | `UsedGoesOn`, `FileAgreement` |
| `OldLoopsEnd`, `RequestsEnd` | `OldStaysOld`, `LocksGoOn` |

## 6. Disagreements found

`tun_hook`.  `dialContext` tests `DefaultSocketHook != nil` and gives the socket
a control function (`socket_hook.go:19`) that reads the global again and calls
it.  In between `removeTunHook` may set it to nil, and the call of nil panics: in
the counterexample the tunnel of a start does not open (`lib_android.go:118`); a stop
does the same when it closes the handler (`lib_android.go:41`).  The comment in `dialer.go:147` describes the
branch as the one for a hook that is "not null".  `FindPackageName`
(`process.go:34`) copies its resolver first and is safe.

`vpn_sync`.  `MainActivity.kt:73` says of the status synchronisation made when the
application opens that it "ensures UI reflects actual VPN state".  `syncStatus`
(`GlobalState.kt:43-50`) asks the isolate of the service engine in one coroutine
and writes `runState` in another, without the lock of the run state: an answer
given before a start has reached the core, or given by no engine at all,
overwrites the run state of a VPN that has changed meanwhile.  Nothing corrects
it, and a VPN that runs but is called stopped refuses its stop (`VpnPlugin.kt:318`).

## 7. What is not modelled

* The protocols, DNS, rules and transports of Clash.Meta, which is by far the
  largest part of the repository: third-party code, modelled only where `core/`
  calls it or, as with the log and the providers, where its goroutines meet those
  of the application.
* Of the request handlers: downloads of geo data (`hub.go:362-392`), which hand a
  file to a library; `getAndroidVpnOptions`, `getRunTime`, traffic, memory and
  connection statistics, reads without a protocol.
* Of the listeners: the inbound listeners of a profile and the server protocols.
  `StopListener` does not close those of a profile (`common.go:136`), which the
  model of the mixed port cannot show.
* Of the providers: local files (watched by a library), health checks, the times
  of the backoff, the wording of answers.  A side load that fails is reported as a
  success (`common.go:92` tests `err == nil`): the model has that it loads
  nothing, not what is reported.
* Of the application: what a profile contains and its debounced updates, which
  become requests to `CoreHub`; the messages the core sends unasked;
  `ClashService.destroy`, which only precedes the end of the application; a
  server that cannot be bound.
* Of the Kotlin side: the notification, the network callback, the routes; of the
  JNI bridge: thread attachment and strings.
* Data races on Go globals other than as interleavings of whole reads and
  writes: pointers and booleans are written in one piece on the platforms the
  app is built for.
* Account services, screens, runners, vendored plugins, the build script: I/O,
  layout or code of others.

## 8. What could come next

Done: the modules of section 2, the contracts `TunContract`, `HubContract`,
`RpcContract` and `LogContract` with proofs that they are implemented, and the
safety proofs of section 5.  In order of use:

1. A composition of `VpnRunState` with `TunHandler`, in which `coreCalls` may be
   reordered: the run state against the tunnel itself.
2. The inbound listeners of a profile beside the mixed port in `CoreHub`, and the
   selector groups of the engine with their persistent choice.
3. `CoreRpc` over the socket of the desktop (`DesktopCore` has how a request is sent
   or lost, not its time-out).
