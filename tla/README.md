# A TLA+ model of the device status service

`msdp_device_status` is the OpenHarmony service behind device status sensing,
drag and drop, and *screen hopping*: the keyboard and mouse of one device cross
over to another. This directory models the parts of it in which threads,
processes and devices interact, checks them with TLC on small instances and
proves the main results with TLAPS for every value of the constants.

    cd tla
    tlc -workers 2 -config CooperateRelay.cfg MCCooperate    # a run
    tlapm CooperateProofs.tla                                # the proofs of a module

`PROJECT.json` lists the runs, the source lines of every definition, the
hazards of the code and the properties aimed at them, and for each property a
seeded fault (an operator marked *Seeded fault* in the module) that breaks it.

## 1. Inventory

### Parts, state and operations

| Part | State | Operations | Modelled |
|---|---|---|---|
| Cooperation state machine (`intention/cooperate/plugin`: `state_machine`, `cooperate_free/out/in`, `cooperate_context`, `event_manager`) | state FREE / OUT / IN, step of IN (Initial, RelayConfirmation), peer, relay target, pointer and touchpad speeds, pointer visibility, pending calls, switch | Start, StartWithOptions, Stop, Enable, Disable; packets START, STOP, COME_BACK, RELAY, RELAY_FINISHED; hotplug, local input, board offline, application death, session closed | `Cooperate` |
| Cooperation sessions (`dsoftbus_handler`, `adapters/dsoftbus_adapter`) | table of open sessions per device, packets under way | OpenSession, CloseSession, CloseAllSessions, SendPacket, OnBind, OnShutdown | `Cooperate` |
| Input interceptor and input builder | on or off, and a copy of the peer's id | Enable, Disable, Update | `Cooperate`, `InputRoute` |
| Cooperation API and worker thread (`cooperate.cpp`, `channel.h`) | bounded queue of events, sleeping receiver | Send, Receive, Loop, Start (waits for the worker) | `ServiceThreads` |
| Delegate tasks and service thread (`delegate_tasks`, `devicestatus_service`, `intention_service`) | task queue, pipe, epoll loop, `hasWaited_` | PostSyncTask, PostAsyncTask, PopPendingTaskList, ProcessTask, OnStop | `ServiceThreads`, `SyncCalls` |
| Timer manager | ordered list of timers, ids, a timerfd | AddTimer(Async), RemoveTimer(Async), ResetTimer, ProcessTimers | `TimerManager`, `Alarms`; as its users see it in `Cooperate` and `DragDrawing` |
| Drag manager | drag state, input monitors, watchdog and monitor timers, pointer visibility, OnDragUp tasks | StartDrag, StopDrag, OnDragUp, OnSetDragWindowVisible, SetDragState, RotateDragWindow(Sync), SetMouseDragMonitorState | `DragManager` |
| Drag drawing | window, end animation on a handler's thread, vsync, the animation's timer, rotation | Init, OnDragSuccess/Fail, InitVSync, OnVsync, ResetAnimationFlag, DestroyDragWindow, RotateDragWindowAsync | `DragDrawing` |
| Socket sessions, drag server and client | sessions by descriptor, session-lost callbacks, state and style listeners, `dragOutSession_`; in each process the connection, the listeners kept for a reconnection, `hasRegistered_`, `startDragListener_` | AllocSocketFd, ReleaseSession, OnProcessDied, AddDraglistener, RemoveDraglistener, StartDrag, OnConnected, OnDisconnected | `SocketSessions` |
| Boomerang (`devicestatus_manager`) | subscribers per bundle, `notifyListener_`, `bundleNameCache_`, `hasSubmitted_`, detached timer threads | Subscribe, Unsubscribe, NotifyMetadata, SubmitMetadata, BoomerangDecodeImage, OnRemoteDied | `Boomerang`, `MetadataRequests` |
| Stationary data (`devicestatus_manager`, `devicestatus_msdp_client_impl`, `devicestatus_msdp_mock`) | listeners per type, two mutexes, counts per type, the thread of the mock library | Subscribe, Unsubscribe, GetLatestDeviceStatusData, Enable/Disable of the source, ImplCallback | `Stationary` |
| Cooperation server | plugin loaded or not, unload timer | loading, forwarding | no: see section 7 |
| Device manager | map of input devices | hotplug (inotify), enumeration, observers | no: see section 7 |
| Plugin manager, task scheduler | loaded libraries; a queue like the delegate tasks' | LoadLibrary; PostTask | no: a lock around a map, and the structure already modelled |
| Distributed device adapter, input adapter, common events | observers | forward to the worker's Channel | their events are actions of `Cooperate` |
| Algorithms, data hub, on-screen, car awareness, language bindings | - | signal processing, libraries that are not in the repository, marshalling | no |

### How the parts interact

IPC threads run `IntentionService`. Every call becomes a task of the *service
thread* (`DelegateTasks::PostSyncTask`), and the caller waits three seconds at
most. The service thread also serves the timerfd of `TimerManager` and the
sockets of the sessions. The cooperation plugin has a *worker thread* of its own,
fed through a `Channel` by everybody: the API, soft bus callbacks, input and
device observers, timers. Handlers of the worker wait for the service thread when
they need a timer. The workers of different devices exchange packets over soft
bus sessions. The drag manager runs on the service thread; the end animation of
a drag runs on the thread of an event handler and asks the service thread to
remove its timer. Notices and drag results reach processes over their socket
session; a process that loses it keeps its listeners and registers them again.
Boomerang and stationary data do not use the service thread: their calls run on
binder threads under a mutex, with detached timer threads and the thread of the
mock library beside them.

### What is hard about it

* Two devices start each other, stop, refuse and close sessions while packets of
  the others are on their way; the protocol has no acknowledgement of START.
* A relay involves three devices and a timer, and `CooperateIn` keeps its step
  when the state machine leaves IN.
* The peer's id is kept in three places, the pointer speed in three variables,
  the pointer's visibility with the input service.
* The service thread waits for the worker while the worker waits for the service
  thread; callers give up and post again; records in the pipe and tasks in the
  queue do not correspond.
* Timer ids are reused at once, the list changes while it is being processed,
  and a delay of zero disarms a timerfd. The drag code keeps four ids, clears
  some of them when a timer has fired and some not, and a stale one cancels the
  timer of somebody else.
* A drag ends in many ways (application, watchdog, cooperation, failure at any
  point of its start), while tasks of the last drag are still queued and its
  animation is still running.
* The death of a process reaches the service as EOF and from the application
  manager, on two threads, in either order, and its id is used again; the service
  itself dies and is loaded again while processes hold registrations.
* The timer threads of earlier boomerang requests answer whatever request is
  open when they wake up.
* Two mutexes of the stationary data are taken in both orders.

The list, each item with its line, is `hazards` in `PROJECT.json`. Behaviours that
were met on the way, that no property covers and that nothing in the repository
documents as wrong:

* `delegate_tasks.cpp:43` reads `hasWaited_` and sets the promise of the poster's
  stack frame in two steps; a poster whose wait ends in between is gone. Undefined
  behaviour, taken in one step by the model.
* `state_machine.cpp:802`: a second SCREEN_OFF overwrites `screenEventTimer_`; the
  first timer stops a cooperation started after the screen came on.
* `drag_manager.cpp:377`: a refused StartDrag with the mouse has removed the timer of
  the mouse monitor, which then stays on.
* `drag_manager.cpp:226`: AddSubscriptListener does not watch the session, and
  `hasSubscriptRegistered_` is not reset when the connection is lost.
* `drag_drawing.cpp:4520`: the tail of ResetAnimationFlag runs on the animation's
  thread while the next drag may start; the model takes the tail in one step.
* `drag_client.cpp:168, 468`: RemoveDraglistener while disconnected does not look into
  `connectedDragListeners_`; a START still on the socket reaches a listener added
  after the drag.
* `socket_session.cpp:64`: SendMsg drops the packet when the socket stays full.
* `devicestatus_manager.cpp:717, 508, 654`: the timer of an earlier request answers
  the current one early with nothing; a callback used twice is compared with its
  first bundle; BoomerangDecodeImage takes the place of an open request.
* `devicestatus_manager.cpp:721`: RemoveLibTimerTask unloads the library without the
  lock.
* `devicestatus_msdp_mock.cpp:125, 254`: every Enable makes new descriptors and loses
  the old; when epoll_wait fails the thread ends and `alive_` stays set.
* `devicestatus_manager.cpp:53, 338, 365`: the callbacks of dead processes stay; one
  event filter per type; a callback whose Enable failed is not enabled again.

## 2. The modules

`MCX` is the instance of module `X` for TLC. Everything else is below.

### Cooperate

All devices run the same state machine. `dev[d]` is the `Context` of device `d`
together with the current state and step, `net` holds the sessions and the
packets, `timers[d]` the events that pending timers will post, `used` the bounds.

One step is one handler. That is justified by the code: handlers run on the
worker, and other threads only append to its Channel. `net.box[d][s]` is what
`s` sent to `d` and `d` has not handled, whether on the wire or in the Channel,
so that `Dispatch(d, s)` may take the head of any lane: senders are not ordered
with each other. `net.box[d][d]` holds what `d` posted to itself, like an event
that is put back (`RelayConfirmation::OnRemoteStop`). Closing a session discards
what is still on the wire, hence any suffix of the lane. The two ends close
independently; `OnShutdown` reports it to the other end later, and
`OpenSession` with a stale entry succeeds without opening anything, as
`DSoftbusAdapterImpl::OpenSession` does.

A handler is written as a chain of operators on the context, in the order of the
calls in the code: `ResetSpeed(TransiteTo(d, InterceptorDisable(c), "FREE"))` is
`CooperateOut::StopCooperate`. `SendPacket` and `OpenSession` return the set of
their outcomes, failure included. A failure spends one of `MaxFaults`; so do the
platform's failures (`AddInterceptor`, `CheckDeviceOnline`, accounts that
differ).

Abstractions of data. A speed is the device whose user has set it, and pointer
and touchpad speed, which the code always handles together, are one. Cursor
positions, the hot area, mouse location, damping, virtual input devices, listeners
and the private flag FREEZE have no effect on the rest and are left out.
`MOTION_DRAGGING` belongs to the drag manager and is a nondeterministic refusal.
SESSION_OPENED has no handler, `OnNormalWithOptions` no caller, and nothing in the
repository calls `Cooperate::Update`, which sends UPDATE_COOPERATE_FLAG.
`lost` is the one history variable: the calls whose callback can no longer be
answered.

### InputRoute

The abstract specification: what the plugin promises about the input of each
device, without states, packets or sessions. A device sends its input to at most
one other, or receives from at most one other; received input is never passed
on, so that a device that receives is released before it can send; unless it
receives, a device runs at its own pointer speed. `Cooperate!Route` maps it to
the interceptor, the builder and the speed, not to the state's label.

### ServiceThreads

IPC threads, the service thread (`main`), the plugin's worker and the thread
that calls `OnStop`. A step is what happens between two points at which a thread
can be held up: taking a lock, epoll_wait, a promise, a wait_for. `main.pc` says
where the service thread is: `pop` between the read from the pipe and
PopPendingTaskList, `get` in `Start`'s wait for the worker, `hung` in the same
wait when the Channel was full and START was rejected, so that nobody will ever
set the promise. The worker's handlers are of two kinds, those that need the
service thread (`TIMED`) and those that do not.

`QUIT` and `Channel::Disable` are left out, since the plugin is never unloaded.
`SetValue` takes the test of `hasWaited_` and the setting of the promise in one
step; what happens if the poster leaves in between is undefined (the promise is
on the poster's stack) and listed as a hazard.

### SyncCalls

The abstract specification of the delegate tasks: one sequence of accepted calls, a
flag that says whether the first is being run, and who waits. Calls run in the
order they were made, one at a time and each once; a call that was given up is
skipped if it has not begun and answered to nobody if it has. `ServiceThreads!Calls`
maps the batch followed by the queue to that sequence, so that reading records,
taking batches and everything the service thread and the worker wait for on the way
must be invisible.

### TimerManager

The list, the ids, the timerfd and the tasks by which other threads reach the
list. Times are relative to now, so a Tick is a decrement and time has no bound;
a timer more than `MaxLag` late counts as `MaxLag` late. `ProcessTimersInternal`
is a step per timer, with the time taken at its beginning (`service.late`), so
that time passes and users post while it runs. A callback may remove its timer,
which then happens at once, being on the service thread. The service thread
takes one task per wakeup, which allows every order that batches allow and more.
Overflow of 64-bit milliseconds is left out, and what a user who times out in
PostSyncTask does is in ServiceThreads. `AddTimerAsync` returns what
PostAsyncTask returns, as in the code.

### Alarms

The abstract specification of the timer service: a set of timers, without the
list, the timerfd, the tasks and the threads behind it. A timer can be set, with
an id no other timer has, cancelled and restarted; it is called when it is due and
not before, never ahead of one that has been due for longer; a repeated one is due
again an interval after it was due, however late it was called, and goes away with
its last call. A callback may cancel one timer. `TimerManager!Clock` maps it to the
elements of the list and to nothing else, so that what the timerfd, the queue of
tasks and the processing of the list do besides must be invisible.

### DragDrawing and DragManager

`DragManager` EXTENDS `DragDrawing`: the two share the timers and the window.
One step is a task of the service thread (a call, an OnDragUp task, a timer's
callback) or a task of the animation's handler.

`tm` is the timer service as the drag code sees it: an id is all a holder has,
`TakeNextTimerId` gives the lowest free id, and `RemoveTimer` removes the id that
the holder keeps, whoever has it now. Four variables of the code keep ids
(`Holder`); other users add timers and let them fire. `tm.lost` is a history:
the holders whose last timer was refused because the table was full, or
cancelled through a stale id.

`draw` is the window (`window`, `isRunning`), the end animation (`anim`: posted
to the handler, showing frames, or in ResetAnimationFlag waiting for RemoveTimer),
the request for the next frame (`vsync`, which may fail), the forced reset that
the animation's timer posts (`forced`), the animation's modifier (`effect`), the
rotation and the animations of FOLLOW_HAND_MORPH that are running (`ends`).
`draw.waits` marks the windows that nothing in the service gives back: those of
a start that failed to deliver its nonce, and those handed to the client.

`monitors` are the two input monitors, which are added and removed by the drag
and by SetMouseDragMonitorState; RemoveDragEventHandler gives up when there is no
key monitor, and so does the model. `stray` marks those of a start whose nonce
failed. `cursor` is the pointer: shown, hidden because the drag window replaces
it, or left hidden by a path on which the code does not show it again.
`DragUpCallback` runs on the input thread and only posts; `ups` counts the posted
tasks, which may be handled during a later drag. `SetDragState` (MOTION_DRAGGING)
is called by a plugin outside the repository.

Build: `MONITOR` on; `INTERCEPTOR`, animations of other products, PC, pull-throw,
internal drop, universal drag, ARKUI_X, ANCO, motion drag and HDR off. What is
drawn, previews, styles, summaries and privileges are data nothing here depends on.

### SocketSessions

The service and the processes that use it. A session is named by its descriptor
in the service, and a descriptor is free again when the last reference to the
`SocketSession` is gone: `sessions_`, the entries of the two listener tables,
`dragOutSession_` and the call in progress hold references (`Remaining`), and
closing one end makes the other read EOF (`HearEof`). `DragManager::AddListener`
is three steps (`found`, `noted`, watched), because the application manager's
notice of a death releases the session on a binder thread in the meantime; its
other operations are one step of the service thread. The service may die
(`ServiceDies`: every table is gone, every client reads EOF) and is loaded again.
A process dies at any point, the call it is in goes on, and its id is given to a
new process once the death has been reported.

In each process (`cl[p]`), `conn` is its connection, `listeners` and `registered`
are `dragListeners_` and `hasRegistered_`, `connected` is
`connectedDragListeners_`, `startListener` the number of the StartDrag whose
listener is in `startDragListener_`. `told` (the listeners that heard a start and
no end) and `gone` (those the process has given up) are histories. Which
process may call what comes from the permission checks: `SystemApp` for
listeners. Sockets are not bounded, and the contents of packets are reduced to
START, STOP and RESULT. `drag` is the drag manager reduced to who started it.

### Boomerang

One step is what happens under `DeviceStatusManager::mutex_`; the test of
`hasSubmitted_` at the beginning of `TimerTask` and the sleep are outside, so a
timer thread is `started`, `asleep` or gone. A request and its callback are one
thing because the binding makes a callback per request. `asked` and `answers` are
histories. The bundle of a link is a constant function, being the bundle
manager's answer.

### MetadataRequests

What a request is promised, without the lock, the cache and the threads: one
request is current, the last; only it is answered, once, with no link or a link of
the application it asked about; and a request that was given up, for a newer one, a
decoder or a death, is never taken up again. `Boomerang!Requests` maps the current
request to `notifyListener_`, unless that is a decoder.

### Stationary

Both objects have a mutex of their own; a step of a thread is what it does
between two acquisitions, so that `call[b].at` is the place at which a binder
thread waits. `StartAlgo` locks the client's mutex and `GetAlgoInst` locks it
again: `algoInst` has no step that leaves it. The thread of the mock library
ends when it is told to or when epoll_wait fails, and is joined with both
mutexes held. Values, event filters and the records of the dumper are left out.

## 3. What the runs check

| Run | Instance | Properties |
|---|---|---|
| `pair` | 2 devices, one without a mouse, 2 calls, 2 events, 1 failure, fair | OutReaches, SpeedRestored, PointerShown, OutSettles |
| `relay` | 3 devices, 2 Starts, 1 failure, fair | RelayOnlyWhileIn, InputRouted, NeverOwnPeer, RelayTimed, ImplementsInputRoute, RelayEnds |
| `threads` | 2 IPC threads, Channel of 1, 2 tasks, pipe of 4, batches of 2, 3 calls, 1 event, fair | NoLostWakeup, NoStrandedTask, AnswersMatch, StartAnsweredOnce, ImplementsCalls, StartReleased, ServiceStops |
| `timers` | 2 users, one asynchronous, 2 ids, task queue of 1, lag of 1, 3 operations, fair | WakesUp, ImplementsAlarms, DueIsCalled |
| `drag` | 2 timer ids, 1 morph animation, 1 queued OnDragUp, 4 calls, fair | MonitorsOwned, DrawingEnds, WatchdogSet, RotationEnds, PointerBack, LiftedEnds, WindowFreed |
| `sessions` | 2 processes, 1 of them with a listener, 4 descriptors, 2 sessions, 1 StartDrag each, 2 calls, 1 death of the service, 1 of a process, fair | NotifiedOnce, RegisteredListens, OutSessionKept, EntryLeavesWithSession, ListenerReturns, ToldEnds, ResultArrives |
| `boomerang` | 2 bundles, 1 subscriber, 2 requests, 1 decoder, 2 links, fair | OpenIsTimed, ImplementsRequests, RequestEnds |
| `stationary` | 2 binder threads, 2 callbacks, 3 types, 5 calls, symmetric | DisableFindsCount, SourceFollowsListeners, ThreadNotOverwritten |
| `calls_answered` | 2 devices | EveryCallAnswered (violated) |
| `timers_async` | as `timers` | ResultNamesTimer (violated) |
| `drag_start_listener` | 1 process, 2 StartDrag | StartListenerKept (violated) |
| `stationary_returns` | as `stationary`, fair | CallsReturn (violated) |

`TypeOK` of every module, `Ordered` of `TimerManager`, `StopWakes` of
`ServiceThreads`, and `AnsweredOnce` and `LinkOfAsked` of `Boomerang`, which
ImplementsRequests implies, are theorems and are not run again; TLC agreed on the
instances above before they were proved.

What they show:

* **OutReaches, OutSettles.** Between two devices and while nothing is lost,
  crossed Starts, Stops, refusals and closed sessions end with both devices
  agreeing, and nobody stays OUT alone. The proof of OutReaches (section 5) does
  not need two devices, only that nobody relays. Neither property holds in
  general, and the model says why. The timeout of a relay can cross RELAY_COOPERATE:
  the relaying device sends STOP and goes FREE, the origin takes the new peer
  first, ignores the STOP of the old one and stays OUT towards a device that
  never goes IN. With failures a START may be lost, and nothing acknowledges it.
  Nor does it hold with OUT and IN exchanged, even between two devices: a START
  that is still in the Channel when UnchainConnections closes the sessions takes
  the device IN without a session, and a STOP that is handled after a newer START
  releases the OUT device, whose OnRemoteStop tells nobody. No document promises
  otherwise.
* **SpeedRestored, PointerShown.** Whatever fails, the user gets back the
  pointer and its speed.
* **RelayOnlyWhileIn, InputRouted, NeverOwnPeer, ImplementsInputRoute.** The
  copies of the peer's id agree, and a chain of relays leads no device to itself.
* **RelayTimed.** A relay that is left by a STOP, a START or a lost peer leaves its
  timer running, and the next relay may get the id back when that timer fires, so
  that `RemoveTimer` in OnResponse is called with ids whose timer is another. Even
  so the relay that waits has its own timeout ahead of it. The exception is the
  relay that AddTimer gave no id.
* **RelayEnds.** Every relay ends, by an answer, by its timer or by the loss of
  a device. It needs a free timer id (`AddTimer` returns -1 when all 64 are
  taken, and the relay goes on without a timeout), and that nobody else removes
  the timer: `ResultNamesTimer` shows who might.
* **NoLostWakeup, NoStrandedTask, AnswersMatch.** See section 5.
* **ImplementsCalls.** Whatever records, batches, timeouts and nested waits lie
  between, a task that was accepted runs once, in the order of the posts, or is
  skipped because its poster gave up. The seeded fault drops what does not fit into
  a batch.
* **StartAnsweredOnce.** The service thread waits in `Start` for a promise without
  a limit, and setting a promise twice throws: while it waits there is exactly one
  START in the Channel or with the worker, at any other time none.
* **StartReleased.** The service thread in Start and a worker that waits for
  the service thread do not wait for each other for ever, because the worker gives
  up after three seconds. The seeded fault, a wait without a limit, deadlocks
  them.
* **ServiceStops.** `join` returns in OnStop, also when OnStop's no-op cannot be
  posted: a full queue has records in the pipe. The exception is `hung`.
* **WakesUp, ImplementsAlarms, DueIsCalled.** The list stays ordered (Ordered, a
  theorem) and the timerfd armed for its first element, whatever callbacks and
  other threads do; and what the users see of it is `Alarms`. The exception of WakesUp is `refused`: OnTimeout has read the timerfd and the task
  queue is full, so OnProcessTimers is lost and no timer is called until somebody
  adds, removes or resets one. DueIsCalled names that exception too, and relies on
  the bound on operations: users who operate on timers faster than the shortest
  delay put the others off for ever, because every operation arms the timerfd anew.
* **MonitorsOwned, WatchdogSet, RotationEnds, DrawingEnds, PointerBack.** Between
  drags nothing is left over: no input monitor, no window that nobody will
  close, no hidden pointer, no rotation; and a drag whose pointer is up has a
  timer that ends it. The exceptions are the code's, and each is a value of the
  model: `stray` and `waits = {"nonce"}` (the nonce could not be delivered, after
  which no drag can start any more), `waits = {"client"}`, `cursor = "left"`, and
  `tm.lost` (a full timer table, or a stale id that cancels a new timer).
* **LiftedEnds, WindowFreed.** The same as liveness: the drag ends and its window
  makes room for the next.
* **NotifiedOnce, RegisteredListens, OutSessionKept.** The tables of the service
  and what processes believe agree across deaths, ids used again, restarts and
  reconnections: nobody is told twice, nobody is deaf while it believes itself
  registered, and the result of a drag has somewhere to go.
* **EntryLeavesWithSession.** A state listener goes with its session, with one
  exception, which is a leak of the code. When a process dies and `OnProcessDied`
  releases its session on a binder thread while the service thread is in
  `DragManager::AddListener` for it (`drag_manager.cpp:188`, between
  `FindSessionByPid` and `AddSessionDeletedCallback`), the entry is added, or kept,
  for a session that has already ended. It keeps the `SocketSession` and its
  descriptor, and goes only when a later process with the same id adds or removes
  a listener or loses its session, which the callback left with the entry then
  notices, or with the service. TLC reaches such a state in five steps (Reconnect,
  AppAdds, AddListenerNotes, ProcessDies, OnProcessDied). No comment or document
  rules it out, so it is no entry of `findings`; the property says that there is no
  other way to it.
* **ListenerReturns, ToldEnds, ResultArrives.** A kept listener is registered
  again unless its own registration fails (`OnConnected` clears the set either
  way); a listener that heard a start hears an end, also when the service dies
  during the drag; and a started drag's owner gets a result or loses its connection.
* **ImplementsRequests, OpenIsTimed, RequestEnds.** Timers of earlier requests
  that are still asleep, late links of other applications and deaths do not lead to
  a second answer, an answer to an overtaken request or a wrong link, and the thread
  of an open request is under way until the request has its answer.
* **DisableFindsCount, SourceFollowsListeners, ThreadNotOverwritten.** The source
  of data is on exactly while somebody listens, although it is stopped with the
  type of the last call; the count being erased is there; and `std::thread` is
  never overwritten while joinable.

The four violated properties are documented promises the code does not keep: the
result of a Start (a first one in FREE fails late and stays in its slot of `calls_`,
a second one takes the slot, and the callback of the first is never called; the same
for a Stop during a relay takes a third device and is read off the code), the result of `AddTimerAsync`,
which is not a timer id, the StartDrag listener that a refused call replaces, and
calls of the stationary interface that never return, by a mutex locked twice or
by two mutexes taken in both orders (`findings` in `PROJECT.json`).

### Bounds

Two Starts let a device cross over and be relayed, and two events add a Stop, a
lost peer, a switch or a local movement anywhere in between; `MaxFaults = 1` lets
one failure happen at any send, open or link. Two timer ids are one for a relay
and one that stays behind from an earlier one. Three calls with two IPC threads let
one time out and post again while the first task is queued; a batch limit of 2
makes records and tasks drift apart; `PipeCapacity` above the task limit is the
code's proportion. Two timer ids make a third AddTimer fail; intervals of 1 and 2
reorder the list; `MaxLag` lets a repeating timer fall behind.

In `drag`, four calls are a drag, what happens during it, its end and a second
start; two ids are enough for a stale id to name somebody else's timer and for the
table to be full. In `sessions`, four descriptors are two sessions and two that
references keep open; one death of the service and one of a process fall at any
point of registration, drag and reconnection. In `boomerang`, two requests are one
that is overtaken and the one that overtakes it; the model has no other bound. In
`stationary`, five calls subscribe both callbacks and take them away in any order
of types. For the properties that are proved the bounds do not matter.

Deadlock is checked in `drag`, whose Next always has a step. It is not checked
elsewhere: those models may come to rest when their bounds are spent, as the
system does when nobody uses it; that calls of `Stationary` may hang is a finding.

### Fairness

`Cooperate`: the worker takes every event (its loop has no condition), every
pending timer fires (`DueIsCalled`), and the soft bus reports a closed session.
Packets that were sent and not lost arrive, which is the fairness of Dispatch.
`ServiceThreads`: the service thread and the worker run when they can, and a
wait_for comes to its end. `TimerManager`: the service thread runs and time
passes. `DragManager`: the handler's thread runs, and a timer that is not removed
fires. `SocketSessions`: the service thread runs, the service is loaded again
(`run-on-create` in its profile), processes read their
sockets and retry the connection, which `SocketClient` does by a timer, and a drag
ends, which is LiftedEnds. `Boomerang`: a thread that was started runs and a sleep
ends. `Stationary`: strong fairness for every thread, so that CallsReturn is
violated by no scheduler's unfairness. Nothing is assumed of users.

## 4. What is only model-checked

Liveness (OutSettles, RelayEnds, StartReleased, ServiceStops, DueIsCalled,
LiftedEnds, WindowFreed, ListenerReturns, ToldEnds, ResultArrives, RequestEnds) is
out of the prover's reach. The four violations are counterexamples. Every other
property of a run is a theorem; OutReaches, which fails with three devices, is one
for two.

## 5. What is proved

**CooperateProofs**, for any set of devices, any timers and any bounds, from the
assumptions that None and NoSpeed are no devices, that None is no timer id and no
event, and that timer ids are natural numbers: TypeCorrect, RelayOnlyWhileInHolds, InputRoutedHolds, NeverOwnPeerHolds,
SpeedRestoredHolds, PointerShownHolds, RelayTimedHolds and Refinement (`Spec =>
ImplementsInputRoute`). All rest on one inductive invariant, `IInv`:

* `ContextOK`: the role of a device (RelayOnlyWhileIn, InputRouted and
  NeverOwnPeer are inductive only together: leaving IN with a relay pending would
  leave the target of a relay behind, and an interceptor that is on outside OUT
  would be updated to a wrong peer), its speed (what is restored is what was saved,
  so the saved speed is part of it) and its pointer;
* `NetOK` and `TimersOK`: no packet, posted event or timer asks a device to
  cooperate with itself. NeverOwnPeer needs this, since FREE and OUT take the
  origin of a START and the target of a RELAY as they come. It holds because a
  relay is sent only after a session with its target has been opened, which fails
  for oneself, and START names as its origin the peer of a device that is relaying
  to somebody who is not that peer.

The proof has a lemma for every operator on contexts, sessions and timers, then
one for every handler, then one per disjunct of Next. Refinement follows from
`IInv` and one observation: no single step takes a device from IN to OUT, so a
device that receives is always released before it sends. RelayTimed needs, besides
`IInv`, that no device has a session with itself (`RelayInv`), because closing a
session empties the lane it is on, and the timeout that has fired waits in the
device's lane to itself. With that each operator on the network keeps every event
of such a lane (`OwnKept`), each handler ends the relay, or leaves its peer, its
timer and the timers that run as they are, or has just started both (`RelayKept`),
and the one handler that takes the timeout from the lane is the one that ends the
relay (`DispatchKeeps`).

**CooperatePairProofs**, for any number of devices and any bounds on calls and
failures: PairInvariance and OutReachesUnrelayed, of every behaviour in which nobody
relays (`Spec /\ []NobodyRelays`), and OutReachesHolds, of every behaviour between two
devices (`TwoDevices`), where by `IInv` there is nobody to relay to.
OutReaches is about states in which nothing is on its way, and becomes inductive by
saying of every state what a device that is OUT still waits for (`Awaits`): an event
in its lanes that will release it; a session whose other end is closed, which the
soft bus will report; or, on a session that is open at both ends, its own START as
the last packet to the peer, or the peer IN for it with no packet left. `PairNet`
and `NoRelay` say what lanes and timers hold without a relay: in particular a lane
holds only what its sender says of itself. With more devices a peer may turn to
another device, and a device has sessions and events that do not concern its peer. So
the proof follows one pair at a time: a step of a device changes nothing between two
others (`Aside`), and of those who wait for it, each hears of it (`Freed`) or is left
as it was (`SamePair`), and then the device was not injecting its input. That nobody
relays is needed, as the counterexample with three devices shows (section 3), and so
is the absence of failures, which OutReaches states itself.

**ServiceThreadsProofs**, for any number of threads and any limits (a batch takes
at least one task, the pipe holds at least one record): TypeCorrect,
NoLostWakeupHolds, NoStrandedTaskHolds, AnswersMatchHolds, StartAnsweredOnceHolds,
StopWakesHolds and Refinement (`Spec => ImplementsCalls`). NoStrandedTask is
strengthened by counting: there are at least as many records, in the pipe or just
read, as tasks in the queue. The service
thread gives a record for up to ten tasks, so records exceed tasks, never the other
way round. AnswersMatch is proved over the sequence of tasks that are not done
(`Pending`, the batch followed by the queue): for every poster exactly one of its
tasks is live if it waits and none if it does not. Popping a batch leaves that
sequence as it is, a timeout expires the live one, an answer takes the first.
StartAnsweredOnce is proved by saying where the one START is: at one place of the
Channel, or with the worker, and only while the service thread is in `get`; that the
worker itself has no START when it posts a task of its own follows from AnswersMatch.
StopWakes rests on NoStrandedTask's counting: OnStop's post is either in the pipe
or was refused because the pipe or the task queue was full, and a full task queue
has its records in the pipe. Refinement needs AnswersMatch's invariant too: the
worker never posts while it waits, and a batch is empty when the next one is taken,
without which the tasks of the old one would be lost.

**TimerManagerProofs**, for any users, number of ids, intervals and limits:
TypeCorrect, OrderedHolds, WakesUpHolds, Refinement (`Spec => ImplementsAlarms`).
The lemmas say what inserting a timer into an ordered list and erasing one do to
its order and to its set of ids, and
that a list in which some id is not taken has a lowest such id (from the
well-foundedness of the natural numbers). Ordered and WakesUp are inductive
together with the types of the list and of the task queue. Refinement follows from
that invariant step by step: inserting is `Set` because the id is fresh, erasing is
`Cancel`, erasing and inserting again is `Restart`, a step of ProcessTimersInternal is
`Call` because the head of an ordered list has been due for longest, and everything
done to timerfd, queue and service thread is a stutter.

**DragManagerProofs**, for any number of timer ids and any bounds: TypeCorrect,
MonitorsOwnedHolds, DrawingEndsHolds, WatchdogSetHolds, RotationEndsHolds,
PointerBackHolds. The lemma behind WatchdogSet and RotationEnds is that every
operation on timers keeps `Watched(t, h)`, a timer of `h` is set or `h` is in
`lost`, for every holder but the one it is called for (removing a stale id is what
puts its new owner into `lost`). DrawingEnds needs that a drawing that is running
has its window, since RunAnimation posts nothing without; PointerBack needs that
only a mouse drag hides the pointer.

**BoomerangProofs**, for any bundles, callbacks and links: TypeCorrect,
AnsweredOnceHolds, LinkOfAskedHolds, OpenIsTimedHolds and Refinement (`Spec =>
ImplementsRequests`). The inductive invariant adds what `hasSubmitted_` means (the
current request has its answer), that a callback not yet used is not the listener,
and that the cache holds what was asked. Refinement follows from it: SubmitMetadata
and a timer that wakes up look at `hasSubmitted_` only, whoever the listener is by
then, and answer it if the flag is false, which is `Give` because the flag then says
that the current request has no answer.

**StationaryProofs**, for any types, callbacks and binder threads: TypeCorrect,
DisableFindsCountHolds, SourceFollowsListenersHolds, ThreadNotOverwrittenHolds. The
inductive invariant says for each place at which a thread can wait which mutexes
it holds (`Locked`), that between calls counts, `alive_` and listeners agree
(`IdleServed`), what is missing at each place of a call (`CallServed`), and that a
thread that was told to end has been joined before the locks are given back
(`ThreadJoined`).

**SocketSessionsProofs**, for any processes, listeners, descriptors and bounds:
TypeCorrect, NotifiedOnceHolds, RegisteredListensHolds, OutSessionKeptHolds,
EntryLeavesWithSessionHolds. The inductive invariant has two halves. `ServerInv` is about
the service: its types, NotifiedOnce, OutSessionKept, and EntriesWatched: the
process of every entry has a session-lost callback, but for the one entry that
AddListener has just noted and not yet watched. EntryLeavesWithSession follows from
it: a session is released between calls, when its entry is watched and goes with
it, or because its process died, and then the only entry that can stay is that of
the call in progress. `LinkInv` relates the two sides: a process that runs and the service agree
on the descriptor between them (`EndsAgree`), a process that died keeps its session
only until its death is reported (`DeathsReported`, which is what makes the reuse of
a process id harmless), and a call in progress keeps its session while its process
runs (`CallInProgress`). RegisteredListens is inductive only with all of them: a
process takes the answer of AddDraglistener some steps after its entry was noted.
Two facts carry the proof: an object that is still referred to keeps its process
(`Carried`), and a session is only ever released when its process is dead, so that
no running process hears an end of file but from a service that died.

## 6. Plan

Done: the modules above, their runs and their proofs. Left:

1. The window between the two ends of a style subscription (RemoveSubscriptListener,
   `hasSubscriptRegistered_` after a reconnection), once it is documented what a
   style listener may expect.
2. `Alarms`, which TimerManager implements, in Cooperate and DragDrawing in place of
   their own view of the timer service; an abstract specification of Stationary
   (one source that is on while somebody listens).
3. `DragManager` and `SocketSessions` composed: the reduced drag of the second is
   the first, seen by its state.
4. Drag styles and previews, privileges and summaries, if a property is found that
   relates them to the state of the drag.

## 7. Not modelled

* The cooperation server checks permissions and forwards; its unload timer ends
  in a plugin manager call that does nothing while the plugin is in use.
* The device manager: hotplug and enumeration both run on the service thread, one
  event at a time, so that nothing interleaves; the rest is udev input and output.
* Plugin manager and task scheduler: a lock around a map, and the structure of
  DelegateTasks again.
* Adapters to the platform (distributed devices, input, common events): thin
  wrappers whose events are actions of the models.
* Everything that is drawn (most of `drag_drawing.cpp`), algorithms, data hub,
  marshalling and language bindings, which together are the greater part of the
  lines of the repository: they have data and no protocol.
* Four small failures and windows inside the models: a `PostTask` that fails in
  the drag's `RunAnimation`; in the stationary part a mock library that cannot be
  loaded, an `InitTimer` that fails, and a report that `epoll_wait` delivers
  after `alive_` has been cleared. No property depends on them.
* On-screen and car awareness: callback registries in front of libraries that are
  not part of the repository.
