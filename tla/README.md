# V2X Hub core: a TLA+ verification project

V2X Hub (TMX) is a message hub for roadside units. One process, `ivpcore`,
routes messages between plugins. Plugins are processes of their own that talk to
the core over TCP through the API in `TmxApi`; a few internal ones live inside
the core. This project models the part that everything else rests on: the
router, the connection between a plugin and the core, the life of the core's
plugin objects, the monitor that starts and kills plugins, and three parts of a
plugin's process that have threads of their own. Paths below are relative to `src/src/tmx` unless they begin
with `v2i-hub`.

## 1. Inventory

| Component | State | Operations | What makes it hard |
|---|---|---|---|
| Message router, `TmxCore/src/MessageRouterBasic.cpp` | map of clients with filter lists, `mActiveBroadcasts`, `mMapLock` | broadcast, register (with a new filter list), unregister | the map is iterated without the lock; changes spin until no broadcast is active; callbacks write to sockets and may block |
| Core connection, `PluginConnection.cpp`, `utils/AutoResetEvent.cpp` | socket, two queues with events, three threads | receive, queue, process seven kinds of message, close, join, `delete this` | merged wakeups, messages processed out of order on two threads, exceptions that leave a thread, self-deletion |
| Plugin base class and registry, `Plugin.cpp`, `database/PluginContext.cpp` | `clientNames`, `mInfo`, `mRegistered`, status rows | register, subscribe, status, configuration monitor, destructor | several objects of one plugin overlap; the database fails between steps |
| Plugin server, `PluginServer.cpp` | listening socket | accept | descriptors are reused while an old object remembers them |
| Plugin API, `TmxApi/tmx/IvpPlugin.c` | `state`, `socket`, `lock`, filter | receive thread: connect, register, receive, reconnect; any thread: broadcast | the receive thread changes state and socket without the lock that senders hold |
| Framing, `TmxApi/tmx/utils/MsgFramer.c` | buffer and two positions | append, next message | overlong messages, partial reads |
| Plugin monitor, `PluginMonitor.cpp`; core main, `ivpcore.cpp` | an entry per running plugin (process id, start time, last message, kill state), the messages since the last check | check: fold the messages, read the enabled plugins, find ended processes, escalate SIGTERM, SIGINT, SIGKILL, start | timeouts racing late messages, what was heard of an old process used for the new one, a database that fails in the middle of a check, process ids that come again |
| Profiler, history manager | queues shared with the router's callbacks | count, write, purge | callbacks against a worker thread |
| Message manager, thread group, `TmxUtils/src` | worker queues, a count and a thread per source, the round robin's index, an output thread | assign, work, give back, change of the strategy or the size, stop | assignment and its return in several steps without a lock, condition variable without the mutex, overflow, growth of the group |
| Keep-alive, throttling, `TmxUtils/src` | the time of the last message, the frequency | send, check, change of the frequency or the state | any thread may reset the clock, some messages do not |
| CARMA cloud plugin, `v2i-hub/CARMACloudPlugin` | unacknowledged traffic control messages (TCMs), broadcasts and start time of each request | response, acknowledgement, broadcast again, time out | four maps under separate holds of a lock, acknowledgements that come before the TCM is kept |
| Other plugins, `v2i-hub/*` | per plugin | handlers of messages and timers | mostly device protocols |

How they interact: a plugin's message goes through `ivp_broadcastMessage`, the
socket, the receiver thread and the fast (or, for status and event log messages,
the slow) processor thread to `MessageRouterBasic::broadcastMessage`, which calls
`receiveMessage` of every client with a matching filter on the sender's thread;
for a connected plugin that is a `write` to its socket. Registration, subscription
and configuration are messages too, handled on the fast thread. A configuration
monitor thread per object and the destructor touch the same state.

`PROJECT.json` lists every component, modelled or not, and under "hazards" what
can go wrong in this code that a test would hardly reach, with the properties
that watch it.

## 2. Modules

| Module | Models |
|---|---|
| `MessageFilters` | when a filter list accepts a message (`MessageRouterBasic.cpp` 67-108) |
| `MessageBus` | abstract specification of the router: a broadcast fixes its addressees when it begins, calls each exactly once and nobody else, and ends when it owes none; subscriptions change between broadcasts only |
| `MessageRouterBasic` | the router, thread by thread: lock, count, loop, callback, spin, change |
| `MessageRouterBasicProofs` | TLAPS proofs about it, and that it implements `MessageBus` |
| `PluginSocket` | the TCP connections between one plugin's processes and the core (external: the system calls) |
| `IvpPlugin` | the plugin's side: receive thread and one sending thread |
| `PluginConnection` | the core's side: an object per connection with receiver, fast and slow processor, handlers and configuration monitor, and the descriptor number in `mSocket` |
| `PluginSession` | `IvpPlugin` and `PluginConnection` composed, with restarts and crashes; the properties of both |
| `PluginSessionProofs` | TLAPS proofs about it |
| `PluginLifecycle` | any number of core objects against the shared registry, rows, descriptors and router map |
| `PluginLifecycleProofs` | TLAPS proofs about it |
| `MsgFramer` | how both ends cut the stream of bytes into messages |
| `MsgFramerProofs` | TLAPS proofs about it |
| `PluginMonitor` | the monitor thread, the processes it starts, the messages it counts and the rows it reads and writes |
| `PluginMonitorProofs` | TLAPS proofs about it |
| `MessageManager` | `TmxMessageManager` with its `ThreadGroup` and `LockFreeThread` queues |
| `MessageManagerProofs` | TLAPS proofs about it |
| `PluginKeepAlive` | the keep-alive thread and its `FrequencyThrottle` |
| `CARMACloud` | the cloud plugin's traffic control messages from response to acknowledgement or time out |
| `CARMACloudProofs` | TLAPS proofs about it |
| `MCRouter`, `MCSession`, `MCLifecycle`, `MCFramer`, `MCMonitor`, `MCManager` | instances for TLC |
| `MCPlugins` | the last three parts in one instance, one of them running |
| `PluginsProofs` | TLAPS proofs about the keep-alive, and the types of the three parts together |

**Router.** One action per atomic step of a call. `pc[c]` is where client c's
thread is; `LockMap`/`UnlockMap` are `mMapLock`, `EnterBroadcast` counts and leaves
the lock, `SkipReceiver`/`CallReceiver`/`ReceiverReturns` are the iterations,
`LeaveBroadcast` counts down, `SpinEnds` is the busy wait of `registerReceiver` and
`unregisterReceiver`. A client's life ends with `Retire` (the empty subscription of
`~Plugin`) and `CallUnregister` (`~MessageRouterClient`). Types, subtypes and flags
are model values with the matching of the code: `*`, a missing subtype, and the
flag mask, which is and-ed.

**Session.** Both sides are state machines over program counters. The plugin's
`ReceiveConfig` reads the state and `BecomeRegistered` sets it, as the code does in
two steps; the messages that one `recv` brings are handled without a look at the
state in between (`batch`). `AppLocks`, `AppSends`, `AppSendFails` and
`AppDisconnects` are one `ivp_broadcastMessage`: the check under the lock, the send on
whatever `plugin->socket` is by then, and the late change of the state. In the core
the push and the `Set` are two steps, and so are the interrupts, the `Set`s, the joins and
`delete this`. Exceptions that no handler catches are `Terminate`: the process ends, the
kernel closes every connection.

Each connection has an object of its own, and `accept` does not wait for the old
one to be gone: objects overlap. They share the descriptor numbers. `mSocket[k]` keeps its number
after the `close` of `receiverThread`, `Accept` picks any number that no open connection has, and
`onMessageReceived` writes to whoever has the number then (`Holder`). So the configuration monitor of
an object that is at its end (`PushConfig`, enabled until `~Plugin` has joined it), the router
(`PushRouted`) or a handler may write to the next connection; `NeighbourWrites` is the same by an object
of another plugin. The history variable `misled` holds the connections that got
a Config in this way, `refused` those whose registration was
answered with an error after `mRegistered` was set. The name that an object holds, and a database that
fails, are a guard and choices here and are modelled in `PluginLifecycle`.

**Lifecycle.** One object per connection, `phase` is its way from `accept` through
close, joins and the destructor's steps, `reg` the way of its fast thread through
`registerPlugin`. `fdPeer` says whom an open descriptor leads to, so a write through
a stale `mSocket` reaches the connection that owns the descriptor now: a broadcast of the router (`Deliver`),
or the configuration monitor (`PushConfig`), both until `~Plugin` has joined the one and waited for the other. A
plugin without a name is refused before anything is reserved. The id of an
object that never registered is uninitialized, so its destructor may delete the
items of any plugin. `dbMissed` remembers for which plugins the destructor's writes failed.

**Framing.** `Recv` is `recv` with `msgFramer_incrementBufPos`: it takes any number of
the bytes on their way, at most as many as the buffer has room for. `getNextMsg` is
one call of `msgFramer_getNextMsg`, with both shifts and the reset of a full buffer;
the loop around it ends with the call that finds nothing. Bytes are model values.
The session takes messages as whole; the framer's run is what justifies that for
every message that fits into the buffer.

**Monitor.** `FoldMessages`, `QueryEnabled` (or `QueryFails`), `RemoveDead`, `Escalate`, the loop
over `ToStart`, `WriteStarted` and `Report` are the parts of one pass of
`monitorThreadEntry`, in its order; between any two of them messages arrive, processes
end, connections close and the administrator changes the rows. Times are ages: `Tick`
makes everything older, up to `MaxAge`, beyond which nothing is compared. A process is
`starting` until it registers, then `up`, then `dead` until `waitpid` collects it, and has with it the signals it was sent; a
process may ignore every signal but SIGKILL, and its id may be given to another
plugin's process afterwards. A failure of the database ends the pass where it
happens; in `Report` nothing catches it and the core ends (`terminated`).

**Message manager.** `assign` is one action per access of the shared tables
(`AssignBegin` ... `AssignPush`), because no lock covers it. Each worker of the group has
one thread per start (`Runs`); `Take`, `Drop` and `Finish` are its loop, `Cleanup` and `Outgoing`
what it hands to the output thread, which gives assignments back in two steps
(`Released`, `OutClear`). The output thread's test of the queues and its wait are two steps too,
so a `notify_one` can fall between them. The queues are made for one
producer, and a push is what boost's `spsc_queue` does: it reads the write index, fills the slot and
stores the index (`AssignLoad`, `AssignFill`, `AssignStore`). When two threads push to one queue, the
second may overwrite the first one's message, or store an index that lies behind what the worker has taken by
then, after which the worker takes old entries again (`Ring`, `SetRing`). `overlap` remembers that two pushes to one queue overlapped; `Undisturbed` says that none
have, and that no worker was started twice. Messages
are modelled by their source; the source 0:0 is never assigned to a thread.

**Cloud plugin.** `ResponseBroadcast` and `ResponseInsert` are one response; `Acknowledge` is the
handler of a mobility operation message and removes one copy; `Look`, `Pass` and `Clear` are
one round of the thread that broadcasts again. `not_ACK_TCMs` counts the copies kept of each TCM
of each request; the map of start times is emptied only when no request has any.

**Keep-alive.** Steps of the thread (`CheckMonitor`, `CheckTouch`, then `CheckBroadcast`) against
messages of other threads, changes of the frequency and of the plugin's state. Two history variables keep
what the plugin was configured with: `given` is the frequency it was given last, `longest` the longest one
since the last check ended.

`MCPlugins` holds the last three parts, of which a behaviour runs one: they live in
different objects and share nothing, so no interleaving of their steps adds a
behaviour of any of them. The parts that do not run stay in one initial state.

Definitions named `X_Y` after a comment that begins with "Mutant" are wrong versions
of `X`; `PROJECT.json` says which property each of them breaks. They are not used by
any specification.

## 3. Runs

| Run | Configuration | Shows |
|---|---|---|
| `router_safety` | `MCRouter.cfg` | the count is exact, the map never changes under an iteration, no destroyed object is called, the router implements `MessageBus` |
| `router_liveness` | `MCRouterLive.cfg` | broadcasts end and the map's lock is released, unless a callback is stuck in a write to a plugin that does not read |
| `session_safety` | `MCSession.cfg` | no lost wakeup, no thread outlives its object, the plugin takes itself for registered only where it is (or a Config has strayed to it) and learns that it is, a late failed send does not leave the plugin deaf |
| `session_liveness` | `MCSessionLive.cfg` | closed connections are released, queues drain, a plugin with a dead connection connects again |
| `lifecycle_safety` | `MCLifecycle.cfg` | names are exclusive and come back, rows end clean, descriptors stay with their owner |
| `framer` | `MCFramer.cfg` | however `recv` cuts the stream, every message that fits comes out whole, once and in order, and the framer finds its way back after one that does not fit |
| `monitor` | `MCMonitor.cfg` | the monitor's entries and the processes stay one to one, a SIGKILL is the end of an escalation of the same process, escalations complete, disabled plugins stop, enabled ones run, silent ones are signalled |
| `plugins` | `MCPlugins.cfg` | the message manager's counts cover its messages and assignments are given back, queues are served while the manager runs; the keep-alive comes in time; no TCM is lost or kept for ever |
| `session_eventlog` | `MCSessionEventLog.cfg` | violation: an event log message that overtakes the registration ends the core |
| `session_fatal` | `MCSessionFatal.cfg` | violation: the fatal error of a rejected registration is ignored |
| `lifecycle_names` | `MCLifecycleNames.cfg` | violation: two registered objects of one name while the old one is destroyed |
| `lifecycle_sockets` | `MCLifecycleSockets.cfg` | violation: an object writes to a stranger through the number of a closed descriptor |

Further disagreements between a comment and the code were met and are kept as
configurations that TLC refutes; they are no part of the runs. Each is run by hand,
`tlc -config <cfg> <module>`.

| Configuration | Module | Property | What the code does |
|---|---|---|---|
| `MCRouterFlagmask.cfg` | `MCRouter` | `FlagmaskOrsFlags` | `MessageRouter.h` says the flag mask is or-ed; it is and-ed |
| `MCSessionStray.cfg` | `MCSession` | `NeverMistaken` | an old object's configuration monitor writes through its closed descriptor's number to the next connection, whose plugin then takes itself for registered |
| `MCMonitorStartup.cfg` | `MCMonitor` | `HungStartIsRebooted` | a message that arrives late from the old process counts for the new one, whose startup time is never looked at then |
| `MCMonitorSilence.cfg` | `MCMonitor` | `RestartedWhenSilent` | a message that arrives during the check does not count, and the plugin is restarted |
| `MCMonitorStatus.cfg` | `MCMonitor` | `StartedMeansWaiting` | "Started, waiting for connection" may be written after the plugin has registered |
| `MCManagerRace.cfg` | `MCManager` | `OneThreadPerSource` | an assignment is given back in two steps; in between a message of its source goes to another thread |
| `MCManagerRobin.cfg` | `MCManager` | `ThreadExists` | two callers advance the round robin's index past the last thread |
| `MCManagerProducers.cfg` | `MCManager` | `OneProducerPerQueue` | two threads push to a queue made for one |
| `MCManagerReplay.cfg` | `MCManager` | `CountNeverWraps` | after two overlapping pushes a worker takes old entries again, their clean-ups take the count of a source below 0 |
| `MCManagerOverflow.cfg` | `MCManager` | `AssignmentNeverKept` | a message dropped at the overflow limit keeps its assignment |
| `MCManagerWakeup.cfg` | `MCManager` | `OutputDelivered` | the output thread misses a notification and sleeps on a full queue |
| `MCManagerGrow.cfg` | `MCManager` | `AllStarted` | a group that grows starts its old threads again and not the new ones |
| `MCManagerStop.cfg` | `MCManager` | `StopCompletes` | the output thread's loop tests the name of a function, so the join never ends |
| `MCCloudAck.cfg` | `CARMACloud` | `UnansweredOnly` | a TCM is broadcast before it is kept; an acknowledgement in between is lost |
| `MCCloudTimeout.cfg` | `CARMACloud` | `KeptForTheTimeOut` | a request's later TCM inherits the start time of the earlier one |

**Bounds.** Router: three clients, so that one broadcasts while a second is called
and a third changes the map; in the liveness run one client may stop reading. Two
kinds of message and filter lists that tell type, subtype wildcard and flag mask
apart. Session: two connections (`MaxConnections`), because every race of the
plugin's side is between one connection and the next, and a stale number needs one object that is at
its end and one that is new; one message of the application (`MaxSends`), which together with the registration and the
subscription that follows it puts two messages into a queue and merges two Sets; one push of another thread (`MaxPushes`),
one kill of the core (`MaxKills`). `MCSession` names one bound more: two objects are there together (`Overlaps`) only
when the application has not sent, nothing was pushed and nothing was killed before, and while they are, the application and the kill wait;
pushes are what the overlap is about, so they go on. The liveness run has no overlap at all (`Overlaps` is FALSE): a new
connection waits in the backlog for the old object. The proofs have neither restriction.
The properties of the session do not speak of a `write` that blocks: a handler that hangs in one holds up the
joins of its connection, and `ConnectionReleased` and `QueuesDrain` do not see it; the router's runs have that
case. `MCPlugins` stops the manager only before its second message (`StopsEarly`).
`EarlySends` is FALSE only in the event log run, to show that the race needs no
application that sends before its registration. Lifecycle: a plugin that connects
twice, a second plugin and two descriptors: enough for a new object next to an old
one of its name and for a descriptor to change hands. No plugin of the run is without a name; the proofs include such. Framing: a buffer of five
bytes and up to five messages: empty, with room to spare, filling the buffer exactly,
one byte too long, and long enough to fill it twice. Monitor: one plugin, whose
process ids (`Pids`) are two, so that an old and a new process and an id that is used again
occur; the interval 0 (no timeout) and 1, ages up to 1. The entries of two plugins
meet only in a process id that changes hands, which the proofs cover for any
number. Message manager: two threads hand in messages, one source and 0:0, two
workers, two messages in all (`MaxMessages` bounds what is handed in and what a handler
sends), an overflow limit of one and queues for two, so that one is dropped; the replay of old entries needs three messages and has a
configuration of its own.
Cloud: two requests of two numbers, each response delivered up to twice, a time out of
one and two broadcasts. Keep-alive: a frequency shorter than the
sleep (`WakeUp`) and one that is longer and no multiple of it, ages to past the largest sum. The clients, k1/k2 and the
descriptors are interchangeable where symmetry is declared; no run with liveness
declares any.

**Deadlock** is not checked: all threads of the system may wait for input, and the
bounds on messages, connections and kills let every behaviour come to rest; the
monitor's model ends with the core.

**Fairness.** Weak fairness per thread: a thread that can run is scheduled. In the
router: of the steps of each client's thread inside a call, never of the decision
to call and never of the return from a callback into a stalled client. Nothing is
assumed of the order in which a mutex is handed out. In the session: of the receive thread, the rest of a
send that has begun, the receiver and both processors of each object and `accept`. Restarts, crashes,
sends and pushes are not fair. In the monitor: the clock, the monitor thread, the end of
a process that got SIGKILL and of the connection of a process that ended; strong fairness of
`QueryEnabled` alone: the database does not fail at every check from some point on. In
the message manager: the output thread, the workers, a call of `assign` and of `Stop`
once begun; not the wakeups without a reason. In the cloud plugin: the clock, the thread that
broadcasts again and the rest of a response.

## 4. Proofs

All theorems hold for every value of the constants that satisfies the named
assumptions (`RouterAssumption`: the clients are finite; `LifecycleAssumption`:
every connection has a plugin name, which may be the empty one (`None`);
`FramerAssumption`: the buffer is not empty and no message contains STX or ETX;
`SocketAssumption`, `PluginAssumption`, `ConnAssumption`, `MonitorAssumption`, `AliveAssumption`,
`CloudAssumption`: the bounds are natural numbers and, for the
keep-alive, large enough that no compared age is cut off; `NoneAssumption`: `None` is no number
and no record; `ManagerAssumption`: the producers are finite, the group is never made smaller, a
worker's queue has room for one message, and "no thread" is no source). Every invariant and every
action property that a run checks is proved; `PROJECT.json` names the theorem of each.

*Router.* `Inv` strengthens `ActiveCountExact` by: who is inside a protected section
owns the lock (`LockInv`), a thread's argument fits its place (`ArgInv`), nobody is
inside the loop when the map is written (`WriteInv`), a retired client has no filters
(`FilterInv`), a thread has a target only in a callback, and then one that is in the map and wants the
message (`TargetInv`), and
the loop has called exactly the matching clients it passed (`LoopInv`). `WriteInv` is
the heart: the spin sees the count at zero (which the exactness of the count turns
into "nobody is inside"), and the lock keeps newcomers out until the write. From it
follow `MapStable` and, with `FilterInv`, `DestroyedNotCalled`. `RouterImplementsBus` maps
each step to a step of `MessageBus` or to a stutter: what a broadcast still owes is
what its loop has not called, and `LoopInv` shows that it owes nothing when the
loop ends.

*Session.* Every invariant that the safety run checks is proved, for any number of objects at a time, in four parts. `Inv`
is about the core's threads alone: a message that is queued is on record in `messageWaiting`, in the event or in the Set to come, from
the pop of one message to the next wait (`WakeInv`; `NoLostWakeup` itself says nothing of the time in
which the message is processed and is not inductive), and each join found its thread at the end
(`JoinInv`). The types follow, with the count of connections bounded by a lemma about cardinality.
`DeafInv` adds to `NoDeafPlugin` that a failed send still holds the lock (`FailInv`), which the receive
thread has to take before it reads on a new connection. `SessionInv` is the agreement about the
registration: connections are numbered in the order in which they are opened (`OrderInv`), an object that no longer
receives, and a core that ended, have closed, and a registered object is alive (`EndInv`), and every configuration on its way to
the plugin, on any connection, leads to one that is `Attached`: its object is registered, the core has closed it, or the
Config is one that strayed there (`ConfigInv`). The last case is real, `MCSessionStray.cfg` shows it: the history `misled` makes
the theorem say that it is the *only* one. The other direction is `ToldInv`: where the object was registered and has answered
with a configuration, it is still on its way or the plugin is about to take it in. `RegistrationAgreed` and
`RegistrationReachesPlugin` follow.

*Lifecycle.* `Inv` adds to `NameHeldOnce` and `NamesGivenBack`: `mInfo` and `mRegistered` say
how far the registration got, and no object is past the joins in the middle of
one (`RegInv`); a name that is held is in `clientNames` (`HeldInv`); an object has a
descriptor, its own while it is open (`SocketInv`); a row that says running, and
items, have an object left that will clean them up, or a failure on record
(`StatusInv`, `ItemsInv`). `NameHeldOnce` alone is not inductive: that `EraseName` erases
only the own name needs `RegInv`, and that a reservation is new needs `HeldInv`.

*Framer.* `TypeOK` and `RoomLeft` together are inductive: the shifts leave a part of the
buffer, `recv` adds no more than `getBufLength` allows, and the call that ends the
loop gives a full buffer up. `FramesInOrder` and `NothingWithheld` speak of what came out and
say nothing of where the reader is, so they are far from inductive. `OrderInv` says it with all the bytes that
were ever written (`Written`): what is in the buffer from `readpos` on, and then what is on its way, are
their end (`Remaining`), and the place where they start lies within a message that is done with, or
at the beginning of the next one (`Done`); from there to that beginning there is no STX. So the first STX that
is found begins a message (`StartOfNext`), and the first ETX after it ends that one (`EndOfNext`). A call
then has four outcomes, each a new place: nothing but the rest of a lost message is in the
buffer, a whole message, the beginning of one, or a buffer that is full of one message. Only the last
loses a message, and only one that does not fit. `NothingWithheld` needs `Waiting` as well: the loop
goes back to `recv` with no ETX in the buffer.

*Monitor.* `KilledInItsOwnRight` speaks of the signals that a process itself was sent and not of its entry, so it is
not inductive. `StatusIsHistory` is: the kill status of an entry says exactly which signals the entry's own process was sent. It
is inductive with `EntriesAreProcesses` and the types: a process id is free only when no entry has it, because `RemoveDead`
drops the entry with the `waitpid` that frees it, and an entry of a new process says that nothing was sent.

*Message manager.* The messages of a source are counted where they are: in the hands of the threads that
hand them in, in the workers' queues, in the hands of a worker, and as a clean up in the output queues; a queue's share
is the cardinality of a set of places (`Slots`). `Balance` is by how much the count of the source exceeds them.
One lemma per action says what it does to `Balance` (`BeginBalance` ... `PopBalance`): nothing, but for a message that
is overwritten or dropped, which raises it; `SlotsAppend`, `SlotsTail` and `SlotsClear` say what a push, a pop and a
start do to the places. `Covers` (never negative) is `CountCovers`; it needs `OutEntries`: the output thread takes the
count down for a clean up only. `Exact` says of a source of which nothing was lost that the balance is zero,
and that once its count is zero it has no thread or the output thread is about to take it back; `AssignmentReleased`
follows, and would not be inductive without the second part. Both hold as long as the queues are `Undisturbed`:
no two pushes to one queue have overlapped, and the group was sized
once (`configured <= 1`); the theorems say so. These are the code's limits, not the proof's. After two overlapping pushes a
worker may take entries again that were cleaned up, and the count wraps (`MCManagerReplay.cfg`). A `set_size` that grows
the group starts its old workers again, so that two threads pop from one queue, may take the same message, and clean up twice
for it; with `Sizes` set to `Growing` TLC finds both properties violated. What a single push in three steps does to a ring
(`RingSlots`, `RingSet`) is proved without that condition, for the types. The types hold for any sequence of
sizes. They bound `threadId`: before `Stop`, a source's thread is beyond the last one by at most as many as there are
*other* producers, each of which may have advanced the round robin's index and not yet reset it
(`Chosen`, `Resetting`, `Overshoot`).

*Keep-alive.* The silence and what is left of the sleep stay together below `longest` and one sleep (`SilentInv`): a check that
finds less than the frequency leaves one sleep, because the throttle's time is no later than the last
message (`CheckInv`, `ThrottleInv`) and its frequency is the one that was given, which is at most `longest` (`GivenInv`). A throttle that does
not take a new frequency over breaks `GivenInv`, and with it the property: when a check has ended, `longest` is the new one.

*Cloud plugin.* `CloudInv` is the types and that the two tracking maps are cleaned up together (`TrackedTogether`, which no run
checks and `Tracked` proves). `NoTcmLost` is an action
property: each action that lowers a count is shown to be the time out of the request
or one acknowledgement.

*The parts together.* `PluginTypes` states `TypeOK` of `MCPlugins`: a step of one part is a stutter of the
others (`StepOfOne`), so the invariants of the three parts hold side by side.

*Induction over data.* The prover cannot use the library's induction theorems, whose parameter is an operator.
`MsgFramerProofs` therefore derives, from the library's theorem on well-founded relations, that a set of numbers has a least
element (`LeastIndex`), and from that the induction over a *set* (`Induction`). With it, what the
recursive function `Fitting` computes is proved for every sequence (`FittingAppend`).

Model-checked only: the liveness properties (`MapLockReleased`, `BroadcastReturns`, `ConnectionReleased`,
`QueuesDrain`, `PluginReconnects`, `KillCompletes`, `DisabledStops`, `EnabledRuns`, `SilentIsSignalled`,
`InputServed`, `AwakeDelivers`, `EveryTcmSettled`), because fairness is beyond the prover; and the
violations.

## 5. Not modelled, and why

Starting the receiver thread before the processor threads exist (see the hazard);
the values of configuration parameters; `ivp_create` and `ivp_destroy`; the wording of
messages and the JSON and J2735 codecs; SQL; the plugins' device protocols; geometry; writes that block, in the session.
Threads of the core write to one socket without a lock; the models take each frame as
written in one piece. The core's signal handler; the profiler and the history manager, whose
worker thread shares a locked list with the router's callbacks and nothing else. In the
message manager: messages sent by threads that are no workers. In the cloud plugin: requests, which it
passes on without keeping them, and messages that arrive before its constructor is
through. In the throttle: the removal of stale keys, which the keep-alive never asks for.
TelematicBridge (a registration and the selected topics, which the NATS library's threads
read and write) and the handshake with the simulation, whose other sides are outside the repository.

## 6. Plan

1. *Done*: router with refinement and proofs; session, lifecycle, monitor, framer, message manager, keep-alive and
   cloud plugin, each with proofs of all its invariants.
2. Proofs of what the liveness properties rest on: that a step that brings the goal nearer is never undone, for
   the escalation of the monitor and for the queues of the session.
3. The framer as an implementation of the queues of messages that the session takes for granted, and the
   proof that it is one.
4. The monitor composed with the lifecycle: both write the status rows of a plugin.
5. TelematicBridge's registration and selected topics; the simulation's handshake.
