# A TLA+ model of the Multi Theft Auto server

Multi Theft Auto (MTA) adds multiplayer to GTA San Andreas. This directory models the parts of its
server whose correctness depends on the order in which threads, callbacks, event handlers and
packets act: the database job queue, the protocol by which peds get in and out of vehicles, latent
transfers, the buffer between the game and the network thread, and the element tree with its event
handlers. TLC checks the models on small instances; TLAPS proves most of their safety properties for
instances of any size.

Paths below are relative to `src/Server/mods/deathmatch/logic/` unless they start with `src/`.

- [Inventory](#inventory) - the components of the system
- [Modules](#modules) - what is in this directory
- [The database job queue](#the-database-job-queue)
- [Getting in and out of vehicles](#getting-in-and-out-of-vehicles)
- [Latent transfers](#latent-transfers)
- [The network thread buffer](#the-network-thread-buffer)
- [Elements, events and resources](#elements-events-and-resources)
- [What is proved](#what-is-proved)
- [What is only model-checked](#what-is-only-model-checked)
- [Findings](#findings) and [observations](#observations)
- [Plan](#plan)
- [What is not modelled](#what-is-not-modelled)
- [Running the checks](#running-the-checks)

## Inventory

The server is one process. Its main thread runs `CGame::DoPulse` every frame: it takes packets from
the network module, runs their handlers, fires timers, pulses the database and the resources. Lua
scripts are called synchronously from these handlers (events, timers, commands, callbacks) and call
back into the server through the script functions. Beside it run one service thread per database
queue, the network thread with its watchdog, and the HTTP client and server threads.

| Component | State | Operations | Interacts through | Hard because | Correct if |
|---|---|---|---|---|---|
| **Database job queue** `CDatabaseJobQueue.cpp`, `CDatabaseManager.cpp`, `CDatabaseJobQueueManager.cpp`, `luadefs/CLuaDatabaseDefs.cpp` | command and result queue, finished list, job data, connection maps of both threads | connect, disconnect, query, exec, poll, free, pulse, shutdown | a mutex with the service thread; callbacks; `onDebugMessage` handlers | two threads; the mutex is released in loops; callbacks re-enter the queue | each job is in one place, none is deleted while held, every callback is called once, a query reaches its connection, waits end, shutdown loses nothing |
| **Vehicle entry and exit** `CGame.cpp` (`Packet_Vehicle_InOut`), `CPed.cpp`, `CVehicle.cpp`, with warps, kills and spawns from `CStaticFunctionDefinitions.cpp` and `CMapManager.cpp` | who sits where (twice), vehicle actions, jack links (twice) | request/notify in, out, jack, abort, fall off; warp, remove, kill, spawn; change of syncer; destructors | packets with each client; events whose handlers cancel or act; syncer selection | a handshake over seconds, in which everything else may happen; handlers in the middle of a handler | both records agree, no handshake is stuck, no victim without a jacker, no pointer to what is gone |
| **Network thread buffer** `net/CNetBuffer.cpp`, `net/CNetBufferWatchDog.cpp`, `net/CSimControl.cpp` | out-command, out-result and in-result queues, finished list, the mode of the server | blocking, callback and plain calls of the net library, packets in, pulse, switch on and off | a mutex with the net thread; callbacks; `g_pNetServer` | two threads; the thread is put in and taken out while the server runs | calls and packets in order, once; blocking calls end; one thread in the library; nothing used after deletion |
| **Sim players** `net/CSimPlayerManager.cpp` | a copy of each player's sync state and send list | add, remove, update, relay of sync packets on the net thread | locked by both threads | pointers in other players' lists, stale copies | no list holds a removed player; a relay uses a list the main thread built |
| **Latent transfers** `src/Shared/mods/deathmatch/logic/CLatent*.cpp` | send queue per remote, receiver state | add, cancel, pulse, receive, quit | packets between server and client; the events they deliver | parts over many pulses, cancellation, quits from inside the event, reuse of ids and of addresses | whole, in order, at most once; cancelled ones never arrive; the rate is that of the most urgent |
| **Element lifetime and ids** `CElementDeleter.cpp`, `CElement.cpp`, `CElementGroup.cpp`, `CElementIDs.cpp`, `CElementRefManager.cpp`, `src/Shared/.../CIdArray.cpp` | tree, deletion list, flags, groups, id stack | create, move, destroy, delete, delete all, take and return an id | events, all managers | handlers that delete and move during a deletion | deleted once, out of the tree at once, one tree, no reference left |
| **Syncer selection** `CUnoccupiedVehicleSync.cpp`, `CPedSync.cpp`, `CObjectSync.cpp` | the syncer of each element, persistence | start, stop, override, periodic update | events, packets, entry and exit | one persistence flag for all vehicles; a syncer who leaves | at most one syncer per element, both sides agree, persistence belongs to a vehicle |
| **Events, timers, commands** `CMapEventManager.cpp`, `CElement.cpp`, `lua/CLuaTimerManager.cpp`, `CRegisteredCommands.cpp` | handler lists, trash cans, timer list and process queue, "iterating" flags | add, remove, call, pulse | called by everything, call everything | lists and trees changed while they are iterated, nested calls | a removed handler is not called, nothing deleted in use |
| **Resources** `CResource.cpp`, `CResourceManager.cpp`, `lua/CLuaManager.cpp` | VM, elements, handlers, dependents, request queue | start, stop, abort, restart, queue | events; dependents | a start that fails half-way, in an event of another resource | only legal state changes; stopped ones leave nothing behind |
| **Script functions** `CStaticFunctionDefinitions.cpp`, `luadefs/` | none of their own | some 1,000 functions | called by scripts | their effect on protocols in progress | modelled where a modelled protocol depends on them |
| **Accounts, ACL, bans** | tables, XML files | load, save, log in, check rights | database, files | sequential | not modelled |
| **Join, quit, packet dispatch** `CGame.cpp`, `CPlayerManager.cpp` | player list, join state | connect, join, quit, broadcast | network | contents more than order | a quit is part of the vehicle model |
| **MySQL module, server core, launcher** | handles, the main loop | - | libraries, operating system | glue | not modelled |
| **Client** `src/Client/` | the game itself | tasks, streaming, rendering, UI | hooks into the GTA binary | foreign state | its side of the entry protocol is in the vehicle model |

The hazards of these components, each at its line, are in `PROJECT.json`, with the properties that
would catch them.

## Modules

| Model | Abstract specification | Instances for TLC | Proofs | What it is |
|---|---|---|---|---|
| `DbJobQueue` | `DbJobService`: FIFO execution, each result collected or discarded once | `MCDbJobQueue` | `DbJobQueueProofs`, `DbConnectionProofs` | the database job queue: service thread, main thread, script functions |
| `VehicleInOut` | `VehicleSeats`: who may be given a seat, and when | `MCVehicleInOut` | `VehicleInOutProofs`, `VehicleHandshakeProofs`, `VehicleJackProofs` | vehicle entry and exit on the server, with the clients' side as one variable |
| `LatentTransfer` | `LatentService`: in order, at most once, none lost, none after its cancellation | `MCLatentTransfer` | `LatentTransferProofs` | both ends of a latent transfer and the wire between them |
| `NetBuffer` | `NetService`: calls and packets in order, once, across changes of mode | `MCNetBuffer` | `NetBufferProofs` | main thread, net thread, their queues, and `CSimControl` |
| `ElementEvents` | `HandlerService`: what scripts may rely on about their event handlers | `MCElementEvents` | `ElementEventsProofs` | the element tree, event handlers called in the middle of it, resources |

Each model uses no RECURSIVE operator, takes its sizes as CONSTANTS with named assumptions, and has
one action per operation or per step of an operation. Each implements its abstract specification,
which is checked as a property of a run. Operators whose comment says "Mutant" are not used: each is
a plausible bug that makes some property fail when it is put in the place of the operator that
follows it.

The components meet in the main thread's scripts, which are what every model leaves open: any
operation that scripts can call may be called whenever scripts run. The models share no state, as
the components do not, with two exceptions that appear on both sides: a player who quits is
`PedIsDeleted` in `VehicleInOut` and `Quit` in `LatentTransfer`, and a resource whose VM ends is
`VMDestroyed` in `LatentTransfer` and `DestroyVM` in `ElementEvents`.

## The database job queue

**State.** `cmdQ`, `resQ`, `connMap` and `terminate` are the members of `shared`; `active`,
`finished`, `pendingFlush`, `typeMap` and `handles` belong to the main thread; `job` holds the
`CDbJobData`. `worker` is where the service thread is (waiting, processing a job, about to store its
result, done or cancelled). `stack` is the main thread: the calls that are suspended, each with the
job it holds.

**Steps.** A section under `shared.m_Mutex` is one step. The exception is `DoPulse`'s scan of the
results, which keeps the mutex while it steps from one callback to the next: while its frame is on
top the service thread cannot get the mutex. Where the code releases the mutex and calls something -
a callback, or a log line that `onDebugMessage` handlers run on - the model pushes a frame, and when
that frame is script, any operation may start on top of it, as in the code. The script functions map
to one action each that starts them (`DbQuery`, `DbPoll`, `DbExec`, `DbFree`, `Connect`,
`Disconnect`, ...) and the steps that finish them (`PollTakes`, `PollTimesOut`, `FinishExec`,
`PollReturns`, ...). `QueryWithResultf` of the C++ code is `DbQuery` followed by `DbPoll(-1)`;
callbacks of C++ code (`CAccountManager::StaticDbCallback`) are callbacks like those of Lua.
`dbPoll` may warn twice, while it waits (`PollWarns`) and about a query that failed
(`PollReportsError`), with debug message handlers before it goes on. The service thread's four steps
take a job, process it with any outcome its kind can have, store the result, and exit.

**Runs.**

| Run | Shows |
|---|---|
| `DbJobQueue` | all operations, two connections, three job ids, shutdown, debug message handlers that use the database in the middle of other calls: accounting, lifetime, callbacks, connection maps and the refinement to `DbJobService` (1,758,802 states) |
| `DbLive` | when debug message handlers leave the database alone, with one connection, queries only with callbacks or through exec, and the shutdown: `QueriesReachTheirConnection`, `PollAsserts`, `ShutdownDrains`; and with fairness: infinite waits end; until the server shuts down every query is flushed, freed jobs are deleted, callbacks are called (91,994 states) |
| `DbDisconnect` | fails: see [findings](#findings) |
| `DbPollAsserts` | fails: see [findings](#findings) |

**Bounds.** `Jobs` bounds the jobs alive at once, not the length of a run: ids are used again, as
`CIdArray` does. Three are enough for one job at the service thread, one queued behind it and one
finished or held by a suspended call, hence for every pair of conditions the code distinguishes.
`RoomFor` keeps an id free for every FLUSH that is due, and the shutdown one for every DISCONNECT:
the real code never runs out of ids. `MaxConns` bounds the connects of a run; two let an operation
on one connection overlap with the disconnect of another. The stack needs no bound of its own: a
frame that could start another call is script, a debug message handler does not nest, and each query
in a callback takes an id. Job ids are symmetric where no liveness is checked.

**Fairness** (`Fairness` in the module): the operating system runs the service thread, and it gets
the mutex although the main thread takes it every frame (strong); a call in progress goes on (weak);
the game loop pulses again and again although scripts run between the pulses (strong); a Lua
function ends, because `CLuaMain` aborts one that runs too long (strong). Nothing is assumed about
scripts calling anything: a run in which no script ever collects a result is fair.

**Properties.** `JobAccounting` is the comment "All active jobhandles will either be in
m_CommandQueue or m_ResultQueue or m_FinishedList", made precise. `HeldJobsExist` says that nothing
is deleted under the service thread or a suspended call. `NoCallbackLost` is the `dassert` before
`DoPulse` deletes a job. `ConnectionsAgree` relates the two threads' connection maps.
`QueriesReachTheirConnection` says no disconnect overtakes a query. `PollAsserts` is the two
assertions of `PollCommand`'s loop. `ShutdownDrains` says that when the thread is told to stop no
query is left.

## Getting in and out of vehicles

**The protocol.** A client asks (`VEHICLE_REQUEST_IN`); the server marks the ped as entering, runs
`onVehicleStartEnter`, and confirms; the client plays the animation and says how it ended
(`VEHICLE_NOTIFY_IN` or `_IN_ABORT`). Leaving is the same with `OUT`. If the driver's seat is taken,
the ped jacks: the server marks jacker and victim, links jacker and vehicle, and waits for
`VEHICLE_NOTIFY_JACK` or `_JACK_ABORT`. Peds that are not players are driven by the client of the
player who syncs them.

**State.** `occupied` is `CPed::m_pVehicle` with `m_uiVehicleSeat`; `occupants` is
`CVehicle::m_pOccupants`; `action` is `m_uiVehicleAction`; `jackingVehicle` and `jackingPed` are the
two ends of a jacking; `occupantChanged` is `m_bOccupantChanged`; `spawned`, `dead` and `gone` are
the life of peds and vehicles. `client` is what the client that controls each ped still has to
answer, and whether the server has already told it to forget it (`late`). Client and server talk
over an ordered channel, so an answer may come late but never after the next request. `calls` is the
stack of handlers that are suspended in an event.

**Steps.** A packet handler is one action up to its first event; each event that has code after it
is a frame on `calls`, and the action named after it (`StartEnterReturns`, `StartEnterIsCancelled`,
`RemovingReturns`, ...) is the code that follows. Events at the very end of a handler need no frame:
nothing depends on them, and what scripts do in them they may also do right after. With `Handlers`
TRUE, handlers warp, remove, kill and spawn peds in the middle of a handler; with FALSE they only
cancel. `WarpPedIntoVehicle` and `RemovePedFromVehicle` are shared by scripts, the packet handlers
and `CPed::SetSyncer`, as in the code. A ped who has asked to get out may fall off before he is told
that he may (`NotifyFellOff`); his client then answers the confirmation as well. A player who quits
is `PedIsDeleted`; the change of a ped's syncer is `SyncerChanges` with the steps of `SetSyncer`'s
switch, whose cases fall through.

**Runs.**

| Run | Shows |
|---|---|
| `VehicleInOut` | a player and two peds, a vehicle with two seats, warps, removals, spawns, syncer changes, destruction: type, `SeatsAgree`, `JackLinks`, `HandshakeAnswered`, `NoDangling`, and the refinement to `VehicleSeats` (about 165,000 states) |
| `VehicleJack` | two players and a ped jacking each other with deaths, kills, removals, spawns and a quit: `JackAnswered`, `VictimHasJacker`, `SeatsAgree` (about 220,000 states) |
| `VehicleCancel`, `VehicleHandlers`, `VehiclePassenger` | fail: see [findings](#findings) |

**Bounds.** Every property of the seats relates at most two peds, or two peds and a vehicle; three
peds let a bystander take the seat that two others are about. One vehicle with a driver's and a
passenger seat has every case of the code except a change between vehicles; all the invariants are
proved for any number of peds and vehicles. `MaxCalls` bounds how many suspended handlers an
operation may start on; the calls a handler makes itself are not counted.

**What the instances leave out, and why.** The two passing runs divide the operations between them
because all of them on three peds are too many states for a quick run. `VehicleInOut` has no kills.
`VehicleJack` has no warps and no destruction of the vehicle: a second jacker can overwrite the
vehicle's link to the first, and then ends that touch only the linked jacker leave the first one
JACKING. It does not cancel `onVehicleStartExit` (finding 3). Neither lets a ped that is no player
enter as a passenger from the water (finding 5) nor handlers act on peds (finding 4). With these,
`TypeOK` and `JackLinks` still hold - that is proved - and the others do not. The theorems need less
than the instances leave out: `JackAnswered` holds with warps, `VictimHasJacker` with destruction,
syncer changes and every event cancelled.

**Fairness.** None: every property here is about safety. Whether a client answers is up to the
client; `HandshakeAnswered` and `JackAnswered` say that it always still has something to answer.

## Latent transfers

**The protocol.** `triggerLatentClientEvent` and `triggerLatentServerEvent` queue an event for one
remote; every pulse sends parts of the queue's front, as many bytes as the highest rate in the queue
has earned since the last one. The first part is a head with the size, the last a tail; a transfer
that is cancelled after it has begun sends a cancel. The receiver collects the parts and hands the
whole to the packet handlers, which run scripts.

**State.** `txq`, `nextId` and `rate` are the sender's `CLatentSendQueue`, `rx` and `inside` the
receiver's `CLatentReceiver`, `wire` the packets between them. `down` says which end is the server;
a server removes the player of whom a part is refused and may delete the receiver inside the handler
that the receiver runs (`m_bDeferredDelete`), a client asks to be unloaded and goes on until it is.
`session` counts the players who have had this address: the server identifies a remote by its
`NetPlayerID`, which the next player with the same address gets again.

**Steps.** `AddSend`, `PulseIdle` and `PulseSend` (one part; several in one pulse are several
steps), `CancelSend`, `VMDestroyed`, `Receive` (one packet with all it causes, up to the handler of
a finished transfer), `HandlerReturns`, `Quit` (on the server, also from inside the handler), `Drop`
(on the client), `Join`.

**Run.** `LatentTransfer` (125,178 states) checks all properties, both directions. **Bounds:** two
transfers, so that one waits behind or is cancelled with the other; sizes of two and three parts
with a limit of two, so that one is refused; an id space of two, so that ids wrap; two sessions; a
rate and a pulse time at which bytes are never earned. **Fairness:** managers are pulsed every
frame, the network delivers, handlers return; no fairness for a pulse at a rate too low to earn a
byte (`RateSuffices`), which is why `TransfersEnd` asks for a sufficient rate.

**Properties.** `InStep` says that receiver, wire and sender fit together part by part, through
every cancel: it is why no body or tail is ever refused. `OnlyLeftoversDrop` says when a connection
is ended by the receiver. `ReceiverOutlivesHandler` is about a kick from inside the delivered event.
`OnlyFrontStarted`, `RateIsCurrent`, `TransfersEnd` and the refinement are described in the module.

## The network thread buffer

**State.** `commands`, `results`, `finished` and `incoming` are the queues of `CNetServerBuffer`,
`batch` the local list of `ProcessIncoming`; `job` holds the `CNetJobData`. `net` and `todo` say
where the net thread is, `at`, `caller`, `mine` and `asleep` where the main thread is. `request` to
`terminate` are the switches of `CSimControl` and of the buffer. `issued`, `log`, `received` and
`handled` record, for `NetService`, what was called and what came.

**Steps.** What a thread does between two points at which it does not hold the mutex is one step.
Calls without a result are `Send`; `Query` stands for those that wait for theirs;
`GetNetworkStatistics` waits or leaves a callback. `DoPulse`, `TakeIncoming`, `HandlePacket`,
`Sweep` and `CallbackReturns` are the frame; `SwitchOn` to `Deleted` the changes of mode, which end
with the net thread stopped or cancelled. The library is external: it executes a call
(`NetExecutes`) and hands over packets while it runs (`NetReceives`).

**Run.** `NetBuffer` (463,097 states): two players, five calls, two packets, two buffers. Five calls
are enough for the two a change of mode needs, the pulse that goes with each frame and two calls of
the game; with two buffers the second one must not suffer from the first. **Fairness:** the net
thread and the steps that the main thread has begun go on. The game need not call anything.

**Properties.** `JobsInPlace` and `OneThreadInLibrary` are the checks in `ProcessIncoming` and
`ThreadProc`, and what `CSimControl::DoPulse` is careful about; `MainComesBack` says that no
blocking call hangs the server; the refinement to `NetService` has order, once-only and
across-switch delivery.

## Elements, events and resources

**The problem.** An event is called on its source, then on the ancestors, then on the descendants,
and at each element on each handler. Handlers are scripts: they bind and remove handlers, move,
create and destroy elements, call further events and start resources, while the lists and the tree
they change are being walked. The code protects itself with copied lists, the flag
`m_bIteratingList` and a trash can per `CMapEventManager`, with the flag `m_bIsBeingDeleted`, and by
freeing elements at the end of the frame only.

**State.** `parent` is the tree (`m_Children` is its inverse); `alive` and `doomed` are the elements
made and those in `CElementDeleter::m_List`; `group` is the resource whose `CElementGroup` has the
element. `on`, `owner`, `trash` and `iterating` are the handlers. `open` are the VMs. `stack` is the
main thread's C++ and Lua stack, one frame for each call that is suspended while another runs.

**Steps.** `TriggerEvent`, `Climb`, `DownTo`, `DownEnds`, `CallHandler`, `HandlerReturns` and
`CallEnds` are the propagation (`CElement::CallEvent`, `CallParentEvent`, `CallEventNoParent`,
`CMapEventManager::Call`). `DestroyElement`, `DestroyChild`, `DestroyThis`, `DeleteElement`,
`Unlink` and `DoDeleteAll` are deletion, whose two halves are on both sides of `onElementDestroy`.
`StartResource` to `StartFails` are what starting, cancelling, aborting and stopping a resource does
to its VM, elements and handlers. Whenever a handler or a resource's main scripts are on top of the
stack, any script action may come.

**Run.** `ElementEvents` (1,041,063 states): a map element that is the game's, an element and a
handler of one resource, a handler of another. `MaxScripts` and `MaxDestroys` bound how many scripts
are on the stack when the next event, start or destruction begins, so a handler is called from
inside a handler, and inside that destroys. That is enough for a handler to delete the element whose
`onElementDestroy` it handles, its parent or its child, and to remove itself or the next. With three
elements, handlers that keep exchanging parents and children make a traversal go on without end, so
the state space of larger instances is not finite. The proofs have no such bound.

**Properties.** `NothingInUseIsFreed`: what the frames of the stack will still use exists, and the
flags are exact. `DeletedAreOut` and `AllReachRoot`: the elements are one tree, deleted ones out of
it, although handlers run between the two halves of a deletion. The refinement to `HandlerService`:
no handler is called after it was removed or after its resource stopped, handlers return in the
reverse order of their calls, and a VM closes only when none of its handlers runs.

## What is proved

`tlapm` checks every step of the proof modules. The theorems hold for all values of the constants
that satisfy the modules' assumptions, which only ask for what the instances of any server have:
null values that are no objects, peds who are no vehicles, bounds that are natural numbers, players
who are peds.

| Theorem | States |
|---|---|
| `DbJobQueueProofs!TypeCorrect` | `Spec => []TypeOK` |
| `DbJobQueueProofs!JobsAccounted` | `Spec => []JobAccounting` |
| `DbJobQueueProofs!CallbacksCalled` | `Spec => []NoCallbackLost` |
| `DbJobQueueProofs!HeldJobs` | `Spec => []HeldJobsExist` |
| `DbConnectionProofs!ConnectionsKept` | `Spec => []ConnectionsAgree` |
| `DbConnectionProofs!QueriesReach` | `Spec => []QueriesReachTheirConnection` if debug message handlers leave the database alone (`~Reentrant`) |
| `DbConnectionProofs!PollsSound` | `Spec => []PollAsserts` if `~Reentrant` |
| `DbConnectionProofs!ShutdownSound` | `Spec => []ShutdownDrains` if `~Reentrant` |
| `DbConnectionProofs!KeepsPromise` | `Spec => ImplementsService`, with or without re-entrant handlers |
| `VehicleInOutProofs!TypeCorrect` | `Spec => []TypeOK` |
| `VehicleInOutProofs!LinksAgree` | `Spec => []JackLinks`, with or without handlers that act |
| `VehicleInOutProofs!SeatsKept` | `Spec => []SeatsAgree` if handlers only cancel and only players are warped in as passengers (`OnlyCancels`) |
| `VehicleHandshakeProofs!NothingDangles` | `Spec => []NoDangling` if `OnlyCancels` |
| `VehicleHandshakeProofs!HandshakesAnswered` | `Spec => []HandshakeAnswered` if `OnlyCancels` |
| `VehicleHandshakeProofs!KeepsPromise` | `Spec => ImplementsSeating` if `OnlyCancels` |
| `VehicleJackProofs!JacksAnswered` | `Spec => []JackAnswered` if `OnlyCancels`, `onVehicleStartExit` of a jack is not cancelled, no syncer changes and no vehicle is destroyed (`JacksGoOn`) |
| `VehicleJackProofs!VictimsHaveJackers` | `Spec => []VictimHasJacker` if `OnlyCancels` and scripts warp nobody into a vehicle (`NobodyWarps`) |
| `LatentTransferProofs!TypeCorrect` | `Spec => []TypeOK` |
| `LatentTransferProofs!FrontFirst` | `Spec => []OnlyFrontStarted` |
| `LatentTransferProofs!RateCorrect` | `Spec => []RateIsCurrent` |
| `LatentTransferProofs!HandlerSafe` | `Spec => []ReceiverOutlivesHandler` |
| `LatentTransferProofs!TwoEndsInStep` | `Spec => []InStep` |
| `LatentTransferProofs!DropsExplained` | `Spec => OnlyLeftoversDrop` |
| `LatentTransferProofs!KeepsPromise` | `Spec => ImplementsService` |
| `NetBufferProofs!TypeCorrect` | `Spec => []TypeOK` |
| `NetBufferProofs!JobsKept` | `Spec => []JobsInPlace` |
| `NetBufferProofs!OneThread` | `Spec => []OneThreadInLibrary` |
| `NetBufferProofs!KeepsPromise` | `Spec => ImplementsService` |
| `ElementEventsProofs!TypeCorrect` | `Spec => []TypeOK` |
| `ElementEventsProofs!NothingFreed` | `Spec => []NothingInUseIsFreed` |
| `ElementEventsProofs!DeletedOut` | `Spec => []DeletedAreOut` |
| `ElementEventsProofs!Rooted` | `Spec => []AllReachRoot` |
| `ElementEventsProofs!KeepsPromise` | `Spec => ImplementsService` |

*Job queue.* `JobAccounting` is inductive together with `TypeOK`: the lemmas `PlacesAfterAdd`,
`PlacesAfterTake`, `PlacesAfterStore`, `PlacesAfterScan`, `PlacesAfterFinish` and
`PlacesAfterDelete` follow a job along the queue, and rest on what `Without` and `Tail` do to a
queue without duplicates. `NoCallbackLost` then needs only that a job enters the finished list with
its callback called, and that `SetCallback` and `FreeCommand` do not touch a finished job.
`HeldJobsExist` is not inductive: what makes a deletion safe is that `DoPulse` runs only when no
call is suspended. `StackShape` states that (pulse frames are at the bottom of the stack), and the
pair is inductive.

*Connections.* `ConnectionsAgree` only speaks of the moments at which no connect or disconnect is in
progress, so its invariant `ConnInv` has to say what is true in between: each queued connect or
disconnect has exactly one call that waits for it, without a time limit (`Patient`, `WaitsOnce`,
`DialsAwaited`); a handle that is being opened is used by nothing else (`OpensAlone`, `OpensNew`,
`HandlesGiven`); and each difference between the two maps is one that such a call will settle
(`OpenSettles`, `CloseSettles`). That is true whatever handlers do. The other three theorems need
`~Reentrant`, and `DbPollAsserts` shows what happens to the asserts without it. Then the main thread
does nothing else while it waits (`BlocksOnTop`), so nothing is ever queued behind a disconnect
(`DisconnectLast`), every query in the queue has its connection (`QueriesConnected`), and nothing
starts once the thread is told to stop (`StopsLast`).

The refinement to `DbJobService` holds whatever handlers do. It rests on `JobAccounting`: a job that
leaves a queue is in no other place, so its result is still there and was not spent. Each step
submits a job, executes the first one, releases, collects or discards one, forgets the spent ones,
or is a stutter. Only a disconnect could release several jobs at once; it releases none
(`DisconnectReleasesNone`), because the service thread has taken the connection out of its map
before `IgnoreConnectionResults` asks for it, which is finding 1 seen from the other side.

*Vehicles.* `JackLinks` is inductive with `TypeOK`, because `SetJackingVehicle` and `ClearJacking`
undo both ends. `SeatsAgree` is not inductive: a handler that continues after an event clears the
seat it had read before the event, and a jacker who is put into the seat is not first taken out of
another. The strengthening `SeatsInv` adds `JackersAreOut` (a ped that is jacking is in no vehicle)
and `CallsFit` (what a suspended call is about to do to a seat still fits that seat).

`NoDangling` rests on that: the destructors follow the pointers of what they destroy, which finds
every pointer to it only because both directions agree. `AllExist` says it of all pointers,
including those of the suspended calls, which is why nothing is destroyed below one as long as
handlers only cancel. In `HandshakeInv`, a ped that is entering or exiting is in the vehicle and his
client owes the answer (`Promised`), or the innermost handler ends the handshake or tells the client
when it goes on (`Settles`); `Handling` says what the handlers that change the action may count on.
The refinement to `VehicleSeats` follows from the same invariants: each step boards one ped, throws
a driver out for another, makes peds leave, destroys one thing, or leaves all in their places.

The two invariants about jackings hold only under hypotheses, and TLC has a counterexample for each
of these. A jacker whose event is cancelled waits for ever (finding 3). A change of syncer ends
what the ped's client was doing and leaves the server's action. A vehicle has one link to a jacker,
which a second jacker overwrites; when the vehicle is destroyed, only the linked one is told. And a
jacker who is warped into another vehicle leaves his victim JACKED. When none of this happens,
`JackersWait` says that a jacker's client has the answer to give or that the handlers of his jack
run, and `JackHandled` what those may count on when they go on. For the victims, `Victims` says that
a ped who is jacked is the driver of a vehicle with a jacker, `Knows` that a jacker's client jacks
the vehicle the server has for him, and `JackFits` that a suspended call still fits the jacker it is
about.

*Latent transfers.* `TypeOK`, `OnlyFrontStarted`, `RateIsCurrent` and `ReceiverOutlivesHandler` are
inductive together with two facts about the queue: ids in it are unique, and an end that has left
has no queue (`Base`). `InStep` needs besides that a receiver left over from an earlier session
stays one until the player goes (`Sessions`, `LeftoverWaits`). The refinement is about order, so its
invariant `Order` adds that the ends on the wire are in increasing order, that what has not finished
in the queue is behind them, and that no id is used twice. Then each step is one of `LatentService`
or leaves its variables alone: parts are a stutter, a head that is refused is the loss of the
connection, a tail a delivery.

*Network buffer.* Jobs are numbered in the order of the calls, so the command queue is always an
interval: the numbers after `Base`, those that the library has executed, up to `issued`. That is the
part `Queue` of the invariant `IInv`, and the reason why the log keeps the order of the calls.
`Places` says which list each stage means, `Owners` which job each thread has at hand, `Control` how
the switches of `CSimControl` go together with the place of the main thread, `Library` who may be in
the library and with which handler, and `Leftovers` what remains in the queues while the buffer
closes. `JobsInPlace` and `OneThreadInLibrary` follow from them; so does the refinement, step by
step.

*Elements and events.* What protects a suspended call is spread over flags, lists and the discipline
of the stack, so the invariant `IInv` is about all three. `Fine` says that the stack is well formed
and each frame holds what exists (`Alone`), that a handler runs on top of the `Call` at its element
and `nested` marks all the calls at an element but the outermost (`Follows`), and that a resource
that starts or stops has nothing on the stack below (`Over`). `TrashInUse` ties trash to the flags;
`BoundOpen` and `GroupsOpen` say that handlers and elements belong to VMs that exist, except the
elements of a start that is being undone; `Blank` that a handler loses its VM with its element. With
`DeletedAreOut` and `AllReachRoot` these are inductive: the flags are exactly the calls on the
stack, so a handler on a copied list is postponed when it is removed; elements are freed only when
the stack is empty; `DestroyVM` finds all the handlers of a VM because every element it can be on is
doomed or below the root. The lemmas about the stack are stated of any stack and any state of the
rest (`World`), so that they apply before and after a step. `AllReachRoot` is the only part about
paths: `SetElementParent` keeps it because the new parent is not below the element, and `Unlink`
because the children go to where the parent was. For the refinement to `HandlerService`, the
handlers that run are the handler frames with their depth in the stack, and a handler is bound while
it is on an element's list and not in the trash. A handler that scripts add is not in use, because
those in use are on an element's list; what removes handlers takes them out of that set at once,
also when only marked and left to the trash can; and a VM closes only when none of its handlers is
on the stack.

## What is only model-checked

Every invariant, action property and refinement that a passing run checks is proved, some under the
hypotheses in the table, which the runs' instances satisfy. Liveness under fairness -
`WaitEnds`, `FlushFollows`, `FreedJobsGo`, `CallbacksCome`, `TransfersEnd` and `MainComesBack` - is
out of the prover's reach and holds in the runs.

## Findings

Each is the violation that TLC finds in a run made for it.

1. **`DbDisconnect`** - comments say that a disconnect throws away the results of the connection's
   jobs (`CDatabaseJobQueue.cpp:476`, `CDatabaseJobQueueManager.cpp:126`). Jobs whose result is in
   are not found by then, because the service thread has already removed the connection from its
   map; their results are kept until somebody collects them.
2. **`DbPollAsserts`** - `PollCommand` asserts that it does not wait for an ignored or collected
   job. Its "dbPoll is waiting a long time" warning runs `onDebugMessage` handlers with the mutex
   released, and one that frees or polls the same handle makes the assertion fail.
3. **`VehicleCancel`** - cancelling `onVehicleStartExit` of a jacking undoes nothing
   (`CGame.cpp:3334` has no else, unlike 3354): the jacker stays JACKING, the driver JACKED, and no
   client has an answer to give that would end it.
4. **`VehicleHandlers`** - a handler of `onVehicleStartEnter` that warps the ped into another
   vehicle and cancels leaves that vehicle with an occupant who is in no vehicle (`CGame.cpp:3278`
   asks the wrong vehicle whether its occupants have changed); when he quits, the pointer dangles.
5. **`VehiclePassenger`** - the passenger branch clears the vehicle of the player who sent the
   packet (`CGame.cpp:3396`) where the driver branch (3252) clears that of the ped it is about.

## Observations

Modelling also showed the following, for which there is no run of its own.

- `CLatentTransferManager::OnReceive` makes a receiver for any `NetPlayerID` without asking for a
  player. Parts that arrive after the player has been removed start a transfer that `RemoveRemote`
  does not see; the next player with that id is disconnected at his first head. `OnlyLeftoversDrop`
  names it as one of the two reasons.
- The comments in `CPed::SetSyncer` (`CPed.cpp:476-477`, 515-516) expect that a change of syncer
  completes what a ped was doing. `WarpPedIntoVehicle` refuses a seat whose occupant has an action
  of his own: an entering ped, who occupies it himself, is then removed by the next case of the
  switch, and a jacker's warp fails because the driver is JACKED. `SyncerWarps` does as the code
  does; `JackAnswered` is claimed only where no syncer changes.
- "Delivered" in `LatentService` is the hand-over to the packet handlers. Whether the resource that
  would handle the event still runs is not looked at.
- When the network buffer is switched off, packets that were received and not yet handled are thrown
  away, although `net/CSimControl.cpp:112` drains the queue: `m_pfnDMPacketHandler` is NULL by then.
  Jobs finished by the callbacks of that last `ProcessIncoming` are forgotten with the buffer. The
  branch of `PollCommand` for jobs with a callback cannot be reached.
- `net/CNetBuffer.cpp:324-333` saves the statistics of whichever player was asked for last: when
  they are asked for one player after the other within a frame, those of one are returned for the
  other.
- `DestroyElement`'s loop over the children loses its iterator when a handler of a grandchild's
  `onElementDestroy` destroys the child itself (`CStaticFunctionDefinitions.cpp:320-326`): what
  follows is undefined, and `DestroyThis` ends the model there. It takes three nested elements,
  which the instance does not have.
- `executeCommandHandler` from a command handler clears `m_bIteratingList` and takes out the trash
  although the outer call still iterates (`CRegisteredCommands.cpp:145-181`). `CMapEventManager`,
  with the same trash can, asks whether the call is nested.
- `onResourceStop` runs before anything of the resource is taken down: for the model it is an event
  called just before the stop.

## Plan

Done: five components, each with an abstract specification, a passing run and theorems. What would
come next, in order of how much depends on it:

1. **Command handlers and timers** - a model of `CRegisteredCommands` beside `ElementEvents`, whose
   trash can is handled differently (see [observations](#observations)), with `CLuaTimerManager`'s
   process queue.
2. **`UnoccupiedVehicleSync`**, composed with `VehicleInOut` - the syncers of vehicles, and
   `m_bSyncerPersistent`, which is one flag for all of them.
3. **`SimPlayers`**, composed with `NetBuffer` - the copies of players' state and the send lists
   with which the net thread relays sync packets. Every access is under one mutex; what could be
   wrong is a removed player who stays in a list.
4. **The request queue of `CResourceManager`** - restarts, dependents and included resources.

## What is not modelled

- Of the database: several queues side by side (one per MySQL host), the handle counter's wrap,
  escaping of arguments, log files, the nested `DoPulse` of `CAccountManager` at startup.
- Of vehicles: distances, trailers and trains, wrecks, door angles, clients with an old bitstream,
  `VEHICLE_NOTIFY_OUT_ABORT` (no client sends it), the syncers of the vehicles themselves (only the
  events of `OverrideSyncer`, which may appear whether or not a syncer is persistent).
- Of latent transfers: status queries, estimates of durations, `CancelAllSends` (never called), how
  the part size is chosen within its bounds, frame times that change from pulse to pulse, and rates
  so high that the bytes of a pulse leave 32 bits (`src/Shared/.../CLatentSendQueue.cpp:69`): at
  each of the rates and times of an instance a pulse sends as much as the formula says.
- Of the network buffer: the watchdog's limits (a packet it drops is one that never came; when it
  wants the thread stopped, that is a request for a change of mode), traffic counters, what
  `CSimPlayerManager` does with sync packets on the way.
- Of elements, events and resources: event names and priorities (a handler that is not called does
  nothing), cancelling of events, debug hooks, ids and `CIdArray`, per-player entities, element
  data, reference lists, the resource's own root elements, files, dependents and included resources.
  Elements are of one kind, apart from maps. So scripts of the model may destroy players, which adds
  behaviours; they cannot move a player back to the root (`CStaticFunctionDefinitions.cpp:1147`),
  and there is no `onPlayerTeamChange` for the players of a team that is destroyed (340-356). A
  player and a team would be a third and a fourth element, and from three on the state space is not
  finite.
- Accounts, ACL and bans: sequential bookkeeping. The MySQL module, the server core and the
  launcher: glue. The client: it drives tasks of the original game whose code is not here, and most
  of the 580,000 lines of the repository are tables, bindings, rendering and argument checks, in
  which no order of steps matters.
- `vendor/`, `utils/`, data and build files.

## Running the checks

In this directory, for a run `X` of `PROJECT.json` with module `M`:

    tlc -workers 2 -config X.cfg M

and for each proof module:

    tlapm DbJobQueueProofs.tla
    tlapm DbConnectionProofs.tla
    tlapm VehicleInOutProofs.tla
    tlapm VehicleHandshakeProofs.tla
    tlapm VehicleJackProofs.tla
    tlapm LatentTransferProofs.tla
    tlapm NetBufferProofs.tla
    tlapm ElementEventsProofs.tla

The longest run (`DbJobQueue`) takes two or three minutes; so do the longest proofs from nothing.
