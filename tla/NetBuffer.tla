------------------------------ MODULE NetBuffer ------------------------------
(***************************************************************************)
(* CNetServerBuffer stands between the game (main thread) and the network  *)
(* library: with "threadnet" on, a net thread runs the library, so that    *)
(* sync packets are relayed while scripts keep the main thread busy.       *)
(* Calls of the game become jobs in a command queue; results and received  *)
(* packets come back in queues that the main thread reads once a frame.    *)
(* CSimControl puts the buffer in and takes it out while the server runs.  *)
(*                                                                         *)
(* One mutex guards the queues; an action is what a thread does between    *)
(* two points where it does not hold it.  Its condition has at most two    *)
(* waiters: the main thread, without a limit, in PollCommand, and the net  *)
(* thread, for 10 ms, when it has nothing to do.                           *)
(*                                                                         *)
(* The library itself is external: a call is executed, and a pulse hands   *)
(* over packets through the registered handler.  A packet that the         *)
(* watchdog drops (unreliable sync only) is one that never came.           *)
(***************************************************************************)
EXTENDS Naturals, Sequences

CONSTANTS
    Players,     \* players whose statistics scripts ask for
    Nobody,      \* no player
    MaxCalls,    \* bound: calls to the library
    MaxPackets,  \* bound: packets received
    MaxBuffers   \* bound: how often the buffer is put in

ASSUME PlayersAssumption == Nobody \notin Players
ASSUME BoundsAssumption == /\ MaxCalls \in Nat /\ MaxPackets \in Nat
                           /\ MaxBuffers \in Nat

VARIABLES
    request,     \* ms_bEnableRequest
    enabled,     \* ms_bEnabled
    made,        \* buffers made so far
    buffer,      \* ms_pNetServerBuffer is not NULL
    server,      \* g_pNetServer: "real" or "buffer"
    handler,     \* packet handler registered in the library
    toGame,      \* m_pfnDMPacketHandler is not NULL
    autoPulse,   \* m_bAutoPulse
    terminate,   \* m_bTerminateThread
    job,         \* the CNetJobData
    commands,    \* m_OutCommandQueue
    results,     \* m_OutResultQueue: set, in the order of the jobs' numbers
    finished,    \* m_FinishedList
    incoming,    \* m_InResultQueue
    batch,       \* ProcessIncoming's own list
    statsFor,    \* ms_NetStatisticsLastFor
    statsSaved,  \* whose statistics ms_NetStatisticsLastSaved holds
    net,         \* where the net thread is
    todo,        \* uiNumToDo
    at,          \* where the main thread is
    caller,      \* where it returns to from AddCommandAndWait or -Callback
    mine,        \* the job it has at hand
    asleep,      \* it waits on the condition
    issued, log, received, handled   \* history, see NetService

vars == <<request, enabled, made, buffer, server, handler, toGame, autoPulse,
          terminate, job, commands, results, finished, incoming, batch,
          statsFor, statsSaved, net, todo, at, caller, mine, asleep,
          issued, log, received, handled>>
controlVars == <<request, enabled, made, buffer, server, toGame, autoPulse, terminate>>
statsVars == <<statsFor, statsSaved>>
packetVars == <<incoming, batch, received, handled>>
netVars == <<net, todo, handler, log>>
mainVars == <<at, caller, mine, asleep>>

Jobs == 1..MaxCalls

\* Calls: without a result (auto-freed), waited for, or with a callback.
Freed == {"send", "pulse"}
Awaited == {"query", "ask", "hook", "unhook"}
Ops == Freed \cup Awaited \cup {"stats"}

\* "none" is a number not used for a job: not issued yet, or a direct call.
Stages == {"none", "queued", "running", "result", "finished", "deleted"}
Job == [op : Ops, who : Players \cup {Nobody}, stage : Stages,
        callback : {"none", "set", "done"}]
NoJob == [op |-> "send", who |-> Nobody, stage |-> "none", callback |-> "none"]

HasCallback(j) == job[j].callback = "set"

-----------------------------------------------------------------------------
(* The net thread: ThreadProc *)

\* The queue q is looked at, with the mutex: sleep, or begin its front.
TakesUp(q, jobs) ==
    IF q = <<>>
    THEN net' = "asleep" /\ job' = jobs /\ UNCHANGED todo
    ELSE /\ net' = "running"
         /\ job' = [jobs EXCEPT ![Head(q)].stage = "running"]
         /\ todo' = Len(q)

\* The top of the loop.
Loops(q, jobs) ==
    IF terminate THEN net' = "ended" /\ job' = jobs /\ UNCHANGED todo
    ELSE IF autoPulse THEN net' = "pulsing" /\ job' = jobs /\ UNCHANGED todo
    ELSE TakesUp(q, jobs)

\* It has just started, was signalled, or its 10 ms have passed.
NetWakes ==
    /\ net \in {"started", "asleep"}
    /\ Loops(commands, job)
    /\ UNCHANGED <<controlVars, statsVars, packetVars, mainVars, handler, log,
                   commands, results, finished, issued>>

\* The library's pulse returns.
NetPulsed ==
    /\ net = "pulsing"
    /\ TakesUp(commands, job)
    /\ UNCHANGED <<controlVars, statsVars, packetVars, mainVars, handler, log,
                   commands, results, finished, issued>>

\* ProcessCommand: the library executes the job.
NetExecutes ==
    /\ net = "running"
    /\ LET j == Head(commands) IN
         /\ log' = Append(log, j)
         /\ handler' = CASE job[j].op = "hook" -> "buffer"
                         [] job[j].op = "unhook" -> "null"
                         [] OTHER -> handler
    /\ net' = "executed"
    /\ UNCHANGED <<controlVars, statsVars, packetVars, mainVars, todo, job,
                   commands, results, finished, issued>>

\* Its result is stored, and the next one taken, or the loop begins again.
Stored(j) ==
    LET left == Tail(commands)
        free == job[j].op \in Freed
        jobs == [job EXCEPT ![j].stage = IF free THEN "deleted" ELSE "result"]
    IN  /\ commands' = left
        /\ results' = IF free THEN results ELSE results \cup {j}
        /\ IF todo > 1 /\ ~terminate
           THEN /\ net' = "running"
                /\ job' = [jobs EXCEPT ![Head(left)].stage = "running"]
                /\ todo' = todo - 1
           ELSE Loops(left, jobs)

\* Mutant: the main thread is not signalled.
MutNetStores ==
    /\ net = "executed"
    /\ Stored(Head(commands))
    /\ UNCHANGED <<controlVars, statsVars, packetVars, at, caller, mine, asleep,
                   handler, log, finished, issued>>

NetStores ==
    /\ net = "executed"
    /\ Stored(Head(commands))
    /\ asleep' = FALSE   \* m_Mutex.Signal
    /\ UNCHANGED <<controlVars, statsVars, packetVars, at, caller, mine,
                   handler, log, finished, issued>>

\* The library runs on the net thread and hands over what it receives.
NetPulses == \/ net = "pulsing"
             \/ net = "running" /\ job[Head(commands)].op = "pulse"

\* ProcessPacket.
NetReceives ==
    /\ NetPulses
    /\ handler = "buffer"
    /\ received < MaxPackets
    /\ received' = received + 1
    /\ incoming' = Append(incoming, received + 1)
    /\ UNCHANGED <<controlVars, statsVars, mainVars, netVars, job, commands,
                   results, finished, batch, handled, issued>>

-----------------------------------------------------------------------------
(* Calls of the main thread *)

\* Game code runs: in the frame or in the handler of a packet.
Game == at \in {"game", "handling"}

\* Mutant: the job gets the number of the one before.
MutAddCommand(op, who) ==
    /\ issued < MaxCalls
    /\ issued' = issued + 1
    /\ job' = [job EXCEPT ![issued] =
                 [op |-> op, who |-> who, stage |-> "queued", callback |-> "none"]]
    /\ commands' = Append(commands, issued)

\* AddCommand.  The signal to the net thread only cuts its 10 ms short.
AddCommand(op, who) ==
    /\ issued < MaxCalls
    /\ issued' = issued + 1
    /\ job' = [job EXCEPT ![issued + 1] =
                 [op |-> op, who |-> who, stage |-> "queued", callback |-> "none"]]
    /\ commands' = Append(commands, issued + 1)

\* The library is called on the main thread, without the buffer.
Direct ==
    /\ Game /\ server = "real"
    /\ issued < MaxCalls
    /\ issued' = issued + 1
    /\ log' = Append(log, issued + 1)
    /\ UNCHANGED <<controlVars, statsVars, packetVars, mainVars, net, todo,
                   handler, job, commands, results, finished>>

DirectPacket ==
    /\ at = "game" /\ server = "real" /\ handler = "game"
    /\ received < MaxPackets
    /\ received' = received + 1
    /\ handled' = Append(handled, received + 1)
    /\ at' = "handling"
    /\ UNCHANGED <<controlVars, statsVars, netVars, job, commands, results,
                   finished, incoming, batch, caller, mine, asleep, issued>>

\* SendPacket, Kick and the like: AddCommandAndFree.
Send ==
    /\ Game /\ server = "buffer"
    /\ AddCommand("send", Nobody)
    /\ UNCHANGED <<controlVars, statsVars, packetVars, mainVars, netVars,
                   results, finished>>

\* AddCommandAndWait, as far as PollCommand.
AddCommandAndWait(op, who, from) ==
    /\ AddCommand(op, who)
    /\ at' = "polling" /\ caller' = from /\ mine' = issued + 1
    /\ UNCHANGED <<asleep, results, finished>>

\* GetPlayerIP and the like.
Query ==
    /\ Game /\ server = "buffer"
    /\ AddCommandAndWait("query", Nobody, at)
    /\ UNCHANGED <<controlVars, statsVars, packetVars, netVars>>

\* GetNetworkStatistics: blocking for a player it was not last asked for, else
\* with a callback, and the saved result is returned.
GetNetworkStatistics(p) ==
    /\ Game /\ server = "buffer"
    /\ \/ statsFor # p /\ AddCommandAndWait("ask", p, at)
       \/ /\ statsFor = p
          /\ AddCommand("stats", p)
          /\ at' = "setting" /\ caller' = at /\ mine' = issued + 1
          /\ UNCHANGED <<asleep, results, finished>>
    /\ UNCHANGED <<controlVars, statsVars, packetVars, netVars>>

\* SetCallback, after the job was queued and without the mutex.
SetCallback ==
    /\ at = "setting"
    /\ job' = [job EXCEPT ![mine].callback =
                 IF job[mine].stage \in {"finished", "deleted"} THEN @ ELSE "set"]
    /\ at' = caller
    /\ UNCHANGED <<controlVars, statsVars, packetVars, netVars, caller, mine,
                   asleep, commands, results, finished, issued>>

\* PollCommand(-1).  The statistics are saved by the caller or the callback.
\* Nobody polls a job that still has a callback to come.
Poll ==
    /\ at = "polling" /\ ~asleep
    /\ IF mine \in results
       THEN /\ results' = results \ {mine}
            /\ finished' = finished \cup {mine}
            /\ job' = [job EXCEPT ![mine].stage = "finished"]
            /\ at' = caller
            /\ statsSaved' = IF job[mine].op \in {"ask", "stats"}
                             THEN job[mine].who ELSE statsSaved
            /\ statsFor' = IF job[mine].op = "ask" THEN job[mine].who ELSE statsFor
            /\ UNCHANGED asleep
       ELSE asleep' = TRUE /\ UNCHANGED <<results, finished, job, at, statsVars>>
    /\ UNCHANGED <<controlVars, packetVars, netVars, caller, mine, commands, issued>>

\* A wait on a condition may end without a signal.
SpuriousWakeup ==
    /\ asleep
    /\ asleep' = FALSE
    /\ UNCHANGED <<controlVars, statsVars, packetVars, netVars, job, commands,
                   results, finished, at, caller, mine, issued>>

-----------------------------------------------------------------------------
(* DoPulse and ProcessIncoming *)

DoPulse ==
    /\ at = "game" /\ server = "buffer"
    /\ AddCommand("pulse", Nobody)
    /\ at' = "incoming"
    /\ UNCHANGED <<controlVars, statsVars, packetVars, netVars, results,
                   finished, caller, mine, asleep>>

TakeIncoming ==
    /\ at = "incoming"
    /\ batch' = incoming
    /\ incoming' = <<>>
    /\ at' = "batch"
    /\ UNCHANGED <<controlVars, statsVars, netVars, job, commands, results,
                   finished, received, handled, caller, mine, asleep, issued>>

\* One packet goes to the game; without a handler it is thrown away.
HandlePacket ==
    /\ at = "batch" /\ batch # <<>>
    /\ batch' = Tail(batch)
    /\ IF toGame THEN handled' = Append(handled, Head(batch)) /\ at' = "handling"
       ELSE UNCHANGED <<handled, at>>
    /\ UNCHANGED <<controlVars, statsVars, netVars, job, commands, results,
                   finished, incoming, received, caller, mine, asleep, issued>>

HandlerReturns ==
    /\ at = "handling"
    /\ at' = IF server = "buffer" THEN "batch" ELSE "game"
    /\ UNCHANGED <<controlVars, statsVars, packetVars, netVars, job, commands,
                   results, finished, caller, mine, asleep, issued>>

Pending == {j \in results : HasCallback(j)}

\* The first result with a callback to come, which then polls its own job; when
\* there is none, ProcessIncoming is done.
NextCallback(jobs) ==
    \/ \E j \in Pending :
         /\ \A k \in Pending : j <= k
         /\ job' = [jobs EXCEPT ![j].callback = "done"]
         /\ at' = "polling" /\ caller' = "again" /\ mine' = j
    \/ /\ Pending = {}
       /\ job' = jobs
       /\ at' = IF enabled THEN "game" ELSE "drained"
       /\ UNCHANGED <<caller, mine>>

\* Mutant: results that nobody has taken yet are deleted too.
MutSweep ==
    /\ at = "batch" /\ batch = <<>>
    /\ finished' = {}
    /\ NextCallback([j \in Jobs |-> IF j \in finished \cup results
                                    THEN [job[j] EXCEPT !.stage = "deleted"]
                                    ELSE job[j]])
    /\ UNCHANGED <<controlVars, statsVars, packetVars, netVars, commands,
                   results, asleep, issued>>

\* The packets are handled: finished jobs are deleted, callbacks begin.
Sweep ==
    /\ at = "batch" /\ batch = <<>>
    /\ finished' = {}
    /\ NextCallback([j \in Jobs |-> IF j \in finished
                                    THEN [job[j] EXCEPT !.stage = "deleted"]
                                    ELSE job[j]])
    /\ UNCHANGED <<controlVars, statsVars, packetVars, netVars, commands,
                   results, asleep, issued>>

CallbackReturns ==
    /\ at = "again"
    /\ NextCallback(job)
    /\ UNCHANGED <<controlVars, statsVars, packetVars, netVars, commands,
                   results, finished, asleep, issued>>

-----------------------------------------------------------------------------
(* CSimControl: the buffer is put in and taken out *)

\* EnableSimSystem, from the settings, a script or the watchdog.
EnableSimSystem ==
    /\ Game
    /\ request' = ~request
    /\ UNCHANGED <<enabled, made, buffer, server, toGame, autoPulse, terminate,
                   statsVars, packetVars, netVars, mainVars, job, commands,
                   results, finished, issued>>

\* A new buffer, with its thread, takes the place of the library.
SwitchOn ==
    /\ at = "game" /\ request /\ ~enabled
    /\ made < MaxBuffers
    /\ made' = made + 1
    /\ enabled' = TRUE /\ buffer' = TRUE
    /\ server' = "buffer" /\ toGame' = TRUE
    /\ autoPulse' = FALSE /\ terminate' = FALSE
    /\ net' = "started"
    /\ AddCommandAndWait("hook", Nobody, "hooked")
    /\ UNCHANGED <<request, statsVars, packetVars, todo, handler, log>>

Hooked ==
    /\ at = "hooked"
    /\ autoPulse' = TRUE
    /\ at' = "game"
    /\ UNCHANGED <<request, enabled, made, buffer, server, toGame, terminate,
                   statsVars, packetVars, netVars, job, commands, results,
                   finished, caller, mine, asleep, issued>>

SwitchOff ==
    /\ at = "game" /\ ~request /\ enabled
    /\ issued < MaxCalls   \* bound: leaves a number for Restore
    /\ enabled' = FALSE
    /\ autoPulse' = FALSE
    /\ at' = "restoring"
    /\ UNCHANGED <<request, made, buffer, server, toGame, terminate, statsVars,
                   packetVars, netVars, job, commands, results, finished,
                   caller, mine, asleep, issued>>

\* Mutant: the handler is taken out without waiting for it.
MutUnhook ==
    /\ AddCommand("unhook", Nobody)
    /\ at' = "unhooked"
    /\ UNCHANGED <<caller, mine, asleep, results, finished>>

Unhook == AddCommandAndWait("unhook", Nobody, "unhooked")

Restore ==
    /\ at = "restoring"
    /\ server' = "real" /\ toGame' = FALSE
    /\ Unhook
    /\ UNCHANGED <<request, enabled, made, buffer, autoPulse, terminate,
                   statsVars, packetVars, netVars>>

\* Mutant: what the net thread left is not read any more.
MutUnhooked ==
    /\ at = "unhooked"
    /\ handler' = "game"
    /\ at' = "drained"
    /\ UNCHANGED <<controlVars, statsVars, packetVars, net, todo, log, job,
                   commands, results, finished, caller, mine, asleep, issued>>

\* The library gets the game's own handler, and ProcessIncoming is called.
Unhooked ==
    /\ at = "unhooked"
    /\ handler' = "game"
    /\ at' = "incoming"
    /\ UNCHANGED <<controlVars, statsVars, packetVars, net, todo, log, job,
                   commands, results, finished, caller, mine, asleep, issued>>

\* ~CNetServerBuffer: the thread is told to stop,
Drained ==
    /\ at = "drained"
    /\ terminate' = TRUE
    /\ at' = "stopping"
    /\ UNCHANGED <<request, enabled, made, buffer, server, toGame, autoPulse,
                   statsVars, packetVars, netVars, job, commands, results,
                   finished, caller, mine, asleep, issued>>

\* and has stopped, or is cancelled after 5 seconds, wherever it is.  The jobs
\* left in the buffer are forgotten with it.
Deleted ==
    /\ at = "stopping"
    /\ net' = "ended"
    /\ buffer' = FALSE
    /\ commands' = <<>> /\ results' = {} /\ finished' = {}
    /\ incoming' = <<>>
    /\ job' = [j \in Jobs |-> IF job[j].stage \in {"queued", "running", "result", "finished"}
                              THEN [job[j] EXCEPT !.stage = "deleted"] ELSE job[j]]
    /\ at' = "game"
    /\ UNCHANGED <<request, enabled, made, server, toGame, autoPulse, terminate,
                   statsVars, batch, received, handled, todo, handler, log,
                   caller, mine, asleep, issued>>
-----------------------------------------------------------------------------
Init ==
    /\ request = FALSE /\ enabled = FALSE /\ made = 0
    /\ buffer = FALSE /\ server = "real" /\ handler = "game" /\ toGame = FALSE
    /\ autoPulse = FALSE /\ terminate = FALSE
    /\ job = [j \in Jobs |-> NoJob]
    /\ commands = <<>> /\ results = {} /\ finished = {}
    /\ incoming = <<>> /\ batch = <<>>
    /\ statsFor = Nobody /\ statsSaved = Nobody
    /\ net = "ended" /\ todo = 0
    /\ at = "game" /\ caller = "game" /\ mine = 0 /\ asleep = FALSE
    /\ issued = 0 /\ log = <<>> /\ received = 0 /\ handled = <<>>

NetThread == NetWakes \/ NetPulsed \/ NetExecutes \/ NetStores

MainSteps ==
    \/ SetCallback \/ Poll
    \/ TakeIncoming \/ HandlePacket \/ HandlerReturns \/ Sweep \/ CallbackReturns
    \/ Hooked \/ Restore \/ Unhooked \/ Drained
    \/ Deleted

GameCalls ==
    \/ Direct \/ DirectPacket
    \/ Send \/ Query \/ \E p \in Players : GetNetworkStatistics(p)
    \/ DoPulse
    \/ EnableSimSystem \/ SwitchOn \/ SwitchOff

Next == NetThread \/ NetReceives \/ MainSteps \/ GameCalls \/ SpuriousWakeup

\* The net thread runs, calls of the library return, and what the main thread
\* has begun it goes on with; handlers of packets return.
Spec == Init /\ [][Next]_vars /\ WF_vars(NetThread) /\ WF_vars(MainSteps)

-----------------------------------------------------------------------------
TypeOK ==
    /\ request \in BOOLEAN /\ enabled \in BOOLEAN /\ made \in Nat
    /\ buffer \in BOOLEAN /\ server \in {"real", "buffer"}
    /\ handler \in {"game", "buffer", "null"} /\ toGame \in BOOLEAN
    /\ autoPulse \in BOOLEAN /\ terminate \in BOOLEAN
    /\ job \in [Jobs -> Job]
    /\ commands \in Seq(Jobs) /\ results \in SUBSET Jobs
    /\ finished \in SUBSET Jobs
    /\ incoming \in Seq(Nat) /\ batch \in Seq(Nat)
    /\ statsFor \in Players \cup {Nobody} /\ statsSaved \in Players \cup {Nobody}
    /\ net \in {"started", "asleep", "pulsing", "running", "executed", "ended"}
    /\ todo \in Nat
    /\ at \in {"game", "handling", "setting", "polling", "incoming", "batch",
               "again", "hooked", "restoring", "unhooked", "drained", "stopping"}
    /\ caller \in {"game", "handling", "again", "hooked", "unhooked"}
    /\ mine \in 0..MaxCalls /\ asleep \in BOOLEAN
    /\ issued \in 0..MaxCalls /\ log \in Seq(Jobs)
    /\ received \in Nat /\ handled \in Seq(Nat)

InQueue(j) == \E i \in 1..Len(commands) : commands[i] = j

\* A job is in the one list that its stage says and in no other, so the checks
\* "not refed" of ProcessIncoming and "not been cancelled" of ThreadProc hold,
\* and the job that either thread has at hand has not been deleted.
JobsInPlace ==
    /\ \A j \in Jobs :
         /\ job[j].stage \in {"queued", "running"} <=> InQueue(j)
         /\ job[j].stage = "result" <=> j \in results
         /\ job[j].stage = "finished" <=> j \in finished
    /\ net \in {"running", "executed"} =>
         commands # <<>> /\ job[Head(commands)].stage = "running"
    /\ at \in {"setting", "polling"} =>
         mine \in Jobs /\ job[mine].stage \in {"queued", "running", "result"}
    /\ at = "polling" /\ caller = "again" => mine \in results

\* The game's packet handlers never run on the net thread, and when the main
\* thread calls the library itself the net thread is not in it: through every
\* switch of the mode (CSimControl::DoPulse).
OneThreadInLibrary ==
    /\ NetPulses => handler # "game"
    /\ at = "unhooked" => net \notin {"pulsing", "running", "executed"}
    /\ Game /\ server = "real" => ~buffer /\ net = "ended" /\ handler = "game"

\* The main thread always comes back to its frame: no blocking call misses its
\* signal, no switch and no ProcessIncoming hangs.
MainComesBack == at # "game" ~> at = "game"

\* What NetService sees of the two threads and the switches.
Mode == IF ~buffer THEN "off" ELSE IF toGame THEN "on" ELSE "closing"
Owed == {j \in Jobs : /\ job[j].op = "stats" /\ job[j].stage # "none"
                      /\ job[j].callback # "done"}
WaitsFor == IF at = "polling" /\ caller # "again" THEN mine ELSE 0
Unhandled == batch \o incoming

\* They keep its promise.
Service == INSTANCE NetService WITH
    mode <- Mode, owed <- Owed, waiting <- WaitsFor, pending <- Unhandled
ImplementsService == Service!Spec
=============================================================================
