----------------------------- MODULE DbJobQueue -----------------------------
(***************************************************************************)
(* One database job queue: CDatabaseJobQueueImpl with its service thread,  *)
(* driven by the main thread through CDatabaseManagerImpl and the db*      *)
(* script functions.                                                       *)
(*                                                                         *)
(* The main thread is a stack of suspended calls.  A call is on the stack  *)
(* from the step that starts it to the step that returns from it; between  *)
(* the two the service thread may run, and when the top of the stack is a  *)
(* piece of script (a query callback, or an onDebugMessage handler that    *)
(* CScriptDebugging::LogWarning runs synchronously) the script may start   *)
(* further calls on top of it.                                             *)
(*                                                                         *)
(* Every section the code runs under shared.m_Mutex is one step, except    *)
(* DoPulse's scan of the results, which keeps the mutex over several; the  *)
(* service thread then has to wait.  Wait() always has a timeout of at     *)
(* most a second and is in a loop that checks its condition again, so      *)
(* waiting is being disabled.                                              *)
(***************************************************************************)
EXTENDS Naturals, Sequences, FiniteSets

CONSTANTS Jobs,       \* ids CIdArray can hand out to jobs: bound on live jobs
          MaxConns,   \* connection handles are 1..MaxConns: bound on connects
          ScriptOps,  \* the operations scripts and the server use in this instance
          Reentrant   \* do onDebugMessage handlers use the database?

ASSUME JobsAssumption == IsFiniteSet(Jobs)
ASSUME MaxConnsAssumption == MaxConns \in Nat
ASSUME ReentrantAssumption == Reentrant \in BOOLEAN
ASSUME NoJobAssumption == 0 \notin Jobs  \* 0 stands for a null pointer

VARIABLES
    cmdQ,          \* shared.m_CommandQueue
    resQ,          \* shared.m_ResultQueue
    connMap,       \* keys of shared.m_HandleConnectionMap
    terminate,     \* shared.m_bTerminateThread
    active,        \* m_ActiveJobHandles
    finished,      \* m_FinishedList
    pendingFlush,  \* m_PendingFlushMap
    job,           \* the CDbJobData of each id
    typeMap,       \* CDatabaseManagerImpl::m_ConnectionTypeMap
    handles,       \* handles GetNextConnectionHandle has given out: 1..handles
    worker,        \* where the service thread is: [pc, job]
    stack          \* the suspended calls of the main thread

shared == <<cmdQ, resQ, connMap, terminate>>
mainVars == <<active, finished, pendingFlush, typeMap, handles>>
vars == <<shared, mainVars, job, worker, stack>>

-----------------------------------------------------------------------------
Conns == 1..MaxConns
Kinds == {"CONNECT", "DISCONNECT", "QUERY", "FLUSH", "SETLOGLEVEL"}
Stages == {"COMMAND_QUEUE", "PROCESSING", "RESULT", "FINISHED"}
Statuses == {"NONE", "SUCCESS", "FAIL",
             "INVALID"}  \* FAIL with the reason "Invalid connection"
Callbacks == {"unset", "lua",  \* DbQueryCallback
              "log",           \* DbExecCallback, DbFreeCallback
              "done"}          \* callback.bDone
JobCalls == {"exec", "query", "poll", "polled", "callback", "warning"}
PlainCalls == {"flush", "again", "scan", "shutdown", "stop", "gone"}

JobData == {d \in [kind : Kinds, conn : Conns \cup {0}, stage : Stages,
                   status : Statuses, ignore : BOOLEAN, cb : Callbacks] :
               d.conn = 0 => d.kind = "SETLOGLEVEL"}

\* Mutant: a FLUSH is queued without its connection handle.
NewJobNoHandle(kind, c) == [kind |-> kind, conn |-> IF kind = "FLUSH" THEN 0 ELSE c,
                            stage |-> "COMMAND_QUEUE", status |-> "NONE",
                            ignore |-> FALSE, cb |-> "unset"]

NewJob(kind, c) == [kind |-> kind, conn |-> c, stage |-> "COMMAND_QUEUE",
                    status |-> "NONE", ignore |-> FALSE, cb |-> "unset"]
NoData == NewJob("SETLOGLEVEL", 0)  \* of an id that names no job

Elems(q) == {q[i] : i \in 1..Len(q)}
Position(q, j) == CHOOSE i \in 1..Len(q) : q[i] = j
Without(q, j) == [i \in 1..(Len(q) - 1) |->
                    IF i < Position(q, j) THEN q[i] ELSE q[i + 1]]

Uncalled(d) == d.cb \in {"lua", "log"}
HasCallback(j) == Uncalled(job[j])
Failed(j) == job[j].status \in {"FAIL", "INVALID"}

-----------------------------------------------------------------------------
(* The main thread's stack of calls.                                       *)

Frame(call, j, forever) == [call |-> call, job |-> j, forever |-> forever]
NoJob == 0
Frames == [call : JobCalls, job : Jobs, forever : BOOLEAN]
          \cup [call : PlainCalls, job : {NoJob}, forever : {FALSE}]
Simple(call) == Frame(call, NoJob, FALSE)

Top == stack[Len(stack)]
Running(call) == stack # <<>> /\ Top.call = call
OnStack(call) == \E i \in 1..Len(stack) : stack[i].call = call
Caller == SubSeq(stack, 1, Len(stack) - 1)
Push(f) == stack' = Append(stack, f)
Become(f) == stack' = Append(Caller, f)
Return == stack' = Caller

\* Lua code runs from the game loop's own events and from inside callbacks.
ScriptRuns(op) ==
    /\ op \in ScriptOps
    /\ stack = <<>> \/ Running("callback") \/ Running("warning")

\* LogWarning triggers onDebugMessage unless such a handler is already running.
\* No resource is left to handle it once the server destroys its managers.
HandlerRuns == Reentrant /\ ~OnStack("warning") /\ ~OnStack("shutdown")

-----------------------------------------------------------------------------
(* CDatabaseJobQueueImpl, main thread.                                     *)

\* Bound: a new job is only started while an id is left for every FLUSH that
\* the next DoPulse has to start.
RoomFor(flushes) == Cardinality(Jobs \ active) > Cardinality(flushes)

\* Mutant: connects and disconnects jump the queue.
AddCommandUrgent(j, kind, c, flushes) ==
    /\ j \in Jobs \ active
    /\ pendingFlush' = IF kind = "QUERY" THEN flushes \cup {c} ELSE flushes
    /\ active' = active \cup {j}
    /\ job' = [job EXCEPT ![j] = NewJob(kind, c)]
    /\ cmdQ' = IF kind = "QUERY" THEN Append(cmdQ, j) ELSE <<j>> \o cmdQ

AddCommand(j, kind, c, flushes) ==
    /\ j \in Jobs \ active
    /\ pendingFlush' = IF kind = "QUERY" THEN flushes \cup {c} ELSE flushes
    /\ active' = active \cup {j}
    /\ job' = [job EXCEPT ![j] = NewJob(kind, c)]
    /\ cmdQ' = Append(cmdQ, j)

\* Mutants: FreeCommand does not look whether the job is still queued; SetCallback
\* does not look whether the result has been collected.
FreedAlways(d, inQueue) == [d EXCEPT !.ignore = TRUE]
WithCallbackLate(d, cb) == IF d.cb = "unset" THEN [d EXCEPT !.cb = cb] ELSE d

\* The CDbJobData after FreeCommand and after SetCallback.  Both are no-ops for
\* a job whose result is already ignored, collected, or has a callback.
Freed(d, inQueue) == IF inQueue THEN [d EXCEPT !.ignore = TRUE] ELSE d
WithCallback(d, cb) == IF d.cb = "unset" /\ d.stage # "FINISHED"
                       THEN [d EXCEPT !.cb = cb] ELSE d
InQueue(j) == j \in Elems(cmdQ) \cup Elems(resQ)

\* AddCommand and FreeCommand are separate critical sections: the service
\* thread may have processed the job before FreeCommand looks for it.  dbExec
\* sets its callback after that; the server's own Exec sets none.
FinishExec ==
    /\ Running("exec")
    /\ LET j == Top.job IN
       \E cb \in IF job[j].kind = "QUERY" THEN {"unset", "log"} ELSE {"unset"} :
          job' = [job EXCEPT ![j] = WithCallback(Freed(@, InQueue(j)), cb)]
    /\ Return
    /\ UNCHANGED <<shared, mainVars, worker>>

\* dbQuery sets its callback after AddCommand, outside the mutex.
FinishQuery ==
    /\ Running("query")
    /\ job' = [job EXCEPT ![Top.job] = WithCallback(@, "lua")]
    /\ Return
    /\ UNCHANGED <<shared, mainVars, worker>>

\* Mutant: PollCommand forgets the stage.
CollectedKeepsStage(d) == [d EXCEPT !.cb = IF Uncalled(d) THEN "done" ELSE @]

Collected(d) == [d EXCEPT !.stage = "FINISHED",
                          !.cb = IF Uncalled(d) THEN "done" ELSE @]

\* One turn of PollCommand's loop that finds the result.  A callback that is
\* still due is called, but the stage is FINISHED, so DbQueryCallback calls no
\* Lua and only the callbacks that log an error may reach a script.
PollTakes ==
    /\ Running("poll")
    /\ LET j == Top.job IN
       /\ j \in Elems(resQ)
       /\ resQ' = Without(resQ, j)
       /\ finished' = finished \cup {j}
       /\ job' = [job EXCEPT ![j] = Collected(@)]
       /\ IF job[j].cb = "log" /\ Failed(j) /\ HandlerRuns
          THEN stack' = Append(Append(Caller, Frame("polled", j, FALSE)),
                               Frame("warning", j, FALSE))
          ELSE Become(Frame("polled", j, FALSE))
    /\ UNCHANGED <<cmdQ, connMap, terminate, active, pendingFlush, typeMap,
                   handles, worker>>

\* The result has not come in and the timeout (0 or more ms) has run out.
PollTimesOut ==
    /\ Running("poll") /\ ~Top.forever
    /\ Top.job \notin Elems(resQ)
    /\ Return
    /\ UNCHANGED <<shared, mainVars, job, worker>>

\* "dbPoll is waiting a long time": the mutex is released for the warning, and
\* the service thread may have stored the result by then.
PollWarns ==
    /\ Running("poll") /\ HandlerRuns
    /\ Push(Frame("warning", Top.job, FALSE))
    /\ UNCHANGED <<shared, mainVars, job, worker>>

\* dbPoll reports the error of a query before it reads the result.
PollReportsError ==
    /\ Running("polled") /\ HandlerRuns
    /\ job[Top.job].kind = "QUERY" /\ Failed(Top.job)
    /\ Push(Frame("warning", Top.job, FALSE))
    /\ UNCHANGED <<shared, mainVars, job, worker>>

\* What each caller of PollCommand does with a result: Connect, Disconnect, and
\* QueryPoll, which only hands it over.  CDatabaseJobQueueManager passes
\* IgnoreConnectionResults on to the queue that still knows the handle.
IgnoreConnectionResults(c) ==
    [k \in Jobs |-> IF c \in connMap /\ InQueue(k) /\ job[k].conn = c
                    THEN [job[k] EXCEPT !.ignore = TRUE] ELSE job[k]]

\* Mutant: Connect does not look at the status of its result.
PollReturnsAnyStatus ==
    /\ Running("polled")
    /\ LET d == job[Top.job] IN
       \/ /\ d.kind = "CONNECT"
          /\ typeMap' = typeMap \cup {d.conn}
          /\ UNCHANGED job
       \/ /\ d.kind = "DISCONNECT" /\ d.status = "SUCCESS"
          /\ typeMap' = typeMap \ {d.conn}
          /\ job' = IgnoreConnectionResults(d.conn)
       \/ /\ d.kind = "QUERY"
          /\ UNCHANGED <<typeMap, job>>
    /\ Return
    /\ UNCHANGED <<shared, active, finished, pendingFlush, handles, worker>>

PollReturns ==
    /\ Running("polled")
    /\ LET d == job[Top.job] IN
       \/ /\ d.kind = "CONNECT" /\ d.status = "SUCCESS"
          /\ typeMap' = typeMap \cup {d.conn}
          /\ UNCHANGED job
       \/ /\ d.kind = "DISCONNECT" /\ d.status = "SUCCESS"
          /\ typeMap' = typeMap \ {d.conn}
          /\ job' = IgnoreConnectionResults(d.conn)
       \/ /\ d.kind = "QUERY" \/ d.status # "SUCCESS"
          /\ UNCHANGED <<typeMap, job>>
    /\ Return
    /\ UNCHANGED <<shared, active, finished, pendingFlush, handles, worker>>

\* Mutant: DoPulse also runs while a result is handed over or a handler runs.
PulseBeginsNested ==
    /\ stack = <<>> \/ Running("polled") \/ Running("warning")
    /\ Push(Simple("flush"))
    /\ UNCHANGED <<shared, mainVars, job, worker>>

\* DoPulse, called every frame by the game loop.
PulseBegins ==
    /\ stack = <<>>
    /\ Push(Simple("flush"))
    /\ UNCHANGED <<shared, mainVars, job, worker>>

PulseFlushes ==
    /\ Running("flush")
    /\ \E c \in pendingFlush, j \in Jobs :
          /\ AddCommand(j, "FLUSH", c, pendingFlush \ {c})
          /\ Push(Frame("exec", j, FALSE))
    /\ UNCHANGED <<resQ, connMap, terminate, finished, typeMap, handles, worker>>

\* Mutant: DoPulse may leave flushes for a later frame.
PulseLocksEarly ==
    /\ Running("flush")
    /\ Become(Simple("again"))
    /\ UNCHANGED <<shared, mainVars, job, worker>>

PulseLocks ==
    /\ Running("flush") /\ pendingFlush = {}
    /\ Become(Simple("again"))
    /\ UNCHANGED <<shared, mainVars, job, worker>>

\* "again:", under the mutex: deletes every job in the finished list.
PulseDeletes ==
    /\ Running("again")
    /\ active' = active \ finished
    /\ finished' = {}
    /\ job' = [j \in Jobs |-> IF j \in finished THEN NoData ELSE job[j]]
    /\ Become(Simple("scan"))
    /\ UNCHANGED <<shared, pendingFlush, typeMap, handles, worker>>

\* Mutants: DoPulse looks for callbacks only; for ignored results only.
DueIfCallback(i) == HasCallback(resQ[i])
DueIfIgnored(i) == job[resQ[i]].ignore

\* The scan of the result queue stops at the first job it has to do something
\* about; after a callback it starts again from the top.
Due(i) == job[resQ[i]].ignore \/ HasCallback(resQ[i])
FirstDue(i) == Due(i) /\ \A k \in 1..(i - 1) : ~Due(k)

\* What DoPulse turns an ignored job, and one with a callback, into.  A Lua
\* callback whose resource has stopped frees the job instead (isValid = FALSE).
Dropped(d) == IF d.ignore THEN [d EXCEPT !.stage = "FINISHED"] ELSE d
CalledBack(d, isValid) ==
    CASE d.cb = "lua" -> [d EXCEPT !.cb = "done",
                          !.ignore = @ \/ (d.stage = "RESULT" /\ ~isValid)]
      [] d.cb = "log" -> [d EXCEPT !.cb = "done"]
      [] OTHER -> d

PulseScans ==
    /\ Running("scan")
    /\ \E i \in 1..Len(resQ), isValid \in BOOLEAN :
         /\ FirstDue(i)
         /\ LET j == resQ[i]
                d == Dropped(job[j]) IN
            /\ job' = [job EXCEPT ![j] = CalledBack(d, isValid)]
            /\ resQ' = IF d.ignore THEN Without(resQ, j) ELSE resQ
            /\ finished' = IF d.ignore THEN finished \cup {j} ELSE finished
            /\ CASE d.cb = "lua" /\ d.stage = "RESULT" /\ isValid ->
                      stack' = Append(Append(Caller, Simple("again")),
                                      Frame("callback", j, FALSE))
                 [] d.cb = "log" /\ Failed(j) /\ HandlerRuns ->
                      stack' = Append(Append(Caller, Simple("again")),
                                      Frame("warning", j, FALSE))
                 [] OTHER -> IF HasCallback(j) THEN Become(Simple("again"))
                                               ELSE UNCHANGED stack
    /\ UNCHANGED <<cmdQ, connMap, terminate, active, pendingFlush, typeMap,
                   handles, worker>>

\* The scan reaches the end.  UpdateDebugData may then warn of one result that
\* nobody has collected for five minutes.
PulseEnds ==
    /\ Running("scan") /\ \A i \in 1..Len(resQ) : ~Due(i)
    /\ \/ Return
       \/ /\ HandlerRuns
          /\ \E j \in Elems(resQ) : Become(Frame("warning", j, FALSE))
    /\ UNCHANGED <<shared, mainVars, job, worker>>

\* Lua returns from a callback or a debug message handler.
ScriptReturns ==
    /\ Running("callback") \/ Running("warning")
    /\ Return
    /\ UNCHANGED <<shared, mainVars, job, worker>>

-----------------------------------------------------------------------------
(* CDatabaseManagerImpl and the script functions, main thread.             *)

\* GetNextConnectionHandle, AddCommand(CONNECT), PollCommand(-1).
Connect ==
    /\ ScriptRuns("connect")
    /\ handles < MaxConns /\ RoomFor(pendingFlush)
    /\ handles' = handles + 1
    /\ \E j \in Jobs : /\ AddCommand(j, "CONNECT", handles + 1, pendingFlush)
                       /\ Push(Frame("poll", j, TRUE))
    /\ UNCHANGED <<resQ, connMap, terminate, finished, typeMap, worker>>

\* CDatabaseManagerImpl::Disconnect up to its wait.  When no queue knows the
\* handle any more, only the type entry is removed.
StartDisconnect(c) ==
    /\ c \in typeMap
    /\ \/ /\ c \in connMap /\ RoomFor(pendingFlush)
          /\ \E j \in Jobs : /\ AddCommand(j, "DISCONNECT", c, pendingFlush)
                             /\ Push(Frame("poll", j, TRUE))
          /\ UNCHANGED typeMap
       \/ /\ c \notin connMap
          /\ typeMap' = typeMap \ {c}
          /\ UNCHANGED <<cmdQ, active, job, pendingFlush, stack>>
    /\ UNCHANGED <<resQ, connMap, terminate, finished, handles, worker>>

Disconnect == ScriptRuns("disconnect") /\ \E c \in Conns : StartDisconnect(c)

\* A query is accepted for a connection both maps know.
StartQuery(c, call) ==
    /\ c \in typeMap \cap connMap /\ RoomFor(pendingFlush \cup {c})
    /\ \E j \in Jobs : /\ AddCommand(j, "QUERY", c, pendingFlush)
                       /\ IF call = "none" THEN UNCHANGED stack
                          ELSE Push(Frame(call, j, FALSE))
    /\ UNCHANGED <<resQ, connMap, terminate, finished, typeMap, handles, worker>>

DbExec == ScriptRuns("exec") /\ \E c \in Conns : StartQuery(c, "exec")
DbQuery == ScriptRuns("query") /\ \E c \in Conns : StartQuery(c, "none")
DbQueryWithCallback == ScriptRuns("callback") /\ \E c \in Conns : StartQuery(c, "query")

\* A query handle a script holds: UserDataCast looks the id up in the active map.
Handle(j) == j \in active /\ job[j].kind = "QUERY"

\* Mutant: a freed or collected query may be polled.
DbPollAny ==
    /\ ScriptRuns("poll")
    /\ \E j \in Jobs, forever \in BOOLEAN :
          /\ Handle(j)
          /\ Push(Frame("poll", j, forever))
    /\ UNCHANGED <<shared, mainVars, job, worker>>

DbPoll ==
    /\ ScriptRuns("poll")
    /\ \E j \in Jobs, forever \in BOOLEAN :
          /\ Handle(j) /\ job[j].stage # "FINISHED" /\ ~job[j].ignore
          /\ Push(Frame("poll", j, forever))
    /\ UNCHANGED <<shared, mainVars, job, worker>>

DbFree ==
    /\ ScriptRuns("free")
    /\ \E j \in Jobs :
          /\ Handle(j)
          /\ job' = [job EXCEPT ![j] = Freed(WithCallback(@, "log"), InQueue(j))]
    /\ UNCHANGED <<shared, mainVars, worker, stack>>

\* CDatabaseJobQueueManager::SetLogLevel (a console command).
SetLogLevel ==
    /\ ScriptRuns("loglevel") /\ RoomFor(pendingFlush)
    /\ \E j \in Jobs : /\ AddCommand(j, "SETLOGLEVEL", 0, pendingFlush)
                       /\ Push(Frame("exec", j, FALSE))
    /\ UNCHANGED <<resQ, connMap, terminate, finished, typeMap, handles, worker>>

\* ~CDatabaseManagerImpl disconnects every connection, then StopThread waits
\* five seconds for the service thread and cancels it if it has not ended.
\* Bound: only begun while an id is left for every DISCONNECT.
Shutdown ==
    /\ "shutdown" \in ScriptOps /\ stack = <<>>
    /\ Cardinality(Jobs \ active) >= Cardinality(pendingFlush) + Cardinality(typeMap)
    /\ Push(Simple("shutdown"))
    /\ UNCHANGED <<shared, mainVars, job, worker>>

ShutdownDisconnects == Running("shutdown") /\ \E c \in Conns : StartDisconnect(c)

\* Mutant: the service thread is stopped while connections are open.
ShutdownStopsEarly ==
    /\ Running("shutdown")
    /\ terminate' = TRUE
    /\ Become(Simple("stop"))
    /\ UNCHANGED <<cmdQ, resQ, connMap, mainVars, job, worker>>

ShutdownStops ==
    /\ Running("shutdown") /\ typeMap = {}
    /\ terminate' = TRUE
    /\ Become(Simple("stop"))
    /\ UNCHANGED <<cmdQ, resQ, connMap, mainVars, job, worker>>

ShutdownEnds ==
    /\ Running("stop")
    /\ worker' = IF worker.pc = "done" THEN worker
                                       ELSE [worker EXCEPT !.pc = "cancelled"]
    /\ Become(Simple("gone"))
    /\ UNCHANGED <<shared, mainVars, job>>

-----------------------------------------------------------------------------
(* The service thread: ThreadProc and the Process* functions.              *)

MutexFree == ~Running("scan")

\* The command stays at the front of its queue while it is being processed.
WorkerTakes ==
    /\ worker.pc = "loop" /\ MutexFree /\ ~terminate /\ cmdQ # <<>>
    /\ worker' = [pc |-> "busy", job |-> Head(cmdQ)]
    /\ job' = [job EXCEPT ![Head(cmdQ)].stage = "PROCESSING"]
    /\ UNCHANGED <<shared, mainVars, stack>>

\* The outcomes of ProcessCommand for a job, as [status, connMap]; a database
\* may refuse a connection or a query.
Outcomes(d) ==
    CASE d.kind = "CONNECT" -> {[status |-> "SUCCESS", conns |-> connMap \cup {d.conn}],
                                [status |-> "FAIL", conns |-> connMap]}
      [] d.kind = "SETLOGLEVEL" -> {[status |-> "SUCCESS", conns |-> connMap]}
      [] d.conn \notin connMap -> {[status |-> "INVALID", conns |-> connMap]}
      [] d.kind = "DISCONNECT" -> {[status |-> "SUCCESS", conns |-> connMap \ {d.conn}]}
      [] d.kind = "QUERY" -> {[status |-> s, conns |-> connMap] : s \in {"SUCCESS", "FAIL"}}
      [] OTHER -> {[status |-> "SUCCESS", conns |-> connMap]}

WorkerProcesses ==
    /\ worker.pc = "busy"
    /\ worker' = [worker EXCEPT !.pc = "store"]
    /\ \E o \in Outcomes(job[worker.job]) :
          /\ job' = [job EXCEPT ![worker.job].status = o.status]
          /\ connMap' = o.conns
    /\ UNCHANGED <<cmdQ, resQ, terminate, mainVars, stack>>

\* Mutant: a command that failed stays where it is, to be tried again.
WorkerStoresSuccess ==
    /\ worker.pc = "store" /\ MutexFree
    /\ worker' = [pc |-> "loop", job |-> NoJob]
    /\ IF job[worker.job].status = "SUCCESS"
       THEN /\ cmdQ' = Tail(cmdQ)
            /\ resQ' = Append(resQ, worker.job)
            /\ job' = [job EXCEPT ![worker.job].stage = "RESULT"]
       ELSE UNCHANGED <<cmdQ, resQ, job>>
    /\ UNCHANGED <<connMap, terminate, mainVars, stack>>

WorkerStores ==
    /\ worker.pc = "store" /\ MutexFree
    /\ worker' = [pc |-> "loop", job |-> NoJob]
    /\ IF cmdQ # <<>> /\ Head(cmdQ) = worker.job
       THEN /\ cmdQ' = Tail(cmdQ)
            /\ resQ' = Append(resQ, worker.job)
            /\ job' = [job EXCEPT ![worker.job].stage = "RESULT"]
       ELSE UNCHANGED <<cmdQ, resQ, job>>
    /\ UNCHANGED <<connMap, terminate, mainVars, stack>>

WorkerExits ==
    /\ worker.pc = "loop" /\ MutexFree /\ terminate
    /\ worker' = [pc |-> "done", job |-> NoJob]
    /\ UNCHANGED <<shared, mainVars, job, stack>>

-----------------------------------------------------------------------------
Init ==
    /\ cmdQ = <<>> /\ resQ = <<>>
    /\ connMap = {} /\ typeMap = {} /\ handles = 0
    /\ terminate = FALSE
    /\ active = {} /\ finished = {} /\ pendingFlush = {}
    /\ job = [j \in Jobs |-> NoData]
    /\ worker = [pc |-> "loop", job |-> NoJob]
    /\ stack = <<>>

Worker == WorkerTakes \/ WorkerProcesses \/ WorkerStores \/ WorkerExits

\* The steps of calls in progress, and of the game loop.
Proceed ==
    \/ FinishExec \/ FinishQuery
    \/ PollTakes \/ PollTimesOut \/ PollReturns
    \/ PulseFlushes \/ PulseLocks \/ PulseDeletes \/ PulseScans \/ PulseEnds

Script ==
    \/ Connect \/ Disconnect \/ DbExec \/ DbQuery \/ DbQueryWithCallback
    \/ DbPoll \/ DbFree \/ SetLogLevel

\* The queue is gone; the run may end here.
Gone == Running("gone") /\ UNCHANGED vars

Destroy == Shutdown \/ ShutdownDisconnects \/ ShutdownStops \/ ShutdownEnds \/ Gone

Next == \/ Worker \/ Proceed \/ PollWarns \/ PollReportsError
        \/ PulseBegins \/ ScriptReturns \/ Script \/ Destroy

Spec == Init /\ [][Next]_vars

\* The service thread is scheduled, gets the mutex although DoPulse takes it every
\* frame, and its databases answer; a call in progress goes on; the game loop
\* pulses again and again although scripts run between the pulses; a Lua function
\* ends (CLuaMain aborts one that runs too long).
Fairness == /\ SF_vars(Worker) /\ WF_vars(Proceed)
            /\ SF_vars(PulseBegins) /\ SF_vars(ScriptReturns)

FairSpec == Spec /\ Fairness

-----------------------------------------------------------------------------
\* What the service thread may be doing, and whether a job is in its hands.
WorkerStates == [pc : {"loop", "done", "cancelled"}, job : {NoJob}]
                \cup [pc : {"busy", "store", "cancelled"}, job : Jobs]

\* The queues hold jobs, the maps connections, and every CDbJobData is one that
\* AddCommand and the changes since can have made.
TypeOK ==
    /\ cmdQ \in Seq(Jobs) /\ resQ \in Seq(Jobs)
    /\ connMap \subseteq Conns /\ typeMap \subseteq Conns
    /\ handles \in 0..MaxConns
    /\ terminate \in BOOLEAN
    /\ active \subseteq Jobs /\ finished \subseteq Jobs
    /\ pendingFlush \subseteq Conns
    /\ job \in [Jobs -> JobData]
    /\ worker \in WorkerStates
    /\ stack \in Seq(Frames)

\* "All active jobhandles will either be in m_CommandQueue or m_ResultQueue or
\* m_FinishedList": each in exactly one place, once, at the stage of that place,
\* whatever the two threads and the scripts do; the service thread works on the
\* front of the command queue.
Distinct(q) == \A i, k \in 1..Len(q) : q[i] = q[k] => i = k
JobAccounting ==
    /\ active = Elems(cmdQ) \cup Elems(resQ) \cup finished
    /\ Elems(cmdQ) \cap Elems(resQ) = {}
    /\ (Elems(cmdQ) \cup Elems(resQ)) \cap finished = {}
    /\ Distinct(cmdQ) /\ Distinct(resQ)
    /\ \A j \in Elems(cmdQ) :
          job[j].stage = IF j = worker.job THEN "PROCESSING" ELSE "COMMAND_QUEUE"
    /\ \A j \in Elems(resQ) : job[j].stage = "RESULT"
    /\ \A j \in finished : job[j].stage = "FINISHED"
    /\ worker.job # NoJob => cmdQ # <<>> /\ worker.job = Head(cmdQ)

\* Nobody is left holding a deleted CDbJobData: not the service thread, not a
\* suspended call of the main thread; and a caller of PollCommand that is about
\* to read the result it was given finds it in the finished list.
HeldJobsExist ==
    /\ worker.pc \in {"busy", "store"} => worker.job \in active
    /\ \A i \in 1..Len(stack) :
          /\ stack[i].job # NoJob => stack[i].job \in active
          /\ stack[i].call = "polled" => stack[i].job \in finished

\* dassert(!pJobData->HasCallback()) where DoPulse deletes a job: no callback is
\* lost, although it may be set after the job has been processed or freed.
NoCallbackLost == \A j \in finished : ~HasCallback(j)

\* The two threads' ideas of the open connections agree whenever no connect or
\* disconnect is in progress.
Connecting == \E i \in 1..Len(stack) :
                 stack[i].job # NoJob /\ job[stack[i].job].kind \in {"CONNECT", "DISCONNECT"}
ConnectionsAgree == ~Connecting => typeMap = connMap

\* A query that was accepted is executed on its connection: no disconnect gets
\* in front of it.
QueriesReachTheirConnection ==
    \A j \in active : job[j].kind = "QUERY" => job[j].status # "INVALID"

\* The dasserts of PollCommand's loop: "Should not be called for ignored results",
\* "Should not be called for collected results".
PollAsserts == Running("poll") => /\ ~job[Top.job].ignore
                                  /\ job[Top.job].stage # "FINISHED"

\* No query is lost at shutdown: when the service thread is told to stop, every
\* query has been executed (the disconnects before it drained the queue).
ShutdownDrains == terminate => \A j \in Elems(cmdQ) : job[j].kind # "QUERY"

\* "Throw away results for all jobs using this connection": once Disconnect has
\* returned success, no result of the connection is kept for a collector.
DisconnectDropsResults ==
    [][\A c \in Conns : c \in typeMap /\ c \notin typeMap' =>
          \A j \in Elems(cmdQ') \cup Elems(resQ') :
              job'[j].conn = c => job'[j].ignore]_vars

\* A dbPoll(-1), Connect or Disconnect that waits gets its result.
WaitEnds == \A j \in Jobs : Running("poll") /\ Top.job = j /\ Top.forever
                                ~> j \notin active \/ job[j].stage = "FINISHED"

\* The queue goes with everything in it; what is still due then never happens.
ShutsDown == stack # <<>> /\ Head(stack).call \in {"shutdown", "stop", "gone"}

\* Every query is followed by a flush of its connection, until the shutdown.
FlushFollows ==
    \A c \in Conns : c \in pendingFlush ~> c \notin pendingFlush \/ ShutsDown

\* A job whose result is thrown away is deleted, and a callback is called.
FreedJobsGo ==
    \A j \in Jobs : j \in active /\ job[j].ignore ~> j \notin active \/ ShutsDown
CallbacksCome == \A j \in Jobs : HasCallback(j) ~> ~HasCallback(j) \/ ShutsDown

-----------------------------------------------------------------------------
\* The queue implements the service a user of the db* functions relies on:
\* first-in first-out execution, every result collected or thrown away once.
Service == INSTANCE DbJobService WITH
               pending <- cmdQ,
               results <- Elems(resQ),
               released <- {j \in active : job[j].ignore},
               spent <- finished
ImplementsService == Service!Spec

=============================================================================
