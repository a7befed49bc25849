------------------------ MODULE DbConnectionProofs ------------------------
(* Proofs about the connections of DbJobQueue: the main thread and the      *)
(* service thread agree about which are open, for every set of job ids,     *)
(* number of connections and selection of operations, with and without      *)
(* re-entrant handlers; without them, no query is overtaken by a disconnect,*)
(* no collected result is polled and no query is lost at the shutdown.      *)
(* Because they agree, the queue keeps the promise of DbJobService.         *)
EXTENDS DbJobQueueProofs

-----------------------------------------------------------------------------
(* The calls that connect and disconnect.                                   *)

\* A job that opens or closes a connection, and a call that waits for its result
\* or has been handed it.
Dials(d) == d.kind = "CONNECT" \/ d.kind = "DISCONNECT"
Waits(f, data) == (f.call = "poll" \/ f.call = "polled") /\ Dials(data[f.job])
Awaited == {stack[i].job : i \in {k \in 1..Len(stack) : Waits(stack[k], job)}}

\* One call waits for each of those jobs, and it waits without a limit.
Patient == \A i \in 1..Len(stack) :
              Waits(stack[i], job) /\ stack[i].call = "poll" => stack[i].forever
WaitsOnce == \A i, k \in 1..Len(stack) :
                /\ Waits(stack[i], job) /\ Waits(stack[k], job)
                /\ stack[i].job = stack[k].job
                => i = k
CallsInv == Patient /\ WaitsOnce

\* What is known of a connection was given out by GetNextConnectionHandle.
HandlesGiven == /\ \A c \in typeMap \cup connMap \cup pendingFlush : c <= handles
                /\ \A j \in Jobs : job[j].conn <= handles

\* A job the service thread has not processed has no status yet.
StatusComes == \A j \in Elems(cmdQ) :
                  job[j].status = "NONE" \/ (worker.job = j /\ worker.pc # "busy")

\* Somebody waits for every connect and disconnect that is queued or processed.
DialsAwaited == \A j \in Elems(cmdQ) \cup Elems(resQ) : Dials(job[j]) => j \in Awaited

Succeeded(j, kind) == job[j].kind = kind /\ job[j].status = "SUCCESS"

\* Nobody else uses a connection that is being opened, and one that has been
\* opened, or closed, by the service thread is, or is not, in its map.
OpensAlone == \A j, k \in Awaited :
                 job[j].kind = "CONNECT" /\ job[j].conn = job[k].conn => j = k
OpensNew == \A j \in Awaited : job[j].kind = "CONNECT" => job[j].conn \notin typeMap
OpenIsOpen == \A j \in Awaited : Succeeded(j, "CONNECT") => job[j].conn \in connMap
ClosedIsClosed == \A j \in Awaited : Succeeded(j, "DISCONNECT") => job[j].conn \notin connMap

\* A difference between the two maps is one a waiting call is about to settle.
OpenSettles == \A c \in connMap \ typeMap :
                  \E j \in Awaited : Succeeded(j, "CONNECT") /\ job[j].conn = c
CloseSettles == \A c \in typeMap \ connMap :
                   \E j \in Awaited : Succeeded(j, "DISCONNECT") /\ job[j].conn = c

ConnInv == /\ HandlesGiven /\ StatusComes /\ DialsAwaited
           /\ OpensAlone /\ OpensNew /\ OpenIsOpen /\ ClosedIsClosed
           /\ OpenSettles /\ CloseSettles

-----------------------------------------------------------------------------
(* What steps do to the calls that wait.                                    *)

\* The parts of a CDbJobData no step but ProcessCommand and the deletion changes.
Kept(j) == /\ job'[j].kind = job[j].kind /\ job'[j].conn = job[j].conn
           /\ job'[j].status = job[j].status

\* The jobs waited for are live, and exactly those of the waiting calls.
LEMMA AwaitedJobs ==
    ASSUME TypeOK, HeldJobsExist
    PROVE  /\ \A j \in Awaited : j \in active /\ j \in Jobs /\ Dials(job[j])
           /\ \A i \in 1..Len(stack) : Waits(stack[i], job) => stack[i].job \in Awaited
<1>1. ASSUME NEW i \in 1..Len(stack), Waits(stack[i], job)
      PROVE  stack[i].job \in active /\ stack[i].job \in Jobs
  <2>1. stack[i] \in Frames
    BY LenProperties DEF TypeOK
  <2>2. stack[i].job \in Jobs
    BY <1>1, <2>1 DEF Frames, Waits, PlainCalls
  <2> QED BY <2>2, NoJobAssumption DEF HeldJobsExist, NoJob
<1> QED BY <1>1 DEF Awaited, Waits

\* The calls that waited still do, and no other.
LEMMA WaitsCorrespond ==
    ASSUME CallsInv,
           \A i \in 1..Len(stack') : Waits(stack'[i], job') =>
              /\ i \in 1..Len(stack) /\ Waits(stack[i], job)
              /\ stack'[i].job = stack[i].job
              /\ stack'[i].call = "poll" => stack'[i].forever,
           \A i \in 1..Len(stack) : Waits(stack[i], job) =>
              /\ i \in 1..Len(stack') /\ Waits(stack'[i], job')
              /\ stack'[i].job = stack[i].job
    PROVE  CallsInv' /\ Awaited' = Awaited
<1>1. Patient'
  BY DEF Patient
<1>2. WaitsOnce'
  BY DEF CallsInv, WaitsOnce
<1>3. Awaited' = Awaited
  BY DEF Awaited
<1> QED BY <1>1, <1>2, <1>3 DEF CallsInv

\* A job keeps its kind, so a call goes on waiting, or not, as long as it runs.
LEMMA WaitsKept ==
    ASSUME TypeOK, HeldJobsExist, \A j \in active : job'[j].kind = job[j].kind,
           NEW i \in 1..Len(stack)
    PROVE  Waits(stack[i], job') <=> Waits(stack[i], job)
<1>1. stack[i] \in Frames
  BY LenProperties DEF TypeOK
<1>2. stack[i].call = "poll" \/ stack[i].call = "polled" => stack[i].job \in active
  BY <1>1, NoJobAssumption DEF Frames, PlainCalls, HeldJobsExist, NoJob
<1> QED BY <1>2 DEF Waits, Dials

\* Steps that leave the stack alone.
LEMMA SameCalls ==
    ASSUME TypeOK, HeldJobsExist, CallsInv, \A j \in active : job'[j].kind = job[j].kind,
           UNCHANGED stack
    PROVE  CallsInv' /\ Awaited' = Awaited
<1>1. \A i \in 1..Len(stack) : Waits(stack[i], job') <=> Waits(stack[i], job)
  BY WaitsKept
<1>2. \A i \in 1..Len(stack) : Waits(stack[i], job) /\ stack[i].call = "poll" => stack[i].forever
  BY DEF CallsInv, Patient
<1> QED BY <1>1, <1>2, WaitsCorrespond

\* A call that did not wait returns.
LEMMA AfterReturn ==
    ASSUME TypeOK, HeldJobsExist, CallsInv, \A j \in active : job'[j].kind = job[j].kind,
           stack # <<>>, Return, ~Waits(Top, job)
    PROVE  CallsInv' /\ Awaited' = Awaited
<1>1. \A i \in 1..Len(stack) : Waits(stack[i], job') <=> Waits(stack[i], job)
  BY WaitsKept
<1>2. \A i \in 1..Len(stack) : Waits(stack[i], job) /\ stack[i].call = "poll" => stack[i].forever
  BY DEF CallsInv, Patient
<1>3. /\ Len(stack) \in Nat \ {0} /\ Len(stack') = Len(stack) - 1
      /\ \A i \in 1..(Len(stack) - 1) : stack'[i] = stack[i]
  BY StackOfCalls DEF Return
<1>4. \A i \in 1..Len(stack) : i = Len(stack) \/ i \in 1..Len(stack')
  BY <1>3
<1>5. \A i \in 1..Len(stack') : i \in 1..Len(stack) /\ stack'[i] = stack[i]
  BY <1>3
<1> QED BY <1>1, <1>2, <1>4, <1>5, WaitsCorrespond DEF Top

\* A call that does not wait starts.
LEMMA AfterPush ==
    ASSUME TypeOK, HeldJobsExist, CallsInv, \A j \in active : job'[j].kind = job[j].kind,
           NEW f \in Frames, Push(f), ~Waits(f, job')
    PROVE  CallsInv' /\ Awaited' = Awaited
<1>1. \A i \in 1..Len(stack) : Waits(stack[i], job') <=> Waits(stack[i], job)
  BY WaitsKept
<1>2. \A i \in 1..Len(stack) : Waits(stack[i], job) /\ stack[i].call = "poll" => stack[i].forever
  BY DEF CallsInv, Patient
<1>3. /\ Len(stack) \in Nat /\ Len(stack') = Len(stack) + 1
      /\ stack'[Len(stack) + 1] = f
      /\ \A i \in 1..Len(stack) : stack'[i] = stack[i]
  BY StackOfCalls, LenProperties DEF Push, TypeOK
<1>4. \A i \in 1..Len(stack') : i = Len(stack) + 1 \/ i \in 1..Len(stack)
  BY <1>3
<1>5. \A i \in 1..Len(stack) : i \in 1..Len(stack')
  BY <1>3
<1> QED BY <1>1, <1>2, <1>3, <1>4, <1>5, WaitsCorrespond

\* The top of the stack becomes another call, and a further one may start.
LEMMA AfterBecome ==
    ASSUME TypeOK, HeldJobsExist, CallsInv, \A j \in active : job'[j].kind = job[j].kind,
           stack # <<>>, NEW f \in Frames, NEW g \in Frames,
           Become(f) \/ stack' = Append(Append(Caller, f), g),
           Waits(Top, job) => f.job = Top.job, f.call # "poll", ~Waits(g, job'),
           Waits(f, job') <=> Waits(Top, job)
    PROVE  CallsInv' /\ Awaited' = Awaited
<1>1. \A i \in 1..Len(stack) : Waits(stack[i], job') <=> Waits(stack[i], job)
  BY WaitsKept
<1>2. \A i \in 1..Len(stack) : Waits(stack[i], job) /\ stack[i].call = "poll" => stack[i].forever
  BY DEF CallsInv, Patient
<1> DEFINE s == Append(Caller, f)
<1>3. /\ Len(stack) \in Nat \ {0} /\ s \in Seq(Frames) /\ Len(s) = Len(stack)
      /\ s[Len(stack)] = f
      /\ \A i \in 1..(Len(stack) - 1) : s[i] = stack[i]
  BY StackOfCalls
<1> HIDE DEF s
<1>4. /\ Len(Append(s, g)) = Len(s) + 1 /\ Append(s, g)[Len(s) + 1] = g
      /\ \A i \in 1..Len(s) : Append(s, g)[i] = s[i]
  BY <1>3, AppendProperties
<1>5. stack' = s \/ stack' = Append(s, g)
  BY DEF s, Become
<1>6. \A i \in 1..Len(stack) : i = Len(stack) \/ i \in 1..(Len(stack) - 1)
  BY <1>3
<1>7. \A i \in 1..Len(stack) :
         /\ i \in 1..Len(stack')
         /\ stack'[i] = IF i = Len(stack) THEN f ELSE stack[i]
  BY <1>3, <1>4, <1>5, <1>6
<1>8. \A i \in 1..Len(stack') :
         i \in 1..Len(stack) \/ (i = Len(stack) + 1 /\ stack'[i] = g)
  BY <1>3, <1>4, <1>5
<1>9. Len(stack) \in 1..Len(stack)
  BY <1>3
<1> QED BY <1>1, <1>2, <1>7, <1>8, <1>9, WaitsCorrespond DEF Top

\* A call starts that waits for a connect or disconnect of its own.
LEMMA AfterDial ==
    ASSUME TypeOK, HeldJobsExist, CallsInv, \A j \in active : job'[j].kind = job[j].kind,
           NEW j \in Jobs \ active, Push(Frame("poll", j, TRUE)), Dials(job'[j])
    PROVE  CallsInv' /\ Awaited' = Awaited \cup {j}
<1> DEFINE f == Frame("poll", j, TRUE)
           n == Len(stack) + 1
<1>1. f \in Frames /\ f.call = "poll" /\ f.job = j /\ f.forever = TRUE
  BY FrameType DEF JobCalls, Frame
<1>2. /\ Len(stack) \in Nat /\ Len(stack') = n /\ stack'[n] = f
      /\ \A i \in 1..Len(stack) : stack'[i] = stack[i]
  BY <1>1, StackOfCalls, LenProperties DEF Push, TypeOK
<1>3. \A i \in 1..Len(stack') : i = n \/ i \in 1..Len(stack)
  BY <1>2
<1>4. n \in 1..Len(stack') /\ n \notin 1..Len(stack)
      /\ \A i \in 1..Len(stack) : i \in 1..Len(stack')
  BY <1>2
<1> HIDE DEF f, n
<1>5. \A i \in 1..Len(stack) : Waits(stack[i], job') <=> Waits(stack[i], job)
  BY WaitsKept
<1>6. \A i \in 1..Len(stack) : Waits(stack[i], job) => stack[i].job # j
  BY AwaitedJobs
<1>7. Waits(f, job')
  BY <1>1 DEF Waits
<1>8. Patient'
  BY <1>1, <1>2, <1>3, <1>5 DEF CallsInv, Patient
<1>9. WaitsOnce'
  BY <1>1, <1>2, <1>3, <1>5, <1>6 DEF CallsInv, WaitsOnce
<1>10. Awaited' \subseteq Awaited \cup {j}
  BY <1>1, <1>2, <1>3, <1>5 DEF Awaited
<1>11. Awaited \cup {j} \subseteq Awaited'
  BY <1>1, <1>2, <1>4, <1>5, <1>7 DEF Awaited
<1> QED BY <1>8, <1>9, <1>10, <1>11 DEF CallsInv

\* A call returns with the result of its connect or disconnect.
LEMMA AfterAnswer ==
    ASSUME TypeOK, HeldJobsExist, CallsInv, \A j \in active : job'[j].kind = job[j].kind,
           stack # <<>>, Return, Waits(Top, job)
    PROVE  CallsInv' /\ Awaited' = Awaited \ {Top.job}
<1>1. \A i \in 1..Len(stack) : Waits(stack[i], job') <=> Waits(stack[i], job)
  BY WaitsKept
<1>2. /\ Len(stack) \in Nat \ {0} /\ Len(stack') = Len(stack) - 1
      /\ \A i \in 1..(Len(stack) - 1) : stack'[i] = stack[i]
  BY StackOfCalls DEF Return
<1>3. \A i \in 1..Len(stack) : i = Len(stack) \/ i \in 1..Len(stack')
  BY <1>2
<1>4. \A i \in 1..Len(stack') : /\ i \in 1..Len(stack) /\ i # Len(stack)
                                /\ stack'[i] = stack[i]
  BY <1>2
<1>5. Len(stack) \in 1..Len(stack)
  BY <1>2
<1>6. Patient'
  BY <1>1, <1>4 DEF CallsInv, Patient
<1>7. WaitsOnce'
  BY <1>1, <1>4 DEF CallsInv, WaitsOnce
<1>8. Awaited' \subseteq Awaited \ {Top.job}
  BY <1>1, <1>4, <1>5 DEF Awaited, CallsInv, WaitsOnce, Top
<1>9. Awaited \ {Top.job} \subseteq Awaited'
  BY <1>1, <1>3, <1>4 DEF Awaited, Top
<1> QED BY <1>6, <1>7, <1>8, <1>9 DEF CallsInv

-----------------------------------------------------------------------------
(* What steps do to the jobs.                                               *)

\* No change to a CDbJobData after AddCommand touches its kind, its connection
\* or its status.
LEMMA ChangesKeep ==
    ASSUME NEW d \in JobData, NEW b \in BOOLEAN, NEW cb \in {"unset", "lua", "log"}
    PROVE  /\ LET e == WithCallback(Freed(d, b), cb)
              IN  e.kind = d.kind /\ e.conn = d.conn /\ e.status = d.status
           /\ LET e == Freed(WithCallback(d, cb), b)
              IN  e.kind = d.kind /\ e.conn = d.conn /\ e.status = d.status
           /\ LET e == WithCallback(d, cb)
              IN  e.kind = d.kind /\ e.conn = d.conn /\ e.status = d.status
           /\ LET e == CalledBack(Dropped(d), b)
              IN  e.kind = d.kind /\ e.conn = d.conn /\ e.status = d.status
           /\ LET e == Collected(d)
              IN  e.kind = d.kind /\ e.conn = d.conn /\ e.status = d.status
<1>1. \A e \in JobData : LET n == Freed(e, b)
                         IN  /\ n \in JobData /\ n.kind = e.kind
                             /\ n.conn = e.conn /\ n.status = e.status
  BY DEF Freed, JobData
<1>2. \A e \in JobData : LET n == WithCallback(e, cb)
                         IN  /\ n \in JobData /\ n.kind = e.kind
                             /\ n.conn = e.conn /\ n.status = e.status
  BY DEF WithCallback, JobData, Callbacks
<1>3. LET n == Dropped(d)
      IN  n \in JobData /\ n.kind = d.kind /\ n.conn = d.conn /\ n.status = d.status
  BY DEF Dropped, JobData, Stages
<1>4. ASSUME NEW e \in JobData
      PROVE  LET n == CalledBack(e, b)
             IN  n.kind = e.kind /\ n.conn = e.conn /\ n.status = e.status
  <2>1. CASE e.cb = "lua"
    BY <2>1 DEF CalledBack, JobData
  <2>2. CASE e.cb = "log"
    BY <2>2 DEF CalledBack, JobData
  <2>3. CASE e.cb # "lua" /\ e.cb # "log"
    BY <2>3 DEF CalledBack
  <2> QED BY <2>1, <2>2, <2>3
<1>5. LET e == Collected(d)
      IN  e.kind = d.kind /\ e.conn = d.conn /\ e.status = d.status
  BY DEF Collected, JobData
<1> QED BY <1>1, <1>2, <1>3, <1>4, <1>5

\* The steps in which every job keeps these three.
JobsKeptBy == \/ FinishExec \/ FinishQuery \/ DbFree \/ PollTakes \/ PollReturns
              \/ PulseScans \/ WorkerTakes \/ WorkerStores \/ job' = job

\* Each of them indeed keeps them.
LEMMA JobsKept ==
    ASSUME TypeOK, JobsKeptBy
    PROVE  \A j \in Jobs : Kept(j)
<1>1. \A j \in Jobs : job[j] \in JobData /\ InQueue(j) \in BOOLEAN
  BY DEF TypeOK, InQueue
<1>2. CASE FinishExec
  <2>1. PICK cb \in {"unset", "lua", "log"} :
           job' = [job EXCEPT ![Top.job] = WithCallback(Freed(@, InQueue(Top.job)), cb)]
    BY <1>2 DEF FinishExec
  <2> QED BY <1>1, <2>1, ChangesKeep DEF TypeOK, Kept
<1>3. CASE FinishQuery
  <2>1. job' = [job EXCEPT ![Top.job] = WithCallback(@, "lua")]
    BY <1>3 DEF FinishQuery
  <2> QED BY <1>1, <2>1, ChangesKeep DEF TypeOK, Kept
<1>4. CASE DbFree
  <2>1. PICK k \in Jobs :
           job' = [job EXCEPT ![k] = Freed(WithCallback(@, "log"), InQueue(k))]
    BY <1>4 DEF DbFree
  <2> QED BY <1>1, <2>1, ChangesKeep DEF TypeOK, Kept
<1>5. CASE PollTakes
  <2>1. job' = [job EXCEPT ![Top.job] = Collected(@)]
    BY <1>5 DEF PollTakes
  <2>2. \A d \in JobData : LET e == Collected(d)
                           IN  e.kind = d.kind /\ e.conn = d.conn /\ e.status = d.status
    BY ChangesKeep
  <2> QED BY <1>1, <2>1, <2>2 DEF TypeOK, Kept
<1>6. CASE PollReturns
  <2>1. \A c : \A k \in Jobs : LET e == IgnoreConnectionResults(c)[k]
                              IN  /\ e.kind = job[k].kind /\ e.conn = job[k].conn
                                  /\ e.status = job[k].status
    BY <1>1 DEF IgnoreConnectionResults, JobData
  <2> QED BY <1>6, <2>1 DEF PollReturns, Kept
<1>7. CASE PulseScans
  <2>1. PICK i \in 1..Len(resQ), isValid \in BOOLEAN :
           job' = [job EXCEPT ![resQ[i]] = CalledBack(Dropped(job[resQ[i]]), isValid)]
    BY <1>7 DEF PulseScans
  <2>2. resQ[i] \in Jobs
    BY ElemsType DEF TypeOK, Elems
  <2> QED BY <1>1, <2>1, <2>2, ChangesKeep DEF TypeOK, Kept
<1>8. CASE WorkerTakes \/ WorkerStores
  <2>1. job' = job \/ \E h, s : job' = [job EXCEPT ![h].stage = s]
    BY <1>8 DEF WorkerTakes, WorkerStores
  <2>2. CASE job' = job
    BY <2>2 DEF Kept
  <2>3. ASSUME NEW h, NEW s, job' = [job EXCEPT ![h].stage = s], NEW j \in Jobs
        PROVE  Kept(j)
    <3>1. job'[j] = job[j] \/ job'[j] = [job[j] EXCEPT !.stage = s]
      BY <2>3 DEF TypeOK
    <3>2. job[j] \in JobData
      BY <1>1
    <3> QED BY <3>1, <3>2 DEF Kept, JobData
  <2> QED BY <2>1, <2>2, <2>3
<1> QED BY <1>2, <1>3, <1>4, <1>5, <1>6, <1>7, <1>8 DEF JobsKeptBy, Kept

-----------------------------------------------------------------------------
(* The two maps of connections.                                             *)

\* The jobs in the queues are jobs.
LEMMA QueuedJobs ==
    ASSUME TypeOK, JobAccounting
    PROVE  /\ \A j \in Elems(cmdQ) \cup Elems(resQ) : j \in Jobs /\ j \in active
           /\ \A j \in Elems(resQ) : j \notin Elems(cmdQ)
           /\ \A j \in finished : j \notin Elems(cmdQ) \cup Elems(resQ)
           /\ worker.pc \in {"busy", "store"} =>
                 worker.job \in Jobs /\ worker.job \in Elems(cmdQ)
<1>1. Elems(cmdQ) \subseteq Jobs /\ Elems(resQ) \subseteq Jobs
  BY ElemsType DEF TypeOK
<1>2. worker.pc \in {"busy", "store"} => worker.job \in Jobs /\ worker.job # NoJob
  BY NoJobAssumption DEF TypeOK, WorkerStates, NoJob
<1>3. worker.job # NoJob => worker.job \in Elems(cmdQ)
  BY TailOfQueue DEF JobAccounting, TypeOK
<1> QED BY <1>1, <1>2, <1>3 DEF JobAccounting

\* Steps that neither open nor close, nor begin or finish a connect or disconnect.
LEMMA ConnKept ==
    ASSUME TypeOK, HeldJobsExist, ConnInv, Awaited' = Awaited,
           \A j \in Jobs : Kept(j),
           UNCHANGED <<typeMap, connMap, handles, pendingFlush>>,
           \A j \in Elems(cmdQ') \cup Elems(resQ') :
              j \in Jobs /\ j \in Elems(cmdQ) \cup Elems(resQ),
           StatusComes'
    PROVE  ConnInv'
<1>1. \A j \in Awaited : j \in Jobs
  BY AwaitedJobs
<1>2. HandlesGiven'
  BY DEF ConnInv, HandlesGiven, Kept
<1>3. DialsAwaited'
  BY DEF ConnInv, DialsAwaited, Dials, Kept
<1>4. OpensAlone' /\ OpensNew'
  BY <1>1 DEF ConnInv, OpensAlone, OpensNew, Kept
<1>5. OpenIsOpen' /\ ClosedIsClosed'
  BY <1>1 DEF ConnInv, OpenIsOpen, ClosedIsClosed, Succeeded, Kept
<1>6. OpenSettles' /\ CloseSettles'
  BY <1>1 DEF ConnInv, OpenSettles, CloseSettles, Succeeded, Kept
<1> QED BY <1>2, <1>3, <1>4, <1>5, <1>6 DEF ConnInv

\* A new job has no status, and the others have not changed.
LEMMA AddedJob ==
    ASSUME TypeOK, JobAccounting, HeldJobsExist, NEW j, NEW kind, NEW c, NEW flushes,
           AddCommand(j, kind, c, flushes)
    PROVE  /\ j \in Jobs /\ j \notin active /\ j \notin Awaited
           /\ job'[j].kind = kind /\ job'[j].conn = c /\ job'[j].status = "NONE"
           /\ \A k \in Jobs \ {j} : job'[k] = job[k]
           /\ \A k \in active : job'[k] = job[k]
           /\ \A k \in Elems(cmdQ') : k = j \/ k \in Elems(cmdQ)
           /\ j \in Elems(cmdQ')
           /\ \A k \in Awaited : k \in Jobs /\ k # j /\ job'[k] = job[k]
<1>1. /\ j \in Jobs \ active /\ job' = [job EXCEPT ![j] = NewJob(kind, c)]
      /\ cmdQ' = Append(cmdQ, j)
  BY DEF AddCommand
<1>2. Elems(cmdQ') = Elems(cmdQ) \cup {j}
  BY <1>1, AppendToQueue DEF TypeOK
<1>3. \A k \in Awaited : k \in active /\ k \in Jobs
  BY AwaitedJobs
<1>4. \A k \in active : k \in Jobs
  BY DEF TypeOK
<1> QED BY <1>1, <1>2, <1>3, <1>4 DEF TypeOK, NewJob

\* A new query, flush or log level.
LEMMA ConnAfterAdd ==
    ASSUME TypeOK, JobAccounting, HeldJobsExist, ConnInv,
           NEW j, NEW kind, NEW c \in Nat, NEW flushes, AddCommand(j, kind, c, flushes),
           kind # "CONNECT", kind # "DISCONNECT",
           c <= handles, \A f \in flushes : f <= handles,
           Awaited' = Awaited, UNCHANGED <<resQ, connMap, typeMap, handles, worker>>
    PROVE  ConnInv'
<1>1. /\ j \in Jobs /\ j \notin active /\ j \notin Awaited
      /\ job'[j].kind = kind /\ job'[j].conn = c /\ job'[j].status = "NONE"
      /\ \A k \in Jobs \ {j} : job'[k] = job[k]
      /\ \A k \in active : job'[k] = job[k]
      /\ \A k \in Elems(cmdQ') : k = j \/ k \in Elems(cmdQ)
      /\ \A k \in Awaited : k \in Jobs /\ k # j /\ job'[k] = job[k]
  BY AddedJob
<1>2. \A k \in Elems(cmdQ) \cup Elems(resQ) : k \in active
  BY QueuedJobs
<1>3. pendingFlush' = flushes \/ pendingFlush' = flushes \cup {c}
  BY DEF AddCommand
<1>4. HandlesGiven'
  BY <1>1, <1>3 DEF ConnInv, HandlesGiven
<1>5. StatusComes' /\ DialsAwaited'
  BY <1>1, <1>2 DEF ConnInv, StatusComes, DialsAwaited, Dials
<1>6. OpensAlone' /\ OpensNew'
  BY <1>1 DEF ConnInv, OpensAlone, OpensNew
<1>7. OpenIsOpen' /\ ClosedIsClosed'
  BY <1>1 DEF ConnInv, OpenIsOpen, ClosedIsClosed, Succeeded
<1>8. OpenSettles' /\ CloseSettles'
  BY <1>1 DEF ConnInv, OpenSettles, CloseSettles, Succeeded
<1> QED BY <1>4, <1>5, <1>6, <1>7, <1>8 DEF ConnInv

\* A connect begins, with a handle nobody knows yet, or a disconnect of a
\* connection that is open for the main thread.
LEMMA ConnAfterDial ==
    ASSUME TypeOK, JobAccounting, HeldJobsExist, ConnInv,
           NEW j, NEW kind, NEW c \in Conns, AddCommand(j, kind, c, pendingFlush),
           \/ kind = "CONNECT" /\ c = handles + 1 /\ handles' = c
           \/ kind = "DISCONNECT" /\ c \in typeMap /\ handles' = handles,
           Awaited' = Awaited \cup {j}, UNCHANGED <<resQ, connMap, typeMap, worker>>
    PROVE  ConnInv'
<1>1. /\ j \in Jobs /\ j \notin active /\ j \notin Awaited
      /\ job'[j].kind = kind /\ job'[j].conn = c /\ job'[j].status = "NONE"
      /\ \A k \in Jobs \ {j} : job'[k] = job[k]
      /\ \A k \in active : job'[k] = job[k]
      /\ \A k \in Elems(cmdQ') : k = j \/ k \in Elems(cmdQ)
      /\ \A k \in Awaited : k \in Jobs /\ k # j /\ job'[k] = job[k]
  BY AddedJob
<1>2. \A k \in Elems(cmdQ) \cup Elems(resQ) : k \in active
  BY QueuedJobs
<1>3. pendingFlush' = pendingFlush
  BY DEF AddCommand
<1>4. /\ handles \in Nat /\ typeMap \cup connMap \cup pendingFlush \subseteq Nat
      /\ \A k \in Jobs : job[k].conn \in Nat
  BY MaxConnsAssumption DEF TypeOK, JobData, Conns
<1>5. HandlesGiven'
  BY <1>1, <1>3, <1>4 DEF ConnInv, HandlesGiven
<1>6. StatusComes' /\ DialsAwaited'
  BY <1>1, <1>2 DEF ConnInv, StatusComes, DialsAwaited, Dials
<1>7. /\ kind = "CONNECT" => c \notin typeMap
      /\ \A k \in Awaited :
            \/ job[k].conn # c
            \/ kind # "CONNECT" /\ job[k].kind # "CONNECT"
  <2>1. CASE kind = "CONNECT"
    BY <1>1, <1>4, <2>1 DEF ConnInv, HandlesGiven
  <2>2. CASE kind = "DISCONNECT"
    BY <2>2 DEF ConnInv, OpensNew
  <2> QED BY <2>1, <2>2
<1>8. OpensAlone'
  BY <1>1, <1>7 DEF ConnInv, OpensAlone
<1>9. OpensNew'
  BY <1>1, <1>7 DEF ConnInv, OpensNew
<1>10. OpenIsOpen' /\ ClosedIsClosed'
  BY <1>1 DEF ConnInv, OpenIsOpen, ClosedIsClosed, Succeeded
<1>11. OpenSettles' /\ CloseSettles'
  BY <1>1 DEF ConnInv, OpenSettles, CloseSettles, Succeeded
<1> QED BY <1>5, <1>6, <1>8, <1>9, <1>10, <1>11 DEF ConnInv

\* A connect or disconnect returns to its caller, which settles the difference.
LEMMA ConnAfterAnswer ==
    ASSUME TypeOK, JobAccounting, HeldJobsExist, CallsInv, ConnInv,
           PollReturns, Dials(job[Top.job])
    PROVE  CallsInv' /\ ConnInv'
<1> DEFINE j == Top.job
           c == job[j].conn
<1>1. /\ stack # <<>> /\ Return /\ Top.call = "polled" /\ Waits(Top, job)
      /\ UNCHANGED <<cmdQ, resQ, connMap, active, pendingFlush, handles, worker>>
  BY DEF PollReturns, Running, Waits, shared
<1>2. \A k \in Jobs : Kept(k)
  BY JobsKept DEF JobsKeptBy
<1>3. CallsInv' /\ Awaited' = Awaited \ {j}
  <2>1. \A k \in active : job'[k].kind = job[k].kind
    BY <1>2 DEF Kept, TypeOK
  <2> QED BY <1>1, <2>1, AfterAnswer
<1>4. j \in Awaited /\ j \in finished
  <2>1. Len(stack) \in 1..Len(stack)
    BY <1>1, StackOfCalls
  <2> QED BY <1>1, <2>1, AwaitedJobs DEF Top, HeldJobsExist
<1>5. \A k \in Awaited : k \in Jobs /\ Dials(job[k])
  BY AwaitedJobs
<1>6. \A k \in Elems(cmdQ) \cup Elems(resQ) : k \in Jobs /\ k # j
  BY <1>4, QueuedJobs
<1>7. /\ typeMap' = typeMap \/ typeMap' = typeMap \cup {c} \/ typeMap' = typeMap \ {c}
      /\ Succeeded(j, "CONNECT") => typeMap' = typeMap \cup {c}
      /\ Succeeded(j, "DISCONNECT") => typeMap' = typeMap \ {c}
      /\ job[j].status # "SUCCESS" => typeMap' = typeMap
  BY DEF PollReturns, Dials, Succeeded
<1> HIDE DEF j, c
<1>8. Succeeded(j, "CONNECT") \/ Succeeded(j, "DISCONNECT") \/ job[j].status # "SUCCESS"
  BY DEF Succeeded, Dials, j
<1>9. /\ Succeeded(j, "CONNECT") => c \in connMap
      /\ Succeeded(j, "DISCONNECT") => c \notin connMap
      /\ c <= handles
  BY <1>4, <1>5 DEF ConnInv, OpenIsOpen, ClosedIsClosed, HandlesGiven, c
<1>10. HandlesGiven'
  BY <1>1, <1>2, <1>7, <1>9 DEF ConnInv, HandlesGiven, Kept
<1>11. StatusComes'
  BY <1>1, <1>2, <1>6 DEF ConnInv, StatusComes, Kept
<1>12. DialsAwaited'
  BY <1>1, <1>2, <1>3, <1>6 DEF ConnInv, DialsAwaited, Dials, Kept
<1>13. OpensAlone'
  BY <1>2, <1>3, <1>5 DEF ConnInv, OpensAlone, Kept
<1>14. OpensNew'
  <2>1. ASSUME NEW k \in Awaited, k # j, job[k].kind = "CONNECT"
        PROVE  job[k].conn # c
    BY <1>4, <2>1 DEF ConnInv, OpensAlone, c
  <2> QED BY <1>2, <1>3, <1>5, <1>7, <2>1 DEF ConnInv, OpensNew, Kept
<1>15. OpenIsOpen' /\ ClosedIsClosed'
  BY <1>1, <1>2, <1>3, <1>5 DEF ConnInv, OpenIsOpen, ClosedIsClosed, Succeeded, Kept
<1>16. OpenSettles'
  <2>1. SUFFICES ASSUME NEW a \in connMap, a \notin typeMap'
                 PROVE  \E k \in Awaited' : Succeeded(k, "CONNECT")' /\ job'[k].conn = a
    BY <1>1 DEF OpenSettles
  <2>2. a \notin typeMap
    BY <1>7, <1>8, <1>9, <2>1
  <2>3. PICK k \in Awaited : Succeeded(k, "CONNECT") /\ job[k].conn = a
    BY <2>2 DEF ConnInv, OpenSettles
  <2>4. k # j
    BY <1>7, <2>1, <2>3 DEF c
  <2> QED BY <1>2, <1>3, <1>5, <2>3, <2>4 DEF Succeeded, Kept
<1>17. CloseSettles'
  <2>1. SUFFICES ASSUME NEW a \in typeMap', a \notin connMap
                 PROVE  \E k \in Awaited' : Succeeded(k, "DISCONNECT")' /\ job'[k].conn = a
    BY <1>1 DEF CloseSettles
  <2>2. a \in typeMap
    BY <1>7, <1>8, <1>9, <2>1
  <2>3. PICK k \in Awaited : Succeeded(k, "DISCONNECT") /\ job[k].conn = a
    BY <2>1, <2>2 DEF ConnInv, CloseSettles
  <2>4. k # j
    BY <1>7, <2>1, <2>3 DEF c
  <2> QED BY <1>2, <1>3, <1>5, <2>3, <2>4 DEF Succeeded, Kept
<1> QED BY <1>3, <1>10, <1>11, <1>12, <1>13, <1>14, <1>15, <1>16, <1>17 DEF ConnInv

\* DoPulse deletes jobs while nobody waits.
LEMMA ConnAfterDelete ==
    ASSUME TypeOK, JobAccounting, HeldJobsExist, StackShape, CallsInv, ConnInv, PulseDeletes
    PROVE  CallsInv' /\ ConnInv'
<1>1. /\ stack # <<>> /\ Top.call = "again" /\ Become(Simple("scan"))
      /\ UNCHANGED <<cmdQ, resQ, connMap, typeMap, pendingFlush, handles, worker>>
      /\ job' = [k \in Jobs |-> IF k \in finished THEN NoData ELSE job[k]]
  BY DEF PulseDeletes, Running, shared
<1>2. Len(stack) = 1 /\ stack[1].call = "again"
  <2>1. Len(stack) \in 1..Len(stack) /\ Len(stack) \in Nat
    BY <1>1, StackOfCalls
  <2> QED BY <1>1, <2>1 DEF StackShape, Top, PlainCalls
<1>3. Len(stack') = 1 /\ stack'[1].call = "scan"
  <2>1. Simple("scan") \in Frames /\ Simple("scan").call = "scan"
    BY FrameType DEF PlainCalls, Simple, Frame
  <2> QED BY <1>1, <1>2, <2>1, StackOfCalls DEF Become
<1>4. \A i \in 1..Len(stack) : ~Waits(stack[i], job)
  BY <1>2 DEF Waits
<1>5. \A i \in 1..Len(stack') : ~Waits(stack'[i], job')
  BY <1>3 DEF Waits
<1>6. CallsInv' /\ Awaited = {} /\ Awaited' = {}
  BY <1>4, <1>5 DEF CallsInv, Patient, WaitsOnce, Awaited
<1>7. \A k \in Elems(cmdQ) \cup Elems(resQ) : k \in Jobs /\ job'[k] = job[k]
  BY <1>1, QueuedJobs
<1>8. HandlesGiven'
  <2>1. handles \in Nat /\ NoData.conn = 0
    BY MaxConnsAssumption DEF TypeOK, NoData, NewJob
  <2> QED BY <1>1, <2>1 DEF ConnInv, HandlesGiven
<1>9. StatusComes' /\ DialsAwaited'
  BY <1>1, <1>6, <1>7 DEF ConnInv, StatusComes, DialsAwaited, Dials
<1>10. OpensAlone' /\ OpensNew' /\ OpenIsOpen' /\ ClosedIsClosed'
  BY <1>6 DEF OpensAlone, OpensNew, OpenIsOpen, ClosedIsClosed
<1>11. OpenSettles' /\ CloseSettles'
  BY <1>1, <1>6 DEF ConnInv, OpenSettles, CloseSettles
<1> QED BY <1>6, <1>8, <1>9, <1>10, <1>11 DEF ConnInv

\* The service thread processes a command: for a connect or a disconnect, one
\* that somebody waits for.
LEMMA ConnAfterProcess ==
    ASSUME TypeOK, JobAccounting, HeldJobsExist, CallsInv, ConnInv, WorkerProcesses
    PROVE  CallsInv' /\ ConnInv'
<1>0. PICK j : j = worker.job
  OBVIOUS
<1> DEFINE c == job[j].conn
<1>1. PICK o \in Outcomes(job[j]) :
         job' = [job EXCEPT ![j].status = o.status] /\ connMap' = o.conns
  BY <1>0 DEF WorkerProcesses
<1>2. /\ worker.pc = "busy" /\ worker' = [worker EXCEPT !.pc = "store"]
      /\ UNCHANGED <<cmdQ, resQ, typeMap, pendingFlush, handles, stack, active>>
  BY DEF WorkerProcesses, mainVars
<1>3. j \in Jobs /\ j \in Elems(cmdQ) /\ job[j].status = "NONE"
  <2>1. j \in Jobs /\ j \in Elems(cmdQ)
    BY <1>0, <1>2, QueuedJobs
  <2> QED BY <1>0, <1>2, <2>1 DEF ConnInv, StatusComes
<1>4. /\ job'[j].status = o.status /\ Dials(job'[j]) = Dials(job[j])
      /\ job'[j].kind = job[j].kind /\ job'[j].conn = c
      /\ \A k \in Jobs : k # j => job'[k] = job[k]
  BY <1>1, <1>3 DEF TypeOK, JobData, Dials
<1>5. \A k \in Jobs : job'[k].kind = job[k].kind /\ job'[k].conn = job[k].conn
  BY <1>4
<1>6. worker'.job = j /\ worker'.pc = "store"
  BY <1>0, <1>2 DEF TypeOK, WorkerStates
<1>7. CallsInv' /\ Awaited' = Awaited
  <2>1. \A k \in active : job'[k].kind = job[k].kind
    BY <1>5 DEF TypeOK
  <2> QED BY <1>2, <2>1, SameCalls
<1>8. Dials(job[j]) => j \in Awaited
  BY <1>3 DEF ConnInv, DialsAwaited
<1>9. \/ /\ job[j].kind = "CONNECT" /\ o.status = "SUCCESS"
         /\ connMap' = connMap \cup {c}
      \/ /\ job[j].kind = "DISCONNECT" /\ o.status = "SUCCESS"
         /\ connMap' = connMap \ {c}
      \/ /\ ~(Dials(job[j]) /\ o.status = "SUCCESS")
         /\ connMap' = connMap
  BY <1>1 DEF Outcomes, Dials
<1>10. \A k \in Awaited : k \in Jobs /\ Dials(job[k])
  BY AwaitedJobs
<1>11. \A k \in Elems(cmdQ) \cup Elems(resQ) : k \in Jobs
  BY QueuedJobs
<1>12. \A k \in Awaited : \A kind \in {"CONNECT", "DISCONNECT"} :
          Succeeded(k, kind) => Succeeded(k, kind)' /\ k # j
  BY <1>3, <1>4, <1>10 DEF Succeeded
<1>13. \A k \in Awaited : k # j => (/\ Succeeded(k, "CONNECT")' <=> Succeeded(k, "CONNECT")
                                    /\ Succeeded(k, "DISCONNECT")' <=> Succeeded(k, "DISCONNECT"))
  BY <1>4, <1>10 DEF Succeeded
<1>14. c <= handles
  BY <1>3 DEF ConnInv, HandlesGiven
<1> HIDE DEF c
<1>15. HandlesGiven'
  BY <1>2, <1>5, <1>9, <1>14 DEF ConnInv, HandlesGiven
<1>16. StatusComes' /\ DialsAwaited'
  <2>1. StatusComes'
    BY <1>0, <1>2, <1>4, <1>6, <1>11 DEF ConnInv, StatusComes
  <2>2. DialsAwaited'
    BY <1>2, <1>5, <1>7, <1>11 DEF ConnInv, DialsAwaited, Dials
  <2> QED BY <2>1, <2>2
<1>17. OpensAlone' /\ OpensNew'
  BY <1>2, <1>5, <1>7, <1>10 DEF ConnInv, OpensAlone, OpensNew
<1>18. \A k \in Awaited :
          k # j /\ Dials(job[j]) /\ (job[k].kind = "CONNECT" \/ job[j].kind = "CONNECT")
             => job[k].conn # c
  BY <1>8 DEF ConnInv, OpensAlone, c
<1>19. OpenIsOpen'
  <2>1. SUFFICES ASSUME NEW k \in Awaited, Succeeded(k, "CONNECT")'
                 PROVE  job[k].conn \in connMap'
    BY <1>5, <1>7, <1>10 DEF OpenIsOpen
  <2>2. CASE k = j
    BY <1>4, <1>9, <2>1, <2>2 DEF Succeeded, Dials, c
  <2>3. CASE k # j
    <3>1. Succeeded(k, "CONNECT") /\ job[k].conn \in connMap
      BY <1>13, <2>1, <2>3 DEF ConnInv, OpenIsOpen
    <3> QED BY <1>9, <1>18, <2>3, <3>1 DEF Succeeded, Dials
  <2> QED BY <2>2, <2>3
<1>20. ClosedIsClosed'
  <2>1. SUFFICES ASSUME NEW k \in Awaited, Succeeded(k, "DISCONNECT")'
                 PROVE  job[k].conn \notin connMap'
    BY <1>5, <1>7, <1>10 DEF ClosedIsClosed
  <2>2. CASE k = j
    BY <1>4, <1>9, <2>1, <2>2 DEF Succeeded, Dials, c
  <2>3. CASE k # j
    <3>1. Succeeded(k, "DISCONNECT") /\ job[k].conn \notin connMap
      BY <1>13, <2>1, <2>3 DEF ConnInv, ClosedIsClosed
    <3> QED BY <1>9, <1>18, <2>3, <3>1 DEF Succeeded, Dials
  <2> QED BY <2>2, <2>3
<1>21. OpenSettles'
  <2>1. SUFFICES ASSUME NEW a \in connMap', a \notin typeMap
                 PROVE  \E k \in Awaited : Succeeded(k, "CONNECT")' /\ job[k].conn = a
    BY <1>2, <1>5, <1>7, <1>10 DEF OpenSettles
  <2>2. CASE a \in connMap
    BY <1>12, <2>1, <2>2 DEF ConnInv, OpenSettles
  <2>3. CASE a \notin connMap
    <3>1. a = c /\ Succeeded(j, "CONNECT")' /\ j \in Awaited
      BY <1>4, <1>8, <1>9, <2>1, <2>3 DEF Succeeded, Dials
    <3> QED BY <3>1 DEF c
  <2> QED BY <2>2, <2>3
<1>22. CloseSettles'
  <2>1. SUFFICES ASSUME NEW a \in typeMap, a \notin connMap'
                 PROVE  \E k \in Awaited : Succeeded(k, "DISCONNECT")' /\ job[k].conn = a
    BY <1>2, <1>5, <1>7, <1>10 DEF CloseSettles
  <2>2. CASE a \notin connMap
    BY <1>12, <2>1, <2>2 DEF ConnInv, CloseSettles
  <2>3. CASE a \in connMap
    <3>1. a = c /\ Succeeded(j, "DISCONNECT")' /\ j \in Awaited
      BY <1>4, <1>8, <1>9, <2>1, <2>3 DEF Succeeded, Dials
    <3> QED BY <3>1 DEF c
  <2> QED BY <2>2, <2>3
<1> QED BY <1>7, <1>15, <1>16, <1>17, <1>19, <1>20, <1>21, <1>22 DEF ConnInv

\* Steps of the main thread that leave the maps alone and at most drop a result.
LEMMA ConnQuiet ==
    ASSUME TypeOK, JobAccounting, HeldJobsExist, ConnInv, Awaited' = Awaited,
           \A j \in Jobs : Kept(j),
           UNCHANGED <<cmdQ, typeMap, connMap, handles, pendingFlush>>,
           \A j \in Elems(resQ') : j \in Elems(resQ),
           worker' = worker \/ worker' = [worker EXCEPT !.pc = "cancelled"]
    PROVE  ConnInv'
<1>1. \A j \in Elems(cmdQ) \cup Elems(resQ) : j \in Jobs
  BY QueuedJobs
<1>2. worker'.job = worker.job /\ (worker'.pc = worker.pc \/ worker'.pc = "cancelled")
  BY DEF TypeOK, WorkerStates
<1>3. StatusComes'
  BY <1>1, <1>2 DEF ConnInv, StatusComes, Kept
<1> QED BY <1>1, <1>3, ConnKept

\* Every step keeps the two maps within what the waiting calls are about to settle.
LEMMA ConnStep ==
    ASSUME TypeOK, JobAccounting, HeldJobsExist, StackShape, CallsInv, ConnInv, [Next]_vars
    PROVE  CallsInv' /\ ConnInv'
<1>1. ASSUME \A j \in Jobs : Kept(j)
      PROVE  \A j \in active : job'[j].kind = job[j].kind
  BY <1>1 DEF Kept, TypeOK
<1>2. ASSUME NEW j, NEW kind, NEW c, NEW flushes, AddCommand(j, kind, c, flushes)
      PROVE  \A k \in active : job'[k].kind = job[k].kind
  BY <1>2, AddedJob
<1>3. stack # <<>> /\ Waits(Top, job) => Top.call = "polled" \/ Top.forever
  <2>1. stack # <<>> => Len(stack) \in 1..Len(stack)
    BY StackOfCalls
  <2> QED BY <2>1 DEF CallsInv, Patient, Top, Waits
<1>4. CASE FinishExec \/ FinishQuery \/ PollTimesOut \/ ScriptReturns
  <2>1. /\ stack # <<>> /\ Return /\ ~Waits(Top, job)
        /\ UNCHANGED <<cmdQ, resQ, typeMap, connMap, handles, pendingFlush, worker>>
    BY <1>3, <1>4 DEF FinishExec, FinishQuery, PollTimesOut, ScriptReturns, Running, Waits,
                      shared, mainVars
  <2>2. \A j \in Jobs : Kept(j)
    <3>1. JobsKeptBy
      BY <1>4 DEF JobsKeptBy, PollTimesOut, ScriptReturns
    <3> QED BY <3>1, JobsKept
  <2>3. CallsInv' /\ Awaited' = Awaited
    BY <1>1, <2>1, <2>2, AfterReturn
  <2> QED BY <2>1, <2>2, <2>3, ConnQuiet
<1>5. CASE PollTakes
  <2> DEFINE j == Top.job
             f == Frame("polled", j, FALSE)
             g == Frame("warning", j, FALSE)
  <2>1. /\ stack # <<>> /\ Top.call = "poll" /\ j \in Elems(resQ) /\ resQ' = Without(resQ, j)
        /\ UNCHANGED <<cmdQ, typeMap, connMap, handles, pendingFlush, worker>>
        /\ Become(f) \/ stack' = Append(Append(Caller, f), g)
    BY <1>5 DEF PollTakes, Running
  <2>2. \A k \in Jobs : Kept(k)
    BY <1>5, JobsKept DEF JobsKeptBy
  <2>3. j \in Jobs /\ \A k \in Elems(resQ') : k \in Elems(resQ)
    <3>1. j \in Jobs
      BY <2>1, QueuedJobs
    <3>2. Elems(Without(resQ, j)) = Elems(resQ) \ {j}
      BY <2>1, RemoveFromQueue DEF TypeOK, JobAccounting
    <3> QED BY <2>1, <3>1, <3>2
  <2>4. /\ f \in Frames /\ f.job = j /\ f.call = "polled"
        /\ g \in Frames /\ g.call = "warning"
    BY <2>3, FrameType DEF JobCalls, Frame
  <2>5. Dials(job'[j]) <=> Dials(job[j])
    BY <2>2, <2>3 DEF Kept, Dials
  <2> HIDE DEF f, g
  <2>6. Waits(f, job') <=> Waits(Top, job)
    BY <2>1, <2>4, <2>5 DEF Waits
  <2>7. ~Waits(g, job')
    BY <2>4 DEF Waits
  <2>8. CallsInv' /\ Awaited' = Awaited
    <3>1. \A k \in active : job'[k].kind = job[k].kind
      BY <1>1, <2>2
    <3> QED BY <2>1, <2>4, <2>6, <2>7, <3>1, AfterBecome
  <2> QED BY <2>1, <2>2, <2>3, <2>8, ConnQuiet
<1>6. CASE PollWarns \/ PollReportsError \/ DbPoll \/ PulseBegins \/ Shutdown
  <2>1. /\ job' = job
        /\ UNCHANGED <<cmdQ, resQ, typeMap, connMap, handles, pendingFlush, worker>>
    BY <1>6 DEF PollWarns, PollReportsError, DbPoll, PulseBegins, Shutdown, shared, mainVars
  <2>2. PICK f \in Frames : Push(f) /\ ~Waits(f, job)
    <3>1. CASE PollWarns \/ PollReportsError
      <4>1. Top.job \in Jobs /\ Push(Frame("warning", Top.job, FALSE))
        BY <3>1, StackOfCalls DEF PollWarns, PollReportsError, Running, JobCalls
      <4>2. Frame("warning", Top.job, FALSE) \in Frames
            /\ ~Waits(Frame("warning", Top.job, FALSE), job)
        BY <4>1, FrameType DEF JobCalls, Frame, Waits
      <4> QED BY <4>1, <4>2
    <3>2. CASE DbPoll
      <4>1. PICK j \in Jobs, forever \in BOOLEAN :
               job[j].kind = "QUERY" /\ Push(Frame("poll", j, forever))
        BY <3>2 DEF DbPoll, Handle
      <4>2. Frame("poll", j, forever) \in Frames /\ ~Waits(Frame("poll", j, forever), job)
        BY <4>1, FrameType DEF JobCalls, Frame, Waits, Dials
      <4> QED BY <4>1, <4>2
    <3>3. CASE PulseBegins \/ Shutdown
      <4>1. PICK call \in {"flush", "shutdown"} : Push(Simple(call))
        BY <3>3 DEF PulseBegins, Shutdown
      <4>2. Simple(call) \in Frames /\ ~Waits(Simple(call), job)
        BY FrameType DEF PlainCalls, Simple, Frame, Waits
      <4> QED BY <4>1, <4>2
    <3> QED BY <1>6, <3>1, <3>2, <3>3
  <2>3. \A j \in Jobs : Kept(j)
    BY <2>1 DEF Kept
  <2>4. CallsInv' /\ Awaited' = Awaited
    BY <1>1, <2>1, <2>2, <2>3, AfterPush
  <2> QED BY <2>1, <2>3, <2>4, ConnQuiet
<1>7. CASE PulseLocks \/ PulseEnds \/ PulseScans \/ ShutdownStops \/ ShutdownEnds
  <2>1. /\ stack # <<>> /\ ~Waits(Top, job)
        /\ UNCHANGED <<cmdQ, typeMap, connMap, handles, pendingFlush>>
        /\ worker' = worker \/ worker' = [worker EXCEPT !.pc = "cancelled"]
    BY <1>7 DEF PulseLocks, PulseEnds, PulseScans, ShutdownStops, ShutdownEnds, Running, Waits,
                shared, mainVars
  <2>2. \A j \in Jobs : Kept(j)
    <3>1. JobsKeptBy
      BY <1>7 DEF JobsKeptBy, PulseLocks, PulseEnds, ShutdownStops, ShutdownEnds
    <3> QED BY <3>1, JobsKept
  <2>3. \A k \in Elems(resQ') : k \in Elems(resQ)
    <3>1. CASE PulseScans
      <4>1. PICK i \in 1..Len(resQ) : resQ' = resQ \/ resQ' = Without(resQ, resQ[i])
        BY <3>1 DEF PulseScans
      <4>2. resQ[i] \in Elems(resQ)
        BY DEF Elems
      <4>3. Elems(Without(resQ, resQ[i])) = Elems(resQ) \ {resQ[i]}
        BY <4>2, RemoveFromQueue DEF TypeOK, JobAccounting
      <4> QED BY <4>1, <4>3
    <3>2. CASE ~PulseScans
      BY <1>7, <3>2 DEF PulseLocks, PulseEnds, ShutdownStops, ShutdownEnds, shared
    <3> QED BY <3>1, <3>2
  <2>4. \A call \in {"again", "stop", "gone"} :
           /\ Simple(call) \in Frames /\ Simple(call).call = call
           /\ ~Waits(Simple(call), job')
    BY FrameType DEF PlainCalls, Simple, Frame, Waits
  <2>5. \A call \in {"callback", "warning"}, j \in Jobs :
           /\ Frame(call, j, FALSE) \in Frames /\ Frame(call, j, FALSE).call = call
           /\ ~Waits(Frame(call, j, FALSE), job')
    BY FrameType DEF JobCalls, Frame, Waits
  <2>6. \/ stack' = stack
        \/ Return
        \/ \E f, g \in Frames : /\ Become(f) \/ stack' = Append(Append(Caller, f), g)
                                /\ f.call # "poll"
                                /\ ~Waits(f, job') /\ ~Waits(g, job')
    <3>1. CASE PulseLocks \/ ShutdownStops \/ ShutdownEnds
      <4>1. PICK call \in {"again", "stop", "gone"} : Become(Simple(call))
        BY <3>1 DEF PulseLocks, ShutdownStops, ShutdownEnds
      <4>2. call # "poll"
        OBVIOUS
      <4> QED BY <2>4, <4>1, <4>2
    <3>2. CASE PulseEnds
      <4>1. Return \/ \E j \in Elems(resQ) : Become(Frame("warning", j, FALSE))
        BY <3>2 DEF PulseEnds
      <4>2. \A j \in Elems(resQ) : j \in Jobs
        BY QueuedJobs
      <4> QED BY <2>5, <4>1, <4>2
    <3>3. CASE PulseScans
      <4>1. PICK i \in 1..Len(resQ) :
              \/ stack' = Append(Append(Caller, Simple("again")), Frame("callback", resQ[i], FALSE))
              \/ stack' = Append(Append(Caller, Simple("again")), Frame("warning", resQ[i], FALSE))
              \/ Become(Simple("again"))
              \/ stack' = stack
        BY <3>3, ZenonT(60) DEF PulseScans
      <4>2. resQ[i] \in Jobs
        BY ElemsType DEF TypeOK, Elems
      <4> QED BY <2>4, <2>5, <4>1, <4>2
    <3> QED BY <1>7, <3>1, <3>2, <3>3
  <2>7. CallsInv' /\ Awaited' = Awaited
    <3>1. \A j \in active : job'[j].kind = job[j].kind
      BY <1>1, <2>2
    <3>2. CASE stack' = stack
      BY <3>1, <3>2, SameCalls
    <3>3. CASE Return
      BY <2>1, <3>1, <3>3, AfterReturn
    <3>4. ASSUME NEW f \in Frames, NEW g \in Frames,
                 Become(f) \/ stack' = Append(Append(Caller, f), g),
                 f.call # "poll", ~Waits(f, job'), ~Waits(g, job')
          PROVE  CallsInv' /\ Awaited' = Awaited
      BY <2>1, <3>1, <3>4, AfterBecome
    <3> QED BY <2>6, <3>2, <3>3, <3>4
  <2> QED BY <2>1, <2>2, <2>3, <2>7, ConnQuiet
<1>8. CASE PulseFlushes
  <2>1. PICK c \in pendingFlush, j \in Jobs :
           AddCommand(j, "FLUSH", c, pendingFlush \ {c}) /\ Push(Frame("exec", j, FALSE))
    BY <1>8 DEF PulseFlushes
  <2>2. UNCHANGED <<resQ, connMap, typeMap, handles, worker>>
    BY <1>8 DEF PulseFlushes
  <2>3. Frame("exec", j, FALSE) \in Frames /\ ~Waits(Frame("exec", j, FALSE), job')
    BY FrameType DEF JobCalls, Frame, Waits
  <2>4. CallsInv' /\ Awaited' = Awaited
    <3>1. \A k \in active : job'[k].kind = job[k].kind
      BY <1>2, <2>1
    <3> QED BY <2>1, <2>3, <3>1, AfterPush
  <2>5. /\ c \in Nat /\ c <= handles
        /\ \A f \in pendingFlush \ {c} : f <= handles
    BY MaxConnsAssumption DEF ConnInv, HandlesGiven, TypeOK, Conns
  <2> QED BY <2>1, <2>2, <2>4, <2>5, ConnAfterAdd
<1>9. CASE SetLogLevel
  <2>1. PICK j \in Jobs :
           AddCommand(j, "SETLOGLEVEL", 0, pendingFlush) /\ Push(Frame("exec", j, FALSE))
    BY <1>9 DEF SetLogLevel
  <2>2. UNCHANGED <<resQ, connMap, typeMap, handles, worker>>
    BY <1>9 DEF SetLogLevel
  <2>3. Frame("exec", j, FALSE) \in Frames /\ ~Waits(Frame("exec", j, FALSE), job')
    BY FrameType DEF JobCalls, Frame, Waits
  <2>4. CallsInv' /\ Awaited' = Awaited
    <3>1. \A k \in active : job'[k].kind = job[k].kind
      BY <1>2, <2>1
    <3> QED BY <2>1, <2>3, <3>1, AfterPush
  <2>5. 0 <= handles /\ \A f \in pendingFlush : f <= handles
    BY MaxConnsAssumption DEF ConnInv, HandlesGiven, TypeOK
  <2> QED BY <2>1, <2>2, <2>4, <2>5, ConnAfterAdd
<1>10. ASSUME NEW c \in Conns, NEW call \in {"none", "exec", "query"}, StartQuery(c, call)
       PROVE  CallsInv' /\ ConnInv'
  <2>1. PICK j \in Jobs : /\ AddCommand(j, "QUERY", c, pendingFlush)
                          /\ IF call = "none" THEN UNCHANGED stack
                             ELSE Push(Frame(call, j, FALSE))
    BY <1>10 DEF StartQuery
  <2>2. UNCHANGED <<resQ, connMap, typeMap, handles, worker>> /\ c \in typeMap
    BY <1>10 DEF StartQuery
  <2>3. CallsInv' /\ Awaited' = Awaited
    <3>1. \A k \in active : job'[k].kind = job[k].kind
      BY <1>2, <2>1
    <3>2. CASE call = "none"
      BY <2>1, <3>1, <3>2, SameCalls
    <3>3. CASE call # "none"
      <4>1. Frame(call, j, FALSE) \in Frames /\ ~Waits(Frame(call, j, FALSE), job')
        BY <3>3, FrameType DEF JobCalls, Frame, Waits
      <4> QED BY <2>1, <3>1, <3>3, <4>1, AfterPush
    <3> QED BY <3>2, <3>3
  <2>4. /\ c \in Nat /\ c <= handles
        /\ \A f \in pendingFlush : f <= handles
    BY <2>2, MaxConnsAssumption DEF ConnInv, HandlesGiven, TypeOK, Conns
  <2> QED BY <2>1, <2>2, <2>3, <2>4, ConnAfterAdd
<1>11. CASE Connect
  <2>1. PICK j \in Jobs : /\ AddCommand(j, "CONNECT", handles + 1, pendingFlush)
                          /\ Push(Frame("poll", j, TRUE))
    BY <1>11 DEF Connect
  <2>2. UNCHANGED <<resQ, connMap, typeMap, worker>> /\ handles' = handles + 1
        /\ handles + 1 \in Conns
    BY <1>11, MaxConnsAssumption DEF Connect, TypeOK, Conns
  <2>3. CallsInv' /\ Awaited' = Awaited \cup {j}
    <3>1. \A k \in active : job'[k].kind = job[k].kind
      BY <1>2, <2>1
    <3>2. j \notin active /\ Dials(job'[j])
      BY <2>1, AddedJob DEF Dials
    <3> QED BY <2>1, <3>1, <3>2, AfterDial
  <2> QED BY <2>1, <2>2, <2>3, ConnAfterDial
<1>12. ASSUME NEW c \in Conns, StartDisconnect(c) PROVE CallsInv' /\ ConnInv'
  <2>1. UNCHANGED <<resQ, connMap, handles, worker>> /\ c \in typeMap
    BY <1>12 DEF StartDisconnect
  <2>2. CASE c \in connMap
    <3>1. PICK j \in Jobs : /\ AddCommand(j, "DISCONNECT", c, pendingFlush)
                            /\ Push(Frame("poll", j, TRUE))
      BY <1>12, <2>2 DEF StartDisconnect
    <3>2. typeMap' = typeMap
      BY <1>12, <2>2 DEF StartDisconnect
    <3>3. CallsInv' /\ Awaited' = Awaited \cup {j}
      <4>1. \A k \in active : job'[k].kind = job[k].kind
        BY <1>2, <3>1
      <4>2. j \notin active /\ Dials(job'[j])
        BY <3>1, AddedJob DEF Dials
      <4> QED BY <3>1, <4>1, <4>2, AfterDial
    <3> QED BY <2>1, <3>1, <3>2, <3>3, ConnAfterDial
  <2>3. CASE c \notin connMap
    <3>1. typeMap' = typeMap \ {c} /\ UNCHANGED <<cmdQ, job, pendingFlush, stack>>
      BY <1>12, <2>3 DEF StartDisconnect
    <3>2. CallsInv' /\ Awaited' = Awaited
      BY <3>1, SameCalls
    <3>3. HandlesGiven' /\ StatusComes' /\ DialsAwaited'
      BY <2>1, <3>1, <3>2 DEF ConnInv, HandlesGiven, StatusComes, DialsAwaited
    <3>4. OpensAlone' /\ OpensNew' /\ OpenIsOpen' /\ ClosedIsClosed'
      BY <2>1, <3>1, <3>2
      DEF ConnInv, OpensAlone, OpensNew, OpenIsOpen, ClosedIsClosed, Succeeded
    <3>5. OpenSettles' /\ CloseSettles'
      BY <2>1, <2>3, <3>1, <3>2 DEF ConnInv, OpenSettles, CloseSettles, Succeeded
    <3> QED BY <3>2, <3>3, <3>4, <3>5 DEF ConnInv
  <2> QED BY <2>2, <2>3
<1>13. CASE PollReturns
  <2>1. CASE Dials(job[Top.job])
    BY <1>13, <2>1, ConnAfterAnswer
  <2>2. CASE ~Dials(job[Top.job])
    <3>1. /\ stack # <<>> /\ Return /\ ~Waits(Top, job)
          /\ UNCHANGED <<cmdQ, resQ, typeMap, connMap, handles, pendingFlush, worker>>
      BY <1>13, <2>2 DEF PollReturns, Running, Waits, Dials, shared
    <3>2. \A j \in Jobs : Kept(j)
      BY <1>13, JobsKept DEF JobsKeptBy
    <3>3. CallsInv' /\ Awaited' = Awaited
      BY <1>1, <3>1, <3>2, AfterReturn
    <3> QED BY <3>1, <3>2, <3>3, ConnQuiet
  <2> QED BY <2>1, <2>2
<1>14. CASE DbFree \/ UNCHANGED vars \/ Gone
  <2>1. UNCHANGED <<cmdQ, resQ, typeMap, connMap, handles, pendingFlush, worker, stack>>
    BY <1>14 DEF DbFree, Gone, vars, shared, mainVars
  <2>2. \A j \in Jobs : Kept(j)
    <3>1. JobsKeptBy
      BY <1>14 DEF JobsKeptBy, Gone, vars
    <3> QED BY <3>1, JobsKept
  <2>3. CallsInv' /\ Awaited' = Awaited
    BY <1>1, <2>1, <2>2, SameCalls
  <2> QED BY <2>1, <2>2, <2>3, ConnQuiet
<1>15. CASE WorkerTakes \/ WorkerStores \/ WorkerExits
  <2>1. UNCHANGED <<typeMap, connMap, handles, pendingFlush, stack>>
    BY <1>15 DEF WorkerTakes, WorkerStores, WorkerExits, shared, mainVars
  <2>2. \A j \in Jobs : Kept(j)
    <3>1. JobsKeptBy
      BY <1>15 DEF JobsKeptBy, WorkerExits
    <3> QED BY <3>1, JobsKept
  <2>3. CallsInv' /\ Awaited' = Awaited
    BY <1>1, <2>1, <2>2, SameCalls
  <2>4. \A j \in Elems(cmdQ) \cup Elems(resQ) : j \in Jobs
    BY QueuedJobs
  <2>5. CASE WorkerTakes \/ WorkerExits
    <3>1. UNCHANGED <<cmdQ, resQ>> /\ worker.job = NoJob
      BY <2>5 DEF WorkerTakes, WorkerExits, shared, TypeOK, WorkerStates
    <3>2. \A j \in Elems(cmdQ) : job[j].status = "NONE"
      BY <2>4, <3>1, NoJobAssumption DEF ConnInv, StatusComes, NoJob
    <3>3. StatusComes'
      BY <2>2, <2>4, <3>1, <3>2 DEF StatusComes, Kept
    <3> QED BY <2>1, <2>2, <2>3, <2>4, <3>1, <3>3, ConnKept
  <2>6. CASE WorkerStores
    <3>1. /\ worker.job \in Jobs /\ worker.job \in Elems(cmdQ)
          /\ cmdQ # <<>> /\ Head(cmdQ) = worker.job
      BY <2>6, QueuedJobs, NoJobAssumption DEF WorkerStores, JobAccounting, NoJob
    <3>2. cmdQ' = Tail(cmdQ) /\ resQ' = Append(resQ, worker.job)
      BY <2>6, <3>1 DEF WorkerStores
    <3>3. /\ Elems(cmdQ') = Elems(cmdQ) \ {worker.job}
          /\ Elems(resQ') = Elems(resQ) \cup {worker.job}
      BY <3>1, <3>2, TailOfQueue, AppendToQueue DEF TypeOK, JobAccounting
    <3>4. \A j \in Elems(cmdQ') : j \in Jobs /\ job[j].status = "NONE"
      BY <2>4, <3>3 DEF ConnInv, StatusComes
    <3>5. StatusComes'
      BY <2>2, <3>4 DEF StatusComes, Kept
    <3> QED BY <2>1, <2>2, <2>3, <2>4, <3>1, <3>3, <3>5, ConnKept
  <2> QED BY <1>15, <2>5, <2>6
<1> QED
  BY <1>4, <1>5, <1>6, <1>7, <1>8, <1>9, <1>10, <1>11, <1>12, <1>13, <1>14, <1>15,
     ConnAfterDelete, ConnAfterProcess
  DEF Next, Worker, Proceed, Script, Destroy, ShutdownDisconnects, Disconnect,
      DbExec, DbQuery, DbQueryWithCallback

\* Nothing is open, and nobody waits, at the start.
LEMMA ConnInit == ASSUME Init PROVE CallsInv /\ ConnInv
<1>1. Elems(cmdQ) = {} /\ Elems(resQ) = {} /\ Awaited = {}
  BY DEF Init, Elems, Awaited
<1>2. CallsInv
  BY DEF Init, CallsInv, Patient, WaitsOnce
<1>3. HandlesGiven
  BY DEF Init, HandlesGiven, NoData, NewJob
<1>4. StatusComes /\ DialsAwaited
  BY <1>1 DEF StatusComes, DialsAwaited
<1>5. OpensAlone /\ OpensNew /\ OpenIsOpen /\ ClosedIsClosed
  BY <1>1 DEF OpensAlone, OpensNew, OpenIsOpen, ClosedIsClosed
<1>6. OpenSettles /\ CloseSettles
  BY DEF Init, OpenSettles, CloseSettles
<1> QED BY <1>2, <1>3, <1>4, <1>5, <1>6 DEF ConnInv

\* The stack's shape, which the connections rest on, in every reachable state.
LEMMA ShapeKept == Spec => []StackShape
<1>1. Init => StackShape /\ HeldJobsExist
  BY DEF Init, StackShape, HeldJobsExist
<1>2. TypeOK /\ JobAccounting /\ (StackShape /\ HeldJobsExist) /\ [Next]_vars
         => (StackShape /\ HeldJobsExist)'
  BY HeldStep
<1>3. Spec => [](StackShape /\ HeldJobsExist)
  BY <1>1, <1>2, TypeCorrect, JobsAccounted, PTL DEF Spec
<1> QED BY <1>3, PTL

\* The inductive invariant of the connections holds in every reachable state.
LEMMA ConnAlways == Spec => [](CallsInv /\ ConnInv)
<1>1. Init => CallsInv /\ ConnInv
  BY ConnInit
<1>2. TypeOK /\ JobAccounting /\ HeldJobsExist /\ StackShape /\ (CallsInv /\ ConnInv)
         /\ [Next]_vars => (CallsInv /\ ConnInv)'
  BY ConnStep
<1> QED BY <1>1, <1>2, TypeCorrect, JobsAccounted, HeldJobs, ShapeKept, PTL DEF Spec

\* While no connect or disconnect is in progress, a connection is open for the
\* scripts (m_ConnectionTypeMap) exactly if the service thread has it open
\* (m_HandleConnectionMap), whatever handlers do in the middle of others.
THEOREM ConnectionsKept == Spec => []ConnectionsAgree
<1>1. TypeOK /\ HeldJobsExist /\ ConnInv => ConnectionsAgree
  <2>1. SUFFICES ASSUME TypeOK, HeldJobsExist, ConnInv, ~Connecting PROVE typeMap = connMap
    BY DEF ConnectionsAgree
  <2>2. Awaited = {}
    <3>1. \A i \in 1..Len(stack) : Waits(stack[i], job) => stack[i].job \in Awaited
      BY <2>1, AwaitedJobs
    <3>2. \A i \in 1..Len(stack) : ~Waits(stack[i], job)
      <4>1. \A j \in Awaited : j # NoJob
        BY <2>1, AwaitedJobs, NoJobAssumption DEF NoJob
      <4> QED BY <2>1, <3>1, <4>1 DEF Connecting, Waits, Dials
    <3> QED BY <3>2 DEF Awaited
  <2> QED BY <2>1, <2>2 DEF ConnInv, OpenSettles, CloseSettles
<1> QED BY <1>1, ConnAlways, TypeCorrect, HeldJobs, PTL

-----------------------------------------------------------------------------
(* Without re-entrant handlers the main thread does nothing while it waits. *)

\* A call during which only the service thread runs; the calls on top of which
\* scripts and the server start others; and the end of the queue.
Blocks(f) == f.call \in {"poll", "polled", "exec", "query"}
Idle == stack = <<>> \/ Top.call \in {"callback", "warning", "flush", "shutdown"}
Over == Running("stop") \/ Running("gone")

BlocksOnTop == \A i \in 1..Len(stack) : Blocks(stack[i]) => i = Len(stack)

\* Nothing is queued behind a disconnect; queued queries have their connection;
\* and nothing is started once the service thread has been told to stop.
DisconnectLast == \A i \in 1..Len(cmdQ) : job[cmdQ[i]].kind = "DISCONNECT" => i = Len(cmdQ)
QueriesConnected == \A j \in Elems(cmdQ) : job[j].kind = "QUERY" => job[j].conn \in connMap
StopsLast == terminate => Over

PlainInv == /\ BlocksOnTop /\ PollAsserts /\ DisconnectLast
            /\ QueriesConnected /\ QueriesReachTheirConnection
            /\ StopsLast /\ ShutdownDrains

\* What a step does to the stack.
NotDone(d) == ~d.ignore /\ d.stage # "FINISHED"
Stays == stack' = stack /\ (Running("poll") => \A j \in Jobs : NotDone(job[j]) => NotDone(job'[j]))
Returns == stack # <<>> /\ ~Over /\ Return
Becomes == /\ stack # <<>>
           /\ \E f \in Frames : /\ Become(f) /\ f.call # "poll"
                                /\ Over => f.call = "gone"
BecomesTwo == /\ stack # <<>> /\ ~Over
              /\ \E f, g \in Frames : /\ stack' = Append(Append(Caller, f), g)
                                      /\ ~Blocks(f) /\ g.call # "poll"
Starts == /\ Idle
          /\ \E f \in Frames : Push(f) /\ (f.call = "poll" => NotDone(job'[f.job]))
StackMoves == Stays \/ Returns \/ Becomes \/ BecomesTwo \/ Starts

\* What it does to the command queue and to the live jobs.
Adds == /\ Idle /\ UNCHANGED connMap
        /\ \E j, kind, c, flushes : /\ AddCommand(j, kind, c, flushes)
                                    /\ kind = "QUERY" => c \in connMap
Pops == cmdQ # <<>> /\ cmdQ' = Tail(cmdQ) /\ UNCHANGED connMap
QueueMoves == Adds \/ Pops \/ (UNCHANGED <<cmdQ, connMap>>) \/ WorkerProcesses
LiveJobsKeep == /\ \A j \in active' : j \in active \/ job'[j].status = "NONE"
                /\ \A j \in active \cap active' :
                      /\ job'[j].kind = job[j].kind /\ job'[j].conn = job[j].conn
                      /\ job'[j].status = job[j].status \/ WorkerProcesses

\* Adding a command, for the three of them.
LEMMA AddMoves ==
    ASSUME TypeOK, JobAccounting, HeldJobsExist, Idle, UNCHANGED connMap,
           NEW j, NEW kind, NEW c, NEW flushes, AddCommand(j, kind, c, flushes),
           kind = "QUERY" => c \in connMap,
           \/ stack' = stack
           \/ \E call \in {"exec", "query", "poll"}, forever \in BOOLEAN :
                 Push(Frame(call, j, forever))
    PROVE  StackMoves /\ QueueMoves /\ LiveJobsKeep
<1>1. /\ j \in Jobs /\ job'[j].status = "NONE"
      /\ \A k \in active : job'[k] = job[k]
  BY AddedJob
<1>2. NotDone(job'[j])
  BY DEF AddCommand, TypeOK, NewJob, NotDone
<1>3. QueueMoves
  BY DEF QueueMoves, Adds
<1>4. LiveJobsKeep
  <2>1. active' = active \cup {j}
    BY DEF AddCommand
  <2> QED BY <1>1, <2>1 DEF LiveJobsKeep
<1>5. CASE stack' = stack
  <2>1. ~Running("poll")
    BY DEF Idle, Running
  <2> QED BY <1>3, <1>4, <1>5, <2>1 DEF StackMoves, Stays
<1>6. ASSUME NEW call \in {"exec", "query", "poll"}, NEW forever \in BOOLEAN,
             Push(Frame(call, j, forever))
      PROVE  StackMoves
  <2>1. Frame(call, j, forever) \in Frames /\ Frame(call, j, forever).job = j
    BY <1>1, FrameType DEF JobCalls, Frame
  <2> QED BY <1>2, <1>6, <2>1 DEF StackMoves, Starts
<1> QED BY <1>3, <1>4, <1>5, <1>6

\* Every step does one of these things.
LEMMA PlainMoves ==
    ASSUME ~Reentrant, TypeOK, JobAccounting, HeldJobsExist, [Next]_vars
    PROVE  StackMoves /\ QueueMoves /\ LiveJobsKeep
<1>1. ~HandlerRuns
  BY DEF HandlerRuns
<1>2. ASSUME JobsKeptBy, active' = active PROVE LiveJobsKeep
  <2>1. \A j \in Jobs : Kept(j)
    BY <1>2, JobsKept
  <2> QED BY <1>2, <2>1 DEF LiveJobsKeep, Kept, TypeOK
<1>3. ASSUME UNCHANGED <<cmdQ, connMap>> PROVE QueueMoves
  BY <1>3 DEF QueueMoves
<1>4. CASE FinishExec \/ FinishQuery \/ PollTimesOut \/ PollReturns \/ ScriptReturns
  <2>1. Returns /\ UNCHANGED <<cmdQ, connMap>> /\ active' = active
    BY <1>4 DEF Returns, Over, FinishExec, FinishQuery, PollTimesOut, PollReturns, ScriptReturns,
                Running, shared, mainVars
  <2>2. JobsKeptBy
    BY <1>4 DEF JobsKeptBy, PollTimesOut, ScriptReturns
  <2> QED BY <1>2, <1>3, <2>1, <2>2 DEF StackMoves
<1>5. CASE PollTakes
  <2>1. /\ stack # <<>> /\ Top.call = "poll" /\ Become(Frame("polled", Top.job, FALSE))
        /\ UNCHANGED <<cmdQ, connMap>> /\ active' = active
    BY <1>1, <1>5 DEF PollTakes, Running
  <2>2. Top.job \in Jobs
    BY <2>1, StackOfCalls DEF JobCalls
  <2>3. /\ Frame("polled", Top.job, FALSE) \in Frames
        /\ Frame("polled", Top.job, FALSE).call = "polled"
    BY <2>2, FrameType DEF JobCalls, Frame
  <2>4. StackMoves
    BY <2>1, <2>3 DEF StackMoves, Becomes, Over, Running
  <2>5. JobsKeptBy
    BY <1>5 DEF JobsKeptBy
  <2> QED BY <1>2, <1>3, <2>1, <2>4, <2>5
<1>6. ~PollWarns /\ ~PollReportsError
  BY <1>1 DEF PollWarns, PollReportsError
<1>7. CASE DbPoll
  <2>1. PICK j \in Jobs, forever \in BOOLEAN :
           /\ job[j].stage # "FINISHED" /\ ~job[j].ignore
           /\ Push(Frame("poll", j, forever))
    BY <1>7 DEF DbPoll
  <2>2. Idle /\ job' = job /\ UNCHANGED <<cmdQ, connMap>> /\ active' = active
    BY <1>7 DEF DbPoll, ScriptRuns, Running, Idle, shared, mainVars
  <2>3. Frame("poll", j, forever) \in Frames /\ Frame("poll", j, forever).job = j
    BY FrameType DEF JobCalls, Frame
  <2>4. StackMoves
    BY <2>1, <2>2, <2>3 DEF StackMoves, Starts, NotDone
  <2> QED BY <1>2, <1>3, <2>2, <2>4 DEF JobsKeptBy
<1>8. CASE PulseBegins \/ Shutdown
  <2>1. PICK call \in {"flush", "shutdown"} : Push(Simple(call))
    BY <1>8 DEF PulseBegins, Shutdown
  <2>2. Idle /\ job' = job /\ UNCHANGED <<cmdQ, connMap>> /\ active' = active
    BY <1>8 DEF PulseBegins, Shutdown, Idle, shared, mainVars
  <2>3. Simple(call) \in Frames /\ Simple(call).call # "poll"
    BY FrameType DEF PlainCalls, Simple, Frame
  <2>4. StackMoves
    BY <2>1, <2>2, <2>3 DEF StackMoves, Starts
  <2> QED BY <1>2, <1>3, <2>2, <2>4 DEF JobsKeptBy
<1>9. CASE PulseLocks \/ ShutdownStops \/ ShutdownEnds
  <2>1. PICK call \in {"again", "stop", "gone"} :
           Become(Simple(call)) /\ (Over => call = "gone") /\ stack # <<>>
    BY <1>9 DEF PulseLocks, ShutdownStops, ShutdownEnds, Over, Running
  <2>2. job' = job /\ UNCHANGED <<cmdQ, connMap>> /\ active' = active
    BY <1>9 DEF PulseLocks, ShutdownStops, ShutdownEnds, shared, mainVars
  <2>3. Simple(call) \in Frames /\ Simple(call).call = call
    BY FrameType DEF PlainCalls, Simple, Frame
  <2>4. StackMoves
    BY <2>1, <2>3 DEF StackMoves, Becomes
  <2> QED BY <1>2, <1>3, <2>2, <2>4 DEF JobsKeptBy
<1>10. CASE PulseDeletes
  <2>1. /\ stack # <<>> /\ ~Over /\ Become(Simple("scan")) /\ UNCHANGED <<cmdQ, connMap>>
        /\ active' = active \ finished
        /\ job' = [j \in Jobs |-> IF j \in finished THEN NoData ELSE job[j]]
    BY <1>10 DEF PulseDeletes, Running, Over, shared
  <2>2. Simple("scan") \in Frames /\ Simple("scan").call = "scan"
    BY FrameType DEF PlainCalls, Simple, Frame
  <2>3. StackMoves
    BY <2>1, <2>2 DEF StackMoves, Becomes
  <2>4. LiveJobsKeep
    BY <2>1 DEF LiveJobsKeep, TypeOK
  <2> QED BY <1>3, <2>1, <2>3, <2>4
<1>11. CASE PulseScans
  <2>1. PICK i \in 1..Len(resQ) :
          \/ stack' = Append(Append(Caller, Simple("again")), Frame("callback", resQ[i], FALSE))
          \/ Become(Simple("again"))
          \/ stack' = stack
    BY <1>1, <1>11, ZenonT(60) DEF PulseScans
  <2>2. /\ stack # <<>> /\ ~Over /\ ~Running("poll") /\ UNCHANGED <<cmdQ, connMap>>
        /\ active' = active
    BY <1>11 DEF PulseScans, Running, Over
  <2>3. resQ[i] \in Jobs
    BY ElemsType DEF TypeOK, Elems
  <2>4. /\ Simple("again") \in Frames /\ Simple("again").call = "again"
        /\ Frame("callback", resQ[i], FALSE) \in Frames
        /\ Frame("callback", resQ[i], FALSE).call = "callback"
    BY <2>3, FrameType DEF PlainCalls, JobCalls, Simple, Frame
  <2>5. StackMoves
    BY <2>1, <2>2, <2>4 DEF StackMoves, BecomesTwo, Becomes, Stays, Blocks
  <2>6. JobsKeptBy
    BY <1>11 DEF JobsKeptBy
  <2> QED BY <1>2, <1>3, <2>2, <2>5, <2>6
<1>12. CASE PulseEnds
  <2>1. Returns /\ job' = job /\ UNCHANGED <<cmdQ, connMap>> /\ active' = active
    BY <1>1, <1>12 DEF PulseEnds, Returns, Over, Running, shared, mainVars
  <2> QED BY <1>2, <1>3, <2>1 DEF StackMoves, JobsKeptBy
<1>13. CASE PulseFlushes
  <2>1. PICK c \in pendingFlush, j \in Jobs :
           AddCommand(j, "FLUSH", c, pendingFlush \ {c}) /\ Push(Frame("exec", j, FALSE))
    BY <1>13 DEF PulseFlushes
  <2>2. Idle /\ UNCHANGED connMap
    BY <1>13 DEF PulseFlushes, Running, Idle
  <2>3. PICK flushes : flushes = pendingFlush \ {c}
    OBVIOUS
  <2>4. AddCommand(j, "FLUSH", c, flushes)
    BY <2>1, <2>3
  <2>5. \E call \in {"exec", "query", "poll"}, forever \in BOOLEAN : Push(Frame(call, j, forever))
    BY <2>1
  <2> QED BY <2>2, <2>4, <2>5, AddMoves
<1>14. CASE SetLogLevel
  <2>1. PICK j \in Jobs :
           AddCommand(j, "SETLOGLEVEL", 0, pendingFlush) /\ Push(Frame("exec", j, FALSE))
    BY <1>14 DEF SetLogLevel
  <2>2. Idle /\ UNCHANGED connMap
    BY <1>14 DEF SetLogLevel, ScriptRuns, Running, Idle
  <2> QED BY <2>1, <2>2, AddMoves
<1>15. CASE Connect
  <2>1. PICK j \in Jobs : /\ AddCommand(j, "CONNECT", handles + 1, pendingFlush)
                          /\ Push(Frame("poll", j, TRUE))
    BY <1>15 DEF Connect
  <2>2. Idle /\ UNCHANGED connMap
    BY <1>15 DEF Connect, ScriptRuns, Running, Idle
  <2> QED BY <2>1, <2>2, AddMoves
<1>16. ASSUME NEW c \in Conns, StartDisconnect(c), Idle
       PROVE  StackMoves /\ QueueMoves /\ LiveJobsKeep
  <2>1. CASE c \in connMap
    <3>1. PICK j \in Jobs : /\ AddCommand(j, "DISCONNECT", c, pendingFlush)
                            /\ Push(Frame("poll", j, TRUE))
      BY <1>16, <2>1 DEF StartDisconnect
    <3>2. UNCHANGED connMap
      BY <1>16 DEF StartDisconnect
    <3> QED BY <1>16, <3>1, <3>2, AddMoves
  <2>2. CASE c \notin connMap
    <3>1. UNCHANGED <<cmdQ, connMap, active, job, stack>>
      BY <1>16, <2>2 DEF StartDisconnect
    <3>2. StackMoves
      BY <3>1 DEF StackMoves, Stays
    <3> QED BY <1>2, <1>3, <3>1, <3>2 DEF JobsKeptBy
  <2> QED BY <2>1, <2>2
<1>17. CASE Disconnect \/ ShutdownDisconnects
  <2>1. Idle /\ \E c \in Conns : StartDisconnect(c)
    BY <1>17 DEF Disconnect, ShutdownDisconnects, ScriptRuns, Running, Idle
  <2> QED BY <1>16, <2>1
<1>18. ASSUME NEW c \in Conns, NEW call \in {"none", "exec", "query"}, StartQuery(c, call), Idle
       PROVE  StackMoves /\ QueueMoves /\ LiveJobsKeep
  <2>1. PICK j \in Jobs : /\ AddCommand(j, "QUERY", c, pendingFlush)
                          /\ IF call = "none" THEN UNCHANGED stack
                             ELSE Push(Frame(call, j, FALSE))
    BY <1>18 DEF StartQuery
  <2>2. c \in connMap /\ UNCHANGED connMap
    BY <1>18 DEF StartQuery
  <2>3. \/ stack' = stack
        \/ \E k \in {"exec", "query", "poll"}, forever \in BOOLEAN : Push(Frame(k, j, forever))
    BY <2>1
  <2> QED BY <1>18, <2>1, <2>2, <2>3, AddMoves
<1>19. CASE DbExec \/ DbQuery \/ DbQueryWithCallback
  <2>1. Idle /\ \E c \in Conns, call \in {"none", "exec", "query"} : StartQuery(c, call)
    BY <1>19 DEF DbExec, DbQuery, DbQueryWithCallback, ScriptRuns, Running, Idle
  <2> QED BY <1>18, <2>1
<1>20. CASE DbFree
  <2>1. /\ stack' = stack /\ ~Running("poll") /\ UNCHANGED <<cmdQ, connMap>>
        /\ active' = active
    BY <1>20 DEF DbFree, ScriptRuns, Running, shared, mainVars
  <2>2. StackMoves
    BY <2>1 DEF StackMoves, Stays
  <2> QED BY <1>2, <1>3, <1>20, <2>1, <2>2 DEF JobsKeptBy
<1>21. CASE WorkerTakes \/ WorkerStores \/ WorkerProcesses
  <2>1. stack' = stack /\ active' = active
    BY <1>21 DEF WorkerTakes, WorkerStores, WorkerProcesses, mainVars
  <2>2. ASSUME NEW j \in Jobs, NotDone(job[j]) PROVE NotDone(job'[j])
    <3>1. job[j] \in JobData
      BY DEF TypeOK
    <3>2. CASE WorkerTakes
      <4>1. job'[j] = job[j] \/ job'[j] = [job[j] EXCEPT !.stage = "PROCESSING"]
        BY <3>2 DEF WorkerTakes, TypeOK
      <4> QED BY <2>2, <3>1, <4>1 DEF NotDone, JobData
    <3>3. CASE WorkerStores
      <4>1. job'[j] = job[j] \/ job'[j] = [job[j] EXCEPT !.stage = "RESULT"]
        BY <3>3 DEF WorkerStores, TypeOK
      <4> QED BY <2>2, <3>1, <4>1 DEF NotDone, JobData
    <3>4. CASE WorkerProcesses
      <4>1. PICK s : job' = [job EXCEPT ![worker.job].status = s]
        BY <3>4 DEF WorkerProcesses
      <4>2. job'[j] = job[j] \/ job'[j] = [job[j] EXCEPT !.status = s]
        BY <4>1 DEF TypeOK
      <4> QED BY <2>2, <3>1, <4>2 DEF NotDone, JobData
    <3> QED BY <1>21, <3>2, <3>3, <3>4
  <2>3. StackMoves
    BY <2>1, <2>2 DEF StackMoves, Stays
  <2>4. CASE WorkerProcesses
    <3>1. \A j \in Jobs : job'[j].kind = job[j].kind /\ job'[j].conn = job[j].conn
      <4>1. PICK s : job' = [job EXCEPT ![worker.job].status = s]
        BY <2>4 DEF WorkerProcesses
      <4> QED BY <4>1 DEF TypeOK, JobData
    <3>2. LiveJobsKeep
      BY <2>1, <2>4, <3>1 DEF LiveJobsKeep, TypeOK
    <3> QED BY <2>3, <2>4, <3>2 DEF QueueMoves
  <2>5. CASE WorkerTakes
    BY <1>2, <1>3, <2>1, <2>3, <2>5 DEF WorkerTakes, shared, JobsKeptBy
  <2>6. CASE WorkerStores
    <3>1. QueueMoves
      BY <2>6 DEF WorkerStores, QueueMoves, Pops
    <3> QED BY <1>2, <2>1, <2>3, <2>6, <3>1 DEF JobsKeptBy
  <2> QED BY <1>21, <2>4, <2>5, <2>6
<1>22. CASE WorkerExits \/ UNCHANGED vars \/ Gone
  <2>1. UNCHANGED <<cmdQ, connMap, active, job, stack>>
    BY <1>22 DEF WorkerExits, Gone, vars, shared, mainVars
  <2>2. StackMoves
    BY <2>1 DEF StackMoves, Stays
  <2> QED BY <1>2, <1>3, <2>1, <2>2 DEF JobsKeptBy
<1> QED
  BY <1>4, <1>5, <1>6, <1>7, <1>8, <1>9, <1>10, <1>11, <1>12, <1>13, <1>14, <1>15,
     <1>17, <1>19, <1>20, <1>21, <1>22
  DEF Next, Worker, Proceed, Script, Destroy

\* A step leaves at most the top of the stack blocking, and never a poll that
\* has lost its result.
LEMMA PlainStack ==
    ASSUME TypeOK, BlocksOnTop, PollAsserts, StackMoves
    PROVE  BlocksOnTop' /\ PollAsserts'
<1>1. ASSUME stack' = <<>> \/ ~Blocks(stack'[Len(stack')]) \/ stack'[Len(stack')].call # "poll"
      PROVE  PollAsserts'
  BY <1>1 DEF PollAsserts, Running, Top, Blocks
<1>2. Len(stack) \in Nat /\ \A i \in 1..(Len(stack) - 1) : ~Blocks(stack[i])
  BY LenProperties DEF BlocksOnTop, TypeOK
<1>3. CASE Stays
  <2>1. BlocksOnTop'
    BY <1>3 DEF Stays, BlocksOnTop, Blocks
  <2>2. PollAsserts'
    <3>1. SUFFICES ASSUME Running("poll") PROVE NotDone(job'[Top.job])
      BY <1>3 DEF Stays, PollAsserts, Running, Top, NotDone
    <3>2. Top.job \in Jobs /\ NotDone(job[Top.job])
      BY <3>1, StackOfCalls DEF Running, JobCalls, PollAsserts, NotDone
    <3> QED BY <1>3, <3>1, <3>2 DEF Stays
  <2> QED BY <2>1, <2>2
<1>4. CASE Returns
  <2>1. /\ Len(stack) \in Nat \ {0} /\ Len(stack') = Len(stack) - 1
        /\ \A i \in 1..(Len(stack) - 1) : stack'[i] = stack[i]
    BY <1>4, StackOfCalls DEF Returns, Return
  <2>2. \A i \in 1..Len(stack') : ~Blocks(stack'[i])
    BY <1>2, <2>1
  <2>3. stack' = <<>> \/ Len(stack') \in 1..Len(stack')
    <3>1. stack' \in Seq(Frames)
      BY <1>4, StackOfCalls DEF Returns, Return
    <3> QED BY <3>1, EmptySeq, LenProperties
  <2> QED BY <1>1, <2>2, <2>3 DEF BlocksOnTop, Blocks
<1>5. CASE Becomes
  <2>1. PICK f \in Frames : /\ Become(f) /\ f.call # "poll"
                            /\ Over => f.call = "gone"
    BY <1>5, Zenon DEF Becomes
  <2>2. /\ Len(stack) \in Nat \ {0} /\ Len(stack') = Len(stack)
        /\ stack'[Len(stack)] = f
        /\ \A i \in 1..(Len(stack) - 1) : stack'[i] = stack[i]
    BY <1>5, <2>1, StackOfCalls DEF Becomes, Become
  <2>3. \A i \in 1..Len(stack') : i = Len(stack') \/ ~Blocks(stack'[i])
    BY <1>2, <2>2
  <2> QED BY <1>1, <2>1, <2>2, <2>3 DEF BlocksOnTop, Blocks
<1>6. CASE BecomesTwo
  <2>1. PICK f \in Frames, g \in Frames :
           /\ stack' = Append(Append(Caller, f), g)
           /\ ~Blocks(f) /\ g.call # "poll"
    BY <1>6 DEF BecomesTwo
  <2> DEFINE s == Append(Caller, f)
  <2>2. /\ Len(stack) \in Nat \ {0} /\ s \in Seq(Frames) /\ Len(s) = Len(stack)
        /\ s[Len(stack)] = f
        /\ \A i \in 1..(Len(stack) - 1) : s[i] = stack[i]
    BY <1>6, StackOfCalls DEF BecomesTwo
  <2> HIDE DEF s
  <2>3. /\ Len(Append(s, g)) = Len(s) + 1 /\ Append(s, g)[Len(s) + 1] = g
        /\ \A i \in 1..Len(s) : Append(s, g)[i] = s[i]
    BY <2>2, AppendProperties
  <2>4. /\ Len(stack') = Len(stack) + 1 /\ stack'[Len(stack) + 1] = g
        /\ \A i \in 1..Len(stack) : stack'[i] = s[i]
    BY <2>1, <2>2, <2>3 DEF s
  <2>5. \A i \in 1..Len(stack') : i = Len(stack') \/ ~Blocks(stack'[i])
    <3>1. \A i \in 1..Len(stack') :
             i = Len(stack') \/ i = Len(stack) \/ i \in 1..(Len(stack) - 1)
      BY <2>2, <2>4
    <3>2. Len(stack) \in 1..Len(stack)
          /\ \A i \in 1..(Len(stack) - 1) : i \in 1..Len(stack)
      BY <2>2
    <3> QED BY <1>2, <2>1, <2>2, <2>4, <3>1, <3>2
  <2> QED BY <1>1, <2>1, <2>4, <2>5 DEF BlocksOnTop, Blocks
<1>7. CASE Starts
  <2>1. PICK f \in Frames : Push(f) /\ (f.call = "poll" => NotDone(job'[f.job]))
    BY <1>7 DEF Starts
  <2>2. /\ Len(stack') = Len(stack) + 1 /\ stack'[Len(stack) + 1] = f
        /\ \A i \in 1..Len(stack) : stack'[i] = stack[i]
    BY <2>1, StackOfCalls DEF Push
  <2>3. \A i \in 1..Len(stack) : ~Blocks(stack[i])
    <3>1. stack = <<>> => Len(stack) = 0
      OBVIOUS
    <3>2. stack # <<>> => ~Blocks(stack[Len(stack)])
      BY <1>7 DEF Starts, Idle, Blocks, Top
    <3> QED BY <1>2, <3>1, <3>2
  <2>4. \A i \in 1..Len(stack') : i = Len(stack') \/ ~Blocks(stack'[i])
    <3>1. \A i \in 1..Len(stack') : i = Len(stack') \/ i \in 1..Len(stack)
      BY <1>2, <2>2
    <3> QED BY <2>2, <2>3, <3>1
  <2>5. PollAsserts'
    BY <2>1, <2>2 DEF PollAsserts, Running, Top, NotDone
  <2> QED BY <2>4, <2>5 DEF BlocksOnTop, Blocks
<1> QED BY <1>3, <1>4, <1>5, <1>6, <1>7 DEF StackMoves

\* While a connect or disconnect is queued or processed, the main thread waits for
\* just that one.
LEMMA DialBlocks ==
    ASSUME TypeOK, JobAccounting, HeldJobsExist, ConnInv, BlocksOnTop,
           NEW j \in Elems(cmdQ) \cup Elems(resQ), Dials(job[j])
    PROVE  Running("poll") /\ Top.job = j
<1>1. j \in Awaited
  BY DEF ConnInv, DialsAwaited
<1>2. PICK i \in 1..Len(stack) : Waits(stack[i], job) /\ stack[i].job = j
  BY <1>1 DEF Awaited
<1>3. i = Len(stack)
  BY <1>2 DEF BlocksOnTop, Blocks, Waits
<1>4. stack[i].call # "polled"
  <2>1. j \notin finished
    BY QueuedJobs
  <2> QED BY <1>2, <2>1 DEF HeldJobsExist
<1>5. stack # <<>>
  OBVIOUS
<1> QED BY <1>2, <1>3, <1>4, <1>5 DEF Running, Top, Waits

\* Popping the command queue brings no job into it.
LEMMA PoppedQueue ==
    ASSUME TypeOK, JobAccounting, cmdQ' = cmdQ \/ (cmdQ # <<>> /\ cmdQ' = Tail(cmdQ))
    PROVE  \A j \in Elems(cmdQ') : j \in Elems(cmdQ)
<1>1. CASE cmdQ' = cmdQ
  BY <1>1
<1>2. CASE cmdQ # <<>> /\ cmdQ' = Tail(cmdQ)
  <2>1. Elems(Tail(cmdQ)) = Elems(cmdQ) \ {Head(cmdQ)}
    BY <1>2, TailOfQueue DEF TypeOK, JobAccounting
  <2> QED BY <1>2, <2>1
<1> QED BY <1>1, <1>2

\* No step queues anything behind a disconnect, so no query loses its connection.
LEMMA PlainQueue ==
    ASSUME TypeOK, TypeOK', JobAccounting, JobAccounting', HeldJobsExist, ConnInv, PlainInv,
           QueueMoves, LiveJobsKeep
    PROVE  DisconnectLast' /\ QueriesConnected' /\ QueriesReachTheirConnection'
<1>0. BlocksOnTop /\ DisconnectLast /\ QueriesConnected /\ QueriesReachTheirConnection
  BY DEF PlainInv
<1>1. /\ \A j \in Elems(cmdQ) : j \in active /\ j \in Jobs
      /\ \A j \in Elems(cmdQ') : j \in active'
  BY QueuedJobs DEF JobAccounting
<1>2. Len(cmdQ) \in Nat /\ \A i \in 1..Len(cmdQ) : cmdQ[i] \in Elems(cmdQ)
  BY LenProperties DEF TypeOK, Elems
<1>3. CASE Adds
  <2>1. PICK j, kind, c, flushes : /\ AddCommand(j, kind, c, flushes)
                                   /\ kind = "QUERY" => c \in connMap
    BY <1>3, Zenon DEF Adds
  <2>2. /\ j \in Jobs /\ j \notin active
        /\ job'[j].kind = kind /\ job'[j].conn = c /\ job'[j].status = "NONE"
        /\ \A k \in active : job'[k] = job[k]
        /\ \A k \in Elems(cmdQ') : k = j \/ k \in Elems(cmdQ)
    BY <2>1, AddedJob
  <2>3. \A k \in Elems(cmdQ) : job[k].kind # "DISCONNECT"
    BY <1>0, <1>3, DialBlocks DEF Adds, Idle, Running, Dials
  <2>4. /\ Len(cmdQ') = Len(cmdQ) + 1
        /\ \A i \in 1..Len(cmdQ) : cmdQ'[i] = cmdQ[i]
    BY <2>1, <2>2, AppendProperties DEF AddCommand, TypeOK
  <2>5. DisconnectLast'
    <3>1. \A i \in 1..Len(cmdQ') : i = Len(cmdQ') \/ i \in 1..Len(cmdQ)
      BY <1>2, <2>4
    <3> QED BY <1>1, <1>2, <2>2, <2>3, <2>4, <3>1 DEF DisconnectLast
  <2>6. QueriesConnected'
    BY <1>0, <1>1, <1>3, <2>1, <2>2 DEF QueriesConnected, Adds
  <2>7. QueriesReachTheirConnection'
    <3>1. active' = active \cup {j}
      BY <2>1 DEF AddCommand
    <3> QED BY <1>0, <2>2, <3>1 DEF QueriesReachTheirConnection
  <2> QED BY <2>5, <2>6, <2>7
<1>4. ASSUME ~WorkerProcesses, UNCHANGED connMap, cmdQ' = cmdQ \/ (cmdQ # <<>> /\ cmdQ' = Tail(cmdQ))
      PROVE  DisconnectLast' /\ QueriesConnected' /\ QueriesReachTheirConnection'
  <2>1. \A j \in Elems(cmdQ') : j \in Elems(cmdQ)
    BY <1>4, PoppedQueue
  <2>2. \A j \in Elems(cmdQ') : job'[j].kind = job[j].kind /\ job'[j].conn = job[j].conn
    BY <1>1, <2>1 DEF LiveJobsKeep
  <2>3. \A i \in 1..Len(cmdQ') : cmdQ'[i] \in Elems(cmdQ')
    BY DEF Elems
  <2>4. DisconnectLast'
    <3>1. CASE cmdQ' = cmdQ
      BY <1>0, <2>2, <2>3, <3>1 DEF DisconnectLast
    <3>2. CASE cmdQ # <<>> /\ cmdQ' = Tail(cmdQ)
      <4>1. /\ Len(cmdQ') = Len(cmdQ) - 1 /\ Len(cmdQ) > 0
            /\ \A i \in 1..Len(cmdQ') : cmdQ'[i] = cmdQ[i + 1]
        BY <1>2, <3>2, HeadTailProperties, EmptySeq DEF TypeOK
      <4>2. \A i \in 1..Len(cmdQ') : i + 1 \in 1..Len(cmdQ) /\ (i + 1 = Len(cmdQ) => i = Len(cmdQ'))
        BY <1>2, <4>1
      <4> QED BY <1>0, <2>2, <2>3, <4>1, <4>2 DEF DisconnectLast
    <3> QED BY <1>4, <3>1, <3>2
  <2>5. QueriesConnected'
    BY <1>0, <1>4, <2>1, <2>2 DEF QueriesConnected
  <2>6. QueriesReachTheirConnection'
    <3>1. \A j \in active' : \/ job'[j].status = "NONE"
                             \/ /\ j \in active /\ job'[j].kind = job[j].kind
                                /\ job'[j].status = job[j].status
      BY <1>4 DEF LiveJobsKeep
    <3> QED BY <1>0, <3>1 DEF QueriesReachTheirConnection
  <2> QED BY <2>4, <2>5, <2>6
<1>5. CASE WorkerProcesses
  <2>0. PICK j : j = worker.job
    OBVIOUS
  <2>1. PICK o \in Outcomes(job[j]) :
           job' = [job EXCEPT ![j].status = o.status] /\ connMap' = o.conns
    BY <1>5, <2>0 DEF WorkerProcesses
  <2>2. /\ cmdQ' = cmdQ /\ active' = active
        /\ cmdQ # <<>> /\ j = Head(cmdQ) /\ j \in Jobs /\ j \in Elems(cmdQ)
    <3>1. worker.pc = "busy" /\ cmdQ' = cmdQ /\ active' = active
      BY <1>5 DEF WorkerProcesses, mainVars
    <3>2. j \in Jobs /\ j \in Elems(cmdQ)
      BY <2>0, <3>1, QueuedJobs
    <3> QED BY <2>0, <3>1, <3>2, NoJobAssumption DEF JobAccounting, NoJob
  <2>3. /\ job'[j].status = o.status
        /\ \A k \in Jobs : job'[k].kind = job[k].kind /\ job'[k].conn = job[k].conn
        /\ \A k \in Jobs : k # j => job'[k] = job[k]
    BY <2>1, <2>2 DEF TypeOK, JobData
  <2>4. DisconnectLast'
    BY <1>0, <1>1, <1>2, <2>2, <2>3 DEF DisconnectLast
  <2>5. job[j].kind = "DISCONNECT" => Elems(cmdQ) = {j}
    <3>1. SUFFICES ASSUME job[j].kind = "DISCONNECT" PROVE Elems(cmdQ) = {j}
      OBVIOUS
    <3>2. cmdQ[1] = j /\ 1 \in 1..Len(cmdQ)
      BY <1>2, <2>2, EmptySeq, HeadTailProperties DEF TypeOK
    <3>3. Len(cmdQ) = 1
      BY <1>0, <3>1, <3>2 DEF DisconnectLast
    <3> QED BY <3>2, <3>3 DEF Elems
  <2>6. \A c \in connMap : c \in connMap' \/ job[j].kind = "DISCONNECT"
    BY <2>1 DEF Outcomes
  <2>7. QueriesConnected'
    BY <1>0, <1>1, <2>2, <2>3, <2>5, <2>6 DEF QueriesConnected
  <2>8. QueriesReachTheirConnection'
    <3>1. job[j].kind = "QUERY" => o.status # "INVALID"
      BY <1>0, <2>1, <2>2 DEF QueriesConnected, Outcomes
    <3> QED BY <1>0, <2>2, <2>3, <3>1 DEF QueriesReachTheirConnection, TypeOK
  <2> QED BY <2>4, <2>7, <2>8
<1> QED BY <1>3, <1>4, <1>5 DEF QueueMoves, Pops

\* The service thread is told to stop when the queue holds no query any more, and
\* none comes after that.
LEMMA PlainEnd ==
    ASSUME TypeOK, TypeOK', JobAccounting, JobAccounting', HeldJobsExist, ConnInv, PlainInv,
           [Next]_vars, StackMoves, QueueMoves, LiveJobsKeep
    PROVE  StopsLast' /\ ShutdownDrains'
<1>1. terminate' = terminate \/ ShutdownStops
  BY DEF Next, Worker, WorkerTakes, WorkerProcesses, WorkerStores, WorkerExits, Proceed, FinishExec,
         FinishQuery, PollTakes, PollTimesOut, PollReturns, PulseFlushes, PulseLocks, PulseDeletes,
         PulseScans, PulseEnds, PollWarns, PollReportsError, PulseBegins, ScriptReturns, Script, Connect, Disconnect,
         DbExec, DbQuery, DbQueryWithCallback, DbPoll, DbFree, SetLogLevel, StartDisconnect,
         StartQuery, Destroy, Shutdown, ShutdownDisconnects, ShutdownEnds, Gone, vars, shared
<1>2. /\ \A j \in Elems(cmdQ) : j \in active
      /\ \A j \in Elems(cmdQ') : j \in active'
  BY QueuedJobs DEF JobAccounting
<1>3. CASE ShutdownStops
  <2>1. /\ stack # <<>> /\ Top.call = "shutdown" /\ typeMap = {} /\ Become(Simple("stop"))
        /\ UNCHANGED <<cmdQ, job>>
    BY <1>3 DEF ShutdownStops, Running, mainVars
  <2>2. StopsLast'
    <3>1. Simple("stop") \in Frames /\ Simple("stop").call = "stop"
      BY FrameType DEF PlainCalls, Simple, Frame
    <3>2. stack' # <<>> /\ stack'[Len(stack')].call = "stop"
      BY <2>1, <3>1, StackOfCalls, EmptySeq DEF Become
    <3> QED BY <3>2 DEF StopsLast, Over, Running, Top
  <2>3. Awaited = {}
    BY <2>1 DEF Awaited, Waits, PlainInv, BlocksOnTop, Blocks, Top
  <2>4. connMap = {}
    BY <2>1, <2>3 DEF ConnInv, OpenSettles
  <2>5. \A j \in Elems(cmdQ) : job[j].kind # "QUERY"
    BY <2>4 DEF PlainInv, QueriesConnected
  <2> QED BY <2>1, <2>2, <2>5 DEF ShutdownDrains
<1>4. CASE terminate' = terminate /\ ~terminate
  BY <1>4 DEF StopsLast, ShutdownDrains
<1>5. CASE terminate' = terminate /\ terminate
  <2>1. Over /\ ~Idle /\ \A j \in Elems(cmdQ) : job[j].kind # "QUERY"
    BY <1>5 DEF PlainInv, StopsLast, ShutdownDrains, Over, Idle, Running
  <2>2. Over'
    <3>1. CASE Stays
      BY <2>1, <3>1 DEF Stays, Over, Running, Top
    <3>2. ASSUME NEW f \in Frames, stack # <<>>, Become(f), f.call = "gone" PROVE Over'
      <4>1. stack' # <<>> /\ stack'[Len(stack')] = f
        BY <3>2, StackOfCalls, EmptySeq DEF Become
      <4> QED BY <3>2, <4>1 DEF Over, Running, Top
    <3>3. CASE Becomes
      <4>1. PICK f \in Frames : /\ Become(f) /\ f.call # "poll"
                                /\ Over => f.call = "gone"
        BY <3>3, Zenon DEF Becomes
      <4> QED BY <2>1, <3>2, <3>3, <4>1 DEF Becomes
    <3>4. ~Returns /\ ~BecomesTwo /\ ~Starts
      BY <2>1 DEF Returns, BecomesTwo, Starts
    <3> QED BY <3>1, <3>3, <3>4 DEF StackMoves
  <2>3. \A j \in Elems(cmdQ') : j \in Elems(cmdQ)
    <3>1. cmdQ' = cmdQ \/ (cmdQ # <<>> /\ cmdQ' = Tail(cmdQ))
      BY <2>1 DEF QueueMoves, Adds, Pops, WorkerProcesses
    <3> QED BY <3>1, PoppedQueue
  <2>4. ShutdownDrains'
    BY <1>2, <2>1, <2>3 DEF ShutdownDrains, LiveJobsKeep
  <2> QED BY <2>2, <2>4 DEF StopsLast
<1> QED BY <1>1, <1>3, <1>4, <1>5

\* The inductive invariant of the queue without re-entrant handlers.
LEMMA PlainAlways ==
    ASSUME ~Reentrant
    PROVE  Spec => []PlainInv
<1>1. Init => PlainInv
  BY DEF Init, PlainInv, BlocksOnTop, PollAsserts, Running, DisconnectLast, QueriesConnected,
         QueriesReachTheirConnection, StopsLast, ShutdownDrains, Elems
<1>2. TypeOK /\ TypeOK' /\ JobAccounting /\ JobAccounting' /\ HeldJobsExist /\ ConnInv
         /\ PlainInv /\ [Next]_vars => PlainInv'
  <2>1. SUFFICES ASSUME TypeOK, TypeOK', JobAccounting, JobAccounting', HeldJobsExist, ConnInv,
                        PlainInv, [Next]_vars
                 PROVE  PlainInv'
    OBVIOUS
  <2>2. StackMoves /\ QueueMoves /\ LiveJobsKeep
    BY <2>1, PlainMoves
  <2>3. BlocksOnTop' /\ PollAsserts'
    BY <2>1, <2>2, PlainStack DEF PlainInv
  <2>4. DisconnectLast' /\ QueriesConnected' /\ QueriesReachTheirConnection'
    BY <2>1, <2>2, PlainQueue
  <2>5. StopsLast' /\ ShutdownDrains'
    BY <2>1, <2>2, PlainEnd
  <2> QED BY <2>3, <2>4, <2>5 DEF PlainInv
<1>3. Spec => []ConnInv
  BY ConnAlways, PTL
<1> QED BY <1>1, <1>2, <1>3, TypeCorrect, JobsAccounted, HeldJobs, PTL DEF Spec

\* Unless a handler uses the database in the middle of a disconnect, every query
\* that was accepted is executed on its connection.
THEOREM QueriesReach ==
    ASSUME ~Reentrant
    PROVE  Spec => []QueriesReachTheirConnection
<1>1. PlainInv => QueriesReachTheirConnection
  BY DEF PlainInv
<1> QED BY <1>1, PlainAlways, PTL

\* The dasserts of PollCommand: without re-entrant handlers it is never in a turn
\* of its loop for a job whose result is ignored or has been collected.
THEOREM PollsSound ==
    ASSUME ~Reentrant
    PROVE  Spec => []PollAsserts
<1>1. PlainInv => PollAsserts
  BY DEF PlainInv
<1> QED BY <1>1, PlainAlways, PTL

\* Without re-entrant handlers the service thread has executed every query when
\* ~CDatabaseManagerImpl tells it to stop, and none is queued after that.
THEOREM ShutdownSound ==
    ASSUME ~Reentrant
    PROVE  Spec => []ShutdownDrains
<1>1. PlainInv => ShutdownDrains
  BY DEF PlainInv
<1> QED BY <1>1, PlainAlways, PTL

-----------------------------------------------------------------------------
(* The queue keeps the promise of DbJobService.                             *)

Released == {j \in active : job[j].ignore}

\* Steps in which no job changes its place and none is released: the promise has
\* nothing to say of them.
LEMMA ServiceStays ==
    ASSUME TypeOK, UNCHANGED <<cmdQ, resQ, active, finished>>,
           \A j \in Jobs : job'[j].ignore = job[j].ignore
    PROVE  UNCHANGED Service!serviceVars
<1>1. Released' = Released
  BY DEF TypeOK, Released
<1> QED BY <1>1 DEF Service!serviceVars, Released, Elems

\* A job in a queue whose result nobody will ask for is released.
LEMMA ServiceReleases ==
    ASSUME TypeOK, JobAccounting, UNCHANGED <<cmdQ, resQ, active, finished>>,
           NEW j \in Elems(cmdQ) \cup Elems(resQ), job'[j].ignore = TRUE,
           \A k \in Jobs \ {j} : job'[k].ignore = job[k].ignore
    PROVE  Service!Next
<1>1. j \in Jobs /\ j \in active
  BY QueuedJobs
<1>2. Released' = Released \cup {j}
  BY <1>1 DEF TypeOK, Released
<1>3. Service!Release(j)
  BY <1>2 DEF Service!Release, Service!Waiting, Released, Elems
<1> QED BY <1>1, <1>3 DEF Service!Next

\* FreeCommand releases a job that is in a queue and leaves the others alone.
LEMMA ServiceFrees ==
    ASSUME TypeOK, JobAccounting, UNCHANGED <<cmdQ, resQ, active, finished>>,
           NEW j \in Jobs, job'[j].ignore = (IF InQueue(j) THEN TRUE ELSE job[j].ignore),
           \A k \in Jobs \ {j} : job'[k].ignore = job[k].ignore
    PROVE  Service!Next \/ UNCHANGED Service!serviceVars
<1>1. CASE InQueue(j)
  <2>1. j \in Elems(cmdQ) \cup Elems(resQ) /\ job'[j].ignore = TRUE
    BY <1>1 DEF InQueue
  <2> QED BY <2>1, ServiceReleases
<1>2. CASE ~InQueue(j)
  <2>1. \A k \in Jobs : job'[k].ignore = job[k].ignore
    BY <1>2
  <2> QED BY <2>1, ServiceStays
<1> QED BY <1>1, <1>2

\* AddCommand submits a job under an id that is not in use.
LEMMA ServiceSubmits ==
    ASSUME TypeOK, JobAccounting, HeldJobsExist, NEW j, NEW kind, NEW c, NEW flushes,
           AddCommand(j, kind, c, flushes), UNCHANGED <<resQ, finished>>
    PROVE  Service!Next
<1>1. /\ j \in Jobs /\ j \notin active /\ active' = active \cup {j}
      /\ cmdQ' = Append(cmdQ, j) /\ job'[j].ignore = FALSE
      /\ \A k \in active : job'[k] = job[k]
  BY AddedJob DEF AddCommand, TypeOK, NewJob
<1>2. Released' = Released
  BY <1>1 DEF Released
<1>3. j \notin Service!Live
  BY <1>1 DEF JobAccounting, Service!Live, Service!Waiting, Elems
<1>4. Service!Submit(j)
  BY <1>1, <1>2, <1>3 DEF Service!Submit, Released, Elems
<1> QED BY <1>1, <1>4 DEF Service!Next

\* A result leaves its queue: collected if somebody wants it, else discarded.
LEMMA ServiceSpends ==
    ASSUME TypeOK, JobAccounting, NEW j \in Elems(resQ),
           resQ' = Without(resQ, j), finished' = finished \cup {j},
           UNCHANGED <<cmdQ, active>>, \A k \in Jobs : job'[k].ignore = job[k].ignore
    PROVE  Service!Next
<1>1. j \in Jobs /\ j \in active
  BY QueuedJobs
<1>2. Elems(resQ') = Elems(resQ) \ {j}
  BY RemoveFromQueue DEF TypeOK, JobAccounting
<1>3. Released' = Released
  BY DEF TypeOK, Released
<1>4. CASE j \in Released
  <2>1. Service!Discard(j)
    BY <1>2, <1>3, <1>4 DEF Service!Discard, Released, Elems
  <2> QED BY <1>1, <2>1 DEF Service!Next
<1>5. CASE j \notin Released
  <2>1. Service!Collect(j)
    BY <1>2, <1>3, <1>5 DEF Service!Collect, Released, Elems
  <2> QED BY <1>1, <2>1 DEF Service!Next
<1> QED BY <1>4, <1>5

\* DoPulse deletes the jobs in the finished list: their ids may be used again.
LEMMA ServiceForgets ==
    ASSUME TypeOK, JobAccounting, PulseDeletes
    PROVE  Service!Next
<1>1. /\ UNCHANGED <<cmdQ, resQ>> /\ finished' = {} /\ active' = active \ finished
      /\ \A j \in Jobs \ finished : job'[j] = job[j]
  BY DEF PulseDeletes, shared
<1>2. Released' = Released \ finished
  BY <1>1 DEF TypeOK, Released
<1>3. Service!Forget
  BY <1>1, <1>2 DEF Service!Forget, Released, Elems
<1> QED BY <1>3 DEF Service!Next

\* The service thread has executed the job at the front of its queue.
LEMMA ServiceExecutes ==
    ASSUME TypeOK, JobAccounting, WorkerStores
    PROVE  Service!Next
<1>1. worker.job \in Jobs /\ cmdQ # <<>> /\ worker.job = Head(cmdQ)
  BY NoJobAssumption DEF WorkerStores, TypeOK, WorkerStates, JobAccounting, NoJob
<1>2. /\ cmdQ' = Tail(cmdQ) /\ resQ' = Append(resQ, worker.job)
      /\ job' = [job EXCEPT ![worker.job].stage = "RESULT"]
      /\ UNCHANGED <<active, finished>>
  BY <1>1 DEF WorkerStores, mainVars
<1>3. Elems(resQ') = Elems(resQ) \cup {Head(cmdQ)}
  BY <1>1, <1>2, AppendToQueue DEF TypeOK
<1>4. \A j \in Jobs : job'[j].ignore = job[j].ignore
  BY <1>2 DEF TypeOK, JobData
<1>5. Released' = Released
  BY <1>2, <1>4 DEF TypeOK, Released
<1>6. Service!Execute
  BY <1>1, <1>2, <1>3, <1>5 DEF Service!Execute, Released, Elems
<1> QED BY <1>6 DEF Service!Next

\* What the changes of a CDbJobData do to its being ignored.
LEMMA IgnoreAfter ==
    ASSUME NEW d \in JobData, NEW b \in BOOLEAN, NEW cb \in {"unset", "lua", "log"}
    PROVE  /\ WithCallback(d, cb).ignore = d.ignore
           /\ WithCallback(Freed(d, b), cb).ignore = (IF b THEN TRUE ELSE d.ignore)
           /\ Freed(WithCallback(d, cb), b).ignore = (IF b THEN TRUE ELSE d.ignore)
           /\ Collected(d).ignore = d.ignore
           /\ Dropped(d).ignore = d.ignore
           /\ CalledBack(Dropped(d), b).ignore \in {d.ignore, TRUE}
           /\ d.ignore => CalledBack(Dropped(d), b).ignore = TRUE
<1>1. \A e \in JobData : /\ WithCallback(e, cb).ignore = e.ignore
                         /\ WithCallback(e, cb) \in JobData
                         /\ Freed(e, b).ignore = (IF b THEN TRUE ELSE e.ignore)
                         /\ Freed(e, b) \in JobData
  BY DEF WithCallback, Freed, JobData, Callbacks
<1>2. Collected(d).ignore = d.ignore
  BY DEF Collected, JobData
<1>3. Dropped(d).ignore = d.ignore /\ Dropped(d) \in JobData
  BY DEF Dropped, JobData, Stages
<1>4. ASSUME NEW e \in JobData
      PROVE  /\ CalledBack(e, b).ignore \in {e.ignore, TRUE}
             /\ e.ignore => CalledBack(e, b).ignore = TRUE
  <2>1. CASE e.cb = "lua"
    BY <2>1 DEF CalledBack, JobData
  <2>2. CASE e.cb = "log"
    BY <2>2 DEF CalledBack, JobData
  <2>3. CASE e.cb # "lua" /\ e.cb # "log"
    BY <2>3 DEF CalledBack, JobData
  <2> QED BY <2>1, <2>2, <2>3
<1>5. /\ WithCallback(Freed(d, b), cb).ignore = (IF b THEN TRUE ELSE d.ignore)
      /\ Freed(WithCallback(d, cb), b).ignore = (IF b THEN TRUE ELSE d.ignore)
  <2> DEFINE f == Freed(d, b)
             w == WithCallback(d, cb)
  <2>1. /\ f \in JobData /\ f.ignore = (IF b THEN TRUE ELSE d.ignore)
        /\ w \in JobData /\ w.ignore = d.ignore
    BY <1>1
  <2> HIDE DEF f, w
  <2>2. WithCallback(f, cb).ignore = f.ignore /\ Freed(w, b).ignore = (IF b THEN TRUE ELSE w.ignore)
    BY <1>1, <2>1
  <2> QED BY <2>1, <2>2 DEF f, w
<1>6. /\ CalledBack(Dropped(d), b).ignore \in {d.ignore, TRUE}
      /\ d.ignore => CalledBack(Dropped(d), b).ignore = TRUE
  <2> DEFINE e == Dropped(d)
  <2> HIDE DEF e
  <2>1. e \in JobData /\ e.ignore = d.ignore
    BY <1>3 DEF e
  <2>2. CalledBack(e, b).ignore \in {e.ignore, TRUE} /\ (e.ignore => CalledBack(e, b).ignore = TRUE)
    BY <1>4, <2>1
  <2> QED BY <2>1, <2>2 DEF e
<1> QED BY <1>1, <1>2, <1>3, <1>5, <1>6

\* A disconnect that has succeeded throws no results away: the connection is not
\* known to the queue any more when IgnoreConnectionResults asks for it.
LEMMA DisconnectReleasesNone ==
    ASSUME TypeOK, HeldJobsExist, ConnInv, PollReturns
    PROVE  job' = job
<1>1. stack # <<>> /\ Top.call = "polled"
  BY DEF PollReturns, Running
<1>2. CASE Succeeded(Top.job, "DISCONNECT")
  <2>1. Top = stack[Len(stack)] /\ Len(stack) \in 1..Len(stack)
    BY <1>1, StackOfCalls DEF Top
  <2>2. Waits(stack[Len(stack)], job)
    BY <1>1, <1>2, <2>1 DEF Waits, Dials, Succeeded
  <2>3. Top.job \in Awaited
    BY <2>1, <2>2, AwaitedJobs
  <2>4. job[Top.job].conn \notin connMap
    BY <1>2, <2>3 DEF ConnInv, ClosedIsClosed
  <2>5. IgnoreConnectionResults(job[Top.job].conn) = job
    BY <2>4 DEF IgnoreConnectionResults, TypeOK
  <2> QED BY <2>5 DEF PollReturns
<1>3. CASE ~Succeeded(Top.job, "DISCONNECT")
  BY <1>3 DEF PollReturns, Succeeded
<1> QED BY <1>2, <1>3

\* DoPulse looks at one result: it discards it, or calls its callback, which frees
\* it if the resource that wanted it has stopped.
LEMMA ServiceScans ==
    ASSUME TypeOK, JobAccounting, PulseScans
    PROVE  Service!Next \/ UNCHANGED Service!serviceVars
<1>1. PICK i \in 1..Len(resQ), isValid \in BOOLEAN :
         /\ job' = [job EXCEPT ![resQ[i]] = CalledBack(Dropped(job[resQ[i]]), isValid)]
         /\ resQ' = IF Dropped(job[resQ[i]]).ignore THEN Without(resQ, resQ[i]) ELSE resQ
         /\ finished' = IF Dropped(job[resQ[i]]).ignore THEN finished \cup {resQ[i]}
                                                        ELSE finished
  BY DEF PulseScans
<1> DEFINE j == resQ[i]
<1>2. j \in Elems(resQ) /\ j \in Jobs /\ job[j] \in JobData
  BY ElemsType DEF TypeOK, Elems
<1>3. UNCHANGED <<cmdQ, active>>
  BY DEF PulseScans
<1>4. job'[j] = CalledBack(Dropped(job[j]), isValid) /\ \A k \in Jobs \ {j} : job'[k] = job[k]
  BY <1>1, <1>2 DEF TypeOK
<1>5. /\ Dropped(job[j]).ignore = job[j].ignore /\ job'[j].ignore \in {job[j].ignore, TRUE}
      /\ job[j].ignore => job'[j].ignore = TRUE
  <2>1. /\ Dropped(job[j]).ignore = job[j].ignore
        /\ CalledBack(Dropped(job[j]), isValid).ignore \in {job[j].ignore, TRUE}
        /\ job[j].ignore => CalledBack(Dropped(job[j]), isValid).ignore = TRUE
    BY <1>2, IgnoreAfter
  <2> QED BY <1>4, <2>1
<1>6. job[j].ignore \in BOOLEAN
  BY <1>2 DEF JobData
<1> HIDE DEF j
<1>7. CASE job[j].ignore
  <2>1. resQ' = Without(resQ, j) /\ finished' = finished \cup {j}
    BY <1>1, <1>5, <1>7 DEF j
  <2>2. \A k \in Jobs : job'[k].ignore = job[k].ignore
    BY <1>4, <1>5, <1>6, <1>7
  <2> QED BY <1>2, <1>3, <2>1, <2>2, ServiceSpends
<1>8. CASE ~job[j].ignore
  <2>1. UNCHANGED <<cmdQ, resQ, active, finished>>
    BY <1>1, <1>3, <1>5, <1>8 DEF j
  <2>2. CASE job'[j].ignore = TRUE
    BY <1>2, <1>4, <2>1, <2>2, ServiceReleases
  <2>3. CASE job'[j].ignore = job[j].ignore
    BY <1>4, <2>1, <2>3, ServiceStays
  <2> QED BY <1>5, <2>2, <2>3
<1> QED BY <1>7, <1>8

\* Every step is one of DbJobService, or none of its business.
LEMMA ServiceStep ==
    ASSUME TypeOK, JobAccounting, HeldJobsExist, ConnInv, [Next]_vars
    PROVE  Service!Next \/ UNCHANGED Service!serviceVars
<1>1. \A j \in Jobs : job[j] \in JobData /\ InQueue(j) \in BOOLEAN
  BY DEF TypeOK, InQueue
<1>2. ASSUME job' = job, UNCHANGED <<cmdQ, resQ, active, finished>>
      PROVE  UNCHANGED Service!serviceVars
  BY <1>2, ServiceStays
<1>3. CASE FinishExec
  <2>1. PICK cb \in {"unset", "lua", "log"} :
           job' = [job EXCEPT ![Top.job] = WithCallback(Freed(@, InQueue(Top.job)), cb)]
    BY <1>3 DEF FinishExec
  <2>2. Top.job \in Jobs
    BY <1>3, StackOfCalls DEF FinishExec, Running, JobCalls
  <2>3. job'[Top.job].ignore = (IF InQueue(Top.job) THEN TRUE ELSE job[Top.job].ignore)
    <3>1. job'[Top.job] = WithCallback(Freed(job[Top.job], InQueue(Top.job)), cb)
      BY <2>1, <2>2 DEF TypeOK
    <3> DEFINE d == job[Top.job]
               b == InQueue(Top.job)
    <3>2. d \in JobData /\ b \in BOOLEAN
      BY <1>1, <2>2
    <3> HIDE DEF d, b
    <3>3. WithCallback(Freed(d, b), cb).ignore = (IF b THEN TRUE ELSE d.ignore)
      BY <3>2, IgnoreAfter
    <3> QED BY <3>1, <3>3 DEF d, b
  <2>4. \A k \in Jobs \ {Top.job} : job'[k].ignore = job[k].ignore
    BY <2>1, <2>2 DEF TypeOK
  <2>5. UNCHANGED <<cmdQ, resQ, active, finished>>
    BY <1>3 DEF FinishExec, shared, mainVars
  <2> QED BY <2>2, <2>3, <2>4, <2>5, ServiceFrees
<1>4. CASE FinishQuery
  <2>1. job' = [job EXCEPT ![Top.job] = WithCallback(@, "lua")]
        /\ UNCHANGED <<cmdQ, resQ, active, finished>>
    BY <1>4 DEF FinishQuery, shared, mainVars
  <2>2. \A d \in JobData : WithCallback(d, "lua").ignore = d.ignore
    BY IgnoreAfter
  <2>3. \A k \in Jobs : job'[k].ignore = job[k].ignore
    BY <1>1, <2>1, <2>2 DEF TypeOK
  <2> QED BY <2>1, <2>3, ServiceStays
<1>5. CASE DbFree
  <2>1. PICK j \in Jobs :
           job' = [job EXCEPT ![j] = Freed(WithCallback(@, "log"), InQueue(j))]
    BY <1>5 DEF DbFree
  <2>2. job'[j].ignore = (IF InQueue(j) THEN TRUE ELSE job[j].ignore)
    <3>1. job'[j] = Freed(WithCallback(job[j], "log"), InQueue(j))
      BY <2>1 DEF TypeOK
    <3> DEFINE d == job[j]
               b == InQueue(j)
    <3>2. d \in JobData /\ b \in BOOLEAN
      BY <1>1
    <3> HIDE DEF d, b
    <3>3. Freed(WithCallback(d, "log"), b).ignore = (IF b THEN TRUE ELSE d.ignore)
      BY <3>2, IgnoreAfter
    <3> QED BY <3>1, <3>3 DEF d, b
  <2>3. \A k \in Jobs \ {j} : job'[k].ignore = job[k].ignore
    BY <2>1 DEF TypeOK
  <2>4. UNCHANGED <<cmdQ, resQ, active, finished>>
    BY <1>5 DEF DbFree, shared, mainVars
  <2> QED BY <2>2, <2>3, <2>4, ServiceFrees
<1>6. CASE PollTakes
  <2>1. /\ Top.job \in Elems(resQ) /\ resQ' = Without(resQ, Top.job)
        /\ finished' = finished \cup {Top.job} /\ UNCHANGED <<cmdQ, active>>
        /\ job' = [job EXCEPT ![Top.job] = Collected(@)]
    BY <1>6 DEF PollTakes
  <2>2. \A d \in JobData : Collected(d).ignore = d.ignore
    BY IgnoreAfter
  <2>3. \A k \in Jobs : job'[k].ignore = job[k].ignore
    BY <1>1, <2>1, <2>2 DEF TypeOK
  <2> QED BY <2>1, <2>3, ServiceSpends
<1>7. CASE PollReturns
  <2>1. job' = job
    BY <1>7, DisconnectReleasesNone
  <2> QED BY <1>2, <1>7, <2>1 DEF PollReturns, shared
<1>8. CASE PollTimesOut \/ PollWarns \/ PollReportsError \/ ScriptReturns
           \/ PulseBegins \/ PulseLocks \/ PulseEnds \/ DbPoll \/ Shutdown \/ ShutdownStops \/ ShutdownEnds
           \/ WorkerExits \/ UNCHANGED vars \/ Gone
  BY <1>2, <1>8
  DEF PollTimesOut, PollWarns, PollReportsError, ScriptReturns, PulseBegins, PulseLocks, PulseEnds, DbPoll,
      Shutdown, ShutdownStops, ShutdownEnds, WorkerExits, Gone, vars, shared, mainVars
<1>9. CASE PulseFlushes
  BY <1>9, ServiceSubmits DEF PulseFlushes
<1>10. CASE Connect
  BY <1>10, ServiceSubmits DEF Connect
<1>11. ASSUME NEW c \in Conns, StartDisconnect(c)
       PROVE  Service!Next \/ UNCHANGED Service!serviceVars
  <2>1. CASE c \in connMap
    BY <1>11, <2>1, ServiceSubmits DEF StartDisconnect
  <2>2. CASE c \notin connMap
    BY <1>2, <1>11, <2>2 DEF StartDisconnect
  <2> QED BY <2>1, <2>2
<1>12. ASSUME NEW c \in Conns, NEW call \in {"none", "exec", "query"}, StartQuery(c, call)
       PROVE  Service!Next
  BY <1>12, ServiceSubmits DEF StartQuery
<1>13. CASE SetLogLevel
  BY <1>13, ServiceSubmits DEF SetLogLevel
<1>14. CASE WorkerTakes \/ WorkerProcesses
  <2>1. \/ \E h, s : job' = [job EXCEPT ![h].stage = s]
        \/ \E h, s : job' = [job EXCEPT ![h].status = s]
    BY <1>14 DEF WorkerTakes, WorkerProcesses
  <2>2. ASSUME NEW k \in Jobs PROVE job'[k].ignore = job[k].ignore
    <3>1. \/ job'[k] = job[k]
          \/ \E s : job'[k] = [job[k] EXCEPT !.stage = s]
          \/ \E s : job'[k] = [job[k] EXCEPT !.status = s]
      BY <2>1 DEF TypeOK
    <3>2. job[k] \in JobData
      BY <1>1
    <3> QED BY <3>1, <3>2 DEF JobData
  <2>3. UNCHANGED <<cmdQ, resQ, active, finished>>
    BY <1>14 DEF WorkerTakes, WorkerProcesses, shared, mainVars
  <2> QED BY <2>2, <2>3, ServiceStays
<1> QED
  BY <1>3, <1>4, <1>5, <1>6, <1>7, <1>8, <1>9, <1>10, <1>11, <1>12, <1>13, <1>14,
     ServiceForgets, ServiceScans, ServiceExecutes
  DEF Next, Worker, Proceed, Script, Destroy, ShutdownDisconnects, Disconnect,
      DbExec, DbQuery, DbQueryWithCallback

\* Whatever scripts and handlers do: jobs are executed one at a time in the order in
\* which AddCommand queued them, and each result is collected once, or discarded
\* after FreeCommand or a stopped resource released it, before DoPulse reuses its id.
THEOREM KeepsPromise == Spec => ImplementsService
<1>1. Init => Service!Init
  BY DEF Init, Service!Init, Elems
<1>2. TypeOK /\ JobAccounting /\ HeldJobsExist /\ ConnInv /\ [Next]_vars
         => [Service!Next]_Service!serviceVars
  BY ServiceStep
<1>3. Spec => []ConnInv
  BY ConnAlways, PTL
<1> QED BY <1>1, <1>2, <1>3, TypeCorrect, JobsAccounted, HeldJobs, PTL
        DEF Spec, ImplementsService, Service!Spec
=============================================================================
