-------------------------- MODULE DbJobQueueProofs --------------------------
(* Proofs about DbJobQueue, for every set of job ids, number of connections *)
(* and selection of operations, with and without re-entrant handlers.       *)
EXTENDS DbJobQueue, SequenceTheorems, TLAPS

-----------------------------------------------------------------------------
(* Queues without duplicates.                                               *)

\* The jobs of a queue are of the type of its elements.
LEMMA ElemsType == ASSUME NEW S, NEW q \in Seq(S) PROVE Elems(q) \subseteq S
BY LenProperties DEF Elems

\* Appending a job to a queue adds it to the jobs of the queue.
LEMMA AppendToQueue ==
    ASSUME NEW S, NEW q \in Seq(S), NEW j \in S
    PROVE  /\ Append(q, j) \in Seq(S)
           /\ Elems(Append(q, j)) = Elems(q) \cup {j}
           /\ Distinct(q) /\ j \notin Elems(q) => Distinct(Append(q, j))
           /\ q # <<>> => Head(Append(q, j)) = Head(q)
           /\ Append(q, j) # <<>>
<1>1. /\ Append(q, j) \in Seq(S) /\ Len(Append(q, j)) = Len(q) + 1
      /\ \A i \in 1..Len(q) : Append(q, j)[i] = q[i]
      /\ Append(q, j)[Len(q) + 1] = j
      /\ Len(q) \in Nat
  BY AppendProperties, LenProperties
<1>2. Elems(Append(q, j)) = Elems(q) \cup {j}
  BY <1>1 DEF Elems
<1>3. Distinct(q) /\ j \notin Elems(q) => Distinct(Append(q, j))
  BY <1>1 DEF Elems, Distinct
<1>4. q # <<>> => Head(Append(q, j)) = Head(q)
  BY <1>1
<1> QED BY <1>1, <1>2, <1>3, <1>4

\* Popping the front of a queue removes just that job.
LEMMA TailOfQueue ==
    ASSUME NEW S, NEW q \in Seq(S), q # <<>>, Distinct(q)
    PROVE  /\ Tail(q) \in Seq(S)
           /\ Head(q) \in Elems(q)
           /\ Elems(Tail(q)) = Elems(q) \ {Head(q)}
           /\ Distinct(Tail(q))
<1>1. /\ Tail(q) \in Seq(S) /\ Len(Tail(q)) = Len(q) - 1
      /\ \A i \in 1..Len(Tail(q)) : Tail(q)[i] = q[i + 1]
      /\ Head(q) = q[1] /\ Len(q) \in Nat /\ Len(q) > 0
  BY HeadTailProperties, EmptySeq, LenProperties
<1>2. Head(q) \in Elems(q)
  BY <1>1 DEF Elems
<1>3. Elems(Tail(q)) \subseteq Elems(q) \ {Head(q)}
  BY <1>1 DEF Elems, Distinct
<1>4. ASSUME NEW j \in Elems(q), j # Head(q) PROVE j \in Elems(Tail(q))
  <2>1. PICK i \in 1..Len(q) : q[i] = j
    BY DEF Elems
  <2>2. i - 1 \in 1..Len(Tail(q)) /\ Tail(q)[i - 1] = j
    BY <1>1, <1>4, <2>1
  <2> QED BY <2>2 DEF Elems
<1>5. Distinct(Tail(q))
  BY <1>1 DEF Distinct
<1> QED BY <1>1, <1>2, <1>3, <1>4, <1>5

\* Removing a job from a queue removes just that job.
LEMMA RemoveFromQueue ==
    ASSUME NEW S, NEW q \in Seq(S), NEW j \in Elems(q)
    PROVE  /\ Without(q, j) \in Seq(S)
           /\ Distinct(q) => /\ Elems(Without(q, j)) = Elems(q) \ {j}
                             /\ Distinct(Without(q, j))
<1> DEFINE p == Position(q, j)
           w == Without(q, j)
<1>1. Len(q) \in Nat /\ q \in [1..Len(q) -> S]
  BY LenProperties
<1>2. p \in 1..Len(q) /\ q[p] = j
  BY DEF Elems, Position
<1>3. /\ \A i \in 1..(Len(q) - 1) : w[i] = IF i < p THEN q[i] ELSE q[i + 1]
      /\ w \in [1..(Len(q) - 1) -> S]
  BY <1>1, <1>2 DEF Without
<1>4. w \in Seq(S) /\ Len(w) = Len(q) - 1
  <2>1. Len(q) - 1 \in Nat
    BY <1>1, <1>2
  <2>2. w \in Seq(S)
    BY <1>3, <2>1, SeqDef
  <2> QED BY <1>3, <2>1, <2>2, LenProperties
<1> SUFFICES ASSUME Distinct(q)
             PROVE  Elems(w) = Elems(q) \ {j} /\ Distinct(w)
  BY <1>4
<1> HIDE DEF p, w
<1>5. Elems(w) \subseteq Elems(q) \ {j}
  BY <1>1, <1>2, <1>3, <1>4 DEF Elems, Distinct
<1>6. ASSUME NEW k \in Elems(q), k # j PROVE k \in Elems(w)
  <2>1. PICK i \in 1..Len(q) : q[i] = k
    BY DEF Elems
  <2>2. CASE i < p
    <3>1. i \in 1..Len(w) /\ w[i] = k
      BY <1>1, <1>2, <1>3, <1>4, <2>1, <2>2
    <3> QED BY <3>1 DEF Elems
  <2>3. CASE i > p
    <3>1. i - 1 \in 1..Len(w) /\ w[i - 1] = k
      BY <1>1, <1>2, <1>3, <1>4, <2>1, <2>3
    <3> QED BY <3>1 DEF Elems
  <2>4. i # p
    BY <1>2, <1>6, <2>1
  <2> QED BY <1>1, <1>2, <2>1, <2>2, <2>3, <2>4
<1>7. Distinct(w)
  BY <1>1, <1>2, <1>3, <1>4 DEF Distinct
<1> QED BY <1>5, <1>6, <1>7

-----------------------------------------------------------------------------
(* Type correctness.                                                        *)

\* What starting and returning from a call does to the stack.
LEMMA StackOfCalls ==
    ASSUME TypeOK
    PROVE  /\ \A f \in Frames :
                /\ Append(stack, f) \in Seq(Frames)
                /\ Len(Append(stack, f)) = Len(stack) + 1
                /\ Append(stack, f)[Len(stack) + 1] = f
                /\ \A i \in 1..Len(stack) : Append(stack, f)[i] = stack[i]
           /\ stack # <<>> =>
                /\ Len(stack) \in Nat \ {0}
                /\ Top \in Frames
                /\ (Top.call \in JobCalls => Top.job \in Jobs)
                /\ Caller \in Seq(Frames)
                /\ Len(Caller) = Len(stack) - 1
                /\ \A i \in 1..(Len(stack) - 1) : Caller[i] = stack[i]
                /\ \A f \in Frames :
                     /\ Append(Caller, f) \in Seq(Frames)
                     /\ Len(Append(Caller, f)) = Len(stack)
                     /\ Append(Caller, f)[Len(stack)] = f
                     /\ \A i \in 1..(Len(stack) - 1) : Append(Caller, f)[i] = stack[i]
<1>1. stack \in Seq(Frames) /\ Len(stack) \in Nat
  BY LenProperties DEF TypeOK
<1>2. \A f \in Frames :
         /\ Append(stack, f) \in Seq(Frames)
         /\ Len(Append(stack, f)) = Len(stack) + 1
         /\ Append(stack, f)[Len(stack) + 1] = f
         /\ \A i \in 1..Len(stack) : Append(stack, f)[i] = stack[i]
  BY <1>1, AppendProperties
<1>3. SUFFICES ASSUME stack # <<>>
               PROVE  /\ Len(stack) \in Nat \ {0}
                      /\ Top \in Frames
                      /\ (Top.call \in JobCalls => Top.job \in Jobs)
                      /\ Caller \in Seq(Frames)
                      /\ Len(Caller) = Len(stack) - 1
                      /\ \A i \in 1..(Len(stack) - 1) : Caller[i] = stack[i]
                      /\ \A f \in Frames :
                           /\ Append(Caller, f) \in Seq(Frames)
                           /\ Len(Append(Caller, f)) = Len(stack)
                           /\ Append(Caller, f)[Len(stack)] = f
                           /\ \A i \in 1..(Len(stack) - 1) : Append(Caller, f)[i] = stack[i]
  BY <1>2
<1>4. Len(stack) \in Nat \ {0} /\ stack \in [1..Len(stack) -> Frames]
  BY <1>1, <1>3, EmptySeq, LenProperties
<1>5. Top \in Frames /\ (Top.call \in JobCalls => Top.job \in Jobs)
  <2>1. Top \in Frames
    BY <1>4 DEF Top
  <2>2. \A f \in Frames : f.call \in JobCalls => f.job \in Jobs
    BY DEF Frames, JobCalls, PlainCalls
  <2> QED BY <2>1, <2>2
<1>6. /\ Caller \in Seq(Frames)
      /\ Len(Caller) = Len(stack) - 1
      /\ \A i \in 1..(Len(stack) - 1) : Caller[i] = stack[i]
  BY <1>1, <1>4, SubSeqProperties DEF Caller
<1>7. ASSUME NEW f \in Frames
      PROVE  /\ Append(Caller, f) \in Seq(Frames)
             /\ Len(Append(Caller, f)) = Len(stack)
             /\ Append(Caller, f)[Len(stack)] = f
             /\ \A i \in 1..(Len(stack) - 1) : Append(Caller, f)[i] = stack[i]
  <2>1. /\ Append(Caller, f) \in Seq(Frames)
        /\ Len(Append(Caller, f)) = Len(Caller) + 1
        /\ Append(Caller, f)[Len(Caller) + 1] = f
        /\ \A i \in 1..Len(Caller) : Append(Caller, f)[i] = Caller[i]
    BY <1>6, AppendProperties
  <2>2. Len(Caller) + 1 = Len(stack)
    BY <1>4, <1>6
  <2> QED BY <1>6, <2>1, <2>2
<1> QED BY <1>4, <1>5, <1>6, <1>7

\* Frames are what the actions push.
LEMMA FrameType ==
    /\ \A call \in JobCalls, j \in Jobs, forever \in BOOLEAN :
          Frame(call, j, forever) \in Frames
    /\ \A call \in PlainCalls : Simple(call) \in Frames
BY DEF Frame, Simple, Frames

\* The changes of a CDbJobData keep its type; none but Dropped its stage; and a
\* callback is neither set nor left over once the stage is FINISHED.
LEMMA JobChanges ==
    ASSUME NEW d \in JobData
    PROVE  /\ \A b \in BOOLEAN : /\ Freed(d, b) \in JobData
                                 /\ Freed(d, b).stage = d.stage
                                 /\ Freed(d, b).cb = d.cb
                                 /\ Freed(d, b).kind = d.kind
           /\ \A cb \in {"unset", "lua", "log"} :
                /\ WithCallback(d, cb) \in JobData
                /\ WithCallback(d, cb).stage = d.stage
                /\ WithCallback(d, cb).kind = d.kind
                /\ d.stage = "FINISHED" => WithCallback(d, cb) = d
           /\ Dropped(d) \in JobData /\ Dropped(d).cb = d.cb
           /\ Dropped(d).stage = IF d.ignore THEN "FINISHED" ELSE d.stage
           /\ /\ Collected(d) \in JobData /\ Collected(d).stage = "FINISHED"
              /\ ~Uncalled(Collected(d)) /\ Collected(d).kind = d.kind
           /\ \A v \in BOOLEAN : /\ CalledBack(d, v) \in JobData
                                 /\ CalledBack(d, v).stage = d.stage
                                 /\ CalledBack(d, v).kind = d.kind
                                 /\ ~Uncalled(CalledBack(d, v))
<1>1. \A b \in BOOLEAN : /\ Freed(d, b) \in JobData
                         /\ Freed(d, b).stage = d.stage
                         /\ Freed(d, b).cb = d.cb
                         /\ Freed(d, b).kind = d.kind
  BY DEF Freed, JobData
<1>2. \A cb \in {"unset", "lua", "log"} :
         /\ WithCallback(d, cb) \in JobData
         /\ WithCallback(d, cb).stage = d.stage
         /\ WithCallback(d, cb).kind = d.kind
         /\ d.stage = "FINISHED" => WithCallback(d, cb) = d
  BY DEF WithCallback, JobData, Callbacks
<1>3. /\ Dropped(d) \in JobData /\ Dropped(d).cb = d.cb
      /\ Dropped(d).stage = IF d.ignore THEN "FINISHED" ELSE d.stage
  BY DEF Dropped, JobData, Stages
<1>4. ASSUME NEW v \in BOOLEAN
      PROVE  /\ CalledBack(d, v) \in JobData
             /\ CalledBack(d, v).stage = d.stage
             /\ CalledBack(d, v).kind = d.kind
             /\ ~Uncalled(CalledBack(d, v))
  <2>1. CASE d.cb = "lua"
    BY <2>1 DEF CalledBack, JobData, Callbacks, Uncalled
  <2>2. CASE d.cb = "log"
    BY <2>2 DEF CalledBack, JobData, Callbacks, Uncalled
  <2>3. CASE d.cb \notin {"lua", "log"}
    BY <2>3 DEF CalledBack, Uncalled
  <2> QED BY <2>1, <2>2, <2>3
<1>5. /\ Collected(d) \in JobData /\ Collected(d).stage = "FINISHED"
      /\ ~Uncalled(Collected(d)) /\ Collected(d).kind = d.kind
  <2>1. CASE Uncalled(d)
    BY <2>1 DEF Collected, JobData, Callbacks, Stages, Uncalled
  <2>2. CASE ~Uncalled(d)
    BY <2>2 DEF Collected, JobData, Callbacks, Stages, Uncalled
  <2> QED BY <2>1, <2>2
<1> QED BY <1>1, <1>2, <1>3, <1>4, <1>5

\* A new CDbJobData, and that of an id without a job, have their type.
LEMMA NewJobType ==
    ASSUME NEW kind \in Kinds, NEW c \in Conns \cup {0}
    PROVE  /\ c # 0 \/ kind = "SETLOGLEVEL" => NewJob(kind, c) \in JobData
           /\ NoData \in JobData
BY DEF NewJob, NoData, JobData, Kinds, Stages, Statuses, Callbacks

\* AddCommand keeps the type of all it changes.
LEMMA AddCommandType ==
    ASSUME TypeOK, NEW j, NEW kind \in Kinds, NEW c \in Conns \cup {0},
           NEW flushes \in SUBSET Conns, kind # "SETLOGLEVEL" => c \in Conns,
           AddCommand(j, kind, c, flushes)
    PROVE  /\ j \in Jobs
           /\ cmdQ' \in Seq(Jobs) /\ active' \subseteq Jobs
           /\ pendingFlush' \subseteq Conns
           /\ job' \in [Jobs -> JobData]
<1>1. j \in Jobs /\ NewJob(kind, c) \in JobData
  BY NewJobType, MaxConnsAssumption DEF AddCommand, Conns
<1> QED BY <1>1, AppendToQueue DEF AddCommand, TypeOK

\* The initial state has its type.
LEMMA TypeInit == ASSUME Init PROVE TypeOK
<1>1. NoData \in JobData
  BY NewJobType DEF Kinds
<1>2. <<>> \in Seq(Jobs) /\ <<>> \in Seq(Frames)
  BY EmptySeq
<1>3. 0 \in 0..MaxConns
  BY MaxConnsAssumption
<1>4. job \in [Jobs -> JobData]
  BY <1>1 DEF Init
<1>5. worker \in WorkerStates
  BY DEF Init, WorkerStates
<1> QED BY <1>2, <1>3, <1>4, <1>5 DEF Init, TypeOK

\* Every step keeps the type of every variable.
LEMMA TypeStep == ASSUME TypeOK, [Next]_vars PROVE TypeOK'
<1>1. CASE FinishExec
  <2>1. stack # <<>> /\ Top.job \in Jobs /\ stack' \in Seq(Frames)
    BY <1>1, StackOfCalls DEF FinishExec, Running, Return, JobCalls
  <2>2. PICK cb \in {"unset", "lua", "log"} :
           job' = [job EXCEPT ![Top.job] = WithCallback(Freed(@, InQueue(Top.job)), cb)]
    BY <1>1 DEF FinishExec
  <2>3. ASSUME NEW k \in Jobs
        PROVE  WithCallback(Freed(job[k], InQueue(k)), cb) \in JobData
    <3>1. job[k] \in JobData /\ InQueue(k) \in BOOLEAN
      BY DEF TypeOK, InQueue
    <3> QED BY <3>1, JobChanges
  <2>4. job' \in [Jobs -> JobData]
    BY <2>2, <2>3 DEF TypeOK
  <2> QED BY <1>1, <2>1, <2>4 DEF FinishExec, TypeOK, shared, mainVars
<1>2. CASE FinishQuery
  <2>1. stack # <<>> /\ stack' \in Seq(Frames)
    BY <1>2, StackOfCalls DEF FinishQuery, Running, Return
  <2>2. job' \in [Jobs -> JobData]
    BY <1>2, JobChanges DEF FinishQuery, TypeOK
  <2> QED BY <1>2, <2>1, <2>2 DEF FinishQuery, TypeOK, shared, mainVars
<1>3. CASE PollTakes
  <2> DEFINE j == Top.job
  <2>1. stack # <<>>
    BY <1>3 DEF PollTakes, Running
  <2>2. j \in Elems(resQ) /\ j \in Jobs
    BY <1>3, ElemsType DEF PollTakes, TypeOK
  <2>3. resQ' \in Seq(Jobs)
    BY <1>3, <2>2, RemoveFromQueue DEF PollTakes, TypeOK
  <2>4. stack' \in Seq(Frames)
    <3>1. /\ Frame("polled", j, FALSE) \in Frames
          /\ Frame("warning", j, FALSE) \in Frames
      BY <2>2, FrameType DEF JobCalls
    <3>2. Append(Caller, Frame("polled", j, FALSE)) \in Seq(Frames)
      BY <2>1, <3>1, StackOfCalls
    <3>3. Append(Append(Caller, Frame("polled", j, FALSE)), Frame("warning", j, FALSE))
             \in Seq(Frames)
      BY <3>1, <3>2, AppendProperties
    <3> QED BY <1>3, <3>2, <3>3 DEF PollTakes, Become
  <2>5. job' \in [Jobs -> JobData]
    BY <1>3, <2>2, JobChanges DEF PollTakes, TypeOK
  <2> QED BY <1>3, <2>2, <2>3, <2>4, <2>5 DEF PollTakes, TypeOK
<1>4. CASE PollTimesOut \/ ScriptReturns
  <2>1. stack # <<>> /\ stack' \in Seq(Frames)
    BY <1>4, StackOfCalls DEF PollTimesOut, ScriptReturns, Running, Return
  <2> QED BY <1>4, <2>1 DEF PollTimesOut, ScriptReturns, TypeOK, shared, mainVars
<1>5. CASE PollWarns \/ PollReportsError
  <2>1. Top.job \in Jobs
    BY <1>5, StackOfCalls DEF PollWarns, PollReportsError, Running, JobCalls
  <2>2. stack' \in Seq(Frames)
    BY <1>5, <2>1, FrameType, StackOfCalls DEF PollWarns, PollReportsError, Push, JobCalls
  <2> QED BY <1>5, <2>2 DEF PollWarns, PollReportsError, TypeOK, shared, mainVars
<1>6. CASE PollReturns
  <2>1. stack # <<>> /\ stack' \in Seq(Frames)
    BY <1>6, StackOfCalls DEF PollReturns, Running, Return
  <2>2. \A c : IgnoreConnectionResults(c) \in [Jobs -> JobData]
    BY DEF IgnoreConnectionResults, TypeOK, JobData
  <2>3. job' \in [Jobs -> JobData]
    BY <1>6, <2>2 DEF PollReturns, TypeOK
  <2>4. ASSUME job[Top.job].kind = "CONNECT", job[Top.job].status = "SUCCESS"
        PROVE  job[Top.job].conn \in Conns
    <3>1. Top.job \in Jobs
      BY <1>6, StackOfCalls DEF PollReturns, Running, JobCalls
    <3> QED BY <2>4, <3>1 DEF TypeOK, JobData
  <2>5. typeMap' \subseteq Conns
    BY <1>6, <2>4 DEF PollReturns, TypeOK
  <2> QED BY <1>6, <2>1, <2>3, <2>5 DEF PollReturns, TypeOK, shared
<1>7. CASE PulseBegins \/ Shutdown
  <2>1. stack' \in Seq(Frames)
    BY <1>7, FrameType, StackOfCalls DEF PulseBegins, Shutdown, Push, PlainCalls
  <2> QED BY <1>7, <2>1 DEF PulseBegins, Shutdown, TypeOK, shared, mainVars
<1>8. CASE PulseFlushes
  <2>1. PICK c \in Conns, j \in Jobs :
           /\ AddCommand(j, "FLUSH", c, pendingFlush \ {c})
           /\ stack' = Append(stack, Frame("exec", j, FALSE))
    BY <1>8 DEF PulseFlushes, Push, TypeOK
  <2>2. stack' \in Seq(Frames)
    BY <2>1, FrameType, StackOfCalls DEF JobCalls
  <2>3. /\ cmdQ' \in Seq(Jobs) /\ active' \subseteq Jobs
        /\ pendingFlush' \subseteq Conns /\ job' \in [Jobs -> JobData]
    <3>1. pendingFlush \ {c} \in SUBSET Conns
      BY DEF TypeOK
    <3> QED BY <2>1, <3>1, AddCommandType DEF Kinds
  <2> QED BY <1>8, <2>2, <2>3 DEF PulseFlushes, TypeOK
<1>9. CASE PulseLocks \/ ShutdownStops \/ ShutdownEnds
  <2>1. stack' \in Seq(Frames)
    BY <1>9, FrameType, StackOfCalls
    DEF PulseLocks, ShutdownStops, ShutdownEnds, Running, Become, PlainCalls
  <2>2. worker' \in WorkerStates
    BY <1>9 DEF PulseLocks, ShutdownStops, ShutdownEnds, TypeOK, WorkerStates
  <2> QED BY <1>9, <2>1, <2>2
          DEF PulseLocks, ShutdownStops, ShutdownEnds, TypeOK, shared, mainVars
<1>10. CASE PulseDeletes
  <2>1. stack' \in Seq(Frames)
    BY <1>10, FrameType, StackOfCalls DEF PulseDeletes, Running, Become, PlainCalls
  <2>2. job' \in [Jobs -> JobData]
    BY <1>10, NewJobType DEF PulseDeletes, TypeOK, Kinds
  <2> QED BY <1>10, <2>1, <2>2 DEF PulseDeletes, TypeOK, shared
<1>11. CASE PulseScans
  <2>1. stack # <<>>
    BY <1>11 DEF PulseScans, Running
  <2>2. PICK i \in 1..Len(resQ), isValid \in BOOLEAN :
          /\ job' = [job EXCEPT ![resQ[i]] = CalledBack(Dropped(job[resQ[i]]), isValid)]
          /\ resQ' \in {resQ, Without(resQ, resQ[i])}
          /\ finished' \in {finished, finished \cup {resQ[i]}}
          /\ stack' \in {Append(Append(Caller, Simple("again")), Frame("callback", resQ[i], FALSE)),
                         Append(Append(Caller, Simple("again")), Frame("warning", resQ[i], FALSE)),
                         Append(Caller, Simple("again")), stack}
    BY <1>11, ZenonT(60) DEF PulseScans, Become
  <2>3. resQ[i] \in Elems(resQ) /\ resQ[i] \in Jobs
    BY ElemsType DEF TypeOK, Elems
  <2>4. resQ' \in Seq(Jobs)
    BY <2>2, <2>3, RemoveFromQueue DEF TypeOK
  <2>5. job' \in [Jobs -> JobData]
    BY <2>2, <2>3, JobChanges DEF TypeOK
  <2>6. stack' \in Seq(Frames)
    <3>1. /\ Append(Caller, Simple("again")) \in Seq(Frames)
          /\ Frame("callback", resQ[i], FALSE) \in Frames
          /\ Frame("warning", resQ[i], FALSE) \in Frames
      BY <2>1, <2>3, FrameType, StackOfCalls DEF JobCalls, PlainCalls
    <3>2. \A f \in Frames : Append(Append(Caller, Simple("again")), f) \in Seq(Frames)
      BY <3>1, AppendProperties
    <3> QED BY <2>2, <3>1, <3>2 DEF TypeOK
  <2> QED BY <1>11, <2>2, <2>3, <2>4, <2>5, <2>6 DEF PulseScans, TypeOK
<1>12. CASE PulseEnds
  <2>1. stack # <<>>
    BY <1>12 DEF PulseEnds, Running
  <2>2. stack' = Caller \/ \E j \in Jobs : stack' = Append(Caller, Frame("warning", j, FALSE))
    BY <1>12, ElemsType DEF PulseEnds, Return, Become, TypeOK
  <2>3. stack' \in Seq(Frames)
    BY <2>1, <2>2, FrameType, StackOfCalls DEF JobCalls
  <2> QED BY <1>12, <2>3 DEF PulseEnds, TypeOK, shared, mainVars
<1>13. CASE Connect
  <2>1. PICK j \in Jobs :
           /\ AddCommand(j, "CONNECT", handles + 1, pendingFlush)
           /\ stack' = Append(stack, Frame("poll", j, TRUE))
    BY <1>13 DEF Connect, Push
  <2>2. handles + 1 \in Conns /\ handles' \in 0..MaxConns
    BY <1>13, MaxConnsAssumption DEF Connect, TypeOK, Conns
  <2>3. stack' \in Seq(Frames)
    BY <2>1, FrameType, StackOfCalls DEF JobCalls
  <2>4. /\ cmdQ' \in Seq(Jobs) /\ active' \subseteq Jobs
        /\ pendingFlush' \subseteq Conns /\ job' \in [Jobs -> JobData]
    <3>1. pendingFlush \in SUBSET Conns
      BY DEF TypeOK
    <3> QED BY <2>1, <2>2, <3>1, AddCommandType DEF Kinds
  <2> QED BY <1>13, <2>2, <2>3, <2>4 DEF Connect, TypeOK
<1>14. ASSUME NEW c \in Conns, StartDisconnect(c) PROVE TypeOK'
  <2>1. CASE c \in connMap
    <3>1. PICK j \in Jobs :
             /\ AddCommand(j, "DISCONNECT", c, pendingFlush)
             /\ stack' = Append(stack, Frame("poll", j, TRUE))
      BY <1>14, <2>1 DEF StartDisconnect, Push
    <3>2. stack' \in Seq(Frames)
      BY <3>1, FrameType, StackOfCalls DEF JobCalls
    <3>3. /\ cmdQ' \in Seq(Jobs) /\ active' \subseteq Jobs
          /\ pendingFlush' \subseteq Conns /\ job' \in [Jobs -> JobData]
      <4>1. pendingFlush \in SUBSET Conns
        BY DEF TypeOK
      <4> QED BY <3>1, <4>1, AddCommandType DEF Kinds
    <3> QED BY <1>14, <2>1, <3>2, <3>3 DEF StartDisconnect, TypeOK
  <2>2. CASE c \notin connMap
    BY <1>14, <2>2 DEF StartDisconnect, TypeOK
  <2> QED BY <2>1, <2>2
<1>15. ASSUME NEW c \in Conns, NEW call \in {"none", "exec", "query"}, StartQuery(c, call)
       PROVE  TypeOK'
  <2>1. PICK j \in Jobs :
           /\ AddCommand(j, "QUERY", c, pendingFlush)
           /\ stack' \in {stack, Append(stack, Frame(call, j, FALSE))}
           /\ call = "none" => stack' = stack
    BY <1>15 DEF StartQuery, Push
  <2>2. stack' \in Seq(Frames)
    <3>1. call # "none" => Frame(call, j, FALSE) \in Frames
      BY FrameType DEF JobCalls
    <3> QED BY <2>1, <3>1, StackOfCalls DEF TypeOK
  <2>3. /\ cmdQ' \in Seq(Jobs) /\ active' \subseteq Jobs
        /\ pendingFlush' \subseteq Conns /\ job' \in [Jobs -> JobData]
    <3>1. pendingFlush \in SUBSET Conns
      BY DEF TypeOK
    <3> QED BY <2>1, <3>1, AddCommandType DEF Kinds
  <2> QED BY <1>15, <2>2, <2>3 DEF StartQuery, TypeOK
<1>16. CASE DbPoll
  <2>1. stack' \in Seq(Frames)
    BY <1>16, FrameType, StackOfCalls DEF DbPoll, Push, JobCalls
  <2> QED BY <1>16, <2>1 DEF DbPoll, TypeOK, shared, mainVars
<1>17. CASE DbFree
  <2>1. PICK j \in Jobs :
           job' = [job EXCEPT ![j] = Freed(WithCallback(@, "log"), InQueue(j))]
    BY <1>17 DEF DbFree
  <2>2. InQueue(j) \in BOOLEAN
    BY DEF InQueue
  <2>3. job' \in [Jobs -> JobData]
    BY <2>1, <2>2, JobChanges DEF TypeOK
  <2> QED BY <1>17, <2>3 DEF DbFree, TypeOK, shared, mainVars
<1>18. CASE SetLogLevel
  <2>1. PICK j \in Jobs :
           /\ AddCommand(j, "SETLOGLEVEL", 0, pendingFlush)
           /\ stack' = Append(stack, Frame("exec", j, FALSE))
    BY <1>18 DEF SetLogLevel, Push
  <2>2. stack' \in Seq(Frames)
    BY <2>1, FrameType, StackOfCalls DEF JobCalls
  <2>3. /\ cmdQ' \in Seq(Jobs) /\ active' \subseteq Jobs
        /\ pendingFlush' \subseteq Conns /\ job' \in [Jobs -> JobData]
    <3>1. pendingFlush \in SUBSET Conns
      BY DEF TypeOK
    <3> QED BY <2>1, <3>1, AddCommandType DEF Kinds
  <2> QED BY <1>18, <2>2, <2>3 DEF SetLogLevel, TypeOK
<1>19. CASE WorkerTakes
  <2>1. Head(cmdQ) \in Jobs /\ worker' \in WorkerStates
    BY <1>19, HeadTailProperties DEF WorkerTakes, TypeOK, WorkerStates
  <2>2. job' \in [Jobs -> JobData]
    BY <1>19, <2>1 DEF WorkerTakes, TypeOK, JobData, Stages
  <2> QED BY <1>19, <2>1, <2>2 DEF WorkerTakes, TypeOK, shared, mainVars
<1>20. CASE WorkerProcesses
  <2>1. PICK o \in Outcomes(job[worker.job]) :
           /\ job' = [job EXCEPT ![worker.job].status = o.status]
           /\ connMap' = o.conns
    BY <1>20 DEF WorkerProcesses
  <2>2. worker.job \in Jobs /\ worker' \in WorkerStates
    BY <1>20 DEF WorkerProcesses, TypeOK, WorkerStates
  <2>3. /\ o.status \in Statuses
        /\ o.conns \in {connMap, connMap \cup {job[worker.job].conn},
                        connMap \ {job[worker.job].conn}}
        /\ job[worker.job].kind # "CONNECT" => o.conns \subseteq connMap
    BY DEF Outcomes, Statuses
  <2>4. job' \in [Jobs -> JobData]
    <3>1. job \in [Jobs -> JobData]
      BY DEF TypeOK
    <3>2. ASSUME NEW d \in JobData PROVE [d EXCEPT !.status = o.status] \in JobData
      BY <2>3 DEF JobData
    <3> QED BY <2>1, <2>2, <3>1, <3>2
  <2>5. job[worker.job].kind = "CONNECT" => job[worker.job].conn \in Conns
    BY <2>2 DEF TypeOK, JobData
  <2>6. connMap' \subseteq Conns
    BY <2>1, <2>3, <2>5 DEF TypeOK
  <2> QED BY <1>20, <2>2, <2>4, <2>6 DEF WorkerProcesses, TypeOK, mainVars
<1>21. CASE WorkerStores
  <2>1. CASE cmdQ # <<>> /\ Head(cmdQ) = worker.job
    <3>1. worker.job \in Jobs /\ Tail(cmdQ) \in Seq(Jobs)
      BY <2>1, HeadTailProperties DEF TypeOK
    <3>2. Append(resQ, worker.job) \in Seq(Jobs)
      BY <3>1, AppendToQueue DEF TypeOK
    <3>3. job' \in [Jobs -> JobData]
      <4>1. job' = [job EXCEPT ![worker.job].stage = "RESULT"]
        BY <1>21, <2>1 DEF WorkerStores
      <4>2. \A d \in JobData : [d EXCEPT !.stage = "RESULT"] \in JobData
        BY DEF JobData, Stages
      <4> QED BY <3>1, <4>1, <4>2 DEF TypeOK
    <3>4. worker' \in WorkerStates
      BY <1>21 DEF WorkerStores, WorkerStates
    <3> QED BY <1>21, <2>1, <3>1, <3>2, <3>3, <3>4 DEF WorkerStores, TypeOK, mainVars
  <2>2. CASE ~(cmdQ # <<>> /\ Head(cmdQ) = worker.job)
    BY <1>21, <2>2 DEF WorkerStores, TypeOK, mainVars, WorkerStates
  <2> QED BY <2>1, <2>2
<1>22. CASE WorkerExits
  BY <1>22 DEF WorkerExits, TypeOK, shared, mainVars, WorkerStates
<1>23. CASE UNCHANGED vars \/ Gone
  BY <1>23 DEF vars, shared, mainVars, Gone, TypeOK
<1> QED
  BY <1>1, <1>2, <1>3, <1>4, <1>5, <1>6, <1>7, <1>8, <1>9, <1>10, <1>11, <1>12, <1>13,
     <1>14, <1>15, <1>16, <1>17, <1>18, <1>19, <1>20, <1>21, <1>22, <1>23
  DEF Next, Worker, Proceed, Script, Destroy, ShutdownDisconnects, Disconnect,
      DbExec, DbQuery, DbQueryWithCallback

\* Type correctness in every reachable state.
THEOREM TypeCorrect == Spec => []TypeOK
<1>1. Init => TypeOK
  BY TypeInit
<1>2. TypeOK /\ [Next]_vars => TypeOK'
  BY TypeStep
<1> QED BY <1>1, <1>2, PTL DEF Spec

-----------------------------------------------------------------------------
(* Every live job is in exactly one place.                                  *)

\* Steps that move no job and change no stage.
LEMMA PlacesKept ==
    ASSUME TypeOK, JobAccounting,
           UNCHANGED <<cmdQ, resQ, active, finished>>, worker'.job = worker.job,
           \A j \in Jobs : job'[j].stage = job[j].stage
    PROVE  JobAccounting'
<1>1. Elems(cmdQ) \subseteq Jobs /\ Elems(resQ) \subseteq Jobs /\ finished \subseteq Jobs
  BY ElemsType DEF TypeOK
<1> QED BY <1>1 DEF JobAccounting

\* A new job.
LEMMA PlacesAfterAdd ==
    ASSUME TypeOK, JobAccounting, NEW j, NEW kind, NEW c, NEW flushes,
           AddCommand(j, kind, c, flushes), UNCHANGED <<resQ, finished, worker>>
    PROVE  JobAccounting'
<1>1. /\ j \in Jobs \ active /\ active' = active \cup {j}
      /\ job' = [job EXCEPT ![j] = NewJob(kind, c)] /\ cmdQ' = Append(cmdQ, j)
  BY DEF AddCommand
<1>2. Elems(cmdQ) \subseteq Jobs /\ Elems(resQ) \subseteq Jobs /\ finished \subseteq Jobs
  BY ElemsType DEF TypeOK
<1>3. /\ Elems(cmdQ') = Elems(cmdQ) \cup {j}
      /\ Distinct(cmdQ) /\ j \notin Elems(cmdQ) => Distinct(cmdQ')
      /\ cmdQ # <<>> => Head(cmdQ') = Head(cmdQ)
      /\ cmdQ' # <<>>
  BY <1>1, AppendToQueue DEF TypeOK
<1>4. /\ job'[j].stage = "COMMAND_QUEUE"
      /\ \A k \in Jobs \ {j} : job'[k] = job[k]
  BY <1>1 DEF NewJob, TypeOK
<1>5. worker.job # NoJob => worker.job \in Elems(cmdQ)
  BY TailOfQueue DEF JobAccounting, TypeOK
<1>6. j \notin Elems(cmdQ) \cup Elems(resQ) \cup finished /\ worker.job # j
  BY <1>1, <1>5, NoJobAssumption DEF JobAccounting, NoJob
<1>7. /\ active' = Elems(cmdQ') \cup Elems(resQ) \cup finished
      /\ Elems(cmdQ') \cap Elems(resQ) = {}
      /\ (Elems(cmdQ') \cup Elems(resQ)) \cap finished = {}
      /\ Distinct(cmdQ')
  BY <1>1, <1>3, <1>6 DEF JobAccounting
<1>8. \A k \in Elems(cmdQ') : job'[k].stage = IF k = worker.job THEN "PROCESSING"
                                             ELSE "COMMAND_QUEUE"
  BY <1>2, <1>3, <1>4, <1>6 DEF JobAccounting
<1>9. /\ \A k \in Elems(resQ) : job'[k].stage = "RESULT"
      /\ \A k \in finished : job'[k].stage = "FINISHED"
  BY <1>2, <1>4, <1>6 DEF JobAccounting
<1> QED BY <1>3, <1>7, <1>8, <1>9 DEF JobAccounting

\* A result is collected by a poll, or dropped by DoPulse.
LEMMA PlacesAfterFinish ==
    ASSUME TypeOK, JobAccounting, NEW j \in Elems(resQ),
           resQ' = Without(resQ, j), finished' = finished \cup {j},
           UNCHANGED <<cmdQ, active, worker>>,
           job'[j].stage = "FINISHED",
           \A k \in Jobs \ {j} : job'[k].stage = job[k].stage
    PROVE  JobAccounting'
<1>1. Elems(cmdQ) \subseteq Jobs /\ Elems(resQ) \subseteq Jobs /\ finished \subseteq Jobs
  BY ElemsType DEF TypeOK
<1>2. Elems(resQ') = Elems(resQ) \ {j} /\ Distinct(resQ')
  BY RemoveFromQueue DEF TypeOK, JobAccounting
<1>3. j \notin Elems(cmdQ) /\ j \notin finished
  BY DEF JobAccounting
<1>4. \A k \in Elems(cmdQ) : job'[k].stage = job[k].stage
  BY <1>1, <1>3
<1>5. \A k \in Elems(resQ') \cup finished : job'[k].stage = job[k].stage
  BY <1>1, <1>2, <1>3
<1> QED BY <1>2, <1>3, <1>4, <1>5 DEF JobAccounting

\* DoPulse deletes the finished jobs.
LEMMA PlacesAfterDelete ==
    ASSUME TypeOK, JobAccounting, PulseDeletes
    PROVE  JobAccounting'
<1>1. Elems(cmdQ) \subseteq Jobs /\ Elems(resQ) \subseteq Jobs
  BY ElemsType DEF TypeOK
<1>2. /\ UNCHANGED <<cmdQ, resQ, worker>> /\ finished' = {}
      /\ active' = active \ finished
      /\ \A j \in Jobs \ finished : job'[j] = job[j]
  BY DEF PulseDeletes, shared
<1>3. active' = Elems(cmdQ) \cup Elems(resQ)
  BY <1>2 DEF JobAccounting
<1>4. \A j \in Elems(cmdQ) \cup Elems(resQ) : job'[j].stage = job[j].stage
  BY <1>1, <1>2 DEF JobAccounting
<1> QED BY <1>2, <1>3, <1>4 DEF JobAccounting

\* The service thread begins to process the front of its queue.
LEMMA PlacesAfterTake ==
    ASSUME TypeOK, JobAccounting, WorkerTakes
    PROVE  JobAccounting'
<1> DEFINE h == Head(cmdQ)
<1>1. Elems(cmdQ) \subseteq Jobs /\ Elems(resQ) \subseteq Jobs /\ finished \subseteq Jobs
  BY ElemsType DEF TypeOK
<1>2. /\ UNCHANGED <<cmdQ, resQ, active, finished>> /\ worker'.job = h
      /\ job' = [job EXCEPT ![h].stage = "PROCESSING"] /\ cmdQ # <<>>
  BY DEF WorkerTakes, shared, mainVars
<1>3. h \in Elems(cmdQ) /\ h \in Jobs
  BY <1>1, <1>2, TailOfQueue DEF TypeOK, JobAccounting
<1>4. /\ job'[h].stage = "PROCESSING"
      /\ \A k \in Jobs \ {h} : job'[k] = job[k]
  BY <1>2, <1>3 DEF TypeOK, JobData
<1>5. worker.job = NoJob
  BY DEF WorkerTakes, TypeOK, WorkerStates
<1>6. \A k \in Elems(cmdQ) : job'[k].stage = IF k = h THEN "PROCESSING"
                                            ELSE "COMMAND_QUEUE"
  BY <1>1, <1>4, <1>5, NoJobAssumption DEF JobAccounting, NoJob
<1>7. \A k \in Elems(resQ) \cup finished : job'[k].stage = job[k].stage
  BY <1>1, <1>3, <1>4 DEF JobAccounting
<1> HIDE DEF h
<1>8. \A k \in Elems(cmdQ) : k = worker'.job <=> k = h
  BY <1>2
<1> QED BY <1>2, <1>6, <1>7, <1>8 DEF JobAccounting, h

\* The service thread moves the job it has processed to the result queue.
LEMMA PlacesAfterStore ==
    ASSUME TypeOK, JobAccounting, WorkerStores
    PROVE  JobAccounting'
<1> DEFINE h == worker.job
<1>1. Elems(cmdQ) \subseteq Jobs /\ Elems(resQ) \subseteq Jobs /\ finished \subseteq Jobs
  BY ElemsType DEF TypeOK
<1>2. h \in Jobs /\ cmdQ # <<>> /\ h = Head(cmdQ)
  BY NoJobAssumption DEF WorkerStores, TypeOK, WorkerStates, JobAccounting, NoJob
<1>3. /\ cmdQ' = Tail(cmdQ) /\ resQ' = Append(resQ, h)
      /\ job' = [job EXCEPT ![h].stage = "RESULT"]
      /\ UNCHANGED <<active, finished>> /\ worker'.job = NoJob
  BY <1>2 DEF WorkerStores, mainVars
<1>4. /\ h \in Elems(cmdQ) /\ Elems(cmdQ') = Elems(cmdQ) \ {h} /\ Distinct(cmdQ')
  BY <1>2, <1>3, TailOfQueue DEF TypeOK, JobAccounting
<1>5. h \notin Elems(resQ) /\ h \notin finished
  BY <1>4 DEF JobAccounting
<1>6. Elems(resQ') = Elems(resQ) \cup {h} /\ Distinct(resQ')
  BY <1>2, <1>3, <1>5, AppendToQueue DEF TypeOK, JobAccounting
<1>7. /\ job'[h].stage = "RESULT"
      /\ \A k \in Jobs \ {h} : job'[k] = job[k]
  BY <1>2, <1>3 DEF TypeOK, JobData
<1>8. \A k \in Elems(cmdQ') : job'[k].stage = "COMMAND_QUEUE" /\ k # NoJob
  BY <1>1, <1>4, <1>7, NoJobAssumption DEF JobAccounting, NoJob
<1>9. \A k \in Elems(resQ') : job'[k].stage = "RESULT"
  BY <1>1, <1>5, <1>6, <1>7 DEF JobAccounting
<1>10. \A k \in finished : job'[k].stage = "FINISHED"
  BY <1>1, <1>5, <1>7 DEF JobAccounting
<1>11. /\ active' = Elems(cmdQ') \cup Elems(resQ') \cup finished'
       /\ Elems(cmdQ') \cap Elems(resQ') = {}
       /\ (Elems(cmdQ') \cup Elems(resQ')) \cap finished' = {}
  BY <1>3, <1>4, <1>5, <1>6 DEF JobAccounting
<1> HIDE DEF h
<1> QED BY <1>3, <1>4, <1>6, <1>8, <1>9, <1>10, <1>11 DEF JobAccounting

\* DoPulse looks at one result: it drops it, or leaves it where it is.
LEMMA PlacesAfterScan ==
    ASSUME TypeOK, JobAccounting, PulseScans
    PROVE  JobAccounting'
<1>1. PICK i \in 1..Len(resQ), isValid \in BOOLEAN :
         /\ job' = [job EXCEPT ![resQ[i]] = CalledBack(Dropped(job[resQ[i]]), isValid)]
         /\ resQ' = IF Dropped(job[resQ[i]]).ignore THEN Without(resQ, resQ[i]) ELSE resQ
         /\ finished' = IF Dropped(job[resQ[i]]).ignore THEN finished \cup {resQ[i]}
                                                        ELSE finished
  BY DEF PulseScans
<1> DEFINE j == resQ[i]
<1>2. j \in Elems(resQ) /\ j \in Jobs /\ job[j] \in JobData
  BY ElemsType DEF TypeOK, Elems
<1>3. /\ Dropped(job[j]).ignore = job[j].ignore
      /\ Dropped(job[j]) \in JobData
      /\ Dropped(job[j]).stage = IF job[j].ignore THEN "FINISHED" ELSE job[j].stage
  BY <1>2, JobChanges DEF Dropped, JobData
<1>4. /\ job'[j].stage = Dropped(job[j]).stage
      /\ \A k \in Jobs \ {j} : job'[k] = job[k]
  <2>1. job'[j] = CalledBack(Dropped(job[j]), isValid)
    BY <1>1, <1>2 DEF TypeOK
  <2>2. job'[j].stage = Dropped(job[j]).stage
    <3> DEFINE d == Dropped(job[j])
    <3>1. d \in JobData
      BY <1>3
    <3> HIDE DEF d
    <3>2. CalledBack(d, isValid).stage = d.stage
      BY <3>1, JobChanges
    <3> QED BY <2>1, <3>2 DEF d
  <2> QED BY <1>1, <1>2, <2>2 DEF TypeOK
<1>5. UNCHANGED <<cmdQ, active, worker>>
  BY DEF PulseScans
<1> HIDE DEF j
<1>6. CASE job[j].ignore
  BY <1>1, <1>2, <1>3, <1>4, <1>5, <1>6, PlacesAfterFinish DEF j
<1>7. CASE ~job[j].ignore
  <2>1. UNCHANGED <<cmdQ, resQ, active, finished, worker>>
    BY <1>1, <1>3, <1>5, <1>7 DEF j
  <2>2. \A k \in Jobs : job'[k].stage = job[k].stage
    BY <1>3, <1>4, <1>7
  <2> QED BY <2>1, <2>2, PlacesKept
<1> QED BY <1>6, <1>7

\* Every step keeps each live job in its place, or moves it to the next one.
LEMMA AccountingStep ==
    ASSUME TypeOK, JobAccounting, [Next]_vars
    PROVE  JobAccounting'
<1>1. ASSUME NEW d \in JobData, NEW b \in BOOLEAN, NEW cb \in {"unset", "lua", "log"}
      PROVE  /\ WithCallback(Freed(d, b), cb).stage = d.stage
             /\ Freed(WithCallback(d, cb), b).stage = d.stage
  <2>1. /\ Freed(d, b) \in JobData /\ Freed(d, b).stage = d.stage
        /\ WithCallback(d, cb) \in JobData /\ WithCallback(d, cb).stage = d.stage
    BY <1>1, JobChanges
  <2> DEFINE f == Freed(d, b)
             w == WithCallback(d, cb)
  <2> HIDE DEF f, w
  <2>2. WithCallback(f, cb).stage = f.stage /\ Freed(w, b).stage = w.stage
    BY <2>1, JobChanges DEF f, w
  <2> QED BY <2>1, <2>2 DEF f, w
<1>2. ASSUME FinishExec \/ FinishQuery \/ DbFree
      PROVE  \A k \in Jobs : job'[k].stage = job[k].stage
  <2>1. CASE FinishExec
    <3>1. PICK cb \in {"unset", "lua", "log"} :
             job' = [job EXCEPT ![Top.job] = WithCallback(Freed(@, InQueue(Top.job)), cb)]
      BY <2>1 DEF FinishExec
    <3>2. InQueue(Top.job) \in BOOLEAN
      BY DEF InQueue
    <3> QED BY <1>1, <3>1, <3>2 DEF TypeOK
  <2>2. CASE FinishQuery
    <3>1. job' = [job EXCEPT ![Top.job] = WithCallback(@, "lua")]
      BY <2>2 DEF FinishQuery
    <3>2. \A d \in JobData : WithCallback(d, "lua").stage = d.stage
      BY JobChanges
    <3> QED BY <3>1, <3>2 DEF TypeOK
  <2>3. CASE DbFree
    <3>1. PICK j \in Jobs :
             job' = [job EXCEPT ![j] = Freed(WithCallback(@, "log"), InQueue(j))]
      BY <2>3 DEF DbFree
    <3>2. InQueue(j) \in BOOLEAN
      BY DEF InQueue
    <3> QED BY <1>1, <3>1, <3>2 DEF TypeOK
  <2> QED BY <1>2, <2>1, <2>2, <2>3
<1>3. CASE FinishExec \/ FinishQuery \/ DbFree
  BY <1>2, <1>3, PlacesKept DEF FinishExec, FinishQuery, DbFree, shared, mainVars
<1>4. CASE PollTakes
  <2> DEFINE j == Top.job
  <2>1. /\ j \in Elems(resQ) /\ resQ' = Without(resQ, j)
        /\ finished' = finished \cup {j} /\ UNCHANGED <<cmdQ, active, worker>>
        /\ job' = [job EXCEPT ![j] = Collected(@)]
    BY <1>4 DEF PollTakes
  <2>2. j \in Jobs
    BY <2>1, ElemsType DEF TypeOK
  <2>3. job'[j].stage = "FINISHED" /\ \A k \in Jobs \ {j} : job'[k] = job[k]
    BY <2>1, <2>2, JobChanges DEF TypeOK
  <2> HIDE DEF j
  <2> QED BY <2>1, <2>3, PlacesAfterFinish
<1>5. CASE PollTimesOut \/ PollWarns \/ PollReportsError \/ ScriptReturns
           \/ PulseBegins \/ PulseLocks \/ PulseEnds \/ DbPoll \/ Shutdown \/ ShutdownStops
  BY <1>5, PlacesKept
  DEF PollTimesOut, PollWarns, PollReportsError, ScriptReturns, PulseBegins, PulseLocks, PulseEnds,
      DbPoll, Shutdown, ShutdownStops, shared, mainVars
<1>6. CASE PollReturns
  <2>1. \A k \in Jobs : job'[k].stage = job[k].stage
    <3>1. \A c : \A k \in Jobs : IgnoreConnectionResults(c)[k].stage = job[k].stage
      BY DEF IgnoreConnectionResults, TypeOK, JobData
    <3> QED BY <1>6, <3>1 DEF PollReturns
  <2> QED BY <1>6, <2>1, PlacesKept DEF PollReturns, shared
<1>7. CASE PulseFlushes
  BY <1>7, PlacesAfterAdd DEF PulseFlushes
<1>8. CASE Connect
  BY <1>8, PlacesAfterAdd DEF Connect
<1>9. ASSUME NEW c \in Conns, StartDisconnect(c) PROVE JobAccounting'
  <2>1. CASE c \in connMap
    BY <1>9, <2>1, PlacesAfterAdd DEF StartDisconnect
  <2>2. CASE c \notin connMap
    BY <1>9, <2>2, PlacesKept DEF StartDisconnect
  <2> QED BY <2>1, <2>2
<1>10. ASSUME NEW c \in Conns, NEW call \in {"none", "exec", "query"}, StartQuery(c, call)
       PROVE  JobAccounting'
  BY <1>10, PlacesAfterAdd DEF StartQuery
<1>11. CASE SetLogLevel
  BY <1>11, PlacesAfterAdd DEF SetLogLevel
<1>12. CASE ShutdownEnds
  <2>1. worker'.job = worker.job
    BY <1>12 DEF ShutdownEnds, TypeOK, WorkerStates
  <2> QED BY <1>12, <2>1, PlacesKept DEF ShutdownEnds, shared, mainVars
<1>13. CASE WorkerProcesses
  <2>1. worker'.job = worker.job
    BY <1>13 DEF WorkerProcesses, TypeOK, WorkerStates
  <2>2. PICK s : job' = [job EXCEPT ![worker.job].status = s]
    BY <1>13 DEF WorkerProcesses
  <2>3. \A k \in Jobs : job'[k].stage = job[k].stage
    BY <2>2 DEF TypeOK, JobData
  <2> QED BY <1>13, <2>1, <2>3, PlacesKept DEF WorkerProcesses, mainVars
<1>14. CASE WorkerExits
  <2>1. worker'.job = worker.job
    BY <1>14 DEF WorkerExits, TypeOK, WorkerStates
  <2> QED BY <1>14, <2>1, PlacesKept DEF WorkerExits, shared, mainVars
<1>15. CASE UNCHANGED vars \/ Gone
  BY <1>15, PlacesKept DEF vars, shared, mainVars, Gone
<1> QED
  BY <1>3, <1>4, <1>5, <1>6, <1>7, <1>8, <1>9, <1>10, <1>11, <1>12, <1>13, <1>14, <1>15,
     PlacesAfterDelete, PlacesAfterScan, PlacesAfterTake, PlacesAfterStore
  DEF Next, Worker, Proceed, Script, Destroy, ShutdownDisconnects, Disconnect,
      DbExec, DbQuery, DbQueryWithCallback

\* Every live job is in exactly one of the command queue, the result queue and
\* the finished list, at that place's stage, in every reachable state.
THEOREM JobsAccounted == Spec => []JobAccounting
<1>1. Init => JobAccounting
  BY DEF Init, JobAccounting, Elems, Distinct, NoJob
<1>2. TypeOK /\ JobAccounting /\ [Next]_vars => JobAccounting'
  BY AccountingStep
<1> QED BY <1>1, <1>2, TypeCorrect, PTL DEF Spec

-----------------------------------------------------------------------------
(* No callback is lost.                                                     *)

\* Steps after which the callbacks of the finished jobs are as they were.
LEMMA CallbacksKept ==
    ASSUME NoCallbackLost, finished' = finished,
           \A j \in finished : job'[j].cb = job[j].cb
    PROVE  NoCallbackLost'
BY DEF NoCallbackLost, HasCallback, Uncalled

\* A new job is none of the finished ones.
LEMMA CallbacksAfterAdd ==
    ASSUME TypeOK, JobAccounting, NoCallbackLost, NEW j, NEW kind, NEW c, NEW flushes,
           AddCommand(j, kind, c, flushes), finished' = finished
    PROVE  NoCallbackLost'
<1>1. j \in Jobs \ finished /\ job' = [job EXCEPT ![j] = NewJob(kind, c)]
  BY DEF AddCommand, JobAccounting
<1>2. \A k \in finished : job'[k] = job[k]
  BY <1>1 DEF TypeOK
<1> QED BY <1>2, CallbacksKept

\* A finished job's callback has been called or was never set, and SetCallback
\* sets none any more.
LEMMA CallbackStep ==
    ASSUME TypeOK, JobAccounting, NoCallbackLost, [Next]_vars
    PROVE  NoCallbackLost'
<1>1. \A k \in finished : k \in Jobs /\ job[k] \in JobData /\ job[k].stage = "FINISHED"
  BY DEF TypeOK, JobAccounting
<1>2. ASSUME NEW d \in JobData, d.stage = "FINISHED",
             NEW b \in BOOLEAN, NEW cb \in {"unset", "lua", "log"}
      PROVE  /\ WithCallback(d, cb).cb = d.cb
             /\ WithCallback(Freed(d, b), cb).cb = d.cb
             /\ Freed(WithCallback(d, cb), b).cb = d.cb
  <2>1. /\ Freed(d, b) \in JobData /\ Freed(d, b).stage = "FINISHED"
        /\ Freed(d, b).cb = d.cb /\ WithCallback(d, cb) = d
    BY <1>2, JobChanges
  <2> DEFINE f == Freed(d, b)
  <2> HIDE DEF f
  <2>2. WithCallback(f, cb) = f
    BY <2>1, JobChanges DEF f
  <2> QED BY <2>1, <2>2 DEF f
<1>3. CASE FinishExec \/ FinishQuery \/ DbFree
  <2>1. \A j \in Jobs : InQueue(j) \in BOOLEAN
    BY DEF InQueue
  <2>2. CASE FinishExec
    <3>1. PICK cb \in {"unset", "lua", "log"} :
             job' = [job EXCEPT ![Top.job] = WithCallback(Freed(@, InQueue(Top.job)), cb)]
      BY <2>2 DEF FinishExec
    <3>2. \A k \in finished : job'[k].cb = job[k].cb
      BY <1>1, <1>2, <2>1, <3>1 DEF TypeOK
    <3> QED BY <2>2, <3>2, CallbacksKept DEF FinishExec, mainVars
  <2>3. CASE FinishQuery
    <3>1. job' = [job EXCEPT ![Top.job] = WithCallback(@, "lua")]
      BY <2>3 DEF FinishQuery
    <3>2. \A k \in finished : WithCallback(job[k], "lua").cb = job[k].cb
      BY <1>1, <1>2
    <3>3. \A k \in finished : job'[k].cb = job[k].cb
      BY <1>1, <3>1, <3>2 DEF TypeOK
    <3> QED BY <2>3, <3>3, CallbacksKept DEF FinishQuery, mainVars
  <2>4. CASE DbFree
    <3>1. PICK j \in Jobs :
             job' = [job EXCEPT ![j] = Freed(WithCallback(@, "log"), InQueue(j))]
      BY <2>4 DEF DbFree
    <3>2. \A k \in finished : job'[k].cb = job[k].cb
      BY <1>1, <1>2, <2>1, <3>1 DEF TypeOK
    <3> QED BY <2>4, <3>2, CallbacksKept DEF DbFree, mainVars
  <2> QED BY <1>3, <2>2, <2>3, <2>4
<1>4. CASE PollTakes
  <2> DEFINE j == Top.job
  <2>1. /\ j \in Elems(resQ) /\ finished' = finished \cup {j}
        /\ job' = [job EXCEPT ![j] = Collected(@)]
    BY <1>4 DEF PollTakes
  <2>2. j \in Jobs /\ job[j] \in JobData
    BY <2>1, ElemsType DEF TypeOK
  <2>3. ~Uncalled(Collected(job[j]))
    BY <2>2, JobChanges
  <2>4. job'[j] = Collected(job[j]) /\ \A k \in finished \ {j} : job'[k] = job[k]
    BY <1>1, <2>1, <2>2 DEF TypeOK
  <2> HIDE DEF j
  <2> QED BY <2>1, <2>3, <2>4 DEF NoCallbackLost, HasCallback, Uncalled
<1>5. CASE PulseScans
  <2>1. PICK i \in 1..Len(resQ), isValid \in BOOLEAN :
           /\ job' = [job EXCEPT ![resQ[i]] = CalledBack(Dropped(job[resQ[i]]), isValid)]
           /\ finished' \in {finished, finished \cup {resQ[i]}}
    BY <1>5 DEF PulseScans
  <2> DEFINE j == resQ[i]
             d == Dropped(job[j])
  <2>2. j \in Jobs /\ d \in JobData
    BY JobChanges, ElemsType DEF TypeOK, Elems
  <2>3. /\ job'[j] = CalledBack(d, isValid)
        /\ \A k \in finished \ {j} : job'[k] = job[k]
    BY <1>1, <2>1, <2>2 DEF TypeOK
  <2> HIDE DEF d
  <2>4. ~Uncalled(job'[j])
    <3>1. ~Uncalled(CalledBack(d, isValid))
      BY <2>2, JobChanges
    <3> QED BY <2>3, <3>1
  <2> HIDE DEF j
  <2> QED BY <2>1, <2>3, <2>4 DEF NoCallbackLost, HasCallback, Uncalled, j
<1>6. CASE PulseDeletes
  BY <1>6 DEF PulseDeletes, NoCallbackLost
<1>7. CASE PollTimesOut \/ PollWarns \/ PollReportsError \/ ScriptReturns
           \/ PulseBegins \/ PulseLocks \/ PulseEnds \/ DbPoll \/ Shutdown \/ ShutdownStops \/ ShutdownEnds
           \/ WorkerExits \/ UNCHANGED vars \/ Gone
  BY <1>7, CallbacksKept
  DEF PollTimesOut, PollWarns, PollReportsError, ScriptReturns, PulseBegins, PulseLocks, PulseEnds,
      DbPoll, Shutdown, ShutdownStops, ShutdownEnds, WorkerExits, Gone, vars,
      shared, mainVars
<1>8. CASE PollReturns
  <2>1. \A c : \A k \in Jobs : IgnoreConnectionResults(c)[k].cb = job[k].cb
    BY DEF IgnoreConnectionResults, TypeOK, JobData
  <2>2. \A k \in finished : job'[k].cb = job[k].cb
    BY <1>1, <1>8, <2>1 DEF PollReturns
  <2> QED BY <1>8, <2>2, CallbacksKept DEF PollReturns
<1>9. CASE PulseFlushes \/ Connect \/ SetLogLevel
  BY <1>9, CallbacksAfterAdd DEF PulseFlushes, Connect, SetLogLevel
<1>10. ASSUME NEW c \in Conns, StartDisconnect(c) PROVE NoCallbackLost'
  <2>1. CASE c \in connMap
    BY <1>10, <2>1, CallbacksAfterAdd DEF StartDisconnect
  <2>2. CASE c \notin connMap
    BY <1>10, <2>2, CallbacksKept DEF StartDisconnect
  <2> QED BY <2>1, <2>2
<1>11. ASSUME NEW c \in Conns, NEW call \in {"none", "exec", "query"}, StartQuery(c, call)
       PROVE  NoCallbackLost'
  BY <1>11, CallbacksAfterAdd DEF StartQuery
<1>12. CASE WorkerTakes \/ WorkerProcesses \/ WorkerStores
  <2>1. finished' = finished
    BY <1>12 DEF WorkerTakes, WorkerProcesses, WorkerStores, mainVars
  <2>2. \/ \E h, s : job' = [job EXCEPT ![h].stage = s]
        \/ \E h, s : job' = [job EXCEPT ![h].status = s]
        \/ job' = job
    BY <1>12 DEF WorkerTakes, WorkerProcesses, WorkerStores
  <2>3. \A k \in finished : job'[k].cb = job[k].cb
    <3>1. ASSUME NEW d \in JobData, NEW s
          PROVE  [d EXCEPT !.stage = s].cb = d.cb /\ [d EXCEPT !.status = s].cb = d.cb
      BY DEF JobData
    <3>2. CASE \E h, s : job' = [job EXCEPT ![h].stage = s]
      BY <1>1, <3>1, <3>2 DEF TypeOK
    <3>3. CASE \E h, s : job' = [job EXCEPT ![h].status = s]
      BY <1>1, <3>1, <3>3 DEF TypeOK
    <3> QED BY <2>2, <3>2, <3>3
  <2> QED BY <2>1, <2>3, CallbacksKept
<1> QED
  BY <1>3, <1>4, <1>5, <1>6, <1>7, <1>8, <1>9, <1>10, <1>11, <1>12
  DEF Next, Worker, Proceed, Script, Destroy, ShutdownDisconnects, Disconnect,
      DbExec, DbQuery, DbQueryWithCallback

\* dassert(!pJobData->HasCallback()): no job reaches the finished list, from
\* which DoPulse deletes it, with a callback that is still to be called.
THEOREM CallbacksCalled == Spec => []NoCallbackLost
<1>1. Init => NoCallbackLost
  BY DEF Init, NoCallbackLost
<1>2. TypeOK /\ JobAccounting /\ NoCallbackLost /\ [Next]_vars => NoCallbackLost'
  BY CallbackStep
<1> QED BY <1>1, <1>2, TypeCorrect, JobsAccounted, PTL DEF Spec

-----------------------------------------------------------------------------
(* Nobody holds a deleted job.                                              *)

\* DoPulse and the shutdown are only ever at the bottom of the stack: when
\* DoPulse deletes jobs, no other call is in progress.
StackShape == \A i \in 1..Len(stack) : stack[i].call \in PlainCalls => i = 1

\* A call in progress holds a job that exists, and one that has been given a
\* result holds a job of the finished list.
Holds(f, live, done) == /\ f.job # NoJob => f.job \in live
                        /\ f.call = "polled" => f.job \in done
WorkerHolds == worker.pc \in {"busy", "store"} => worker.job \in active

\* HeldJobsExist, call by call.
LEMMA HeldByCalls ==
    HeldJobsExist <=> WorkerHolds /\ \A i \in 1..Len(stack) : Holds(stack[i], active, finished)
BY DEF HeldJobsExist, WorkerHolds, Holds

\* Steps that delete no job, and only put sound calls on the stack.
LEMMA CallsHold ==
    ASSUME HeldJobsExist, StackShape, active \subseteq active', finished \subseteq finished',
           \A i \in 1..Len(stack') :
              \/ i \in 1..Len(stack) /\ stack'[i] = stack[i]
              \/ Holds(stack'[i], active', finished') /\ (stack'[i].call \in PlainCalls => i = 1)
    PROVE  StackShape' /\ \A i \in 1..Len(stack') : Holds(stack'[i], active', finished')
<1>1. \A i \in 1..Len(stack) : Holds(stack[i], active, finished)
  BY HeldByCalls
<1> QED BY <1>1 DEF StackShape, Holds

\* The same for a step that returns to the caller.
LEMMA ReturnHolds ==
    ASSUME TypeOK, HeldJobsExist, StackShape, stack # <<>>, Return,
           active \subseteq active', finished \subseteq finished'
    PROVE  StackShape' /\ \A i \in 1..Len(stack') : Holds(stack'[i], active', finished')
BY StackOfCalls, CallsHold DEF Return

\* A step that starts a call on top of the stack.
LEMMA PushHolds ==
    ASSUME TypeOK, HeldJobsExist, StackShape, NEW f \in Frames, Push(f), Holds(f, active', finished'),
           f.call \in PlainCalls => stack = <<>>,
           active \subseteq active', finished \subseteq finished'
    PROVE  StackShape' /\ \A i \in 1..Len(stack') : Holds(stack'[i], active', finished')
<1>1. /\ stack' = Append(stack, f) /\ Len(stack') = Len(stack) + 1
      /\ stack'[Len(stack) + 1] = f
      /\ \A i \in 1..Len(stack) : stack'[i] = stack[i]
      /\ Len(stack) \in Nat /\ (stack = <<>> => Len(stack) = 0)
  BY StackOfCalls, LenProperties DEF Push, TypeOK
<1>2. \A i \in 1..Len(stack') : i = Len(stack) + 1 \/ i \in 1..Len(stack)
  BY <1>1
<1> QED BY <1>1, <1>2, CallsHold DEF Holds

\* A step that turns the top of the stack into another call.
LEMMA BecomeHolds ==
    ASSUME TypeOK, HeldJobsExist, StackShape, stack # <<>>,
           NEW f \in Frames, Become(f), Holds(f, active', finished'),
           f.call \in PlainCalls => Top.call \in PlainCalls,
           active \subseteq active', finished \subseteq finished'
    PROVE  StackShape' /\ \A i \in 1..Len(stack') : Holds(stack'[i], active', finished')
<1>1. /\ Len(stack) \in Nat \ {0} /\ Len(stack') = Len(stack)
      /\ stack'[Len(stack)] = f
      /\ \A i \in 1..(Len(stack) - 1) : stack'[i] = stack[i]
  BY StackOfCalls DEF Become
<1>2. f.call \in PlainCalls => Len(stack) = 1
  BY <1>1 DEF StackShape, Top
<1>3. \A i \in 1..Len(stack') : i = Len(stack) \/ i \in 1..(Len(stack) - 1)
  BY <1>1
<1> QED BY <1>1, <1>2, <1>3, CallsHold DEF Holds

\* One call becomes two: a result is handed over, or the scan interrupted, and a
\* piece of script starts.
LEMMA BecomeTwoHolds ==
    ASSUME TypeOK, HeldJobsExist, StackShape, stack # <<>>,
           NEW f \in Frames, NEW g \in Frames,
           stack' = Append(Append(Caller, f), g), Holds(f, active', finished'), Holds(g, active', finished'),
           f.call \in PlainCalls => Top.call \in PlainCalls, g.call \notin PlainCalls,
           active \subseteq active', finished \subseteq finished'
    PROVE  StackShape' /\ \A i \in 1..Len(stack') : Holds(stack'[i], active', finished')
<1> DEFINE s == Append(Caller, f)
<1>1. /\ Len(stack) \in Nat \ {0} /\ s \in Seq(Frames) /\ Len(s) = Len(stack)
      /\ s[Len(stack)] = f
      /\ \A i \in 1..(Len(stack) - 1) : s[i] = stack[i]
  BY StackOfCalls
<1> HIDE DEF s
<1>2. /\ Len(Append(s, g)) = Len(stack) + 1 /\ Append(s, g)[Len(stack) + 1] = g
      /\ \A i \in 1..Len(stack) : Append(s, g)[i] = s[i]
  BY <1>1, AppendProperties
<1>3. /\ Len(stack') = Len(stack) + 1 /\ stack'[Len(stack) + 1] = g
      /\ stack'[Len(stack)] = f
      /\ \A i \in 1..(Len(stack) - 1) : stack'[i] = stack[i]
  BY <1>1, <1>2 DEF s
<1>4. f.call \in PlainCalls => Len(stack) = 1
  BY <1>1 DEF StackShape, Top
<1>5. \A i \in 1..Len(stack') :
         i = Len(stack) + 1 \/ i = Len(stack) \/ i \in 1..(Len(stack) - 1)
  BY <1>1, <1>3
<1> QED BY <1>1, <1>3, <1>4, <1>5, CallsHold DEF Holds

\* The deletion in DoPulse: it is the only call in progress, and the job the
\* service thread works on is still in the command queue.
LEMMA DeleteHolds ==
    ASSUME TypeOK, JobAccounting, HeldJobsExist, StackShape, PulseDeletes
    PROVE  StackShape' /\ HeldJobsExist'
<1>1. /\ Len(stack) \in Nat \ {0} /\ Top.call \in PlainCalls
      /\ Simple("scan") \in Frames
  BY StackOfCalls, FrameType DEF PulseDeletes, Running, PlainCalls
<1>2. Len(stack) = 1
  <2>1. Len(stack) \in 1..Len(stack) /\ stack[Len(stack)].call \in PlainCalls
    BY <1>1 DEF Top
  <2> QED BY <2>1 DEF StackShape
<1>3. Len(stack') = 1 /\ stack'[1] = Simple("scan")
  BY <1>1, <1>2, StackOfCalls DEF PulseDeletes, Become, Running
<1>4. Holds(Simple("scan"), active', finished')
  BY DEF Holds, Simple, Frame
<1>5. WorkerHolds'
  <2>1. worker.pc \in {"busy", "store"} => worker.job \in Elems(cmdQ)
    BY NoJobAssumption, TailOfQueue DEF JobAccounting, TypeOK, WorkerStates, NoJob
  <2> QED BY <2>1 DEF WorkerHolds, PulseDeletes, JobAccounting
<1>6. \A i \in 1..Len(stack') : Holds(stack'[i], active', finished')
  BY <1>3, <1>4 DEF Holds
<1> QED BY <1>3, <1>5, <1>6, HeldByCalls DEF StackShape, HeldJobsExist, WorkerHolds, Holds

\* The service thread and every call in progress hold jobs that exist.
LEMMA HeldStep ==
    ASSUME TypeOK, JobAccounting, HeldJobsExist, StackShape, [Next]_vars
    PROVE  StackShape' /\ HeldJobsExist'
<1>1. stack # <<>> /\ Top.job # NoJob => Top.job \in active
  <2>1. stack # <<>> => Len(stack) \in 1..Len(stack)
    BY StackOfCalls
  <2> QED BY <2>1 DEF Top, HeldJobsExist
<1>2. /\ Elems(cmdQ) \subseteq active /\ Elems(resQ) \subseteq active
      /\ finished \subseteq active /\ active \subseteq Jobs
  BY DEF JobAccounting, TypeOK
<1>3. ASSUME StackShape' /\ (\A i \in 1..Len(stack') : Holds(stack'[i], active', finished')),
             WorkerHolds'
      PROVE  StackShape' /\ HeldJobsExist'
  BY <1>3 DEF HeldJobsExist, WorkerHolds, Holds
<1>4. ASSUME UNCHANGED worker, active \subseteq active' PROVE WorkerHolds'
  BY <1>4 DEF HeldJobsExist, WorkerHolds
<1>5. ASSUME UNCHANGED stack, active \subseteq active', finished \subseteq finished'
      PROVE  StackShape' /\ (\A i \in 1..Len(stack') : Holds(stack'[i], active', finished'))
  BY <1>5, CallsHold
<1>6. ASSUME NEW call \in JobCalls, call # "polled", NEW j \in active', j \in Jobs,
             NEW forever \in BOOLEAN
      PROVE  /\ Frame(call, j, forever) \in Frames
             /\ Frame(call, j, forever).call \notin PlainCalls
             /\ Holds(Frame(call, j, forever), active', finished')
  BY <1>6, FrameType DEF Frame, Holds, JobCalls, PlainCalls
<1>7. ASSUME NEW call \in PlainCalls
      PROVE  /\ Simple(call) \in Frames /\ Simple(call).call = call
             /\ Holds(Simple(call), active', finished')
  BY FrameType DEF Simple, Frame, Holds, NoJob, PlainCalls
<1>8. ASSUME NEW j, NEW kind, NEW c, NEW flushes, AddCommand(j, kind, c, flushes)
      PROVE  j \in Jobs /\ j \in active' /\ active \subseteq active'
  BY <1>8 DEF AddCommand
<1>9. CASE FinishExec \/ FinishQuery \/ PollTimesOut \/ PollReturns \/ ScriptReturns
  <2>1. /\ stack # <<>> /\ Return /\ active' = active /\ finished' = finished
        /\ UNCHANGED worker
    BY <1>9 DEF FinishExec, FinishQuery, PollTimesOut, PollReturns, ScriptReturns,
                Running, mainVars
  <2> QED BY <1>3, <1>4, <2>1, ReturnHolds
<1>10. CASE PollTakes
  <2> DEFINE j == Top.job
             f == Frame("polled", j, FALSE)
             g == Frame("warning", j, FALSE)
  <2>1. /\ stack # <<>> /\ j \in Elems(resQ) /\ active' = active
        /\ finished' = finished \cup {j} /\ UNCHANGED worker
        /\ Become(f) \/ stack' = Append(Append(Caller, f), g)
    BY <1>10 DEF PollTakes, Running
  <2>2. j \in active' /\ j \in Jobs
    BY <1>2, <2>1
  <2>3. /\ f \in Frames /\ f.call \notin PlainCalls /\ Holds(f, active', finished')
    BY <2>1, <2>2, FrameType DEF Frame, Holds, JobCalls, PlainCalls
  <2>4. /\ g \in Frames /\ g.call \notin PlainCalls /\ Holds(g, active', finished')
    BY <1>6, <2>2 DEF JobCalls
  <2> HIDE DEF f, g
  <2> QED BY <1>3, <1>4, <2>1, <2>3, <2>4, BecomeHolds, BecomeTwoHolds
<1>11. CASE PollWarns \/ PollReportsError
  <2>1. /\ stack # <<>> /\ Top.call \in {"poll", "polled"} /\ Push(Frame("warning", Top.job, FALSE))
        /\ active' = active /\ finished' = finished /\ UNCHANGED worker
    BY <1>11 DEF PollWarns, PollReportsError, Running, mainVars
  <2>2. Top.job \in Jobs /\ Top.job \in active'
    BY <1>1, <2>1, StackOfCalls, NoJobAssumption DEF JobCalls, NoJob
  <2> QED BY <1>3, <1>4, <1>6, <2>1, <2>2, PushHolds DEF JobCalls
<1>12. CASE PulseBegins \/ Shutdown
  <2>1. PICK call \in PlainCalls : Push(Simple(call))
    BY <1>12 DEF PulseBegins, Shutdown, PlainCalls
  <2>2. /\ stack = <<>> /\ active' = active /\ finished' = finished /\ UNCHANGED worker
    BY <1>12 DEF PulseBegins, Shutdown, mainVars
  <2> QED BY <1>3, <1>4, <1>7, <2>1, <2>2, PushHolds
<1>13. CASE PulseLocks \/ ShutdownStops \/ ShutdownEnds
  <2>1. PICK call \in PlainCalls : Become(Simple(call))
    BY <1>13 DEF PulseLocks, ShutdownStops, ShutdownEnds, PlainCalls
  <2>2. /\ stack # <<>> /\ Top.call \in PlainCalls
        /\ active' = active /\ finished' = finished
    BY <1>13 DEF PulseLocks, ShutdownStops, ShutdownEnds, Running, PlainCalls, mainVars
  <2>3. WorkerHolds'
    BY <1>13, <2>2 DEF PulseLocks, ShutdownStops, ShutdownEnds, HeldJobsExist,
                       WorkerHolds, TypeOK, WorkerStates
  <2> QED BY <1>3, <1>7, <2>1, <2>2, <2>3, BecomeHolds
<1>14. CASE PulseScans
  <2>1. PICK i \in 1..Len(resQ) :
          stack' \in {Append(Append(Caller, Simple("again")), Frame("callback", resQ[i], FALSE)),
                      Append(Append(Caller, Simple("again")), Frame("warning", resQ[i], FALSE)),
                      Append(Caller, Simple("again")), stack}
    BY <1>14, ZenonT(60) DEF PulseScans, Become
  <2> DEFINE f == Simple("again")
  <2>2. /\ stack # <<>> /\ Top.call \in PlainCalls /\ active' = active
        /\ finished \subseteq finished' /\ UNCHANGED worker
    BY <1>14 DEF PulseScans, Running, PlainCalls
  <2>3. resQ[i] \in active' /\ resQ[i] \in Jobs
    BY <1>2, <2>2 DEF Elems
  <2>4. f \in Frames /\ Holds(f, active', finished')
    BY <1>7 DEF PlainCalls
  <2>5. \A call \in {"callback", "warning"} :
           LET g == Frame(call, resQ[i], FALSE)
           IN  g \in Frames /\ g.call \notin PlainCalls /\ Holds(g, active', finished')
    BY <1>6, <2>3 DEF JobCalls
  <2> HIDE DEF f
  <2>6. CASE \E call \in {"callback", "warning"} :
                stack' = Append(Append(Caller, f), Frame(call, resQ[i], FALSE))
    BY <1>3, <1>4, <2>2, <2>4, <2>5, <2>6, BecomeTwoHolds
  <2>7. CASE stack' = Append(Caller, f)
    BY <1>3, <1>4, <2>2, <2>4, <2>7, BecomeHolds DEF Become
  <2>8. CASE stack' = stack
    BY <1>3, <1>4, <1>5, <2>2, <2>8
  <2> QED BY <2>1, <2>6, <2>7, <2>8 DEF f
<1>15. CASE PulseEnds
  <2>1. /\ stack # <<>> /\ active' = active /\ finished' = finished /\ UNCHANGED worker
        /\ Return \/ \E j \in Elems(resQ) : Become(Frame("warning", j, FALSE))
    BY <1>15 DEF PulseEnds, Running, mainVars
  <2>2. CASE Return
    BY <1>3, <1>4, <2>1, <2>2, ReturnHolds
  <2>3. ASSUME NEW j \in Elems(resQ), Become(Frame("warning", j, FALSE))
        PROVE  StackShape' /\ HeldJobsExist'
    <3>1. j \in active' /\ j \in Jobs
      BY <1>2, <2>1
    <3> QED BY <1>3, <1>4, <1>6, <2>1, <2>3, <3>1, BecomeHolds DEF JobCalls
  <2> QED BY <2>1, <2>2, <2>3
<1>16. CASE PulseFlushes \/ Connect \/ SetLogLevel
  <2>1. finished' = finished /\ UNCHANGED worker
    BY <1>16 DEF PulseFlushes, Connect, SetLogLevel
  <2>2. ASSUME NEW j, NEW kind, NEW c, NEW flushes, AddCommand(j, kind, c, flushes),
               NEW call \in {"exec", "poll"}, NEW forever \in BOOLEAN,
               Push(Frame(call, j, forever))
        PROVE  StackShape' /\ HeldJobsExist'
    BY <1>3, <1>4, <1>6, <1>8, <2>1, <2>2, PushHolds DEF JobCalls
  <2>3. CASE PulseFlushes
    BY <2>2, <2>3 DEF PulseFlushes
  <2>4. CASE Connect
    BY <2>2, <2>4 DEF Connect
  <2>5. CASE SetLogLevel
    BY <2>2, <2>5 DEF SetLogLevel
  <2> QED BY <1>16, <2>3, <2>4, <2>5
<1>17. ASSUME NEW c \in Conns, StartDisconnect(c)
       PROVE  StackShape' /\ HeldJobsExist'
  <2>1. finished' = finished /\ UNCHANGED worker
    BY <1>17 DEF StartDisconnect
  <2>2. CASE c \in connMap
    <3>1. PICK j \in Jobs : /\ AddCommand(j, "DISCONNECT", c, pendingFlush)
                            /\ Push(Frame("poll", j, TRUE))
      BY <1>17, <2>2 DEF StartDisconnect
    <3> QED BY <1>3, <1>4, <1>6, <1>8, <2>1, <3>1, PushHolds DEF JobCalls
  <2>3. CASE c \notin connMap
    BY <1>3, <1>4, <1>5, <1>17, <2>1, <2>3 DEF StartDisconnect
  <2> QED BY <2>2, <2>3
<1>18. ASSUME NEW c \in Conns, NEW call \in {"none", "exec", "query"}, StartQuery(c, call)
       PROVE  StackShape' /\ HeldJobsExist'
  <2>1. PICK j \in Jobs : /\ AddCommand(j, "QUERY", c, pendingFlush)
                          /\ IF call = "none" THEN UNCHANGED stack
                             ELSE Push(Frame(call, j, FALSE))
    BY <1>18 DEF StartQuery
  <2>2. finished' = finished /\ UNCHANGED worker
    BY <1>18 DEF StartQuery
  <2>3. CASE call = "none"
    BY <1>3, <1>4, <1>5, <1>8, <2>1, <2>2, <2>3
  <2>4. CASE call # "none"
    BY <1>3, <1>4, <1>6, <1>8, <2>1, <2>2, <2>4, PushHolds DEF JobCalls
  <2> QED BY <2>3, <2>4
<1>19. CASE DbPoll
  <2>1. PICK j \in Jobs, forever \in BOOLEAN :
           j \in active /\ Push(Frame("poll", j, forever))
    BY <1>19 DEF DbPoll, Handle
  <2>2. active' = active /\ finished' = finished /\ UNCHANGED worker
    BY <1>19 DEF DbPoll, mainVars
  <2> QED BY <1>3, <1>4, <1>6, <2>1, <2>2, PushHolds DEF JobCalls
<1>20. CASE WorkerTakes \/ WorkerProcesses \/ WorkerStores \/ WorkerExits \/ DbFree
            \/ UNCHANGED vars \/ Gone
  <2>1. active' = active /\ finished' = finished /\ UNCHANGED stack
    BY <1>20 DEF WorkerTakes, WorkerProcesses, WorkerStores, WorkerExits, DbFree, Gone,
                 vars, mainVars
  <2>2. WorkerHolds'
    <3>1. cmdQ # <<>> => Head(cmdQ) \in active
      BY <1>2, TailOfQueue DEF JobAccounting, TypeOK
    <3>2. WorkerHolds
      BY DEF HeldJobsExist, WorkerHolds
    <3>3. CASE WorkerTakes
      BY <2>1, <3>1, <3>3 DEF WorkerTakes, WorkerHolds
    <3>4. CASE WorkerProcesses
      BY <2>1, <3>2, <3>4 DEF WorkerProcesses, WorkerHolds, TypeOK, WorkerStates
    <3>5. CASE WorkerStores \/ WorkerExits
      BY <3>5 DEF WorkerStores, WorkerExits, WorkerHolds
    <3>6. CASE DbFree \/ UNCHANGED vars \/ Gone
      BY <2>1, <3>2, <3>6 DEF DbFree, Gone, vars, WorkerHolds
    <3> QED BY <1>20, <3>3, <3>4, <3>5, <3>6
  <2> QED BY <1>3, <1>5, <2>1, <2>2
<1> QED
  BY <1>9, <1>10, <1>11, <1>12, <1>13, <1>14, <1>15, <1>16, <1>17, <1>18, <1>19, <1>20,
     DeleteHolds
  DEF Next, Worker, Proceed, Script, Destroy, ShutdownDisconnects, Disconnect,
      DbExec, DbQuery, DbQueryWithCallback

\* No job is deleted while the service thread or a suspended call holds it, and
\* the result a caller of PollCommand is about to read is in the finished list.
THEOREM HeldJobs == Spec => []HeldJobsExist
<1>1. Init => StackShape /\ HeldJobsExist
  BY DEF Init, StackShape, HeldJobsExist
<1>2. TypeOK /\ JobAccounting /\ (StackShape /\ HeldJobsExist) /\ [Next]_vars
         => (StackShape /\ HeldJobsExist)'
  BY HeldStep
<1>3. Spec => [](StackShape /\ HeldJobsExist)
  BY <1>1, <1>2, TypeCorrect, JobsAccounted, PTL DEF Spec
<1> QED BY <1>3, PTL

=============================================================================
