--------------------------- MODULE NetBufferProofs ---------------------------
(* Proofs about NetBuffer, for any players and any bounds on calls, packets *)
(* and switches.  Jobs are numbered in the order of the calls, so the queue *)
(* is an interval of numbers: that, where each job is, who waits for it and *)
(* what CSimControl has set up make the inductive invariant.                *)
EXTENDS NetBuffer, SequenceTheorems, TLAPS

-----------------------------------------------------------------------------
(* The invariant *)

\* The two halves of the type invariant.
Bits == /\ request \in BOOLEAN /\ enabled \in BOOLEAN /\ buffer \in BOOLEAN
        /\ toGame \in BOOLEAN /\ autoPulse \in BOOLEAN /\ terminate \in BOOLEAN
        /\ asleep \in BOOLEAN
Data ==
    /\ made \in Nat /\ server \in {"real", "buffer"}
    /\ handler \in {"game", "buffer", "null"}
    /\ job \in [Jobs -> Job]
    /\ commands \in Seq(Jobs) /\ results \in SUBSET Jobs
    /\ finished \in SUBSET Jobs
    /\ incoming \in Seq(Nat) /\ batch \in Seq(Nat)
    /\ statsFor \in Players \cup {Nobody} /\ statsSaved \in Players \cup {Nobody}
    /\ net \in {"started", "asleep", "pulsing", "running", "executed", "ended"}
    /\ todo \in Nat
    /\ at \in {"game", "handling", "setting", "polling", "incoming", "batch",
               "again", "hooked", "restoring", "unhooked", "drained", "stopping"}
    /\ caller \in {"game", "handling", "again", "hooked", "unhooked"}
    /\ mine \in 0..MaxCalls
    /\ issued \in 0..MaxCalls /\ log \in Seq(Jobs)
    /\ received \in Nat /\ handled \in Seq(Nat)

\* How many jobs and direct calls have left the queue.
Base == IF net = "executed" THEN Len(log) - 1 ELSE Len(log)

\* The queue holds the latest calls, in order, and the net thread's count of
\* what to do does not exceed it.
Queue ==
    /\ Base >= 0
    /\ Base + Len(commands) = issued
    /\ \A i \in 1..Len(commands) : commands[i] = Base + i
    /\ net \in {"running", "executed"} => todo \in 1..Len(commands)

\* Stages, by number and by list.
Places ==
    /\ \A j \in Jobs :
         /\ job[j].stage # "none" => j <= issued
         /\ job[j].stage \in {"queued", "running"} <=> Base < j /\ j <= issued
         /\ job[j].stage = "result" <=> j \in results
         /\ job[j].stage = "finished" <=> j \in finished
    /\ net \in {"running", "executed"} => job[Base + 1].stage = "running"

\* The job is not with the main thread yet; it waits for one, or calls one back.
Under(j) == job[j].stage \in {"queued", "running", "result"}
Waits == at = "polling" /\ caller # "again"
Answers == at = "polling" /\ caller = "again"

\* Who is still to take the result of a job.
Owners ==
    /\ \A j \in Jobs : Under(j) =>
         /\ job[j].op \in Awaited => Waits /\ mine = j
         /\ job[j].op = "stats" =>
              /\ job[j].callback = "none" <=> at = "setting" /\ mine = j
              /\ job[j].callback = "done" <=> Answers /\ mine = j
         /\ job[j].op # "stats" => job[j].callback = "none"
         /\ job[j].op \in Freed => job[j].stage # "result"
    /\ \A j \in Jobs : job[j].stage \in {"finished", "deleted"} /\ job[j].op = "stats"
                         => job[j].callback = "done"
    /\ Waits => /\ mine = issued /\ mine \in Jobs /\ Under(mine)
                /\ caller \in {"game", "handling"} => job[mine].op \in {"query", "ask"}
                /\ caller = "hooked" => job[mine].op = "hook"
                /\ caller = "unhooked" => job[mine].op = "unhook"
    /\ Answers => mine \in results /\ job[mine].op = "stats"
    /\ at = "setting" => /\ mine \in Jobs /\ Under(mine) /\ job[mine].op = "stats"
                         /\ caller \in {"game", "handling"}

\* It waits for its handler to be put in or taken out, or has taken it out.
Hooking == at = "polling" /\ caller = "hooked"
Unhooking == at = "polling" /\ caller = "unhooked"
Closing == buffer /\ ~toGame /\ ~Unhooking /\ at # "unhooked"

\* Where the main thread is decides what CSimControl has set up.
Control ==
    /\ toGame => buffer
    /\ server = "buffer" <=> toGame
    /\ enabled => toGame
    /\ at = "restoring" <=> toGame /\ ~enabled
    /\ ~buffer => at \in {"game", "handling"}
    /\ buffer /\ ~toGame =>
         at \in {"unhooked", "incoming", "batch", "again", "drained", "stopping"}
         \/ Unhooking \/ Answers
    /\ enabled => at \in {"game", "handling", "setting", "incoming", "batch", "again",
                          "hooked"}
                  \/ (at = "polling" /\ caller # "unhooked")
    /\ at = "hooked" \/ Hooking => enabled
    /\ autoPulse <=> enabled /\ at # "hooked" /\ ~Hooking
    /\ at = "stopping" <=> terminate /\ buffer

\* Which handler is registered, and where the net thread may be.
Library ==
    /\ autoPulse \/ at \in {"hooked", "restoring"} => handler = "buffer"
    /\ Hooking => /\ handler = IF mine <= Len(log) THEN "buffer" ELSE "game"
                  /\ mine - 1 <= Base
    /\ Unhooking => handler = IF mine <= Len(log) THEN "null" ELSE "buffer"
    /\ Closing \/ ~buffer => handler = "game"
    /\ at = "unhooked" \/ Closing => Base = issued /\ net \in {"started", "asleep", "ended"}
    /\ ~buffer => Base = issued /\ net = "ended"
    /\ net = "ended" => terminate \/ ~buffer
    /\ net = "pulsing" => autoPulse \/ at = "restoring" \/ (Unhooking /\ Len(log) < mine)
    /\ ~buffer => results = {} /\ finished = {}

\* The handler of a packet is running, or waits for a call.
InHandler == at = "handling" \/ (at \in {"setting", "polling"} /\ caller = "handling")

\* Packets and callbacks that are left.
Leftovers ==
    /\ batch # <<>> => at = "batch" \/ InHandler
    /\ ~buffer => batch = <<>> /\ incoming = <<>>
    /\ Closing /\ at # "incoming" => incoming = <<>>
    /\ at \in {"drained", "stopping"} => Pending = {}

\* The inductive invariant.
IInv == TypeOK /\ Queue /\ Places /\ Owners /\ Control /\ Library /\ Leftovers

-----------------------------------------------------------------------------
(* Sequences *)

\* What is left of a queue when its front is taken.
LEMMA TakeFront == ASSUME NEW S, NEW q \in Seq(S), q # <<>>
                   PROVE  /\ Len(q) \in Nat \ {0} /\ Head(q) = q[1] /\ Head(q) \in S
                          /\ Tail(q) \in Seq(S) /\ Len(Tail(q)) = Len(q) - 1
                          /\ \A i \in 1..Len(Tail(q)) : Tail(q)[i] = q[i + 1]
  OBVIOUS

\* What a queue is after something was put at its end.
LEMMA PutLast == ASSUME NEW S, NEW q \in Seq(S), NEW e \in S
                 PROVE  /\ Append(q, e) \in Seq(S) /\ Len(Append(q, e)) = Len(q) + 1
                        /\ Append(q, e) # <<>>
                        /\ \A i \in 1..Len(q) : Append(q, e)[i] = q[i]
                        /\ Append(q, e)[Len(q) + 1] = e
  OBVIOUS

-----------------------------------------------------------------------------
(* Jobs *)

\* A job that goes on to another stage keeps everything else.
LEMMA NextStage ==
  ASSUME NEW jobs \in [Jobs -> Job], NEW j \in Jobs, NEW s \in Stages
  PROVE  LET after == [jobs EXCEPT ![j].stage = s]
         IN  /\ after \in [Jobs -> Job] /\ after[j].stage = s
             /\ \A k \in Jobs : /\ after[k].op = jobs[k].op
                                /\ after[k].who = jobs[k].who
                                /\ after[k].callback = jobs[k].callback
                                /\ k # j => after[k].stage = jobs[k].stage
  BY DEF Job

\* So does one whose callback is set or called.
LEMMA NextAnswer ==
  ASSUME NEW jobs \in [Jobs -> Job], NEW j \in Jobs, NEW c \in {"none", "set", "done"}
  PROVE  LET after == [jobs EXCEPT ![j].callback = c]
         IN  /\ after \in [Jobs -> Job] /\ after[j].callback = c
             /\ \A k \in Jobs : /\ after[k].op = jobs[k].op
                                /\ after[k].who = jobs[k].who
                                /\ after[k].stage = jobs[k].stage
                                /\ k # j => after[k].callback = jobs[k].callback
  BY DEF Job

\* And jobs that are deleted together.
LEMMA AllDeleted ==
  ASSUME NEW jobs \in [Jobs -> Job], NEW S
  PROVE  LET after == [k \in Jobs |-> IF k \in S THEN [jobs[k] EXCEPT !.stage = "deleted"]
                                      ELSE jobs[k]]
         IN  /\ after \in [Jobs -> Job]
             /\ \A k \in Jobs : /\ after[k].op = jobs[k].op
                                /\ after[k].who = jobs[k].who
                                /\ after[k].callback = jobs[k].callback
                                /\ after[k].stage = IF k \in S THEN "deleted"
                                                    ELSE jobs[k].stage
  BY DEF Job, Stages

\* The numbers that the invariant is about.
LEMMA Numbers ==
  ASSUME IInv
  PROVE  /\ Base \in Nat /\ Len(log) \in Nat /\ Len(commands) \in Nat
         /\ issued \in Nat /\ issued <= MaxCalls /\ MaxCalls \in Nat
         /\ \A j : j \in Jobs <=> j \in Nat /\ 1 <= j /\ j <= MaxCalls
         /\ Base + Len(commands) = issued
         /\ commands # <<>> => /\ Head(commands) = Base + 1 /\ Base + 1 \in Jobs
                               /\ Len(commands) >= 1
         /\ commands = <<>> => Base = issued
         /\ net \in {"running", "executed"} => commands # <<>>
<1>1. /\ commands \in Seq(Jobs) /\ log \in Seq(Jobs) /\ issued \in 0..MaxCalls
      /\ MaxCalls \in Nat
  BY BoundsAssumption DEF IInv, TypeOK
<1>2. Len(log) \in Nat /\ Len(commands) \in Nat
  BY <1>1
<1>3. Base \in Nat /\ Base >= 0 /\ Base + Len(commands) = issued
  BY <1>2 DEF IInv, Queue, Base
<1>4. commands # <<>> => Len(commands) >= 1 /\ Head(commands) = commands[1]
  BY <1>1
<1>5. commands # <<>> => commands[1] = Base + 1
  BY <1>2, <1>4 DEF IInv, Queue
<1>6. commands = <<>> => Len(commands) = 0
  OBVIOUS
<1>7. net \in {"running", "executed"} => Len(commands) # 0
  BY <1>2 DEF IInv, Queue
<1> QED BY <1>1, <1>2, <1>3, <1>4, <1>5, <1>6, <1>7 DEF Jobs

\* The net thread looks at the queue: it sleeps, pulses, ends, or begins the
\* front, which is the job with the next number.
Begins(from, jobs) ==
    /\ net' \in {"asleep", "pulsing", "running", "ended"}
    /\ net' = "ended" => terminate
    /\ net' = "pulsing" => autoPulse
    /\ job' \in [Jobs -> Job] /\ todo' \in Nat
    /\ net' = "running" => todo' \in Nat \ {0} /\ from \in Jobs
    /\ \A k \in Jobs : /\ job'[k].op = jobs[k].op
                       /\ job'[k].who = jobs[k].who
                       /\ job'[k].callback = jobs[k].callback
                       /\ job'[k].stage = IF net' = "running" /\ k = from THEN "running"
                                          ELSE jobs[k].stage

LEMMA HowLoops ==
  ASSUME NEW q \in Seq(Jobs), NEW jobs \in [Jobs -> Job], todo \in Nat,
         Loops(q, jobs) \/ TakesUp(q, jobs)
  PROVE  /\ Begins(Head(q), jobs)
         /\ net' = "running" => q # <<>> /\ todo' = Len(q)
         /\ net' = "asleep" => q = <<>>
<1>1. CASE TakesUp(q, jobs)
  <2>1. CASE q = <<>>
    BY <1>1, <2>1 DEF TakesUp, Begins
  <2>2. CASE q # <<>>
    <3>1. Head(q) \in Jobs /\ Len(q) \in Nat \ {0} /\ "running" \in Stages
      BY <2>2, TakeFront DEF Stages
    <3> DEFINE after == [jobs EXCEPT ![Head(q)].stage = "running"]
    <3>2. /\ after \in [Jobs -> Job] /\ after[Head(q)].stage = "running"
          /\ \A k \in Jobs : /\ after[k].op = jobs[k].op
                             /\ after[k].who = jobs[k].who
                             /\ after[k].callback = jobs[k].callback
                             /\ k # Head(q) => after[k].stage = jobs[k].stage
      BY <3>1, NextStage
    <3>3. job' = after /\ net' = "running" /\ todo' = Len(q)
      BY <1>1, <2>2 DEF TakesUp
    <3> HIDE DEF after
    <3> QED BY <2>2, <3>1, <3>2, <3>3 DEF Begins
  <2> QED BY <2>1, <2>2
<1>2. CASE Loops(q, jobs) /\ ~TakesUp(q, jobs)
  BY <1>2 DEF Loops, Begins
<1> QED BY <1>1, <1>2

\* The net thread begins, or pulses, or sleeps.
LEMMA HowWakes ==
  ASSUME IInv, NetWakes \/ NetPulsed
  PROVE  /\ Begins(Base + 1, job) /\ Base' = Base
         /\ net' = "running" => commands # <<>> /\ todo' \in 1..Len(commands)
         /\ net' = "asleep" => commands = <<>>
<1>1. /\ commands \in Seq(Jobs) /\ job \in [Jobs -> Job] /\ todo \in Nat
      /\ log' = log /\ net \in {"started", "asleep", "pulsing"}
  BY DEF IInv, TypeOK, NetWakes, NetPulsed
<1>2. Loops(commands, job) \/ TakesUp(commands, job)
  BY DEF NetWakes, NetPulsed
<1>3. /\ Begins(Head(commands), job)
      /\ net' = "running" => commands # <<>> /\ todo' = Len(commands)
      /\ net' = "asleep" => commands = <<>>
  BY <1>1, <1>2, HowLoops
<1>4. net' = "running" => Head(commands) = Base + 1 /\ Len(commands) \in 1..Len(commands)
  BY <1>3, Numbers
<1>5. Base' = Base
  BY <1>1, <1>3 DEF Base, Begins
<1>6. Begins(Base + 1, job)
  BY <1>3, <1>4 DEF Begins
<1> QED BY <1>3, <1>4, <1>5, <1>6

\* The net thread stores a result and goes on.
LEMMA HowStores ==
  ASSUME IInv, NetStores
  PROVE  /\ Base + 1 \in Jobs /\ Base' = Base + 1
         /\ commands # <<>> /\ commands' \in Seq(Jobs)
         /\ Len(commands') = Len(commands) - 1
         /\ \A i \in 1..Len(commands') : commands'[i] = commands[i + 1]
         /\ results' = IF job[Base + 1].op \in Freed THEN results
                       ELSE results \cup {Base + 1}
         /\ net' \in {"asleep", "pulsing", "running", "ended"}
         /\ net' = "ended" => terminate
         /\ net' = "pulsing" => autoPulse
         /\ net' = "asleep" => commands' = <<>>
         /\ net' = "running" => commands' # <<>> /\ todo' \in 1..Len(commands')
         /\ job' \in [Jobs -> Job] /\ todo' \in Nat
         /\ \A k \in Jobs :
              /\ job'[k].op = job[k].op
              /\ job'[k].who = job[k].who
              /\ job'[k].callback = job[k].callback
              /\ job'[k].stage = IF k = Base + 1
                                 THEN IF job[k].op \in Freed THEN "deleted" ELSE "result"
                                 ELSE IF net' = "running" /\ k = Base + 2 THEN "running"
                                 ELSE job[k].stage
<1> DEFINE j == Head(commands)
           left == Tail(commands)
           ends == IF job[j].op \in Freed THEN "deleted" ELSE "result"
           jobs == [job EXCEPT ![j].stage = ends]
<1>1. /\ commands \in Seq(Jobs) /\ commands # <<>> /\ job \in [Jobs -> Job]
      /\ todo \in 1..Len(commands) /\ net = "executed" /\ j = Base + 1 /\ j \in Jobs
      /\ Len(commands) \in Nat /\ log' = log /\ Len(log) \in Nat /\ Base \in Nat
  BY Numbers DEF IInv, TypeOK, Queue, NetStores
<1>2. /\ left \in Seq(Jobs) /\ Len(left) = Len(commands) - 1 /\ Len(left) \in Nat
      /\ \A i \in 1..Len(left) : left[i] = commands[i + 1]
  BY <1>1, TakeFront
<1>3. left # <<>> => Head(left) = left[1] /\ Len(left) \in 1..Len(left)
  BY <1>2, TakeFront
<1>4. Len(commands) > 1 => left # <<>> /\ commands[2] = Base + 2 /\ left[1] = commands[2]
  <2>1. SUFFICES ASSUME Len(commands) > 1
                 PROVE  left # <<>> /\ commands[2] = Base + 2 /\ left[1] = commands[2]
    OBVIOUS
  <2>2. 2 \in 1..Len(commands) /\ 1 \in 1..Len(left) /\ Len(left) # 0
    BY <1>1, <1>2, <2>1
  <2>3. commands[2] = Base + 2
    BY <2>2 DEF IInv, Queue
  <2>4. left[1] = commands[1 + 1]
    BY <1>2, <2>2
  <2> QED BY <2>2, <2>3, <2>4
<1>5. left # <<>> => Len(commands) > 1
  BY <1>1, <1>2, <1>3
<1>6. ends \in Stages
  BY DEF Stages
<1>7. /\ jobs \in [Jobs -> Job] /\ jobs[j].stage = ends
      /\ \A k \in Jobs : /\ jobs[k].op = job[k].op
                         /\ jobs[k].who = job[k].who
                         /\ jobs[k].callback = job[k].callback
                         /\ k # j => jobs[k].stage = job[k].stage
  BY <1>1, <1>6, NextStage
<1>8. /\ commands' = left
      /\ results' = IF job[Base + 1].op \in Freed THEN results ELSE results \cup {Base + 1}
      /\ IF todo > 1 /\ ~terminate
         THEN /\ net' = "running"
              /\ job' = [jobs EXCEPT ![Head(left)].stage = "running"]
              /\ todo' = todo - 1
         ELSE Loops(left, jobs)
  BY <1>1 DEF NetStores, Stored
<1> HIDE DEF jobs
<1>9. /\ Begins(Base + 2, jobs)
      /\ net' = "running" => left # <<>> /\ todo' \in 1..Len(left)
      /\ net' = "asleep" => left = <<>>
  <2>1. CASE todo > 1 /\ ~terminate
    <3>1. left # <<>> /\ Head(left) = Base + 2 /\ todo - 1 \in 1..Len(left)
      BY <1>1, <1>2, <1>3, <1>4, <2>1
    <3>2. Base + 2 \in Jobs /\ "running" \in Stages
      BY <1>2, <3>1, TakeFront DEF Stages
    <3> DEFINE after == [jobs EXCEPT ![Base + 2].stage = "running"]
    <3>3. /\ after \in [Jobs -> Job] /\ after[Base + 2].stage = "running"
          /\ \A k \in Jobs : /\ after[k].op = jobs[k].op
                             /\ after[k].who = jobs[k].who
                             /\ after[k].callback = jobs[k].callback
                             /\ k # Base + 2 => after[k].stage = jobs[k].stage
      BY <1>7, <3>2, NextStage
    <3>4. job' = after /\ net' = "running" /\ todo' = todo - 1
      BY <1>8, <2>1, <3>1
    <3> HIDE DEF after
    <3>5. todo' \in Nat \ {0}
      BY <1>1, <2>1, <3>4
    <3> QED BY <3>1, <3>2, <3>3, <3>4, <3>5 DEF Begins
  <2>2. CASE ~(todo > 1 /\ ~terminate)
    <3>1. todo \in Nat
      BY <1>1
    <3>2. /\ Begins(Head(left), jobs)
          /\ net' = "running" => left # <<>> /\ todo' = Len(left)
          /\ net' = "asleep" => left = <<>>
      BY <1>2, <1>7, <1>8, <2>2, <3>1, HowLoops
    <3>3. net' = "running" => Head(left) = Base + 2
      BY <1>3, <1>4, <1>5, <3>2
    <3>4. Begins(Base + 2, jobs)
      BY <3>2, <3>3 DEF Begins
    <3> QED BY <1>3, <3>2, <3>4
  <2> QED BY <2>1, <2>2
<1>10. Base' = Base + 1
  BY <1>1, <1>9 DEF Base, Begins
<1>11. Base + 2 # Base + 1
  BY <1>1
<1>12. \A k \in Jobs :
         /\ job'[k].op = job[k].op
         /\ job'[k].who = job[k].who
         /\ job'[k].callback = job[k].callback
         /\ job'[k].stage = IF k = Base + 1
                            THEN IF job[k].op \in Freed THEN "deleted" ELSE "result"
                            ELSE IF net' = "running" /\ k = Base + 2 THEN "running"
                            ELSE job[k].stage
  BY <1>1, <1>7, <1>9, <1>11 DEF Begins
<1> QED BY <1>1, <1>2, <1>8, <1>9, <1>10, <1>12 DEF Begins

\* What AddCommand does to the queue and the jobs.
LEMMA HowAdds ==
  ASSUME IInv, NEW op \in Ops, NEW who \in Players \cup {Nobody}, AddCommand(op, who)
  PROVE  /\ issued' = issued + 1 /\ issued' \in Jobs /\ issued' \in 0..MaxCalls
         /\ commands' \in Seq(Jobs) /\ Len(commands') = Len(commands) + 1
         /\ commands' # <<>>
         /\ \A i \in 1..Len(commands) : commands'[i] = commands[i]
         /\ commands'[Len(commands) + 1] = issued + 1
         /\ job' \in [Jobs -> Job]
         /\ job'[issued + 1].op = op /\ job'[issued + 1].stage = "queued"
         /\ job'[issued + 1].callback = "none" /\ job'[issued + 1].who = who
         /\ \A k \in Jobs \ {issued + 1} : job'[k] = job[k]
<1>1. issued + 1 \in Jobs /\ issued' = issued + 1 /\ issued' \in 0..MaxCalls
  BY Numbers DEF AddCommand
<1>2. commands \in Seq(Jobs) /\ commands' = Append(commands, issued + 1)
  BY DEF IInv, TypeOK, AddCommand
<1>3. [op |-> op, who |-> who, stage |-> "queued", callback |-> "none"] \in Job
  BY DEF Job, Stages
<1>4. job \in [Jobs -> Job]
  BY DEF IInv, TypeOK
<1> QED BY <1>1, <1>2, <1>3, <1>4, PutLast DEF AddCommand

\* What the end of ProcessIncoming, or its next callback, does.
LEMMA HowCallsBack ==
  ASSUME IInv, NEW jobs \in [Jobs -> Job], NextCallback(jobs)
  PROVE  /\ job' \in [Jobs -> Job]
         /\ at' \in {"polling", "game", "drained"}
         /\ caller' \in {caller, "again"} /\ mine' \in 0..MaxCalls
         /\ at' # "polling" => /\ Pending = {} /\ caller' = caller /\ mine' = mine
                               /\ at' = IF enabled THEN "game" ELSE "drained"
         /\ at' = "polling" => /\ mine' \in Pending /\ \A k \in Pending : mine' <= k
                               /\ caller' = "again" /\ mine' \in Jobs
         /\ \A k \in Jobs : /\ job'[k].op = jobs[k].op
                            /\ job'[k].who = jobs[k].who
                            /\ job'[k].stage = jobs[k].stage
                            /\ job'[k].callback = IF at' = "polling" /\ k = mine'
                                                  THEN "done" ELSE jobs[k].callback
<1>0. Pending \subseteq Jobs /\ Jobs \subseteq 0..MaxCalls /\ mine \in 0..MaxCalls
  BY Numbers DEF Pending, IInv, TypeOK
<1>1. ASSUME NEW j \in Pending, \A k \in Pending : j <= k,
             job' = [jobs EXCEPT ![j].callback = "done"],
             at' = "polling", caller' = "again", mine' = j
      PROVE  /\ job' \in [Jobs -> Job]
             /\ \A k \in Jobs : /\ job'[k].op = jobs[k].op
                                /\ job'[k].who = jobs[k].who
                                /\ job'[k].stage = jobs[k].stage
                                /\ job'[k].callback = IF k = j THEN "done"
                                                      ELSE jobs[k].callback
  <2>1. j \in Jobs /\ "done" \in {"none", "set", "done"}
    BY <1>0
  <2> DEFINE after == [jobs EXCEPT ![j].callback = "done"]
  <2>2. /\ after \in [Jobs -> Job] /\ after[j].callback = "done"
        /\ \A k \in Jobs : /\ after[k].op = jobs[k].op
                           /\ after[k].who = jobs[k].who
                           /\ after[k].stage = jobs[k].stage
                           /\ k # j => after[k].callback = jobs[k].callback
    BY <2>1, NextAnswer
  <2>3. job' = after
    BY <1>1
  <2> HIDE DEF after
  <2> QED BY <2>2, <2>3
<1>2. CASE \E j \in Pending : /\ \A k \in Pending : j <= k
                              /\ job' = [jobs EXCEPT ![j].callback = "done"]
                              /\ at' = "polling" /\ caller' = "again" /\ mine' = j
  <2>1. PICK j \in Pending : /\ \A k \in Pending : j <= k
                             /\ job' = [jobs EXCEPT ![j].callback = "done"]
                             /\ at' = "polling" /\ caller' = "again" /\ mine' = j
    BY <1>2
  <2>2. /\ job' \in [Jobs -> Job]
        /\ \A k \in Jobs : /\ job'[k].op = jobs[k].op
                           /\ job'[k].who = jobs[k].who
                           /\ job'[k].stage = jobs[k].stage
                           /\ job'[k].callback = IF k = j THEN "done"
                                                 ELSE jobs[k].callback
    BY <1>1, <2>1
  <2> QED BY <1>0, <2>1, <2>2
<1>3. CASE /\ Pending = {} /\ job' = jobs
           /\ at' = IF enabled THEN "game" ELSE "drained"
           /\ UNCHANGED <<caller, mine>>
  BY <1>0, <1>3
<1> QED BY <1>2, <1>3 DEF NextCallback

\* Finished jobs are deleted before that.
LEMMA HowSweeps ==
  ASSUME IInv, Sweep
  PROVE  /\ job' \in [Jobs -> Job]
         /\ at' \in {"polling", "game", "drained"}
         /\ caller' \in {caller, "again"} /\ mine' \in 0..MaxCalls
         /\ at' # "polling" => /\ Pending = {} /\ caller' = caller /\ mine' = mine
                               /\ at' = IF enabled THEN "game" ELSE "drained"
         /\ at' = "polling" => /\ mine' \in Pending /\ \A k \in Pending : mine' <= k
                               /\ caller' = "again" /\ mine' \in Jobs
         /\ \A k \in Jobs : /\ job'[k].op = job[k].op
                            /\ job'[k].who = job[k].who
                            /\ job'[k].stage = IF k \in finished THEN "deleted"
                                               ELSE job[k].stage
                            /\ job'[k].callback = IF at' = "polling" /\ k = mine'
                                                  THEN "done" ELSE job[k].callback
<1> DEFINE jobs == [j \in Jobs |-> IF j \in finished
                                   THEN [job[j] EXCEPT !.stage = "deleted"]
                                   ELSE job[j]]
<1>1. job \in [Jobs -> Job]
  BY DEF IInv, TypeOK
<1>2. /\ jobs \in [Jobs -> Job]
      /\ \A k \in Jobs : /\ jobs[k].op = job[k].op
                         /\ jobs[k].who = job[k].who
                         /\ jobs[k].callback = job[k].callback
                         /\ jobs[k].stage = IF k \in finished THEN "deleted"
                                            ELSE job[k].stage
  BY <1>1, AllDeleted
<1>3. NextCallback(jobs)
  BY DEF Sweep
<1> HIDE DEF jobs
<1>4. /\ job' \in [Jobs -> Job]
      /\ at' \in {"polling", "game", "drained"}
      /\ caller' \in {caller, "again"} /\ mine' \in 0..MaxCalls
      /\ at' # "polling" => /\ Pending = {} /\ caller' = caller /\ mine' = mine
                            /\ at' = IF enabled THEN "game" ELSE "drained"
      /\ at' = "polling" => /\ mine' \in Pending /\ \A k \in Pending : mine' <= k
                            /\ caller' = "again" /\ mine' \in Jobs
      /\ \A k \in Jobs : /\ job'[k].op = jobs[k].op
                         /\ job'[k].who = jobs[k].who
                         /\ job'[k].stage = jobs[k].stage
                         /\ job'[k].callback = IF at' = "polling" /\ k = mine'
                                               THEN "done" ELSE jobs[k].callback
  BY <1>2, <1>3, HowCallsBack
<1> QED BY <1>2, <1>4

\* What the main thread sees when it polls.
LEMMA HowPolls ==
  ASSUME IInv, Poll, mine \in results
  PROVE  /\ mine \in Jobs /\ job' \in [Jobs -> Job]
         /\ \A k \in Jobs : /\ job'[k].op = job[k].op
                            /\ job'[k].who = job[k].who
                            /\ job'[k].callback = job[k].callback
                            /\ job'[k].stage = IF k = mine THEN "finished"
                                               ELSE job[k].stage
<1>1. mine \in Jobs /\ job \in [Jobs -> Job] /\ "finished" \in Stages
  BY DEF IInv, TypeOK, Stages
<1>2. job' = [job EXCEPT ![mine].stage = "finished"]
  BY DEF Poll
<1> DEFINE after == [job EXCEPT ![mine].stage = "finished"]
<1>3. /\ after \in [Jobs -> Job] /\ after[mine].stage = "finished"
      /\ \A k \in Jobs : /\ after[k].op = job[k].op
                         /\ after[k].who = job[k].who
                         /\ after[k].callback = job[k].callback
                         /\ k # mine => after[k].stage = job[k].stage
  BY <1>1, NextStage
<1> QED BY <1>1, <1>2, <1>3

\* A callback is set in time.
LEMMA HowSets ==
  ASSUME IInv, SetCallback
  PROVE  /\ mine \in Jobs /\ job' \in [Jobs -> Job]
         /\ \A k \in Jobs : /\ job'[k].op = job[k].op
                            /\ job'[k].who = job[k].who
                            /\ job'[k].stage = job[k].stage
                            /\ job'[k].callback = IF k = mine THEN "set"
                                                  ELSE job[k].callback
<1>1. /\ mine \in Jobs /\ job \in [Jobs -> Job] /\ "set" \in {"none", "set", "done"}
      /\ job[mine].stage \notin {"finished", "deleted"}
  BY DEF IInv, TypeOK, Owners, Under, SetCallback
<1>2. job' = [job EXCEPT ![mine].callback = "set"]
  BY <1>1 DEF SetCallback
<1> DEFINE after == [job EXCEPT ![mine].callback = "set"]
<1>3. /\ after \in [Jobs -> Job] /\ after[mine].callback = "set"
      /\ \A k \in Jobs : /\ after[k].op = job[k].op
                         /\ after[k].who = job[k].who
                         /\ after[k].stage = job[k].stage
                         /\ k # mine => after[k].callback = job[k].callback
  BY <1>1, NextAnswer
<1> QED BY <1>1, <1>2, <1>3

\* The jobs left in a buffer are deleted with it.
LEMMA HowDeletes ==
  ASSUME IInv, Deleted
  PROVE  /\ job' \in [Jobs -> Job]
         /\ \A k \in Jobs : /\ job'[k].op = job[k].op
                            /\ job'[k].who = job[k].who
                            /\ job'[k].callback = job[k].callback
                            /\ job'[k].stage = IF job[k].stage = "none" THEN "none"
                                               ELSE "deleted"
<1>1. job \in [Jobs -> Job]
  BY DEF IInv, TypeOK
<1> DEFINE left == {k \in Jobs : job[k].stage \in {"queued", "running", "result", "finished"}}
           after == [k \in Jobs |-> IF k \in left THEN [job[k] EXCEPT !.stage = "deleted"]
                                    ELSE job[k]]
<1>2. /\ after \in [Jobs -> Job]
      /\ \A k \in Jobs : /\ after[k].op = job[k].op
                         /\ after[k].who = job[k].who
                         /\ after[k].callback = job[k].callback
                         /\ after[k].stage = IF k \in left THEN "deleted"
                                             ELSE job[k].stage
  <2> HIDE DEF left
  <2> QED BY <1>1, AllDeleted
<1>3. job' = after
  BY DEF Deleted
<1>4. \A k \in Jobs : job[k].stage \in Stages
  BY <1>1 DEF Job
<1>5. \A k \in Jobs : after[k].stage = IF job[k].stage = "none" THEN "none" ELSE "deleted"
  BY <1>2, <1>4 DEF Stages
<1> HIDE DEF after
<1> QED BY <1>2, <1>3, <1>5

\* The type invariant, action by action.
LEMMA TypeStep == ASSUME IInv, [Next]_vars
                  PROVE  TypeOK'
<1> USE DEF vars, controlVars, statsVars, packetVars, netVars, mainVars
<1>1. CASE NetWakes
  <2>1. /\ job' \in [Jobs -> Job] /\ todo' \in Nat
        /\ net' \in {"asleep", "pulsing", "running", "ended"}
    BY <1>1, HowWakes DEF Begins
  <2> QED BY <1>1, <2>1 DEF IInv, TypeOK, NetWakes
<1>2. CASE NetPulsed
  <2>1. /\ job' \in [Jobs -> Job] /\ todo' \in Nat
        /\ net' \in {"asleep", "pulsing", "running", "ended"}
    BY <1>2, HowWakes DEF Begins
  <2> QED BY <1>2, <2>1 DEF IInv, TypeOK, NetPulsed
<1>3. CASE NetExecutes
  <2>1. log \in Seq(Jobs) /\ Head(commands) \in Jobs
    BY <1>3, Numbers DEF IInv, TypeOK, NetExecutes
  <2>2. Append(log, Head(commands)) \in Seq(Jobs)
    BY <2>1, PutLast
  <2> QED BY <1>3, <2>2 DEF IInv, TypeOK, NetExecutes
<1>4. CASE NetStores
  <2>1. /\ job' \in [Jobs -> Job] /\ todo' \in Nat /\ commands' \in Seq(Jobs)
        /\ net' \in {"asleep", "pulsing", "running", "ended"}
        /\ results' \in SUBSET Jobs
    BY <1>4, HowStores DEF IInv, TypeOK
  <2>2. Bits'
    BY <1>4 DEF IInv, TypeOK, Bits, NetStores, Stored
  <2>3. Data'
    BY <1>4, <2>1 DEF IInv, TypeOK, Data, NetStores, Stored
  <2> QED BY <2>2, <2>3 DEF TypeOK, Bits, Data
<1>5. CASE NetReceives
  <2>1. received + 1 \in Nat /\ incoming \in Seq(Nat) /\ Append(incoming, received + 1) \in Seq(Nat)
    BY PutLast DEF IInv, TypeOK
  <2> QED BY <1>5, <2>1 DEF IInv, TypeOK, NetReceives
<1>6. CASE Direct
  <2>1. log \in Seq(Jobs) /\ issued < MaxCalls
    BY <1>6 DEF IInv, TypeOK, Direct
  <2>2. issued \in Nat /\ MaxCalls \in Nat
    BY Numbers
  <2>3. issued + 1 \in Jobs
    BY <2>1, <2>2 DEF Jobs
  <2>4. Append(log, issued + 1) \in Seq(Jobs)
    BY <2>1, <2>3, PutLast
  <2>5. issued + 1 \in 0..MaxCalls
    BY <2>1, <2>2
  <2>6. Bits'
    BY <1>6 DEF IInv, TypeOK, Bits, Direct
  <2>7. Data'
    BY <1>6, <2>4, <2>5 DEF IInv, TypeOK, Data, Direct
  <2> QED BY <2>6, <2>7 DEF TypeOK, Bits, Data
<1>7. CASE DirectPacket
  <2>1. received + 1 \in Nat /\ handled \in Seq(Nat) /\ Append(handled, received + 1) \in Seq(Nat)
    BY PutLast DEF IInv, TypeOK
  <2> QED BY <1>7, <2>1 DEF IInv, TypeOK, DirectPacket
<1>8. CASE Send
  <2>1. AddCommand("send", Nobody) /\ "send" \in Ops /\ Nobody \in Players \cup {Nobody}
    BY <1>8 DEF Send, AddCommandAndWait, Unhook, Ops, Freed, Awaited
  <2>2. /\ job' \in [Jobs -> Job] /\ commands' \in Seq(Jobs) /\ issued' \in 0..MaxCalls
        /\ issued' = issued + 1
    BY <2>1, HowAdds
  <2> QED BY <1>8, <2>2 DEF IInv, TypeOK, Send, AddCommandAndWait, Game, Unhook
<1>9. CASE Query
  <2>1. AddCommand("query", Nobody) /\ "query" \in Ops /\ Nobody \in Players \cup {Nobody}
    BY <1>9 DEF Query, AddCommandAndWait, Unhook, Ops, Freed, Awaited
  <2>2. /\ job' \in [Jobs -> Job] /\ commands' \in Seq(Jobs) /\ issued' \in 0..MaxCalls
        /\ issued' = issued + 1
    BY <2>1, HowAdds
  <2> QED BY <1>9, <2>2 DEF IInv, TypeOK, Query, AddCommandAndWait, Game, Unhook
<1>10. ASSUME NEW p \in Players, GetNetworkStatistics(p)
      PROVE  TypeOK'
  <2>1. PICK op \in {"ask", "stats"} : AddCommand(op, p)
    BY <1>10 DEF GetNetworkStatistics, AddCommandAndWait
  <2>2. op \in Ops /\ p \in Players \cup {Nobody}
    BY DEF Ops, Awaited
  <2>3. /\ job' \in [Jobs -> Job] /\ commands' \in Seq(Jobs) /\ issued' \in 0..MaxCalls
        /\ issued' = issued + 1
    BY <2>1, <2>2, HowAdds
  <2> QED BY <1>10, <2>3 DEF IInv, TypeOK, GetNetworkStatistics, AddCommandAndWait, Game
<1>11. CASE SetCallback
  <2>1. job' \in [Jobs -> Job]
    BY <1>11, HowSets
  <2>2. Bits'
    BY <1>11 DEF IInv, TypeOK, Bits, SetCallback
  <2>3. Data'
    BY <1>11, <2>1 DEF IInv, TypeOK, Data, SetCallback
  <2> QED BY <2>2, <2>3 DEF TypeOK, Bits, Data
<1>12. CASE Poll
  <2>1. job \in [Jobs -> Job] /\ results \in SUBSET Jobs
    BY DEF IInv, TypeOK
  <2>2. mine \in results => mine \in Jobs /\ job[mine].who \in Players \cup {Nobody}
    BY <2>1 DEF Job
  <2>3. job' \in [Jobs -> Job]
    BY <1>12, <2>1, HowPolls DEF Poll
  <2>4. statsFor' \in Players \cup {Nobody} /\ statsSaved' \in Players \cup {Nobody}
    BY <1>12, <2>2 DEF IInv, TypeOK, Poll, statsVars
  <2>5. at' \in {at, caller} /\ results' \in SUBSET Jobs /\ finished' \in SUBSET Jobs
    BY <1>12, <2>2 DEF IInv, TypeOK, Poll
  <2>6. Bits'
    BY <1>12 DEF IInv, TypeOK, Bits, Poll
  <2>7. Data'
    BY <1>12, <2>3, <2>4, <2>5 DEF IInv, TypeOK, Data, Poll
  <2> QED BY <2>6, <2>7 DEF TypeOK, Bits, Data
<1>13. CASE SpuriousWakeup
  <2>1. Bits'
    BY <1>13 DEF IInv, TypeOK, Bits, SpuriousWakeup
  <2>2. Data'
    BY <1>13 DEF IInv, TypeOK, Data, SpuriousWakeup
  <2> QED BY <2>1, <2>2 DEF TypeOK, Bits, Data
<1>14. CASE DoPulse
  <2>1. AddCommand("pulse", Nobody) /\ "pulse" \in Ops /\ Nobody \in Players \cup {Nobody}
    BY <1>14 DEF DoPulse, AddCommandAndWait, Unhook, Ops, Freed, Awaited
  <2>2. /\ job' \in [Jobs -> Job] /\ commands' \in Seq(Jobs) /\ issued' \in 0..MaxCalls
        /\ issued' = issued + 1
    BY <2>1, HowAdds
  <2> QED BY <1>14, <2>2 DEF IInv, TypeOK, DoPulse, AddCommandAndWait, Game, Unhook
<1>15. CASE TakeIncoming
  <2>1. incoming \in Seq(Nat) /\ <<>> \in Seq(Nat)
    BY DEF IInv, TypeOK
  <2> QED BY <1>15, <2>1 DEF IInv, TypeOK, TakeIncoming
<1>16. CASE HandlePacket
  <2>1. batch \in Seq(Nat) /\ batch # <<>> /\ handled \in Seq(Nat)
    BY <1>16 DEF IInv, TypeOK, HandlePacket
  <2>2. Head(batch) \in Nat /\ Tail(batch) \in Seq(Nat)
    BY <2>1, TakeFront
  <2>3. Append(handled, Head(batch)) \in Seq(Nat)
    BY <2>1, <2>2, PutLast
  <2>4. handled' \in Seq(Nat) /\ batch' \in Seq(Nat) /\ at' \in {at, "handling"}
    BY <1>16, <2>1, <2>2, <2>3 DEF HandlePacket
  <2>5. Bits'
    BY <1>16 DEF IInv, TypeOK, Bits, HandlePacket
  <2>6. Data'
    BY <1>16, <2>4 DEF IInv, TypeOK, Data, HandlePacket
  <2> QED BY <2>5, <2>6 DEF TypeOK, Bits, Data
<1>17. CASE HandlerReturns
  BY <1>17 DEF IInv, TypeOK, HandlerReturns, Game
<1>18. CASE Sweep
  <2>1. /\ job' \in [Jobs -> Job] /\ at' \in {"polling", "game", "drained"}
        /\ caller' \in {caller, "again"} /\ mine' \in 0..MaxCalls
    BY <1>18, HowSweeps
  <2> QED BY <1>18, <2>1 DEF IInv, TypeOK, Sweep
<1>19. CASE CallbackReturns
  <2>1. job \in [Jobs -> Job] /\ NextCallback(job)
    BY <1>19 DEF IInv, TypeOK, CallbackReturns
  <2>2. /\ job' \in [Jobs -> Job] /\ at' \in {"polling", "game", "drained"}
        /\ caller' \in {caller, "again"} /\ mine' \in 0..MaxCalls
    BY <2>1, HowCallsBack
  <2> QED BY <1>19, <2>2 DEF IInv, TypeOK, CallbackReturns
<1>20. CASE EnableSimSystem
  BY <1>20 DEF IInv, TypeOK, EnableSimSystem, Game
<1>21. CASE SwitchOn
  <2>1. AddCommand("hook", Nobody) /\ "hook" \in Ops /\ Nobody \in Players \cup {Nobody}
    BY <1>21 DEF SwitchOn, AddCommandAndWait, Unhook, Ops, Awaited
  <2>2. /\ job' \in [Jobs -> Job] /\ commands' \in Seq(Jobs) /\ issued' \in 0..MaxCalls
        /\ issued' = issued + 1
    BY <2>1, HowAdds
  <2>3. Bits'
    BY <1>21 DEF IInv, TypeOK, Bits, SwitchOn, AddCommandAndWait, Unhook
  <2>4. Data'
    BY <1>21, <2>2 DEF IInv, TypeOK, Data, SwitchOn, AddCommandAndWait, Unhook
  <2> QED BY <2>3, <2>4 DEF TypeOK, Bits, Data
<1>22. CASE Hooked
  <2>1. Bits'
    BY <1>22 DEF IInv, TypeOK, Bits, Hooked
  <2>2. Data'
    BY <1>22 DEF IInv, TypeOK, Data, Hooked
  <2> QED BY <2>1, <2>2 DEF TypeOK, Bits, Data
<1>23. CASE SwitchOff
  <2>1. Bits'
    BY <1>23 DEF IInv, TypeOK, Bits, SwitchOff
  <2>2. Data'
    BY <1>23 DEF IInv, TypeOK, Data, SwitchOff
  <2> QED BY <2>1, <2>2 DEF TypeOK, Bits, Data
<1>24. CASE Restore
  <2>1. AddCommand("unhook", Nobody) /\ "unhook" \in Ops /\ Nobody \in Players \cup {Nobody}
    BY <1>24 DEF Restore, AddCommandAndWait, Unhook, Ops, Awaited
  <2>2. /\ job' \in [Jobs -> Job] /\ commands' \in Seq(Jobs) /\ issued' \in 0..MaxCalls
        /\ issued' = issued + 1
    BY <2>1, HowAdds
  <2>3. Bits'
    BY <1>24 DEF IInv, TypeOK, Bits, Restore, AddCommandAndWait, Unhook
  <2>4. Data'
    BY <1>24, <2>2 DEF IInv, TypeOK, Data, Restore, AddCommandAndWait, Unhook
  <2> QED BY <2>3, <2>4 DEF TypeOK, Bits, Data
<1>25. CASE Unhooked
  BY <1>25 DEF IInv, TypeOK, Unhooked, Game
<1>26. CASE Drained
  <2>1. Bits'
    BY <1>26 DEF IInv, TypeOK, Bits, Drained
  <2>2. Data'
    BY <1>26 DEF IInv, TypeOK, Data, Drained
  <2> QED BY <2>1, <2>2 DEF TypeOK, Bits, Data
<1>27. CASE Deleted
  <2>1. job' \in [Jobs -> Job] /\ <<>> \in Seq(Jobs) /\ <<>> \in Seq(Nat)
    BY <1>27, HowDeletes DEF IInv, TypeOK
  <2>2. Bits'
    BY <1>27 DEF IInv, TypeOK, Bits, Deleted
  <2>3. Data'
    BY <1>27, <2>1 DEF IInv, TypeOK, Data, Deleted
  <2> QED BY <2>2, <2>3 DEF TypeOK, Bits, Data
<1>28. CASE UNCHANGED vars
  BY <1>28 DEF IInv, TypeOK, Game
<1> QED BY <1>1, <1>2, <1>3, <1>4, <1>5, <1>6, <1>7, <1>8, <1>9, <1>10, <1>11, <1>12, <1>13, <1>14,
           <1>15, <1>16, <1>17, <1>18, <1>19, <1>20, <1>21, <1>22, <1>23,
           <1>24, <1>25, <1>26, <1>27, <1>28 DEF Next, NetThread, MainSteps, GameCalls

-----------------------------------------------------------------------------
(* What an action does to the queue *)

\* Calls with the buffer in front.
Adds == \/ Send \/ Query \/ \E p \in Players : GetNetworkStatistics(p)
        \/ DoPulse \/ SwitchOn \/ Restore

\* The job it adds, and where the main thread goes on.
Called(op, who) ==
    /\ AddCommand(op, who)
    /\ op \in Freed => at' \in {"game", "handling", "incoming"}
    /\ op \in Awaited => /\ at' = "polling" /\ mine' = issued + 1
                         /\ caller' = CASE op = "hook" -> "hooked"
                                        [] op = "unhook" -> "unhooked"
                                        [] OTHER -> at
                         /\ op \in {"query", "ask"} => Game
    /\ op = "stats" => at' = "setting" /\ mine' = issued + 1 /\ caller' = at /\ Game

\* A call with the buffer in front is a new job at the end of the queue.
LEMMA HowCalls ==
  ASSUME Adds
  PROVE  \E op \in Ops, who \in Players \cup {Nobody} : Called(op, who)
<1>1. Nobody \in Players \cup {Nobody}
  OBVIOUS
<1>2. CASE Send
  <2>1. "send" \in Ops /\ Called("send", Nobody)
    BY <1>2 DEF Ops, Freed, Awaited, Send, Game, Called, mainVars
  <2> QED BY <1>1, <2>1
<1>3. CASE DoPulse
  <2>1. "pulse" \in Ops /\ Called("pulse", Nobody)
    BY <1>3 DEF Ops, Freed, Awaited, DoPulse, Called
  <2> QED BY <1>1, <2>1
<1>4. CASE Query
  <2>1. "query" \in Ops /\ Called("query", Nobody)
    BY <1>4 DEF Ops, Freed, Awaited, Query, AddCommandAndWait, Called
  <2> QED BY <1>1, <2>1
<1>5. ASSUME NEW p \in Players, GetNetworkStatistics(p)
      PROVE  Called("ask", p) \/ Called("stats", p)
  BY <1>5 DEF Freed, Awaited, GetNetworkStatistics, AddCommandAndWait, Called
<1>6. CASE SwitchOn
  <2>1. "hook" \in Ops /\ Called("hook", Nobody)
    BY <1>6 DEF Ops, Freed, Awaited, SwitchOn, AddCommandAndWait, Called
  <2> QED BY <1>1, <2>1
<1>7. CASE Restore
  <2>1. "unhook" \in Ops /\ Called("unhook", Nobody)
    BY <1>7 DEF Ops, Freed, Awaited, Restore, Unhook, AddCommandAndWait, Called
  <2> QED BY <1>1, <2>1
<1>8. "ask" \in Ops /\ "stats" \in Ops
  BY DEF Ops, Awaited
<1> QED BY <1>2, <1>3, <1>4, <1>5, <1>6, <1>7, <1>8 DEF Adds

\* It leaves the net thread alone, or starts a new one.
LEMMA WhatCallsKeep ==
  ASSUME IInv, Adds
  PROVE  /\ UNCHANGED <<log, handler, results, finished, incoming, batch, todo, request>>
         /\ Base' = Base
         /\ net' = net \/ (SwitchOn /\ net = "ended" /\ net' = "started")
         /\ buffer' /\ (buffer \/ SwitchOn)
<1>1. SwitchOn => ~buffer /\ net = "ended"
  BY DEF IInv, Control, Library, SwitchOn, Unhooking, Answers
<1>2. server = "buffer" \/ at = "restoring" => buffer
  BY DEF IInv, Control
<1>3. /\ UNCHANGED <<log, handler, results, finished, incoming, batch, todo, request>>
      /\ net' = net \/ (SwitchOn /\ net' = "started")
  BY DEF Adds, Send, Query, GetNetworkStatistics, DoPulse, SwitchOn, Restore, Unhook,
         AddCommandAndWait, vars, controlVars, statsVars, packetVars, netVars, mainVars
<1>4. buffer' /\ (buffer \/ SwitchOn)
  BY <1>2 DEF Adds, Send, Query, GetNetworkStatistics, DoPulse, SwitchOn, Restore,
         Unhook, AddCommandAndWait, vars, controlVars, statsVars, packetVars, netVars, mainVars
<1> QED BY <1>1, <1>3, <1>4 DEF Base

\* Nothing but these actions touches the queue.
LEMMA QueueFrame ==
  ASSUME [Next]_vars
  PROVE  \/ NetWakes \/ NetPulsed \/ NetExecutes \/ NetStores \/ Adds \/ Direct \/ Deleted
         \/ UNCHANGED <<net, todo, commands, log, issued>>
<1>1. CASE \/ SetCallback \/ Poll \/ TakeIncoming \/ HandlePacket \/ HandlerReturns
           \/ Sweep \/ CallbackReturns \/ Hooked \/ Unhooked \/ Drained \/ SpuriousWakeup
           \/ NetReceives \/ DirectPacket \/ EnableSimSystem \/ SwitchOff
  BY <1>1 DEF SetCallback, Poll, TakeIncoming, HandlePacket, HandlerReturns, Sweep,
              CallbackReturns, Hooked, Unhooked, Drained, SpuriousWakeup, NetReceives, DirectPacket,
              EnableSimSystem, SwitchOff, netVars
<1>2. CASE UNCHANGED vars
  BY <1>2 DEF vars
<1> QED BY <1>1, <1>2 DEF Next, NetThread, MainSteps, GameCalls, Adds

\* The library executes a job.
LEMMA HowExecutes ==
  ASSUME IInv, NetExecutes
  PROVE  /\ Base' = Base /\ Base = Len(log) /\ Len(log') = Len(log) + 1
         /\ net = "running" /\ Base + 1 \in Jobs
         /\ handler' = CASE job[Base + 1].op = "hook" -> "buffer"
                         [] job[Base + 1].op = "unhook" -> "null"
                         [] OTHER -> handler
<1>1. log \in Seq(Jobs) /\ net = "running" /\ Len(log) \in Nat
  BY DEF IInv, TypeOK, NetExecutes
<1>2. commands # <<>> /\ Head(commands) = Base + 1 /\ Base + 1 \in Jobs
  BY <1>1, Numbers
<1>3. Len(log') = Len(log) + 1
  BY <1>1, <1>2, PutLast DEF NetExecutes
<1>4. Base = Len(log) /\ Base' = Len(log') - 1
  BY <1>1 DEF Base, NetExecutes
<1>5. Base' = Base
  BY <1>1, <1>3, <1>4
<1> QED BY <1>1, <1>2, <1>3, <1>4, <1>5 DEF NetExecutes

\* A direct call is made when there is no buffer, and so no job.
LEMMA HowDirect ==
  ASSUME IInv, Direct
  PROVE  /\ ~buffer /\ net = "ended" /\ Base = issued /\ Len(log) = issued
         /\ Base' = issued' /\ issued' = issued + 1 /\ issued + 1 \in Jobs
         /\ Len(log') = issued'
<1>1. /\ issued \in Nat /\ MaxCalls \in Nat /\ issued < MaxCalls /\ log \in Seq(Jobs)
      /\ log' = Append(log, issued + 1) /\ issued' = issued + 1 /\ net' = net
  BY Numbers DEF IInv, TypeOK, Direct
<1>2. ~buffer /\ net = "ended" /\ Base = issued
  BY DEF IInv, Control, Library, Direct, Game, Unhooking, Answers
<1>3. issued + 1 \in Jobs
  BY <1>1 DEF Jobs
<1>4. Len(log') = Len(log) + 1
  BY <1>1, <1>3, PutLast
<1>5. Base = Len(log) /\ Base' = Len(log')
  BY <1>1, <1>2 DEF Base
<1> QED BY <1>1, <1>2, <1>3, <1>4, <1>5

\* The buffer is deleted when the net thread has nothing left to do.
LEMMA WhenDeleted ==
  ASSUME IInv, Deleted
  PROVE  Base = issued /\ Len(log) = issued /\ Base' = issued' /\ issued' = issued
<1>1. Base = issued /\ net # "executed"
  BY DEF IInv, Control, Library, Deleted, Closing, Unhooking
<1>2. issued' = issued /\ net' = "ended" /\ log' = log
  BY DEF Deleted
<1> QED BY <1>1, <1>2 DEF Base

\* The part of the invariant about the queue.
LEMMA QueueStep == ASSUME IInv, [Next]_vars
                   PROVE  Queue'
<1>1. /\ Base \in Nat /\ Len(log) \in Nat /\ Len(commands) \in Nat /\ issued \in Nat
      /\ Base + Len(commands) = issued
      /\ \A i \in 1..Len(commands) : commands[i] = Base + i
      /\ net \in {"running", "executed"} => todo \in 1..Len(commands)
  BY Numbers DEF IInv, Queue
<1>2. CASE NetWakes \/ NetPulsed
  <2>1. /\ Base' = Base /\ commands' = commands /\ issued' = issued
        /\ net' = "running" => todo' \in 1..Len(commands)
        /\ net' \in {"asleep", "pulsing", "running", "ended"}
    BY <1>2, HowWakes DEF NetWakes, NetPulsed, Begins
  <2> QED BY <1>1, <2>1 DEF Queue
<1>3. CASE NetExecutes
  <2>1. Base' = Base /\ net = "running"
    BY <1>3, HowExecutes
  <2>2. commands' = commands /\ issued' = issued /\ todo' = todo
    BY <1>3 DEF NetExecutes
  <2> QED BY <1>1, <2>1, <2>2 DEF Queue
<1>4. CASE NetStores
  <2>1. /\ Base' = Base + 1 /\ Len(commands') = Len(commands) - 1
        /\ \A i \in 1..Len(commands') : commands'[i] = commands[i + 1]
        /\ net' = "running" => todo' \in 1..Len(commands')
        /\ net' \in {"asleep", "pulsing", "running", "ended"}
    BY <1>4, HowStores
  <2>2. issued' = issued
    BY <1>4 DEF NetStores
  <2>3. Base' >= 0 /\ Base' + Len(commands') = issued'
    <3>1. Base' = Base + 1 /\ Len(commands') = Len(commands) - 1
      BY <2>1
    <3> QED BY <1>1, <2>2, <3>1
  <2>4. \A i \in 1..Len(commands') : commands'[i] = Base' + i
    <3>1. TAKE i \in 1..Len(commands')
    <3>2. commands'[i] = commands[i + 1] /\ i + 1 \in 1..Len(commands)
      BY <1>1, <2>1
    <3>3. commands[i + 1] = Base + (i + 1)
      BY <1>1, <3>2
    <3> QED BY <1>1, <2>1, <3>2, <3>3
  <2> QED BY <2>1, <2>3, <2>4 DEF Queue
<1>5. CASE Adds
  <2>1. PICK op \in Ops, who \in Players \cup {Nobody} : AddCommand(op, who)
    BY <1>5, HowCalls DEF Called
  <2>2. /\ issued' = issued + 1 /\ Len(commands') = Len(commands) + 1
        /\ \A i \in 1..Len(commands) : commands'[i] = commands[i]
        /\ commands'[Len(commands) + 1] = issued + 1
    BY <2>1, HowAdds
  <2>3. Base' = Base /\ todo' = todo /\ (net' = net \/ net' = "started")
    BY <1>5, WhatCallsKeep
  <2>4. Base' >= 0 /\ Base' + Len(commands') = issued'
    BY <1>1, <2>2, <2>3
  <2>5. \A i \in 1..Len(commands') : commands'[i] = Base' + i
    <3>1. TAKE i \in 1..Len(commands')
    <3>2. CASE i = Len(commands) + 1
      BY <1>1, <2>2, <2>3, <3>2
    <3>3. CASE i \in 1..Len(commands)
      BY <1>1, <2>2, <2>3, <3>3
    <3> QED BY <1>1, <2>2, <3>2, <3>3
  <2>6. net' \in {"running", "executed"} => todo' \in 1..Len(commands')
    BY <1>1, <2>2, <2>3
  <2> QED BY <2>4, <2>5, <2>6 DEF Queue
<1>6. CASE Direct
  <2>1. net = "ended" /\ Base = issued /\ Base' = issued' /\ issued' = issued + 1
    BY <1>6, HowDirect
  <2>2. commands' = commands /\ net' = net
    BY <1>6 DEF Direct
  <2>3. Len(commands') = 0
    BY <1>1, <2>1, <2>2
  <2> QED BY <1>1, <2>1, <2>2, <2>3 DEF Queue
<1>7. CASE Deleted
  <2>1. Base = issued /\ Base' = issued' /\ issued' = issued
    BY <1>7, WhenDeleted
  <2>2. commands' = <<>> /\ net' = "ended"
    BY <1>7 DEF Deleted
  <2> QED BY <1>1, <2>1, <2>2 DEF Queue
<1>8. CASE UNCHANGED <<net, todo, commands, log, issued>>
  BY <1>1, <1>8 DEF Queue, Base
<1> QED BY <1>2, <1>3, <1>4, <1>5, <1>6, <1>7, <1>8, QueueFrame

\* Nothing but these actions touches the jobs and their lists.
LEMMA JobFrame ==
  ASSUME [Next]_vars
  PROVE  \/ NetWakes \/ NetPulsed \/ NetExecutes \/ NetStores \/ Adds \/ Direct
         \/ SetCallback \/ Poll \/ Sweep \/ CallbackReturns \/ Deleted
         \/ UNCHANGED <<net, job, log, issued, results, finished>>
<1>1. CASE \/ TakeIncoming \/ HandlePacket \/ HandlerReturns
           \/ Hooked \/ Unhooked \/ Drained \/ SpuriousWakeup
           \/ NetReceives \/ DirectPacket \/ EnableSimSystem \/ SwitchOff
  BY <1>1 DEF TakeIncoming, HandlePacket, HandlerReturns, Hooked, Unhooked, Drained,
              SpuriousWakeup, NetReceives, DirectPacket, EnableSimSystem, SwitchOff, netVars
<1>2. CASE UNCHANGED vars
  BY <1>2 DEF vars
<1> QED BY <1>1, <1>2 DEF Next, NetThread, MainSteps, GameCalls, Adds

\* The part of the invariant about stages.
LEMMA PlacesStep == ASSUME IInv, [Next]_vars
                    PROVE  Places'
<1>1. /\ Base \in Nat /\ Len(commands) \in Nat /\ issued \in Nat /\ Base + Len(commands) = issued
      /\ \A j \in Jobs : j \in Nat
      /\ commands # <<>> => Len(commands) >= 1
  BY Numbers
<1>2. /\ \A j \in Jobs :
           /\ job[j].stage # "none" => j <= issued
           /\ job[j].stage \in {"queued", "running"} <=> Base < j /\ j <= issued
           /\ job[j].stage = "result" <=> j \in results
           /\ job[j].stage = "finished" <=> j \in finished
      /\ net \in {"running", "executed"} => job[Base + 1].stage = "running"
  BY DEF IInv, Places
<1>3. CASE NetWakes \/ NetPulsed
  <2>1. /\ Base' = Base /\ UNCHANGED <<issued, results, finished>>
        /\ net' \in {"asleep", "pulsing", "running", "ended"}
        /\ net' = "running" => Base + 1 \in Jobs /\ commands # <<>>
        /\ \A k \in Jobs : job'[k].stage = IF net' = "running" /\ k = Base + 1
                                           THEN "running" ELSE job[k].stage
    BY <1>3, HowWakes DEF NetWakes, NetPulsed, Begins
  <2>2. net' = "running" => Base < Base + 1 /\ Base + 1 <= issued
    BY <1>1, <2>1
  <2> QED BY <1>1, <1>2, <2>1, <2>2 DEF Places
<1>4. CASE NetExecutes
  <2>1. Base' = Base /\ net = "running" /\ UNCHANGED <<job, issued, results, finished>>
    BY <1>4, HowExecutes DEF NetExecutes
  <2> QED BY <1>2, <2>1 DEF Places
<1>5. CASE NetStores
  <2>1. /\ Base' = Base + 1 /\ Base + 1 \in Jobs
        /\ Len(commands') = Len(commands) - 1
        /\ net' = "running" => Len(commands') >= 1
        /\ net' \in {"asleep", "pulsing", "running", "ended"}
        /\ results' = IF job[Base + 1].op \in Freed THEN results
                      ELSE results \cup {Base + 1}
        /\ \A k \in Jobs :
             job'[k].stage = IF k = Base + 1
                             THEN IF job[k].op \in Freed THEN "deleted" ELSE "result"
                             ELSE IF net' = "running" /\ k = Base + 2 THEN "running"
                             ELSE job[k].stage
    <3>1. net' = "running" => todo' \in 1..Len(commands') /\ Len(commands') = Len(commands) - 1
      BY <1>5, HowStores
    <3>2. net' = "running" => Len(commands') >= 1
      BY <1>1, <3>1
    <3> QED BY <1>5, <3>2, HowStores
  <2>2. issued' = issued /\ finished' = finished
    BY <1>5 DEF NetStores
  <2>3. /\ Base + 1 <= issued /\ Base < Base + 1
        /\ net' = "running" => Base + 2 <= issued
    <3>1. commands # <<>>
      BY <1>5, Numbers DEF NetStores
    <3> QED BY <1>1, <2>1, <3>1
  <2>4. net' = "running" => Base + 2 \in Jobs /\ Base' + 1 = Base + 2
    BY <1>1, <2>1, <2>3, Numbers
  <2> QED BY <1>1, <1>2, <2>1, <2>2, <2>3, <2>4 DEF Places
<1>6. CASE Adds
  <2>1. PICK op \in Ops, who \in Players \cup {Nobody} : AddCommand(op, who)
    BY <1>6, HowCalls DEF Called
  <2>2. /\ issued' = issued + 1 /\ issued + 1 \in Jobs
        /\ job'[issued + 1].stage = "queued"
        /\ \A k \in Jobs \ {issued + 1} : job'[k] = job[k]
    BY <2>1, HowAdds
  <2>3. /\ Base' = Base /\ results' = results /\ finished' = finished
        /\ net' = net \/ net' = "started"
    BY <1>6, WhatCallsKeep
  <2>4. net \in {"running", "executed"} => Base + 1 # issued + 1 /\ Base + 1 \in Jobs
    BY <1>1, Numbers
  <2> QED BY <1>1, <1>2, <2>2, <2>3, <2>4 DEF Places
<1>7. CASE Direct
  <2>1. /\ net = "ended" /\ Base = issued /\ Base' = issued' /\ issued' = issued + 1
    BY <1>7, HowDirect
  <2>2. UNCHANGED <<net, job, results, finished>>
    BY <1>7 DEF Direct
  <2> QED BY <1>1, <1>2, <2>1, <2>2 DEF Places
<1>8. CASE SetCallback \/ CallbackReturns
  <2>1. job \in [Jobs -> Job]
    BY DEF IInv, TypeOK
  <2>2. \A k \in Jobs : job'[k].stage = job[k].stage
    BY <1>8, <2>1, HowSets, HowCallsBack DEF CallbackReturns
  <2>3. UNCHANGED <<net, log, issued, results, finished>>
    BY <1>8 DEF SetCallback, CallbackReturns, netVars
  <2>4. Base' = Base
    BY <2>3 DEF Base
  <2>5. net \in {"running", "executed"} => Base + 1 \in Jobs
    BY Numbers
  <2> QED BY <1>2, <2>2, <2>3, <2>4, <2>5 DEF Places
<1>9. CASE Poll
  <2>1. UNCHANGED <<net, log, issued>>
    BY <1>9 DEF Poll, netVars
  <2>2. Base' = Base
    BY <2>1 DEF Base
  <2>3. CASE mine \in results
    <3>1. /\ mine \in Jobs
          /\ \A k \in Jobs : job'[k].stage = IF k = mine THEN "finished" ELSE job[k].stage
      BY <1>9, <2>3, HowPolls
    <3>2. results' = results \ {mine} /\ finished' = finished \cup {mine}
      BY <1>9, <2>3 DEF Poll
    <3>3. net \in {"running", "executed"} => Base + 1 \in Jobs
      BY Numbers
    <3> QED BY <1>2, <2>1, <2>2, <2>3, <3>1, <3>2, <3>3 DEF Places
  <2>4. CASE mine \notin results
    <3>1. UNCHANGED <<job, results, finished>>
      BY <1>9, <2>4 DEF Poll
    <3> QED BY <1>2, <2>1, <2>2, <3>1 DEF Places
  <2> QED BY <2>3, <2>4
<1>10. CASE Sweep
  <2>1. \A k \in Jobs : job'[k].stage = IF k \in finished THEN "deleted" ELSE job[k].stage
    BY <1>10, HowSweeps
  <2>2. UNCHANGED <<net, log, issued, results>> /\ finished' = {}
    BY <1>10 DEF Sweep, netVars
  <2>3. Base' = Base
    BY <2>2 DEF Base
  <2>4. net \in {"running", "executed"} => Base + 1 \in Jobs
    BY Numbers
  <2> QED BY <1>2, <2>1, <2>2, <2>3, <2>4 DEF Places
<1>11. CASE Deleted
  <2>1. Base = issued /\ Base' = issued' /\ issued' = issued
    BY <1>11, WhenDeleted
  <2>2. \A k \in Jobs : job'[k].stage = IF job[k].stage = "none" THEN "none" ELSE "deleted"
    BY <1>11, HowDeletes
  <2>3. results' = {} /\ finished' = {} /\ net' = "ended"
    BY <1>11 DEF Deleted
  <2> QED BY <1>1, <1>2, <2>1, <2>2, <2>3 DEF Places
<1>12. CASE UNCHANGED <<net, job, log, issued, results, finished>>
  BY <1>2, <1>12 DEF Places, Base
<1> QED BY <1>3, <1>4, <1>5, <1>6, <1>7, <1>8, <1>9, <1>10, <1>11, <1>12, JobFrame

\* What the net thread does to the jobs.
LEMMA HowNetWorks ==
  ASSUME IInv, NetThread
  PROVE  /\ UNCHANGED <<at, caller, mine, issued, finished, incoming, batch, enabled,
                        buffer, toGame, terminate, autoPulse, server>>
         /\ \A k \in Jobs :
              /\ job'[k].op = job[k].op /\ job'[k].callback = job[k].callback
              /\ job'[k].stage = "result" => job[k].stage = "result" \/ job[k].op \notin Freed
              /\ Under(k)' => Under(k)
              /\ Under(k) => Under(k)' \/ job[k].op \in Freed
              /\ job'[k].stage \in {"finished", "deleted"} =>
                   job[k].stage \in {"finished", "deleted"} \/ job[k].op \in Freed
              /\ job'[k].stage = "none" <=> job[k].stage = "none"
         /\ \A k \in results' : k \in results \/ (net = "executed" /\ k = Base + 1)
         /\ \A k \in results : k \in results'
<1>1. UNCHANGED <<at, caller, mine, issued, finished, incoming, batch, enabled,
                  buffer, toGame, terminate, autoPulse, server>>
  BY DEF NetThread, NetWakes, NetPulsed, NetExecutes, NetStores, controlVars, packetVars,
         mainVars
<1>2. CASE NetWakes \/ NetPulsed
  <2>1. /\ results' = results
        /\ net' = "running" => Base + 1 \in Jobs /\ commands # <<>>
        /\ \A k \in Jobs :
             /\ job'[k].op = job[k].op /\ job'[k].callback = job[k].callback
             /\ job'[k].stage = IF net' = "running" /\ k = Base + 1
                                THEN "running" ELSE job[k].stage
    BY <1>2, HowWakes DEF NetWakes, NetPulsed, Begins
  <2>2. net' = "running" => Base < Base + 1 /\ Base + 1 <= issued
    <3>1. Base \in Nat /\ Len(commands) \in Nat /\ Base + Len(commands) = issued
          /\ (commands # <<>> => Len(commands) >= 1)
      BY Numbers
    <3> QED BY <2>1, <3>1
  <2>3. net' = "running" => job[Base + 1].stage \in {"queued", "running"}
    BY <2>1, <2>2 DEF IInv, Places
  <2> QED BY <1>1, <2>1, <2>3 DEF Under
<1>3. CASE NetExecutes
  <2>1. job' = job /\ results' = results
    BY <1>3 DEF NetExecutes
  <2> QED BY <1>1, <2>1 DEF Under
<1>4. CASE NetStores
  <2>1. /\ Base + 1 \in Jobs
        /\ results' = IF job[Base + 1].op \in Freed THEN results
                      ELSE results \cup {Base + 1}
        /\ \A k \in Jobs :
             /\ job'[k].op = job[k].op /\ job'[k].callback = job[k].callback
             /\ job'[k].stage = IF k = Base + 1
                                THEN IF job[k].op \in Freed THEN "deleted" ELSE "result"
                                ELSE IF net' = "running" /\ k = Base + 2 THEN "running"
                                ELSE job[k].stage
    BY <1>4, HowStores
  <2>2. job[Base + 1].stage = "running" /\ net = "executed"
    BY <1>4 DEF IInv, Places, NetStores
  <2>3. net' = "running" /\ Base + 2 \in Jobs =>
          job[Base + 2].stage \in {"queued", "running"}
    <3>1. SUFFICES ASSUME net' = "running", Base + 2 \in Jobs
                   PROVE  job[Base + 2].stage \in {"queued", "running"}
      OBVIOUS
    <3>2. Len(commands') = Len(commands) - 1 /\ todo' \in 1..Len(commands')
      BY <1>4, <3>1, HowStores
    <3>3. Base \in Nat /\ Len(commands) \in Nat /\ Base + Len(commands) = issued
      BY Numbers
    <3>4. Base < Base + 2 /\ Base + 2 <= issued
      BY <3>2, <3>3
    <3> QED BY <3>1, <3>4 DEF IInv, Places
  <2> QED BY <1>1, <2>1, <2>2, <2>3 DEF Under
<1> QED BY <1>2, <1>3, <1>4 DEF NetThread

\* Nothing but these actions touches the jobs or what the main thread waits for.
LEMMA OwnerFrame ==
  ASSUME IInv, [Next]_vars
  PROVE  \/ NetThread \/ Adds \/ SetCallback \/ Poll \/ Sweep \/ CallbackReturns \/ Deleted
         \/ /\ UNCHANGED <<job, results>>
            /\ \/ at \notin {"polling", "setting"} /\ at' \notin {"polling", "setting"}
               \/ UNCHANGED <<at, caller, mine, issued>>
<1>1. CASE \/ NetReceives \/ EnableSimSystem \/ SpuriousWakeup
  BY <1>1 DEF NetReceives, EnableSimSystem, SpuriousWakeup, mainVars
<1>2. CASE \/ TakeIncoming \/ HandlePacket \/ HandlerReturns
           \/ Hooked \/ Unhooked \/ Drained \/ DirectPacket \/ SwitchOff \/ Direct
  BY <1>2 DEF TakeIncoming, HandlePacket, HandlerReturns, Hooked, Unhooked, Drained,
              DirectPacket, SwitchOff, Direct, Game, mainVars
<1>3. CASE UNCHANGED vars
  BY <1>3 DEF vars
<1> QED BY <1>1, <1>2, <1>3 DEF Next, MainSteps, GameCalls, Adds

\* The part of the invariant about who takes the results.
LEMMA OwnersStep == ASSUME IInv, [Next]_vars
                    PROVE  Owners'
<1>1. /\ \A j \in Jobs : Under(j) =>
           /\ job[j].op \in Awaited => Waits /\ mine = j
           /\ job[j].op = "stats" =>
                /\ job[j].callback = "none" <=> at = "setting" /\ mine = j
                /\ job[j].callback = "done" <=> Answers /\ mine = j
           /\ job[j].op # "stats" => job[j].callback = "none"
           /\ job[j].op \in Freed => job[j].stage # "result"
      /\ \A j \in Jobs : job[j].stage \in {"finished", "deleted"} /\ job[j].op = "stats"
                           => job[j].callback = "done"
      /\ Waits => /\ mine = issued /\ mine \in Jobs /\ Under(mine)
                  /\ caller \in {"game", "handling"} => job[mine].op \in {"query", "ask"}
                  /\ caller = "hooked" => job[mine].op = "hook"
                  /\ caller = "unhooked" => job[mine].op = "unhook"
      /\ Answers => mine \in results /\ job[mine].op = "stats"
      /\ at = "setting" => /\ mine \in Jobs /\ Under(mine) /\ job[mine].op = "stats"
                           /\ caller \in {"game", "handling"}
  BY DEF IInv, Owners
<1>2. /\ job \in [Jobs -> Job] /\ results \in SUBSET Jobs
      /\ caller \in {"game", "handling", "again", "hooked", "unhooked"}
  BY DEF IInv, TypeOK
<1>3. \A j \in Jobs : job[j].stage = "result" <=> j \in results
  BY DEF IInv, Places
<1>4. "stats" \notin Freed /\ "stats" \notin Awaited
      /\ \A o \in Awaited : o \notin Freed
      /\ "query" \in Awaited /\ "ask" \in Awaited /\ "hook" \in Awaited /\ "unhook" \in Awaited
  BY DEF Freed, Awaited
<1>5. CASE NetThread
  <2>1. /\ UNCHANGED <<at, caller, mine, issued>>
        /\ \A k \in Jobs :
             /\ job'[k].op = job[k].op /\ job'[k].callback = job[k].callback
             /\ job'[k].stage = "result" => job[k].stage = "result" \/ job[k].op \notin Freed
             /\ Under(k)' => Under(k)
             /\ Under(k) => Under(k)' \/ job[k].op \in Freed
             /\ job'[k].stage \in {"finished", "deleted"} =>
                  job[k].stage \in {"finished", "deleted"} \/ job[k].op \in Freed
        /\ \A k \in results : k \in results'
    BY <1>5, HowNetWorks
  <2>2. Waits' = Waits /\ Answers' = Answers
    BY <2>1 DEF Waits, Answers
  <2>3. Waits => job[mine].op \in Awaited
    <3>1. Waits => caller # "again"
      BY DEF Waits
    <3>2. Waits => /\ caller \in {"game", "handling"} => job[mine].op \in {"query", "ask"}
                   /\ caller = "hooked" => job[mine].op = "hook"
                   /\ caller = "unhooked" => job[mine].op = "unhook"
      BY <1>1
    <3> QED BY <1>2, <3>1, <3>2 DEF Awaited
  <2>4. Waits' => /\ mine' = issued' /\ mine' \in Jobs /\ Under(mine)'
                  /\ caller' \in {"game", "handling"} => job'[mine'].op \in {"query", "ask"}
                  /\ caller' = "hooked" => job'[mine'].op = "hook"
                  /\ caller' = "unhooked" => job'[mine'].op = "unhook"
    BY <1>1, <1>4, <2>1, <2>2, <2>3 DEF Under
  <2>5. Answers' => mine' \in results' /\ job'[mine'].op = "stats"
    BY <1>1, <1>2, <2>1, <2>2
  <2>6. at' = "setting" => /\ mine' \in Jobs /\ Under(mine)' /\ job'[mine'].op = "stats"
                           /\ caller' \in {"game", "handling"}
    BY <1>1, <1>4, <2>1 DEF Under
  <2>7. \A j \in Jobs : Under(j)' =>
          /\ job'[j].op \in Awaited => Waits' /\ mine' = j
          /\ job'[j].op = "stats" =>
               /\ job'[j].callback = "none" <=> at' = "setting" /\ mine' = j
               /\ job'[j].callback = "done" <=> Answers' /\ mine' = j
          /\ job'[j].op # "stats" => job'[j].callback = "none"
          /\ job'[j].op \in Freed => job'[j].stage # "result"
    BY <1>1, <2>1, <2>2 DEF Under
  <2>8. \A j \in Jobs : job'[j].stage \in {"finished", "deleted"} /\ job'[j].op = "stats"
                          => job'[j].callback = "done"
    BY <1>1, <1>4, <2>1
  <2> QED BY <2>4, <2>5, <2>6, <2>7, <2>8 DEF Owners
<1>6. CASE Adds
  <2>1. PICK op \in Ops, who \in Players \cup {Nobody} : Called(op, who)
    BY <1>6, HowCalls
  <2>2. /\ issued' = issued + 1 /\ issued + 1 \in Jobs
        /\ job'[issued + 1].op = op /\ job'[issued + 1].stage = "queued"
        /\ job'[issued + 1].callback = "none"
        /\ \A k \in Jobs \ {issued + 1} : job'[k] = job[k]
    BY <2>1, HowAdds DEF Called
  <2>3. results' = results
    BY <1>6, WhatCallsKeep
  <2>4. at \in {"game", "handling", "restoring"}
    BY <1>6 DEF Adds, Send, Query, GetNetworkStatistics, DoPulse, SwitchOn, Restore, Game
  <2>5. ~Waits /\ ~Answers
    BY <2>4 DEF Waits, Answers
  <2>6. ~Answers'
    BY <2>1, <2>4 DEF Called, Answers, Ops, Game
  <2>7. job[issued + 1].stage = "none"
    <3>1. issued \in Nat
      BY Numbers
    <3>2. ~(issued + 1 <= issued)
      BY <3>1
    <3> QED BY <2>2, <3>2 DEF IInv, Places
  <2>8. \A j \in Jobs \ {issued + 1} : Under(j)' =>
          /\ job[j].op \notin Awaited
          /\ job[j].op = "stats" => job[j].callback \notin {"none", "done"}
          /\ job[j].op # "stats" => job[j].callback = "none"
          /\ job[j].op \in Freed => job[j].stage # "result"
    BY <1>1, <2>2, <2>4, <2>5 DEF Under
  <2>9. \A j \in Jobs : j = issued + 1 => Under(j)'
    BY <2>2 DEF Under
  <2>10. /\ op \in Awaited => Waits' /\ mine' = issued + 1 /\ at' # "setting"
         /\ op \notin Awaited => ~Waits'
         /\ at' = "setting" <=> op = "stats"
         /\ op = "stats" => mine' = issued + 1 /\ caller' \in {"game", "handling"}
    BY <2>1, <2>4 DEF Called, Ops, Waits, Freed, Awaited, Game
  <2>11. \A j \in Jobs : Under(j)' =>
           /\ job'[j].op \in Awaited => Waits' /\ mine' = j
           /\ job'[j].op = "stats" =>
                /\ job'[j].callback = "none" <=> at' = "setting" /\ mine' = j
                /\ job'[j].callback = "done" <=> Answers' /\ mine' = j
           /\ job'[j].op # "stats" => job'[j].callback = "none"
           /\ job'[j].op \in Freed => job'[j].stage # "result"
    BY <2>2, <2>6, <2>8, <2>10
  <2>12. \A j \in Jobs : job'[j].stage \in {"finished", "deleted"} /\ job'[j].op = "stats"
                           => job'[j].callback = "done"
    BY <1>1, <2>2
  <2>13. Waits' => /\ mine' = issued' /\ mine' \in Jobs /\ Under(mine)'
                   /\ caller' \in {"game", "handling"} => job'[mine'].op \in {"query", "ask"}
                   /\ caller' = "hooked" => job'[mine'].op = "hook"
                   /\ caller' = "unhooked" => job'[mine'].op = "unhook"
    <3>1. SUFFICES ASSUME Waits'
                   PROVE  /\ mine' = issued' /\ mine' \in Jobs /\ Under(mine)'
                          /\ caller' \in {"game", "handling"} => job'[mine'].op \in {"query", "ask"}
                          /\ caller' = "hooked" => job'[mine'].op = "hook"
                          /\ caller' = "unhooked" => job'[mine'].op = "unhook"
      OBVIOUS
    <3>2. op \in Awaited /\ mine' = issued + 1
      BY <2>10, <3>1
    <3>3. /\ caller' = CASE op = "hook" -> "hooked"
                         [] op = "unhook" -> "unhooked"
                         [] OTHER -> at
          /\ op \in {"query", "ask"} => Game
      BY <2>1, <3>2 DEF Called
    <3>4. Under(mine)'
      BY <2>2, <3>2 DEF Under
    <3> QED BY <2>2, <2>4, <3>2, <3>3, <3>4 DEF Awaited
  <2>14. at' = "setting" => /\ mine' \in Jobs /\ Under(mine)' /\ job'[mine'].op = "stats"
                            /\ caller' \in {"game", "handling"}
    BY <2>2, <2>10 DEF Under
  <2> QED BY <2>6, <2>11, <2>12, <2>13, <2>14 DEF Owners
<1>7. CASE SetCallback
  <2>1. /\ mine \in Jobs
        /\ \A k \in Jobs : /\ job'[k].op = job[k].op
                           /\ job'[k].stage = job[k].stage
                           /\ job'[k].callback = IF k = mine THEN "set"
                                                 ELSE job[k].callback
    BY <1>7, HowSets
  <2>2. at = "setting" /\ at' = caller
    BY <1>7 DEF SetCallback
  <2>3. at' \in {"game", "handling"} /\ job[mine].op = "stats" /\ Under(mine)
    BY <1>1, <2>2
  <2>4. ~Waits /\ ~Answers /\ ~Waits' /\ ~Answers' /\ at' # "setting"
    BY <2>2, <2>3 DEF Waits, Answers
  <2>5. \A j \in Jobs : Under(j)' = Under(j)
    BY <2>1 DEF Under
  <2>6. \A j \in Jobs : Under(j)' =>
          /\ job'[j].op \in Awaited => Waits' /\ mine' = j
          /\ job'[j].op = "stats" =>
               /\ job'[j].callback = "none" <=> at' = "setting" /\ mine' = j
               /\ job'[j].callback = "done" <=> Answers' /\ mine' = j
          /\ job'[j].op # "stats" => job'[j].callback = "none"
          /\ job'[j].op \in Freed => job'[j].stage # "result"
    BY <1>1, <2>1, <2>2, <2>3, <2>4, <2>5
  <2>7. \A j \in Jobs : job'[j].stage \in {"finished", "deleted"} /\ job'[j].op = "stats"
                          => job'[j].callback = "done"
    BY <1>1, <2>1, <2>3 DEF Under
  <2> QED BY <2>4, <2>6, <2>7 DEF Owners
<1>8. CASE Poll
  <2>1. CASE mine \in results
    <3>1. /\ mine \in Jobs
          /\ \A k \in Jobs : /\ job'[k].op = job[k].op
                             /\ job'[k].callback = job[k].callback
                             /\ job'[k].stage = IF k = mine THEN "finished"
                                                ELSE job[k].stage
      BY <1>8, <2>1, HowPolls
    <3>2. at = "polling" /\ at' = caller
      BY <1>8, <2>1 DEF Poll
    <3>3. ~Waits' /\ ~Answers' /\ at' # "setting"
      BY <1>2, <3>2 DEF Waits, Answers
    <3>4. \A j \in Jobs : Under(j)' => Under(j) /\ j # mine
      BY <3>1 DEF Under
    <3>5. \A j \in Jobs : Under(j)' =>
            /\ job'[j].op \in Awaited => Waits' /\ mine' = j
            /\ job'[j].op = "stats" =>
                 /\ job'[j].callback = "none" <=> at' = "setting" /\ mine' = j
                 /\ job'[j].callback = "done" <=> Answers' /\ mine' = j
            /\ job'[j].op # "stats" => job'[j].callback = "none"
            /\ job'[j].op \in Freed => job'[j].stage # "result"
      BY <1>1, <3>1, <3>2, <3>3, <3>4 
    <3>6. job[mine].op = "stats" => job[mine].callback = "done"
      <4>1. Under(mine)
        BY <1>3, <2>1, <3>1 DEF Under
      <4>2. CASE Waits
        BY <1>1, <1>2, <4>2 DEF Waits
      <4>3. CASE Answers
        BY <1>1, <3>1, <4>1, <4>3
      <4> QED BY <3>2, <4>2, <4>3 DEF Waits, Answers
    <3>7. \A j \in Jobs : job'[j].stage \in {"finished", "deleted"} /\ job'[j].op = "stats"
                            => job'[j].callback = "done"
      BY <1>1, <3>1, <3>6
    <3> QED BY <3>3, <3>5, <3>7 DEF Owners
  <2>2. CASE mine \notin results
    <3>1. UNCHANGED <<job, results, at, caller, mine, issued>>
      BY <1>8, <2>2 DEF Poll
    <3> QED BY <1>1, <3>1 DEF Owners, Under, Waits, Answers
  <2> QED BY <2>1, <2>2
<1>9. CASE Sweep \/ CallbackReturns
  <2>1. /\ at' \in {"polling", "game", "drained"}
        /\ at' # "polling" => Pending = {}
        /\ at' = "polling" => /\ mine' \in Pending /\ caller' = "again" /\ mine' \in Jobs
        /\ \A k \in Jobs : /\ job'[k].op = job[k].op
                           /\ \/ job'[k].stage = job[k].stage
                              \/ k \in finished /\ job'[k].stage = "deleted"
                           /\ job'[k].callback = IF at' = "polling" /\ k = mine'
                                                 THEN "done" ELSE job[k].callback
    <3>1. CASE Sweep
      BY <3>1, HowSweeps
    <3>2. CASE CallbackReturns
      BY <1>2, <3>2, HowCallsBack DEF CallbackReturns
    <3> QED BY <1>9, <3>1, <3>2
  <2>2. at \in {"batch", "again"} /\ results' = results
    BY <1>9 DEF Sweep, CallbackReturns
  <2>3. ~Waits /\ ~Answers /\ ~Waits' /\ at' # "setting" /\ (Answers' <=> at' = "polling")
    BY <2>1, <2>2 DEF Waits, Answers
  <2>4. \A k \in Jobs : job[k].stage = "finished" <=> k \in finished
    BY DEF IInv, Places
  <2>5. \A k \in Jobs : Under(k)' => Under(k)
    BY <2>1 DEF Under
  <2>6. \A j \in Pending : j \in results /\ job[j].callback = "set" /\ Under(j)
    BY <1>2, <1>3 DEF Pending, HasCallback, Under
  <2>7. \A j \in Pending : job[j].op = "stats"
    BY <1>1, <1>2, <2>6
  <2>8. \A j \in Jobs : Under(j)' =>
          /\ job'[j].op \in Awaited => Waits' /\ mine' = j
          /\ job'[j].op = "stats" =>
               /\ job'[j].callback = "none" <=> at' = "setting" /\ mine' = j
               /\ job'[j].callback = "done" <=> Answers' /\ mine' = j
          /\ job'[j].op # "stats" => job'[j].callback = "none"
          /\ job'[j].op \in Freed => job'[j].stage # "result"
    <3>1. TAKE j \in Jobs
    <3>2. HAVE Under(j)'
    <3>3. Under(j) /\ job'[j].stage = job[j].stage
      BY <2>1, <2>4, <2>5, <3>2 DEF Under
    <3>4. CASE at' = "polling" /\ j = mine'
      BY <1>1, <1>4, <2>1, <2>3, <2>7, <3>3, <3>4
    <3>5. CASE ~(at' = "polling" /\ j = mine')
      BY <1>1, <2>1, <2>2, <2>3, <3>3, <3>5
    <3> QED BY <3>4, <3>5
  <2>9. \A j \in Jobs : job'[j].stage \in {"finished", "deleted"} /\ job'[j].op = "stats"
                          => job'[j].callback = "done"
    BY <1>1, <2>1, <2>4
  <2>10. Answers' => mine' \in results' /\ job'[mine'].op = "stats"
    BY <2>1, <2>2, <2>3, <2>6, <2>7
  <2> QED BY <2>3, <2>8, <2>9, <2>10 DEF Owners
<1>10. CASE Deleted
  <2>1. \A k \in Jobs : /\ job'[k].op = job[k].op
                        /\ job'[k].callback = job[k].callback
                        /\ job'[k].stage = IF job[k].stage = "none" THEN "none"
                                           ELSE "deleted"
    BY <1>10, HowDeletes
  <2>2. at = "stopping" /\ at' = "game"
    BY <1>10 DEF Deleted
  <2>3. ~Waits' /\ ~Answers' /\ at' # "setting" /\ ~Answers
    BY <2>2 DEF Waits, Answers
  <2>4. Pending = {}
    BY <2>2 DEF IInv, Leftovers
  <2>5. \A k \in Jobs : job[k].stage \notin {"queued", "running"}
    <3>1. Base = issued /\ issued \in Nat /\ \A k \in Jobs : k \in Nat
      BY <1>10, WhenDeleted, Numbers
    <3> QED BY <3>1 DEF IInv, Places
  <2>6. \A k \in Jobs : job[k].op = "stats" /\ job[k].stage # "none"
                          => job[k].callback = "done"
    <3>1. TAKE k \in Jobs
    <3>2. HAVE job[k].op = "stats" /\ job[k].stage # "none"
    <3>3. CASE job[k].stage = "result"
      <4>1. k \in results /\ Under(k)
        BY <1>3, <3>3 DEF Under
      <4>2. job[k].callback # "set"
        BY <2>4, <4>1 DEF Pending, HasCallback
      <4>3. job[k].callback \in {"none", "set", "done"}
        BY <1>2 DEF Job
      <4> QED BY <1>1, <2>2, <3>2, <4>1, <4>2, <4>3
    <3>4. CASE job[k].stage # "result"
      <4>1. job[k].stage \in Stages
        BY <1>2 DEF Job
      <4> QED BY <1>1, <2>5, <3>2, <3>4, <4>1 DEF Stages
    <3> QED BY <3>3, <3>4
  <2> QED BY <2>1, <2>3, <2>6 DEF Owners, Under
<1>11. CASE /\ UNCHANGED <<job, results>>
            /\ \/ at \notin {"polling", "setting"} /\ at' \notin {"polling", "setting"}
               \/ UNCHANGED <<at, caller, mine, issued>>
  <2>1. CASE at \notin {"polling", "setting"} /\ at' \notin {"polling", "setting"}
    BY <1>1, <1>11, <2>1 DEF Owners, Under, Waits, Answers
  <2>2. CASE UNCHANGED <<at, caller, mine, issued>>
    BY <1>1, <1>11, <2>2 DEF Owners, Under, Waits, Answers
  <2> QED BY <1>11, <2>1, <2>2
<1> QED BY <1>5, <1>6, <1>7, <1>8, <1>9, <1>10, <1>11, OwnerFrame

\* The part of the invariant about what is set up.
LEMMA ControlStep == ASSUME IInv, [Next]_vars
                     PROVE  Control'
<1>1. CASE NetThread \/ NetReceives \/ SpuriousWakeup \/ Direct \/ EnableSimSystem
  <2>1. UNCHANGED <<enabled, buffer, server, toGame, autoPulse, terminate, at, caller>>
    BY <1>1 DEF NetThread, NetWakes, NetPulsed, NetExecutes, NetStores, NetReceives,
                SpuriousWakeup, Direct, EnableSimSystem, controlVars, mainVars
  <2> QED BY <2>1 DEF IInv, Control, Unhooking, Hooking, Answers
<1>2. CASE \/ Send \/ Query \/ DoPulse \/ DirectPacket \/ TakeIncoming \/ HandlePacket
           \/ HandlerReturns
  BY <1>2 DEF IInv, Control, Unhooking, Hooking, Answers, Send, Query, DoPulse,
              AddCommandAndWait, DirectPacket, TakeIncoming, HandlePacket, HandlerReturns,
              Game, controlVars, mainVars
<1>3. ASSUME NEW p \in Players, GetNetworkStatistics(p)
      PROVE  Control'
  BY <1>3 DEF IInv, Control, Unhooking, Hooking, Answers, GetNetworkStatistics,
              AddCommandAndWait, Game, controlVars
<1>4. CASE SetCallback
  <2>1. /\ at = "setting" /\ at' = caller /\ caller' = caller
        /\ UNCHANGED <<enabled, buffer, server, toGame, autoPulse, terminate>>
    BY <1>4 DEF SetCallback, controlVars
  <2>2. caller \in {"game", "handling"}
    BY <2>1 DEF IInv, Owners
  <2> QED BY <2>1, <2>2 DEF IInv, Control, Unhooking, Hooking, Answers
<1>5. CASE Poll
  <2>1. /\ at = "polling" /\ at' \in {caller, at} /\ caller' = caller
        /\ UNCHANGED <<enabled, buffer, server, toGame, autoPulse, terminate>>
    BY <1>5 DEF Poll, controlVars
  <2>2. caller \in {"game", "handling", "again", "hooked", "unhooked"}
    BY DEF IInv, TypeOK
  <2>3. buffer /\ (toGame <=> enabled) /\ (Unhooking => ~enabled) /\ (Hooking => enabled)
        /\ (caller \in {"game", "handling"} => enabled)
    BY <2>1, <2>2 DEF IInv, Control, Unhooking, Hooking, Answers
  <2> QED BY <2>1, <2>2, <2>3 DEF IInv, Control, Unhooking, Hooking, Answers
<1>6. CASE Sweep \/ CallbackReturns
  <2>1. /\ at' \in {"polling", "game", "drained"}
        /\ at' # "polling" => at' = IF enabled THEN "game" ELSE "drained"
        /\ at' = "polling" => caller' = "again"
    <3>1. job \in [Jobs -> Job]
      BY DEF IInv, TypeOK
    <3> QED BY <1>6, <3>1, HowSweeps, HowCallsBack DEF CallbackReturns
  <2>2. /\ at \in {"batch", "again"}
        /\ UNCHANGED <<enabled, buffer, server, toGame, autoPulse, terminate>>
    BY <1>6 DEF Sweep, CallbackReturns, controlVars
  <2> QED BY <2>1, <2>2 DEF IInv, Control, Unhooking, Hooking, Answers
<1>7. CASE SwitchOn \/ Hooked
  BY <1>7 DEF IInv, Control, Unhooking, Hooking, Answers, SwitchOn, AddCommandAndWait, Hooked
<1>8. CASE SwitchOff \/ Restore
  BY <1>8 DEF IInv, Control, Unhooking, Hooking, Answers, SwitchOff, Restore, Unhook,
              AddCommandAndWait
<1>9. CASE Unhooked \/ Drained
  BY <1>9 DEF IInv, Control, Unhooking, Hooking, Answers, Unhooked, Drained, controlVars
<1>10. CASE Deleted
  BY <1>10 DEF IInv, Control, Unhooking, Hooking, Answers, Deleted
<1>11. CASE UNCHANGED vars
  BY <1>11 DEF IInv, Control, Unhooking, Hooking, Answers, vars
<1> QED BY <1>1, <1>2, <1>3, <1>4, <1>5, <1>6, <1>7, <1>8, <1>9, <1>10, <1>11
        DEF Next, MainSteps, GameCalls

\* The calls that were executed are the first ones.
LEMMA Executed ==
  ASSUME IInv
  PROVE  /\ Base \in Nat /\ issued \in Nat /\ Len(log) \in Nat
         /\ Base <= Len(log) /\ Len(log) <= issued /\ Len(log) <= Base + 1
         /\ net # "executed" => Base = Len(log)
         /\ net \in {"running", "executed"} => Base + 1 <= issued
<1>1. /\ Base \in Nat /\ issued \in Nat /\ Len(log) \in Nat /\ Len(commands) \in Nat
      /\ Base + Len(commands) = issued
      /\ commands # <<>> => Len(commands) >= 1
      /\ net \in {"running", "executed"} => commands # <<>>
  BY Numbers
<1>2. Base = IF net = "executed" THEN Len(log) - 1 ELSE Len(log)
  BY DEF Base
<1> QED BY <1>1, <1>2

\* A result in the queue is that of a call that was executed.
LEMMA ResultsExecuted ==
  ASSUME IInv, NEW j \in results
  PROVE  j \in Jobs /\ j \in Nat /\ j <= Base
<1>1. j \in Jobs /\ job[j].stage = "result" /\ j \in Nat
  BY Numbers DEF IInv, TypeOK, Places
<1>2. j <= issued
  BY <1>1 DEF IInv, Places
<1>3. ~(Base < j /\ j <= issued)
  BY <1>1 DEF IInv, Places
<1> QED BY <1>1, <1>2, <1>3, Executed

\* Calls that put the handler in or take it out are waited for.
LEMMA HandlerCalls ==
  ASSUME IInv, net = "running"
  PROVE  /\ Base + 1 \in Jobs /\ job[Base + 1].stage = "running"
         /\ job[Base + 1].op = "hook" <=> Hooking /\ mine = Base + 1
         /\ job[Base + 1].op = "unhook" <=> Unhooking /\ mine = Base + 1
<1>1. Base + 1 \in Jobs /\ job[Base + 1].stage = "running"
  BY Numbers DEF IInv, Places
<1>2. Under(Base + 1)
  BY <1>1 DEF Under
<1>3. job[Base + 1].op \in Awaited => Waits /\ mine = Base + 1
  BY <1>1, <1>2 DEF IInv, Owners
<1>4. Waits => /\ caller \in {"game", "handling"} => job[mine].op \in {"query", "ask"}
               /\ caller = "hooked" => job[mine].op = "hook"
               /\ caller = "unhooked" => job[mine].op = "unhook"
  BY DEF IInv, Owners
<1>5. caller \in {"game", "handling", "again", "hooked", "unhooked"}
  BY DEF IInv, TypeOK
<1>6. "hook" \in Awaited /\ "unhook" \in Awaited
  BY DEF Awaited
<1> QED BY <1>1, <1>3, <1>4, <1>5, <1>6 DEF Waits, Hooking, Unhooking

\* While the buffer is taken out there is no game in front of it.
LEMMA WhenClosing ==
  ASSUME IInv
  PROVE  /\ at \in {"drained", "stopping"} => Closing
         /\ at \in {"game", "handling"} => (buffer <=> toGame)
         /\ at \in {"incoming", "batch", "again", "polling", "setting", "hooked",
                    "unhooked", "restoring", "drained", "stopping"} => buffer
         /\ at \in {"setting", "hooked", "restoring"} => toGame
         /\ Closing \/ at = "unhooked" => ~autoPulse
         /\ at \in {"restoring", "hooked"} \/ Unhooking \/ Hooking => ~autoPulse
         /\ autoPulse => toGame
         /\ enabled /\ at = "game" => autoPulse
         /\ (server = "buffer") <=> toGame
  BY DEF IInv, Control, Closing, Unhooking, Hooking, Answers

\* The part of the invariant about the library.
LEMMA LibraryStep == ASSUME IInv, [Next]_vars
                     PROVE  Library'
<1>1. /\ autoPulse \/ at \in {"hooked", "restoring"} => handler = "buffer"
      /\ Hooking => /\ handler = IF mine <= Len(log) THEN "buffer" ELSE "game"
                    /\ mine - 1 <= Base
      /\ Unhooking => handler = IF mine <= Len(log) THEN "null" ELSE "buffer"
      /\ Closing \/ ~buffer => handler = "game"
      /\ at = "unhooked" \/ Closing => Base = issued /\ net \in {"started", "asleep", "ended"}
      /\ ~buffer => Base = issued /\ net = "ended"
      /\ net = "ended" => terminate \/ ~buffer
      /\ net = "pulsing" => autoPulse \/ at = "restoring" \/ (Unhooking /\ Len(log) < mine)
      /\ ~buffer => results = {} /\ finished = {}
  BY DEF IInv, Library
<1>2. CASE NetThread
  <2>1. UNCHANGED <<at, caller, mine, issued, finished, buffer, toGame, terminate, autoPulse>>
    BY <1>2, HowNetWorks
  <2>2. Hooking' = Hooking /\ Unhooking' = Unhooking /\ Closing' = Closing
    BY <2>1 DEF Hooking, Unhooking, Closing
  <2>3. CASE NetWakes \/ NetPulsed
    <3>1. /\ Base' = Base /\ net' \in {"asleep", "pulsing", "running", "ended"}
          /\ net' = "ended" => terminate
          /\ net' = "pulsing" => autoPulse
          /\ net' = "running" => commands # <<>>
          /\ net # "ended"
          /\ UNCHANGED <<handler, log, results>>
      BY <2>3, HowWakes DEF NetWakes, NetPulsed, Begins
    <3>2. net' = "running" => Base # issued
      <4>1. commands # <<>> => Base # issued
        BY Numbers
      <4> QED BY <3>1, <4>1
    <3>3. Closing \/ at = "unhooked" => ~autoPulse
      BY WhenClosing
    <3> QED BY <1>1, <2>1, <2>2, <3>1, <3>2, <3>3 DEF Library
  <2>4. CASE NetExecutes
    <3>1. /\ Base' = Base /\ Base = Len(log) /\ Len(log') = Len(log) + 1
          /\ net = "running" /\ net' = "executed"
          /\ handler' = CASE job[Base + 1].op = "hook" -> "buffer"
                          [] job[Base + 1].op = "unhook" -> "null"
                          [] OTHER -> handler
          /\ results' = results
      BY <2>4, HowExecutes DEF NetExecutes
    <3>2. /\ job[Base + 1].op = "hook" <=> Hooking /\ mine = Base + 1
          /\ job[Base + 1].op = "unhook" <=> Unhooking /\ mine = Base + 1
      BY <3>1, HandlerCalls
    <3>3. ~(autoPulse /\ (Hooking \/ Unhooking)) /\ ~(Hooking /\ Unhooking)
          /\ (Hooking \/ Unhooking => at = "polling")
      BY WhenClosing DEF Hooking, Unhooking
    <3>4. buffer /\ ~Closing /\ at # "unhooked"
      BY <1>1, <3>1
    <3>5. mine \in Nat /\ Base \in Nat /\ (Waits => mine = issued) /\ Base + 1 <= issued
      BY <3>1, Numbers, Executed DEF IInv, TypeOK, Owners
    <3>6. Hooking \/ Unhooking => mine = issued
      BY <3>5 DEF Hooking, Unhooking, Waits
    <3>7. Hooking \/ Unhooking => ~(mine <= Len(log)) /\ (mine <= Len(log') <=> mine = Base + 1)
      BY <3>1, <3>5, <3>6
    <3>8. autoPulse \/ at \in {"hooked", "restoring"} => handler' = "buffer"
      BY <1>1, <3>1, <3>2, <3>3
    <3>9. Hooking => /\ handler' = IF mine <= Len(log') THEN "buffer" ELSE "game"
                     /\ mine - 1 <= Base'
      BY <1>1, <3>1, <3>2, <3>3, <3>7
    <3>10. Unhooking => handler' = IF mine <= Len(log') THEN "null" ELSE "buffer"
      BY <1>1, <3>1, <3>2, <3>3, <3>7
    <3> QED BY <2>1, <2>2, <3>1, <3>4, <3>8, <3>9, <3>10 DEF Library
  <2>5. CASE NetStores
    <3>1. /\ Base' = Base + 1 /\ net = "executed"
          /\ net' \in {"asleep", "pulsing", "running", "ended"}
          /\ net' = "ended" => terminate
          /\ net' = "pulsing" => autoPulse
          /\ UNCHANGED <<handler, log>>
      BY <2>5, HowStores DEF NetStores
    <3>2. buffer /\ ~Closing /\ at # "unhooked"
      BY <1>1, <3>1
    <3>3. Hooking => mine - 1 <= Base'
      <4>1. mine \in Nat /\ Base \in Nat
        BY Numbers DEF IInv, TypeOK
      <4> QED BY <1>1, <3>1, <4>1
    <3> QED BY <1>1, <2>1, <2>2, <3>1, <3>2, <3>3 DEF Library
  <2> QED BY <1>2, <2>3, <2>4, <2>5 DEF NetThread
<1>3. CASE Adds
  <2>1. /\ UNCHANGED <<log, handler>> /\ Base' = Base
        /\ net' = net \/ (SwitchOn /\ net = "ended" /\ net' = "started")
        /\ buffer'
    BY <1>3, WhatCallsKeep
  <2>2. Len(log) <= issued /\ Len(log) \in Nat /\ issued \in Nat /\ Base \in Nat
    BY Executed
  <2>3. CASE SwitchOn
    <3>1. /\ at' = "polling" /\ caller' = "hooked" /\ mine' = issued + 1
          /\ autoPulse' = FALSE /\ toGame' = TRUE /\ net' = "started"
          /\ at = "game" /\ ~enabled
      BY <2>3 DEF SwitchOn, AddCommandAndWait
    <3>2. ~buffer
      BY <2>3 DEF IInv, Control, SwitchOn, Unhooking, Answers
    <3>3. handler = "game" /\ Base = issued
      BY <1>1, <3>2
    <3>4. Hooking' /\ ~Unhooking' /\ ~Closing'
      BY <3>1 DEF Hooking, Unhooking, Closing
    <3>5. ~(mine' <= Len(log')) /\ mine' - 1 <= Base'
      BY <2>1, <2>2, <3>1, <3>3
    <3> QED BY <2>1, <3>1, <3>3, <3>4, <3>5 DEF Library
  <2>4. CASE Restore
    <3>1. /\ at' = "polling" /\ caller' = "unhooked" /\ mine' = issued + 1
          /\ autoPulse' = autoPulse /\ at = "restoring" /\ terminate' = terminate
      BY <2>4 DEF Restore, Unhook, AddCommandAndWait
    <3>2. ~autoPulse /\ handler = "buffer" /\ buffer
      BY <1>1, <3>1, WhenClosing
    <3>3. ~Hooking' /\ Unhooking' /\ ~Closing'
      BY <3>1 DEF Hooking, Unhooking, Closing
    <3>4. ~(mine' <= Len(log')) /\ Len(log') < mine'
      BY <2>1, <2>2, <3>1
    <3>5. net' = net
      BY <2>1, <2>4 DEF Restore, SwitchOn
    <3> QED BY <1>1, <2>1, <3>1, <3>2, <3>3, <3>4, <3>5 DEF Library
  <2>5. CASE ~SwitchOn /\ ~Restore
    <3>1. /\ UNCHANGED <<autoPulse, toGame, terminate, buffer>>
          /\ at \in {"game", "handling"} /\ server = "buffer"
          /\ at' \in {"game", "handling", "incoming", "polling", "setting"}
          /\ at' = "polling" => caller' \in {"game", "handling"}
      BY <1>3, <2>5 DEF Adds, Send, Query, GetNetworkStatistics, DoPulse,
                        AddCommandAndWait, Game, controlVars, mainVars
    <3>2. toGame
      BY <3>1, WhenClosing
    <3>3. ~Hooking' /\ ~Unhooking' /\ ~Closing' /\ ~Unhooking /\ net' = net /\ buffer
      BY <2>1, <2>5, <3>1, <3>2 DEF Hooking, Unhooking, Closing
    <3> QED BY <1>1, <2>1, <3>1, <3>3 DEF Library
  <2> QED BY <2>3, <2>4, <2>5
<1>4. CASE Direct
  <2>1. ~buffer /\ Base' = issued'
    BY <1>4, HowDirect
  <2>2. UNCHANGED <<at, caller, mine, buffer, toGame, autoPulse, terminate, net, handler,
                    results, finished>> /\ at \in {"game", "handling"}
    BY <1>4 DEF Direct, Game, controlVars, mainVars
  <2>3. ~Hooking' /\ ~Unhooking' /\ ~Closing' /\ ~Hooking /\ ~Unhooking
    BY <2>1, <2>2 DEF Hooking, Unhooking, Closing
  <2> QED BY <1>1, <2>1, <2>2, <2>3 DEF Library
<1>5. CASE Poll /\ mine \in results
  <2>1. /\ at = "polling" /\ at' = caller /\ caller' = caller /\ mine' = mine
        /\ UNCHANGED <<buffer, toGame, autoPulse, terminate, net, handler, log, issued>>
    BY <1>5 DEF Poll, controlVars, netVars
  <2>2. caller \in {"game", "handling", "again", "hooked", "unhooked"} /\ buffer
    BY <2>1, WhenClosing DEF IInv, TypeOK
  <2>3. Base' = Base
    BY <2>1 DEF Base
  <2>4. mine <= Base /\ mine \in Nat
    BY <1>5, ResultsExecuted
  <2>5. mine <= Len(log) /\ ~(Len(log) < mine)
    BY <2>4, Executed
  <2>6. ~Hooking' /\ ~Unhooking'
    BY <2>1, <2>2 DEF Hooking, Unhooking
  <2>7. CASE caller = "unhooked"
    <3>1. Unhooking /\ ~Closing' /\ ~autoPulse
      BY <2>1, <2>7, WhenClosing DEF Unhooking, Closing
    <3>2. mine = issued
      BY <2>1, <2>7 DEF IInv, Owners, Waits
    <3>3. Base = issued /\ net \notin {"running", "executed"}
      BY <2>4, <3>2, Executed
    <3>4. net \in {"started", "asleep", "ended"}
      BY <1>1, <2>1, <2>5, <3>1, <3>3 DEF IInv, TypeOK
    <3> QED BY <1>1, <2>1, <2>2, <2>3, <2>6, <2>7, <3>1, <3>3, <3>4 DEF Library
  <2>8. CASE caller # "unhooked"
    <3>1. ~Unhooking /\ Closing' = Closing /\ at' # "unhooked" /\ at' # "restoring"
      BY <2>1, <2>2, <2>8 DEF Unhooking, Closing
    <3>2. at' = "hooked" => handler = "buffer"
      BY <1>1, <2>1, <2>5 DEF Hooking
    <3> QED BY <1>1, <2>1, <2>2, <2>3, <2>6, <3>1, <3>2 DEF Library
  <2> QED BY <2>7, <2>8
<1>6. CASE Hooked
  <2>1. /\ at = "hooked" /\ at' = "game" /\ autoPulse' = TRUE
        /\ UNCHANGED <<buffer, toGame, terminate, net, handler, log, issued,
                       results, finished>>
    BY <1>6 DEF Hooked, netVars
  <2>2. buffer /\ toGame
    BY <2>1, WhenClosing
  <2>3. ~Hooking' /\ ~Unhooking' /\ ~Closing' /\ Base' = Base
    BY <2>1, <2>2 DEF Hooking, Unhooking, Closing, Base
  <2> QED BY <1>1, <2>1, <2>2, <2>3 DEF Library
<1>7. CASE SwitchOff
  <2>1. /\ at = "game" /\ at' = "restoring" /\ enabled /\ autoPulse' = FALSE
        /\ UNCHANGED <<buffer, toGame, terminate, net, handler, log, issued,
                       results, finished>>
    BY <1>7 DEF SwitchOff, netVars
  <2>2. autoPulse /\ toGame /\ buffer
    BY <2>1, WhenClosing
  <2>3. ~Hooking' /\ ~Unhooking' /\ ~Closing' /\ Base' = Base
    BY <2>1, <2>2 DEF Hooking, Unhooking, Closing, Base
  <2> QED BY <1>1, <2>1, <2>2, <2>3 DEF Library
<1>8. CASE Unhooked
  <2>1. /\ at = "unhooked" /\ at' = "incoming" /\ handler' = "game"
        /\ UNCHANGED <<buffer, toGame, autoPulse, terminate, net, log, issued,
                       results, finished>>
    BY <1>8 DEF Unhooked, controlVars
  <2>2. buffer /\ ~autoPulse
    BY <2>1, WhenClosing
  <2>3. ~Hooking' /\ ~Unhooking' /\ Base' = Base /\ ~Unhooking
    BY <2>1 DEF Hooking, Unhooking, Base
  <2> QED BY <1>1, <2>1, <2>2, <2>3 DEF Library
<1>9. CASE Drained
  <2>1. /\ at = "drained" /\ at' = "stopping" /\ terminate' = TRUE
        /\ UNCHANGED <<buffer, toGame, autoPulse, net, handler, log, issued,
                       results, finished>>
    BY <1>9 DEF Drained, netVars
  <2>2. Closing
    BY <2>1, WhenClosing
  <2>3. ~Hooking' /\ ~Unhooking' /\ Base' = Base /\ ~Unhooking /\ Closing'
    BY <2>1, <2>2 DEF Hooking, Unhooking, Closing, Base
  <2> QED BY <1>1, <2>1, <2>2, <2>3 DEF Library
<1>10. CASE Deleted
  <2>1. /\ at = "stopping" /\ at' = "game" /\ net' = "ended" /\ buffer' = FALSE
        /\ results' = {} /\ finished' = {} /\ UNCHANGED <<handler, autoPulse>>
    BY <1>10 DEF Deleted
  <2>2. Closing
    BY <2>1, WhenClosing
  <2>3. Base' = issued'
    BY <1>10, WhenDeleted
  <2>4. ~Hooking' /\ ~Unhooking' /\ ~Closing'
    BY <2>1 DEF Hooking, Unhooking, Closing
  <2>5. ~autoPulse
    BY <2>2, WhenClosing
  <2> QED BY <1>1, <2>1, <2>2, <2>3, <2>4, <2>5 DEF Library
<1>11. CASE \/ SetCallback \/ Sweep \/ CallbackReturns \/ TakeIncoming \/ HandlePacket
            \/ HandlerReturns \/ DirectPacket
  <2>1. /\ UNCHANGED <<buffer, toGame, autoPulse, terminate, net, handler, log, issued, results>>
        /\ at \in {"setting", "batch", "again", "incoming", "handling", "game"}
        /\ ~buffer => finished' = finished
        /\ at' \in {"setting", "batch", "again", "incoming", "handling", "game", "drained",
                    "polling"}
        /\ at' = "polling" => caller' = "again"
    <3>1. job \in [Jobs -> Job]
      BY DEF IInv, TypeOK
    <3>2. CASE Sweep \/ CallbackReturns
      <4>1. at' \in {"game", "drained", "polling"} /\ (at' = "polling" => caller' = "again")
        BY <3>1, <3>2, HowSweeps, HowCallsBack DEF CallbackReturns
      <4>2. /\ UNCHANGED <<buffer, toGame, autoPulse, terminate, net, handler, log, issued,
                           results>>
            /\ at \in {"batch", "again"}
        BY <3>2 DEF Sweep, CallbackReturns, controlVars, netVars
      <4>3. buffer
        BY <4>2, WhenClosing
      <4> QED BY <4>1, <4>2, <4>3
    <3>3. CASE SetCallback
      <4>1. at = "setting" /\ at' = caller /\ finished' = finished
            /\ UNCHANGED <<buffer, toGame, autoPulse, terminate, net, handler, log, issued,
                           results>>
        BY <3>3 DEF SetCallback, controlVars, netVars
      <4>2. caller \in {"game", "handling"}
        BY <4>1 DEF IInv, Owners
      <4> QED BY <4>1, <4>2
    <3>4. CASE TakeIncoming \/ HandlePacket \/ HandlerReturns \/ DirectPacket
      BY <3>4 DEF TakeIncoming, HandlePacket, HandlerReturns, DirectPacket, controlVars, netVars
    <3> QED BY <1>11, <3>2, <3>3, <3>4
  <2>2. ~Hooking' /\ ~Unhooking' /\ Closing' = Closing /\ ~Unhooking /\ Base' = Base
    BY <2>1 DEF Hooking, Unhooking, Closing, Base
  <2> QED BY <1>1, <2>1, <2>2 DEF Library
<1>12. CASE \/ NetReceives \/ EnableSimSystem \/ SpuriousWakeup \/ UNCHANGED vars
            \/ (Poll /\ mine \notin results)
  <2>1. UNCHANGED <<at, caller, mine, buffer, toGame, autoPulse, terminate, net, handler, log,
                    issued, results, finished>>
    BY <1>12 DEF NetReceives, EnableSimSystem, SpuriousWakeup, Poll, vars, controlVars,
                 netVars, mainVars
  <2>2. UNCHANGED <<Hooking, Unhooking, Closing, Base>>
    BY <2>1 DEF Hooking, Unhooking, Closing, Base
  <2> QED BY <1>1, <2>1, <2>2 DEF Library
<1> QED BY <1>2, <1>3, <1>4, <1>5, <1>6, <1>7, <1>8, <1>9, <1>10, <1>11, <1>12
        DEF Next, MainSteps, GameCalls, Adds

\* The part of the invariant about what is left over.
LEMMA LeftoverStep == ASSUME IInv, [Next]_vars
                      PROVE  Leftovers'
<1>1. /\ batch # <<>> => at = "batch" \/ InHandler
      /\ ~buffer => batch = <<>> /\ incoming = <<>>
      /\ Closing /\ at # "incoming" => incoming = <<>>
      /\ at \in {"drained", "stopping"} => Pending = {}
  BY DEF IInv, Leftovers
<1>2. CASE NetThread
  <2>1. /\ UNCHANGED <<at, caller, mine, buffer, toGame, incoming, batch>>
        /\ \A k \in Jobs : job'[k].callback = job[k].callback
        /\ \A k \in results' : k \in results \/ net = "executed"
    BY <1>2, HowNetWorks
  <2>2. InHandler' = InHandler /\ Closing' = Closing
    BY <2>1 DEF InHandler, Closing, Unhooking
  <2>3. Closing => net # "executed"
    BY DEF IInv, Library
  <2>4. at \in {"drained", "stopping"} => Pending' = {}
    <3>1. SUFFICES ASSUME at \in {"drained", "stopping"}
                   PROVE  Pending' = {}
      OBVIOUS
    <3>2. Pending = {} /\ \A k \in results' : k \in results
      BY <1>1, <2>1, <2>3, <3>1, WhenClosing
    <3>3. \A k \in results : job'[k].callback = job[k].callback
      BY <2>1 DEF IInv, TypeOK
    <3> QED BY <3>2, <3>3 DEF Pending, HasCallback
  <2> QED BY <1>1, <2>1, <2>2, <2>4 DEF Leftovers
<1>3. CASE Adds
  <2>1. buffer' /\ incoming' = incoming /\ batch' = batch
    BY <1>3, WhatCallsKeep
  <2>2. /\ at \in {"game", "handling", "restoring"}
        /\ at' \in {"game", "handling", "setting", "polling", "incoming"}
        /\ at = "handling" => InHandler'
    BY <1>3 DEF Adds, Send, Query, GetNetworkStatistics, DoPulse, SwitchOn, Restore, Unhook,
                AddCommandAndWait, Game, InHandler, mainVars
  <2>3. batch # <<>> => at = "handling"
    BY <1>1, <2>2 DEF InHandler
  <2>4. ~Closing'
    <3>1. CASE SwitchOn
      BY <3>1 DEF SwitchOn, Closing
    <3>2. CASE Restore
      BY <3>2 DEF Restore, Unhook, AddCommandAndWait, Closing, Unhooking
    <3>3. CASE ~SwitchOn /\ ~Restore
      <4>1. toGame' = toGame /\ server = "buffer"
        BY <1>3, <3>3 DEF Adds, Send, Query, GetNetworkStatistics, DoPulse, controlVars
      <4> QED BY <4>1, WhenClosing DEF Closing
    <3> QED BY <3>1, <3>2, <3>3
  <2> QED BY <2>1, <2>2, <2>3, <2>4 DEF Leftovers
<1>4. CASE SetCallback \/ Poll
  <2>1. /\ at \in {"setting", "polling"} /\ at' \in {at, caller} /\ caller' = caller
        /\ UNCHANGED <<buffer, toGame, incoming, batch>>
    BY <1>4 DEF SetCallback, Poll, controlVars, packetVars
  <2>2. caller \in {"game", "handling", "again", "hooked", "unhooked"}
    BY DEF IInv, TypeOK
  <2>3. buffer
    BY <2>1, WhenClosing
  <2>4. InHandler => InHandler'
    BY <2>1 DEF InHandler
  <2>5. Closing' => Closing
    BY <2>1, <2>2 DEF Closing, Unhooking
  <2> QED BY <1>1, <2>1, <2>2, <2>3, <2>4, <2>5 DEF Leftovers
<1>5. CASE Sweep \/ CallbackReturns
  <2>1. /\ at' \in {"polling", "game", "drained"}
        /\ at' # "polling" => Pending = {}
        /\ at' = "polling" => caller' = "again"
        /\ \A k \in Jobs : job'[k].callback = IF at' = "polling" /\ k = mine'
                                              THEN "done" ELSE job[k].callback
    <3>1. job \in [Jobs -> Job]
      BY DEF IInv, TypeOK
    <3> QED BY <1>5, <3>1, HowSweeps, HowCallsBack DEF CallbackReturns
  <2>2. /\ at \in {"batch", "again"} /\ results' = results /\ (at = "batch" => batch = <<>>)
        /\ UNCHANGED <<buffer, toGame, incoming, batch>>
    BY <1>5 DEF Sweep, CallbackReturns, controlVars, packetVars
  <2>3. batch = <<>> /\ buffer
    BY <1>1, <2>2, WhenClosing DEF InHandler
  <2>4. Closing' => Closing
    BY <2>1, <2>2 DEF Closing, Unhooking
  <2>5. at' = "drained" => Pending' = {}
    <3>1. at' = "drained" => Pending = {} /\ \A k \in results : job'[k].callback = job[k].callback
      BY <2>1 DEF IInv, TypeOK
    <3> QED BY <2>2, <3>1 DEF Pending, HasCallback
  <2> QED BY <1>1, <2>1, <2>2, <2>3, <2>4, <2>5 DEF Leftovers
<1>6. CASE Deleted
  <2>1. at = "stopping" /\ at' = "game" /\ buffer' = FALSE /\ incoming' = <<>> /\ batch' = batch
    BY <1>6 DEF Deleted
  <2>2. batch = <<>> /\ ~Closing'
    BY <1>1, <2>1 DEF InHandler, Closing
  <2> QED BY <2>1, <2>2 DEF Leftovers
<1>7. CASE TakeIncoming
  <2>1. /\ at = "incoming" /\ at' = "batch" /\ incoming' = <<>> /\ buffer' = buffer
    BY <1>7 DEF TakeIncoming, controlVars
  <2> QED BY <2>1, WhenClosing DEF Leftovers
<1>8. CASE HandlePacket \/ HandlerReturns
  <2>1. /\ at \in {"batch", "handling"} /\ buffer' = buffer /\ toGame' = toGame
        /\ server' = server /\ incoming' = incoming
        /\ at' \in {"batch", "handling", "game"}
        /\ at' = "game" => server # "buffer" /\ at = "handling" /\ batch' = batch
        /\ at = "handling" => batch' = batch
        /\ at = "batch" => batch # <<>>
    BY <1>8 DEF HandlePacket, HandlerReturns, controlVars, packetVars
  <2>2. at' = "game" => ~buffer
    BY <2>1, WhenClosing
  <2>3. Closing' => Closing
    BY <2>1 DEF Closing, Unhooking
  <2>4. ~buffer => at = "handling"
    BY <2>1, WhenClosing
  <2> QED BY <1>1, <2>1, <2>2, <2>3, <2>4 DEF Leftovers, InHandler
<1>9. CASE NetReceives
  <2>1. /\ handler = "buffer" /\ batch' = batch
        /\ UNCHANGED <<at, caller, mine, buffer, toGame, results, job>>
    BY <1>9 DEF NetReceives, controlVars, mainVars
  <2>2. buffer /\ ~Closing
    BY <2>1 DEF IInv, Library
  <2>3. InHandler' = InHandler /\ Closing' = Closing /\ Pending' = Pending
    BY <2>1 DEF InHandler, Closing, Unhooking, Pending, HasCallback
  <2> QED BY <1>1, <2>1, <2>2, <2>3 DEF Leftovers
<1>10. CASE Hooked \/ SwitchOff \/ Unhooked \/ Drained \/ DirectPacket
  <2>1. /\ at \in {"game", "hooked", "unhooked", "drained"}
        /\ at' \in {"game", "restoring", "incoming", "stopping", "handling"}
        /\ at' = "stopping" => at = "drained"
        /\ at = "hooked" => at' = "game"
        /\ at \in {"hooked", "unhooked", "drained"} => at' # "handling"
        /\ at = "unhooked" => at' = "incoming"
        /\ UNCHANGED <<buffer, toGame, incoming, batch, results, job>>
    BY <1>10 DEF Hooked, SwitchOff, Unhooked, Drained, DirectPacket, controlVars, packetVars
  <2>2. batch = <<>>
    BY <1>1, <2>1 DEF InHandler
  <2>3. Pending' = Pending
    BY <2>1 DEF Pending, HasCallback
  <2>4. Closing' => Closing \/ at = "unhooked"
    BY <2>1 DEF Closing, Unhooking
  <2> QED BY <1>1, <2>1, <2>2, <2>3, <2>4 DEF Leftovers
<1>11. CASE Direct \/ EnableSimSystem \/ SpuriousWakeup \/ UNCHANGED vars
  <2>1. UNCHANGED <<at, caller, mine, buffer, toGame, incoming, batch, results, job>>
    BY <1>11 DEF Direct, EnableSimSystem, SpuriousWakeup, vars, controlVars, packetVars,
                 mainVars
  <2>2. InHandler' = InHandler /\ Closing' = Closing /\ Pending' = Pending
    BY <2>1 DEF InHandler, Closing, Unhooking, Pending, HasCallback
  <2> QED BY <1>1, <2>1, <2>2 DEF Leftovers
<1> QED BY <1>2, <1>3, <1>4, <1>5, <1>6, <1>7, <1>8, <1>9, <1>10, <1>11
        DEF Next, MainSteps, GameCalls, Adds

-----------------------------------------------------------------------------
(* The invariant *)

\* It holds at the start.
LEMMA InitInv == ASSUME Init
                 PROVE  IInv
<1> USE DEF Init
<1>1. \A j \in Jobs : job[j] = NoJob
  OBVIOUS
<1>2. NoJob \in Job
  BY DEF NoJob, Job, Ops, Freed, Stages
<1>3. TypeOK
  <2>1. job \in [Jobs -> Job]
    BY <1>2
  <2>2. MaxCalls \in Nat
    BY BoundsAssumption
  <2>3. 0 \in 0..MaxCalls /\ <<>> \in Seq(Jobs) /\ <<>> \in Seq(Nat)
    BY <2>2
  <2>4. Bits
    BY DEF Bits
  <2>5. Data
    BY <2>1, <2>3 DEF Data
  <2> QED BY <2>4, <2>5 DEF TypeOK, Bits, Data
<1>4. Base = 0 /\ Len(commands) = 0 /\ Len(log) = 0
  BY DEF Base
<1>5. Queue
  BY <1>4 DEF Queue
<1>6. Places
  BY <1>1, <1>4 DEF Places, NoJob, Jobs
<1>7. Owners
  BY <1>1 DEF Owners, Under, Waits, Answers, NoJob
<1>8. Control
  BY DEF Control, Unhooking, Hooking, Answers
<1>9. Library
  BY <1>4 DEF Library, Unhooking, Hooking, Closing
<1>10. Leftovers
  BY DEF Leftovers, Closing
<1> QED BY <1>3, <1>5, <1>6, <1>7, <1>8, <1>9, <1>10 DEF IInv

\* And every step keeps it.
LEMMA Invariance == Spec => []IInv
<1>1. IInv /\ [Next]_vars => IInv'
  BY TypeStep, QueueStep, PlacesStep, OwnersStep, ControlStep, LibraryStep, LeftoverStep
     DEF IInv
<1> QED BY <1>1, InitInv, PTL DEF Spec

\* The type invariant.
THEOREM TypeCorrect == Spec => []TypeOK
<1>1. IInv => TypeOK
  BY DEF IInv
<1> QED BY <1>1, Invariance, PTL

\* What it says of the lists and of the job at hand.
LEMMA JobsInv == ASSUME IInv
                 PROVE  JobsInPlace
<1>1. /\ Base \in Nat /\ Len(commands) \in Nat /\ issued \in Nat
      /\ Base + Len(commands) = issued
      /\ \A j \in Jobs : j \in Nat
      /\ commands # <<>> => Head(commands) = Base + 1
      /\ net \in {"running", "executed"} => commands # <<>>
  BY Numbers
<1>2. \A i \in 1..Len(commands) : commands[i] = Base + i
  BY DEF IInv, Queue
<1>3. ASSUME NEW j \in Jobs
      PROVE  InQueue(j) <=> Base < j /\ j <= issued
  <2>1. CASE InQueue(j)
    BY <1>1, <1>2, <2>1 DEF InQueue
  <2>2. CASE Base < j /\ j <= issued
    <3>1. j - Base \in 1..Len(commands)
      BY <1>1, <2>2
    <3>2. commands[j - Base] = Base + (j - Base) /\ Base + (j - Base) = j
      BY <1>1, <1>2, <3>1
    <3> QED BY <2>2, <3>1, <3>2 DEF InQueue
  <2> QED BY <2>1, <2>2
<1>4. \A j \in Jobs :
        /\ job[j].stage \in {"queued", "running"} <=> InQueue(j)
        /\ job[j].stage = "result" <=> j \in results
        /\ job[j].stage = "finished" <=> j \in finished
  BY <1>3 DEF IInv, Places
<1>5. net \in {"running", "executed"} =>
        commands # <<>> /\ job[Head(commands)].stage = "running"
  BY <1>1 DEF IInv, Places
<1>6. at = "polling" /\ caller = "again" => mine \in results
  BY DEF IInv, Owners, Answers
<1>7. at \in {"setting", "polling"} => mine \in Jobs /\ Under(mine)
  <2>1. CASE at = "polling" /\ caller = "again"
    BY <1>4, <1>6, <2>1 DEF IInv, TypeOK, Under
  <2>2. CASE ~(at = "polling" /\ caller = "again")
    BY <2>2 DEF IInv, Owners, Waits
  <2> QED BY <2>1, <2>2
<1> QED BY <1>4, <1>5, <1>6, <1>7 DEF JobsInPlace, Under

\* A job is in the one list of its stage, and nobody holds a deleted one.
THEOREM JobsKept == Spec => []JobsInPlace
BY JobsInv, Invariance, PTL

\* What it says of the library and its handler.
LEMMA LibraryInv == ASSUME IInv
                    PROVE  OneThreadInLibrary
<1>1. ASSUME net = "pulsing"
      PROVE  handler # "game"
  <2>1. Unhooking /\ Len(log) < mine => handler = "buffer"
    <3>1. mine \in Nat /\ Len(log) \in Nat
      BY Numbers DEF IInv, TypeOK
    <3>2. Unhooking => handler = IF mine <= Len(log) THEN "null" ELSE "buffer"
      BY DEF IInv, Library
    <3>3. Len(log) < mine => ~(mine <= Len(log))
      BY <3>1
    <3> QED BY <3>2, <3>3
  <2>2. handler = "buffer"
    BY <1>1, <2>1 DEF IInv, Library
  <2> QED BY <2>2
<1>2. ASSUME net = "running", job[Head(commands)].op = "pulse"
      PROVE  handler # "game"
  <2>1. Head(commands) = Base + 1 /\ mine \in Nat
    BY <1>2, Numbers DEF IInv, TypeOK
  <2>2. ~Closing /\ buffer /\ at # "unhooked"
    BY <1>2 DEF IInv, Library
  <2>3. CASE Hooking
    <3>1. mine = issued /\ mine - 1 <= Base
          /\ handler = IF mine <= Len(log) THEN "buffer" ELSE "game"
      BY <2>3 DEF IInv, Library, Owners, Waits, Hooking
    <3>2. Base \in Nat /\ Base + 1 <= issued
      BY <1>2, Executed
    <3>3. mine = Base + 1
      BY <2>1, <3>1, <3>2
    <3>4. job[Base + 1].op = "hook"
      BY <1>2, <2>3, <3>3, HandlerCalls
    <3> QED BY <1>2, <2>1, <3>4
  <2>4. CASE ~Hooking
    <3>1. toGame \/ Unhooking
      BY <2>2 DEF Closing
    <3>2. CASE toGame
      <4>1. autoPulse \/ at \in {"hooked", "restoring"}
        BY <2>4, <3>2 DEF IInv, Control
      <4>2. handler = "buffer"
        BY <4>1 DEF IInv, Library
      <4> QED BY <4>2
    <3>3. Unhooking => handler # "game"
      BY DEF IInv, Library
    <3> QED BY <3>1, <3>2, <3>3
  <2> QED BY <2>3, <2>4
<1>3. NetPulses => handler # "game"
  BY <1>1, <1>2 DEF NetPulses
<1>4. at = "unhooked" => net \notin {"pulsing", "running", "executed"}
  BY DEF IInv, Library
<1>5. Game /\ server = "real" => ~buffer
  BY WhenClosing DEF Game
<1>6. ~buffer => net = "ended" /\ handler = "game"
  BY DEF IInv, Library
<1> QED BY <1>3, <1>4, <1>5, <1>6 DEF OneThreadInLibrary

\* The two threads are never in the library together, and the net thread never
\* runs the game's handler of packets.
THEOREM OneThread == Spec => []OneThreadInLibrary
BY LibraryInv, Invariance, PTL

-----------------------------------------------------------------------------
(* The buffer implements NetService *)

\* A sequence put behind another one.
LEMMA Joined ==
  ASSUME NEW s \in Seq(Nat), NEW t \in Seq(Nat), NEW e \in Nat
  PROVE  /\ s \o Append(t, e) = Append(s \o t, e)
         /\ <<>> \o t = t /\ t \o <<>> = t
         /\ s # <<>> => /\ s \o t # <<>> /\ Head(s \o t) = Head(s)
                        /\ Tail(s) \o t = Tail(s \o t)
<1>1. <<>> \o t = t /\ t \o <<>> = t
  OBVIOUS
<1>2. s \o Append(t, e) = Append(s \o t, e)
  OBVIOUS
<1>3. ASSUME s # <<>>
      PROVE  s \o t # <<>> /\ Head(s \o t) = Head(s) /\ Tail(s) \o t = Tail(s \o t)
  <2>1. /\ Len(s) \in Nat \ {0} /\ Len(t) \in Nat /\ Tail(s) \in Seq(Nat)
        /\ Len(Tail(s)) = Len(s) - 1
        /\ \A i \in 1..Len(Tail(s)) : Tail(s)[i] = s[i + 1]
    BY <1>3, TakeFront
  <2>2. /\ s \o t \in Seq(Nat) /\ Len(s \o t) = Len(s) + Len(t)
        /\ \A i \in 1..Len(s) + Len(t) :
             (s \o t)[i] = IF i <= Len(s) THEN s[i] ELSE t[i - Len(s)]
    BY ConcatProperties
  <2>3. s \o t # <<>>
    BY <2>1, <2>2
  <2>4. /\ Head(s \o t) = (s \o t)[1] /\ Tail(s \o t) \in Seq(Nat)
        /\ Len(Tail(s \o t)) = Len(s \o t) - 1
        /\ \A i \in 1..Len(Tail(s \o t)) : Tail(s \o t)[i] = (s \o t)[i + 1]
    BY <2>2, <2>3, TakeFront
  <2>5. Head(s \o t) = Head(s)
    BY <1>3, <2>1, <2>2, <2>4
  <2>6. /\ Tail(s) \o t \in Seq(Nat) /\ Len(Tail(s) \o t) = Len(s) - 1 + Len(t)
        /\ \A i \in 1..Len(s) - 1 + Len(t) :
             (Tail(s) \o t)[i] = IF i <= Len(s) - 1 THEN Tail(s)[i] ELSE t[i - (Len(s) - 1)]
    <3>1. /\ Tail(s) \o t \in Seq(Nat) /\ Len(Tail(s) \o t) = Len(Tail(s)) + Len(t)
          /\ \A i \in 1..Len(Tail(s)) + Len(t) :
               (Tail(s) \o t)[i] = IF i <= Len(Tail(s)) THEN Tail(s)[i] ELSE t[i - Len(Tail(s))]
      BY <2>1, ConcatProperties
    <3> QED BY <2>1, <3>1
  <2>7. Len(Tail(s) \o t) = Len(Tail(s \o t))
    BY <2>1, <2>2, <2>4, <2>6
  <2>8. ASSUME NEW i \in 1..Len(Tail(s) \o t)
        PROVE  (Tail(s) \o t)[i] = Tail(s \o t)[i]
    <3>1. i \in Nat /\ i + 1 \in 1..Len(s) + Len(t) /\ i \in 1..Len(s) - 1 + Len(t)
          /\ (i <= Len(s) - 1 <=> i + 1 <= Len(s))
          /\ i - (Len(s) - 1) = (i + 1) - Len(s)
          /\ (i <= Len(s) - 1 => i \in 1..Len(Tail(s)))
      BY <2>1, <2>6
    <3>2. Tail(s \o t)[i] = (s \o t)[i + 1]
      BY <2>4, <2>7
    <3> QED BY <2>1, <2>2, <2>6, <3>1, <3>2
  <2>9. Tail(s) \o t = Tail(s \o t)
    BY <2>4, <2>6, <2>7, <2>8, SeqEqual
  <2> QED BY <2>3, <2>5, <2>9
<1> QED BY <1>1, <1>2, <1>3

\* Answers are owed for the statistics that the queue or the results hold.
LEMMA OwedUnder ==
  ASSUME IInv, NEW j \in Owed
  PROVE  j \in Jobs /\ j \in Nat /\ Under(j) /\ job[j].op = "stats" /\ ~(Answers /\ mine = j)
<1>1. j \in Jobs /\ job[j].op = "stats" /\ job[j].stage # "none" /\ job[j].callback # "done"
  BY DEF Owed
<1>2. job[j].stage \in Stages
  BY <1>1 DEF IInv, TypeOK, Job
<1>3. job[j].stage \notin {"finished", "deleted"}
  BY <1>1 DEF IInv, Owners
<1>4. Under(j)
  BY <1>1, <1>2, <1>3 DEF Stages, Under
<1> QED BY <1>1, <1>4, Numbers DEF IInv, Owners

\* Nothing is owed when everything was executed and answered.
LEMMA NothingOwed ==
  ASSUME IInv, Base = issued, Pending = {}, at \notin {"setting", "polling"}
  PROVE  Owed = {}
<1>1. SUFFICES ASSUME NEW j \in Owed
               PROVE  FALSE
  OBVIOUS
<1>2. j \in Jobs /\ j \in Nat /\ Under(j) /\ job[j].op = "stats" /\ job[j].callback # "done"
  BY OwedUnder DEF Owed
<1>3. job[j].callback = "set"
  BY <1>2 DEF IInv, TypeOK, Job, Owners
<1>4. job[j].stage \notin {"queued", "running"}
  <2>1. Base \in Nat /\ issued \in Nat
    BY Numbers
  <2> QED BY <1>2, <2>1 DEF IInv, Places
<1>5. j \in results
  BY <1>2, <1>4 DEF Under, IInv, Places
<1> QED BY <1>3, <1>5 DEF Pending, HasCallback

\* A step of the net thread is the execution of a call, or is not seen.
LEMMA NetKeepsPromise ==
  ASSUME IInv, NetThread
  PROVE  Service!Next \/ UNCHANGED Service!serviceVars
<1>1. /\ UNCHANGED <<at, caller, mine, issued, incoming, batch, buffer, toGame>>
      /\ \A k \in Jobs : /\ job'[k].op = job[k].op /\ job'[k].callback = job[k].callback
                         /\ job'[k].stage = "none" <=> job[k].stage = "none"
  BY HowNetWorks
<1>2. UNCHANGED <<Mode, Owed, WaitsFor, Unhandled>>
  BY <1>1 DEF Mode, Owed, WaitsFor, Unhandled
<1>3. UNCHANGED <<received, handled>>
  BY DEF NetThread, NetWakes, NetPulsed, NetExecutes, NetStores, packetVars
<1>4. CASE NetExecutes
  <2>1. Head(commands) = Len(log) + 1 /\ Len(log) < issued
    <3>1. net = "running"
      BY <1>4 DEF NetExecutes
    <3>2. Base = Len(log) /\ Base \in Nat /\ issued \in Nat /\ Base + 1 <= issued
      BY <3>1, Executed
    <3>3. Head(commands) = Base + 1
      BY <3>1, Numbers
    <3> QED BY <3>2, <3>3
  <2>2. log' = Append(log, Len(log) + 1)
    BY <1>4, <2>1 DEF NetExecutes
  <2> QED BY <1>1, <1>2, <1>3, <2>1, <2>2 DEF Service!Next, Service!Execute
<1>5. CASE ~NetExecutes
  <2>1. log' = log
    BY <1>5 DEF NetThread, NetWakes, NetPulsed, NetStores
  <2> QED BY <1>1, <1>2, <1>3, <2>1 DEF Service!serviceVars
<1> QED BY <1>4, <1>5

\* Nothing is outstanding without the buffer.
LEMMA WhenOff ==
  ASSUME IInv, ~buffer
  PROVE  /\ Mode = "off" /\ Owed = {} /\ WaitsFor = 0 /\ Unhandled = <<>>
         /\ Len(log) = issued
<1>1. at \in {"game", "handling"} /\ results = {} /\ Base = issued /\ net = "ended"
      /\ batch = <<>> /\ incoming = <<>>
  BY DEF IInv, Control, Library, Leftovers
<1>2. Pending = {}
  BY <1>1 DEF Pending
<1>3. Owed = {}
  BY <1>1, <1>2, NothingOwed
<1>4. <<>> \o <<>> = <<>>
  OBVIOUS
<1>5. Len(log) = issued
  BY <1>1, Executed
<1> QED BY <1>1, <1>3, <1>4, <1>5 DEF Mode, WaitsFor, Unhandled

\* Calls of the library, with and without the buffer.
LEMMA CallsKeepPromise ==
  ASSUME IInv, Adds \/ Direct
  PROVE  Service!Next
<1>1. UNCHANGED <<received, handled, incoming, batch>>
  BY DEF Adds, Send, Query, GetNetworkStatistics, DoPulse, SwitchOn, Restore, Unhook,
         AddCommandAndWait, Direct, packetVars
<1>2. Unhandled' = Unhandled
  BY <1>1 DEF Unhandled
<1>3. CASE Direct
  <2>1. ~buffer /\ issued' = issued + 1
    BY <1>3, HowDirect
  <2>2. log' = Append(log, issued + 1) /\ UNCHANGED <<job, buffer, toGame, at, caller, mine>>
    BY <1>3 DEF Direct, controlVars, mainVars
  <2>3. UNCHANGED <<Mode, Owed, WaitsFor>>
    BY <2>2 DEF Mode, Owed, WaitsFor
  <2> QED BY <1>1, <1>2, <2>1, <2>2, <2>3, WhenOff DEF Service!Next, Service!Call
<1>4. CASE Adds
  <2>1. PICK op \in Ops, who \in Players \cup {Nobody} : Called(op, who)
    BY <1>4, HowCalls
  <2>2. /\ issued' = issued + 1 /\ issued + 1 \in Jobs
        /\ job'[issued + 1].op = op /\ job'[issued + 1].stage = "queued"
        /\ job'[issued + 1].callback = "none"
        /\ \A k \in Jobs \ {issued + 1} : job'[k] = job[k]
    BY <2>1, HowAdds DEF Called
  <2>3. log' = log
    BY <1>4, WhatCallsKeep
  <2>4. at \in {"game", "handling", "restoring"}
    BY <1>4 DEF Adds, Send, Query, GetNetworkStatistics, DoPulse, SwitchOn, Restore, Game
  <2>5. WaitsFor = 0
    BY <2>4 DEF WaitsFor
  <2>6. job[issued + 1].stage = "none"
    <3>1. issued \in Nat
      BY Numbers
    <3>2. ~(issued + 1 <= issued)
      BY <3>1
    <3> QED BY <2>2, <3>2 DEF IInv, Places
  <2>7. Owed' = IF op = "stats" THEN Owed \cup {issued + 1} ELSE Owed
    BY <2>2, <2>6 DEF Owed
  <2>8. op \in Awaited => op # "stats" /\ WaitsFor' = issued + 1
    BY <2>1, <2>4 DEF Called, WaitsFor, Awaited, Game
  <2>9. op \notin Awaited => WaitsFor' = 0
    BY <2>1 DEF Called, WaitsFor, Ops
  <2>10. CASE SwitchOn
    <3>1. op \in Awaited
      <4>1. at' = "polling"
        BY <2>10 DEF SwitchOn, AddCommandAndWait
      <4> QED BY <2>1, <4>1 DEF Called, Ops
    <3>2. ~buffer
      BY <2>10 DEF IInv, Control, SwitchOn, Unhooking, Answers
    <3>3. Mode' = "on"
      BY <2>10 DEF SwitchOn, Mode
    <3> QED BY <1>1, <1>2, <2>2, <2>3, <2>5, <2>7, <2>8, <3>1, <3>2, <3>3, WhenOff
            DEF Service!Next, Service!TurnOn, Service!Ask
  <2>11. CASE Restore
    <3>1. op \in Awaited
      <4>1. at' = "polling"
        BY <2>11 DEF Restore, Unhook, AddCommandAndWait
      <4> QED BY <2>1, <4>1 DEF Called, Ops
    <3>2. Mode = "on"
      BY <2>11, WhenClosing DEF Restore, Mode
    <3>3. Mode' = "closing"
      BY <2>11, WhenClosing DEF Restore, Mode
    <3> QED BY <1>1, <1>2, <2>2, <2>3, <2>5, <2>7, <2>8, <3>1, <3>2, <3>3
            DEF Service!Next, Service!Close, Service!Ask
  <2>12. CASE ~SwitchOn /\ ~Restore
    <3>1. UNCHANGED <<buffer, toGame>> /\ server = "buffer"
      BY <1>4, <2>12 DEF Adds, Send, Query, GetNetworkStatistics, DoPulse, controlVars
    <3>2. Mode = "on" /\ Mode' = Mode
      <4>1. toGame /\ (toGame => buffer)
        BY <3>1, WhenClosing DEF IInv, Control
      <4> QED BY <3>1, <4>1 DEF Mode
    <3>3. CASE op \in Awaited
      BY <1>1, <1>2, <2>2, <2>3, <2>5, <2>7, <2>8, <3>2, <3>3
         DEF Service!Next, Service!AskOn, Service!Ask
    <3>4. CASE op \notin Awaited
      BY <1>1, <1>2, <2>2, <2>3, <2>5, <2>7, <2>9, <3>2, <3>4
         DEF Service!Next, Service!Post
    <3> QED BY <3>3, <3>4
  <2> QED BY <2>10, <2>11, <2>12
<1> QED BY <1>3, <1>4

\* A result is taken: the end of a blocking call, or after the callback.
LEMMA PollKeepsPromise ==
  ASSUME IInv, Poll
  PROVE  Service!Next \/ UNCHANGED Service!serviceVars
<1>1. /\ at = "polling" /\ caller' = caller /\ mine' = mine
      /\ UNCHANGED <<buffer, toGame, incoming, batch, received, handled, issued, log>>
  BY DEF Poll, controlVars, packetVars, netVars
<1>2. Mode' = Mode /\ Unhandled' = Unhandled
  BY <1>1 DEF Mode, Unhandled
<1>3. CASE mine \in results
  <2>1. /\ mine \in Jobs
        /\ \A k \in Jobs : /\ job'[k].op = job[k].op
                           /\ job'[k].callback = job[k].callback
                           /\ job'[k].stage = IF k = mine THEN "finished" ELSE job[k].stage
    BY <1>3, HowPolls
  <2>2. job[mine].stage = "result"
    BY <1>3, <2>1 DEF IInv, Places
  <2>3. Owed' = Owed
    BY <2>1, <2>2 DEF Owed
  <2>4. at' = caller /\ caller \in {"game", "handling", "again", "hooked", "unhooked"}
    BY <1>3 DEF Poll, IInv, TypeOK
  <2>5. WaitsFor' = 0
    BY <1>1, <2>4 DEF WaitsFor
  <2>6. CASE caller = "again"
    <3>1. WaitsFor = 0
      BY <1>1, <2>6 DEF WaitsFor
    <3> QED BY <1>1, <1>2, <2>3, <2>5, <3>1 DEF Service!serviceVars
  <2>7. CASE caller # "again"
    <3>1. WaitsFor = mine
      BY <1>1, <2>7 DEF WaitsFor
    <3>2. mine \in Nat /\ mine >= 1 /\ mine <= Base
      BY <1>3, <2>1, ResultsExecuted DEF Jobs
    <3>3. mine \in 1..Len(log)
      BY <3>2, Executed
    <3> QED BY <1>1, <1>2, <2>3, <2>5, <3>1, <3>3 DEF Service!Next, Service!Return
  <2> QED BY <2>6, <2>7
<1>4. CASE mine \notin results
  <2>1. job' = job /\ at' = at
    BY <1>4 DEF Poll
  <2>2. Owed' = Owed /\ WaitsFor' = WaitsFor
    BY <1>1, <2>1 DEF Owed, WaitsFor
  <2> QED BY <1>1, <1>2, <2>2 DEF Service!serviceVars
<1> QED BY <1>3, <1>4

\* ProcessIncoming answers the first call that is owed one.
LEMMA CallbacksKeepPromise ==
  ASSUME IInv, Sweep \/ CallbackReturns
  PROVE  Service!Next \/ UNCHANGED Service!serviceVars
<1>1. job \in [Jobs -> Job]
  BY DEF IInv, TypeOK
<1>2. /\ at' \in {"polling", "game", "drained"}
      /\ at' = "polling" => /\ mine' \in Pending /\ \A k \in Pending : mine' <= k
                            /\ caller' = "again" /\ mine' \in Jobs
      /\ \A k \in Jobs : /\ job'[k].op = job[k].op
                         /\ \/ job'[k].stage = job[k].stage
                            \/ k \in finished /\ job'[k].stage = "deleted"
                         /\ job'[k].callback = IF at' = "polling" /\ k = mine'
                                               THEN "done" ELSE job[k].callback
  <2>1. CASE Sweep
    BY <2>1, HowSweeps
  <2>2. CASE CallbackReturns
    BY <1>1, <2>2, HowCallsBack DEF CallbackReturns
  <2> QED BY <2>1, <2>2
<1>3. /\ at \in {"batch", "again"}
      /\ UNCHANGED <<buffer, toGame, incoming, batch, received, handled, issued, log>>
  BY DEF Sweep, CallbackReturns, controlVars, packetVars, netVars
<1>4. Mode' = Mode /\ Unhandled' = Unhandled /\ WaitsFor = 0 /\ WaitsFor' = 0
  BY <1>2, <1>3 DEF Mode, Unhandled, WaitsFor
<1>5. \A k \in finished : k \in Jobs /\ job[k].stage = "finished"
  BY DEF IInv, TypeOK, Places
<1>6. \A k \in Jobs : job'[k].stage = "none" <=> job[k].stage = "none"
  BY <1>2, <1>5
<1>7. Owed' = IF at' = "polling" THEN Owed \ {mine'} ELSE Owed
  BY <1>2, <1>6 DEF Owed
<1>8. CASE at' # "polling"
  BY <1>3, <1>4, <1>7, <1>8 DEF Service!serviceVars
<1>9. CASE at' = "polling"
  <2>1. /\ mine' \in results /\ job[mine'].callback = "set" /\ mine' \in Jobs
    BY <1>2, <1>9 DEF Pending, HasCallback
  <2>2. job[mine'].stage = "result"
    BY <2>1 DEF IInv, Places
  <2>3. mine' \in Owed
    <3>1. job[mine'].op = "stats"
      BY <2>1, <2>2 DEF IInv, Owners, Under
    <3> QED BY <2>1, <2>2, <3>1 DEF Owed
  <2>4. mine' <= Len(log) /\ mine' <= Base /\ mine' \in Nat /\ Base \in Nat
    BY <2>1, ResultsExecuted, Executed
  <2>5. ASSUME NEW k \in Owed
        PROVE  mine' <= k
    <3>1. k \in Jobs /\ k \in Nat /\ Under(k) /\ job[k].op = "stats" /\ job[k].callback # "done"
      BY OwedUnder DEF Owed
    <3>2. CASE k \in results
      <4>1. job[k].callback = "set"
        BY <1>1, <1>3, <3>1 DEF IInv, Owners, Job
      <4>2. k \in Pending
        BY <3>2, <4>1 DEF Pending, HasCallback
      <4> QED BY <1>2, <1>9, <4>2
    <3>3. CASE k \notin results
      <4>1. job[k].stage \in {"queued", "running"}
        BY <3>1, <3>3 DEF IInv, Places, Under
      <4>2. Base < k
        BY <3>1, <4>1 DEF IInv, Places
      <4> QED BY <2>4, <3>1, <4>2
    <3> QED BY <3>2, <3>3
  <2>6. Service!Answer(mine')
    BY <1>3, <1>4, <1>7, <1>9, <2>3, <2>4, <2>5 DEF Service!Answer
  <2> QED BY <2>3, <2>6 DEF Service!Next
<1> QED BY <1>8, <1>9

\* Packets.
LEMMA PacketsKeepPromise ==
  ASSUME IInv, NetReceives \/ DirectPacket \/ TakeIncoming \/ HandlePacket
  PROVE  Service!Next \/ UNCHANGED Service!serviceVars
<1>1. batch \in Seq(Nat) /\ incoming \in Seq(Nat) /\ received + 1 \in Nat
  BY DEF IInv, TypeOK
<1>2. UNCHANGED <<buffer, toGame, job, issued, log, caller, mine>>
  BY DEF NetReceives, DirectPacket, TakeIncoming, HandlePacket, controlVars, netVars, mainVars
<1>3. Mode' = Mode /\ Owed' = Owed
  BY <1>2 DEF Mode, Owed
<1>4. at' = at \/ (at # "polling" /\ at' # "polling")
  BY DEF NetReceives, DirectPacket, TakeIncoming, HandlePacket, mainVars
<1>5. WaitsFor' = WaitsFor
  BY <1>2, <1>4 DEF WaitsFor
<1>6. CASE NetReceives
  <2>1. /\ received' = received + 1 /\ incoming' = Append(incoming, received + 1)
        /\ batch' = batch /\ handled' = handled /\ handler = "buffer"
    BY <1>6 DEF NetReceives
  <2>2. Unhandled' = Append(Unhandled, received + 1)
    BY <1>1, <2>1, Joined DEF Unhandled
  <2>3. Mode # "off"
    BY <2>1 DEF IInv, Library, Mode
  <2> QED BY <1>2, <1>3, <1>5, <2>1, <2>2, <2>3 DEF Service!Next, Service!Come
<1>7. CASE DirectPacket
  <2>1. /\ received' = received + 1 /\ handled' = Append(handled, received + 1)
        /\ UNCHANGED <<batch, incoming>> /\ at = "game" /\ server = "real"
    BY <1>7 DEF DirectPacket
  <2>2. ~buffer
    BY <2>1, WhenClosing
  <2>3. Unhandled' = Unhandled
    BY <2>1 DEF Unhandled
  <2> QED BY <1>2, <1>3, <1>5, <2>1, <2>2, <2>3, WhenOff DEF Service!Next, Service!ComeDirectly
<1>8. CASE TakeIncoming
  <2>1. /\ at = "incoming" /\ batch' = incoming /\ incoming' = <<>>
        /\ received' = received /\ handled' = handled
    BY <1>8 DEF TakeIncoming
  <2>2. batch = <<>>
    BY <2>1 DEF IInv, Leftovers, InHandler
  <2>3. Unhandled' = Unhandled
    BY <1>1, <2>1, <2>2, Joined DEF Unhandled
  <2> QED BY <1>2, <1>3, <1>5, <2>1, <2>3 DEF Service!serviceVars
<1>9. CASE HandlePacket
  <2>1. /\ at = "batch" /\ batch # <<>> /\ batch' = Tail(batch)
        /\ incoming' = incoming /\ received' = received
    BY <1>9 DEF HandlePacket
  <2>2. /\ Unhandled # <<>> /\ Head(Unhandled) = Head(batch)
        /\ Unhandled' = Tail(Unhandled)
    BY <1>1, <2>1, Joined DEF Unhandled
  <2>3. buffer
    BY <2>1, WhenClosing
  <2>4. CASE toGame
    <3>1. handled' = Append(handled, Head(batch)) /\ Mode = "on"
      BY <1>9, <2>3, <2>4 DEF HandlePacket, Mode
    <3> QED BY <1>2, <1>3, <1>5, <2>1, <2>2, <3>1 DEF Service!Next, Service!Handle
  <2>5. CASE ~toGame
    <3>1. handled' = handled /\ Mode = "closing"
      BY <1>9, <2>3, <2>5 DEF HandlePacket, Mode
    <3> QED BY <1>2, <1>3, <1>5, <2>1, <2>2, <3>1 DEF Service!Next, Service!Discard
  <2> QED BY <2>4, <2>5
<1> QED BY <1>6, <1>7, <1>8, <1>9

\* The buffer is deleted: nothing is left.
LEMMA DeletedKeepsPromise ==
  ASSUME IInv, Deleted
  PROVE  Service!Next
<1>1. /\ at = "stopping" /\ buffer' = FALSE /\ incoming' = <<>> /\ at' = "game"
      /\ UNCHANGED <<batch, received, handled, log, issued>>
  BY DEF Deleted
<1>2. \A k \in Jobs : /\ job'[k].op = job[k].op /\ job'[k].callback = job[k].callback
                      /\ job'[k].stage = "none" <=> job[k].stage = "none"
  BY HowDeletes
<1>3. Base = issued /\ Len(log) = issued
  BY WhenDeleted
<1>4. Closing /\ Pending = {}
  BY <1>1, WhenClosing DEF IInv, Leftovers
<1>5. batch = <<>> /\ incoming = <<>>
  BY <1>1, <1>4 DEF IInv, Leftovers, InHandler
<1>6. Owed = {}
  BY <1>1, <1>3, <1>4, NothingOwed
<1>7. Owed' = Owed
  BY <1>2 DEF Owed
<1>8. <<>> \o <<>> = <<>>
  OBVIOUS
<1>9. Unhandled = <<>> /\ Unhandled' = Unhandled
  BY <1>1, <1>5, <1>8 DEF Unhandled
<1>10. WaitsFor = 0 /\ WaitsFor' = 0 /\ Mode = "closing" /\ Mode' = "off"
  BY <1>1, <1>4 DEF WaitsFor, Mode, Closing
<1> QED BY <1>1, <1>3, <1>6, <1>7, <1>9, <1>10 DEF Service!Next, Service!Closed

\* Every step is one of the service, or is not seen.
LEMMA StepKeepsPromise ==
  ASSUME IInv, [Next]_vars
  PROVE  Service!Next \/ UNCHANGED Service!serviceVars
<1>1. CASE SetCallback
  <2>1. /\ mine \in Jobs
        /\ \A k \in Jobs : /\ job'[k].op = job[k].op
                           /\ job'[k].stage = job[k].stage
                           /\ job'[k].callback = IF k = mine THEN "set"
                                                 ELSE job[k].callback
    BY <1>1, HowSets
  <2>2. /\ at = "setting" /\ at' = caller
        /\ UNCHANGED <<buffer, toGame, incoming, batch, received, handled, issued, log,
                       caller, mine>>
    BY <1>1 DEF SetCallback, controlVars, packetVars, netVars
  <2>3. caller \in {"game", "handling"} /\ job[mine].callback # "done"
    BY <2>1, <2>2 DEF IInv, Owners, Answers
  <2>4. Owed' = Owed
    BY <2>1, <2>3 DEF Owed
  <2>5. UNCHANGED <<Mode, WaitsFor, Unhandled>>
    BY <2>2, <2>3 DEF Mode, WaitsFor, Unhandled
  <2> QED BY <2>2, <2>4, <2>5 DEF Service!serviceVars
<1>2. CASE \/ HandlerReturns \/ Hooked \/ Unhooked \/ Drained \/ EnableSimSystem \/ SwitchOff
           \/ SpuriousWakeup \/ UNCHANGED vars
  <2>1. /\ UNCHANGED <<buffer, toGame, job, incoming, batch, received, handled, issued, log,
                       caller, mine>>
        /\ at' = at \/ (at # "polling" /\ at' # "polling")
    BY <1>2 DEF HandlerReturns, Hooked, Unhooked, Drained, EnableSimSystem, SwitchOff,
                SpuriousWakeup, vars, controlVars, statsVars, packetVars, netVars, mainVars
  <2>2. UNCHANGED <<Mode, Owed, WaitsFor, Unhandled>>
    BY <2>1 DEF Mode, Owed, WaitsFor, Unhandled
  <2> QED BY <2>1, <2>2 DEF Service!serviceVars
<1> QED BY <1>1, <1>2, NetKeepsPromise, CallsKeepPromise, PollKeepsPromise,
           CallbacksKeepPromise, PacketsKeepPromise, DeletedKeepsPromise
        DEF Next, MainSteps, GameCalls, Adds

\* Its start is the start of the service.
LEMMA InitKeepsPromise == ASSUME Init
                          PROVE  Service!Init
<1>1. ~buffer /\ issued = 0 /\ log = <<>> /\ received = 0 /\ handled = <<>>
  BY DEF Init
<1>2. IInv
  BY InitInv
<1> QED BY <1>1, <1>2, WhenOff DEF Service!Init

\* With the buffer in between, put in and taken out at any time, every call is
\* executed once and in order, and every packet is handled once and in order.
THEOREM KeepsPromise == Spec => ImplementsService
<1>1. IInv /\ [Next]_vars => [Service!Next]_Service!serviceVars
  BY StepKeepsPromise
<1>2. Spec => Service!Init /\ [][Service!Next]_Service!serviceVars
  BY <1>1, InitKeepsPromise, Invariance, PTL DEF Spec
<1> QED BY <1>2 DEF ImplementsService, Service!Spec
=============================================================================
