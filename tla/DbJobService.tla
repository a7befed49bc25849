---------------------------- MODULE DbJobService ----------------------------
(***************************************************************************)
(* What a database job queue promises its users, without threads, stacks   *)
(* of calls, callbacks or connections.  Jobs are executed one at a time in *)
(* the order in which they were submitted.  The result of a job is either  *)
(* collected, once, by somebody who still wants it, or discarded after it  *)
(* was released; only then may its id name another job.                    *)
(***************************************************************************)
EXTENDS Sequences, Naturals

CONSTANT Jobs

VARIABLES
    pending,   \* submitted jobs that have not been executed, oldest first
    results,   \* executed jobs whose result is still there
    released,  \* jobs whose result nobody will ask for
    spent      \* jobs whose result has been collected or discarded

serviceVars == <<pending, results, released, spent>>

Waiting == {pending[i] : i \in 1..Len(pending)}
Live == Waiting \cup results \cup spent

Init == pending = <<>> /\ results = {} /\ released = {} /\ spent = {}

Submit(j) == /\ j \notin Live
             /\ pending' = Append(pending, j)
             /\ UNCHANGED <<results, released, spent>>

Execute == /\ pending # <<>>
           /\ pending' = Tail(pending)
           /\ results' = results \cup {Head(pending)}
           /\ UNCHANGED <<released, spent>>

Release(j) == /\ j \in Waiting \cup results
              /\ released' = released \cup {j}
              /\ UNCHANGED <<pending, results, spent>>

Collect(j) == /\ j \in results \ released
              /\ results' = results \ {j}
              /\ spent' = spent \cup {j}
              /\ UNCHANGED <<pending, released>>

Discard(j) == /\ j \in results \cap released
              /\ results' = results \ {j}
              /\ spent' = spent \cup {j}
              /\ UNCHANGED <<pending, released>>

Forget == /\ spent' = {}
          /\ released' = released \ spent
          /\ UNCHANGED <<pending, results>>

Next == \/ \E j \in Jobs : Submit(j) \/ Release(j) \/ Collect(j) \/ Discard(j)
        \/ Execute \/ Forget

Spec == Init /\ [][Next]_serviceVars
=============================================================================
