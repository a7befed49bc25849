--------------------------- MODULE HandlerService ---------------------------
(***************************************************************************)
(* What scripts may rely on when they bind event handlers.  A handler is   *)
(* called only while it is bound and its VM exists.  It is bound until it  *)
(* is removed or its element or its VM goes.  Handlers nest: the last one  *)
(* called returns first.  While a handler runs, its VM is not closed and   *)
(* nothing else takes its place.                                           *)
(***************************************************************************)
EXTENDS Naturals

CONSTANTS Handlers, VMs

VARIABLES
    bound,    \* pairs of a handler and its VM
    running,  \* those that were called and have not returned, each with its depth
    open      \* VMs that exist

serviceVars == <<bound, running, open>>

Init == bound = {} /\ running = {} /\ open = {}

InUse == bound \cup {r[2] : r \in running}

Open(v) == /\ v \notin open
           /\ open' = open \cup {v}
           /\ UNCHANGED <<bound, running>>

Bind(h, v) == /\ v \in open
              /\ \A b \in InUse : b[1] # h
              /\ bound' = bound \cup {<<h, v>>}
              /\ UNCHANGED <<running, open>>

Unbind == /\ bound' \subseteq bound
          /\ UNCHANGED <<running, open>>

\* Deeper than all that run.
Call(b) == /\ b[2] \in open
           /\ \E r \in running' \ running :
                 /\ r[2] = b
                 /\ \A q \in running : q[1] < r[1]
                 /\ running' = running \cup {r}
           /\ UNCHANGED <<bound, open>>

\* The deepest.
Return == /\ \E r \in running :
                /\ \A q \in running : q[1] <= r[1]
                /\ running' = running \ {r}
          /\ UNCHANGED <<bound, open>>

Close(v) == /\ v \in open
            /\ \A r \in running : r[2][2] # v
            /\ bound' = {b \in bound : b[2] # v}
            /\ open' = open \ {v}
            /\ UNCHANGED running

Next == \/ \E v \in VMs : Open(v) \/ Close(v)
        \/ \E h \in Handlers, v \in VMs : Bind(h, v)
        \/ Unbind
        \/ \E b \in bound : Call(b)
        \/ Return

Spec == Init /\ [][Next]_serviceVars
=============================================================================
