---------------------------- MODULE LatentService ----------------------------
(***************************************************************************)
(* What the latent transfer of one direction of one connection promises,   *)
(* without parts, rates, queues or receivers.  While the connection is     *)
(* open, a transfer that was sent stays pending until it is delivered or   *)
(* cancelled: none is lost.  Transfers are delivered in the order in which *)
(* they were sent, each at most once, and never after they were cancelled. *)
(* When the connection closes, what is pending may be lost; a new          *)
(* connection starts afresh.                                               *)
(***************************************************************************)
EXTENDS Naturals

CONSTANT Ids   \* the transfers of a connection, in the order of sending

VARIABLES
    open,       \* both ends are there and neither has given up on the other
    pending,    \* transfers sent, not yet delivered or cancelled
    delivered,  \* transfers handed to the receiver's packet handlers
    cancelled   \* transfers the sender took back

serviceVars == <<open, pending, delivered, cancelled>>

Used == pending \cup delivered \cup cancelled

Init == open = TRUE /\ pending = {} /\ delivered = {} /\ cancelled = {}

Send(x) == /\ \A y \in Used : y < x
           /\ pending' = pending \cup {x}
           /\ UNCHANGED <<open, delivered, cancelled>>

Deliver(x) == /\ x \in pending
              /\ \A y \in pending : x <= y
              /\ pending' = pending \ {x}
              /\ delivered' = delivered \cup {x}
              /\ UNCHANGED <<open, cancelled>>

Cancel(xs) == /\ xs \subseteq pending
              /\ pending' = pending \ xs
              /\ cancelled' = cancelled \cup xs
              /\ UNCHANGED <<open, delivered>>

\* The connection closes, now or earlier; what is pending may go with it.
Lose == /\ open' = FALSE
        /\ pending' \in SUBSET pending
        /\ UNCHANGED <<delivered, cancelled>>

Reopen == /\ ~open
          /\ open' = TRUE
          /\ pending' = {} /\ delivered' = {} /\ cancelled' = {}

Next == \/ \E x \in Ids : Send(x) \/ Deliver(x)
        \/ \E xs \in SUBSET pending : Cancel(xs)
        \/ Lose
        \/ Reopen

Spec == Init /\ [][Next]_serviceVars
=============================================================================
