----------------------------- MODULE NetService -----------------------------
(***************************************************************************)
(* What the game may rely on when it talks to the network library, with or *)
(* without a thread in between.  Calls reach the library once each, in the *)
(* order in which they were made, also across a switch of the mode.  A     *)
(* blocking call returns after it was executed.  A call with a callback is *)
(* answered once, after it was executed, and the answers keep the order of *)
(* the calls.  Packets are handled once each, in the order in which they   *)
(* came; only closing the thread may discard some.  Nothing is left behind *)
(* when it has closed.                                                     *)
(***************************************************************************)
EXTENDS Naturals, Sequences

VARIABLES
    mode,     \* "off": direct calls, "on": through the thread, "closing"
    issued,   \* number of calls made
    log,      \* calls executed by the library, in order
    owed,     \* calls whose callback is still to come
    waiting,  \* the blocking call the game waits for, or 0
    received, \* number of packets that have come
    pending,  \* packets that have come and have not been handled
    handled   \* packets handed to the game, in order

serviceVars == <<mode, issued, log, owed, waiting, received, pending, handled>>

Init == /\ mode = "off"
        /\ issued = 0 /\ log = <<>> /\ owed = {} /\ waiting = 0
        /\ received = 0 /\ pending = <<>> /\ handled = <<>>

\* A call that is executed at once: only while nothing is outstanding.
Call == /\ mode = "off"
        /\ Len(log) = issued /\ owed = {} /\ waiting = 0
        /\ issued' = issued + 1
        /\ log' = Append(log, issued + 1)
        /\ UNCHANGED <<mode, owed, waiting, received, pending, handled>>

\* A call that is queued: nobody waits, the caller waits, or a callback will come.
Post == /\ mode = "on" /\ waiting = 0
        /\ issued' = issued + 1
        /\ owed' = owed \/ owed' = owed \cup {issued + 1}
        /\ UNCHANGED <<mode, log, waiting, received, pending, handled>>
Ask == /\ waiting = 0
       /\ issued' = issued + 1
       /\ waiting' = issued + 1
       /\ UNCHANGED <<log, owed, received, pending, handled>>
AskOn == mode = "on" /\ Ask /\ UNCHANGED mode
TurnOn == mode = "off" /\ mode' = "on" /\ Ask
Close == mode = "on" /\ mode' = "closing" /\ Ask

Execute == /\ Len(log) < issued
           /\ log' = Append(log, Len(log) + 1)
           /\ UNCHANGED <<mode, issued, owed, waiting, received, pending, handled>>
Return == /\ waiting \in 1..Len(log)
          /\ waiting' = 0
          /\ UNCHANGED <<mode, issued, log, owed, received, pending, handled>>
Answer(j) == /\ j \in owed /\ j <= Len(log)
             /\ \A k \in owed : j <= k
             /\ owed' = owed \ {j}
             /\ UNCHANGED <<mode, issued, log, waiting, received, pending, handled>>

Come == /\ mode # "off"
        /\ received' = received + 1
        /\ pending' = Append(pending, received + 1)
        /\ UNCHANGED <<mode, issued, log, owed, waiting, handled>>
Handle == /\ mode = "on" /\ pending # <<>>
          /\ handled' = Append(handled, Head(pending))
          /\ pending' = Tail(pending)
          /\ UNCHANGED <<mode, issued, log, owed, waiting, received>>
Discard == /\ mode = "closing" /\ pending # <<>>
           /\ pending' = Tail(pending)
           /\ UNCHANGED <<mode, issued, log, owed, waiting, received, handled>>
ComeDirectly == /\ mode = "off" /\ pending = <<>>
                /\ received' = received + 1
                /\ handled' = Append(handled, received + 1)
                /\ UNCHANGED <<mode, issued, log, owed, waiting, pending>>

Closed == /\ mode = "closing"
          /\ Len(log) = issued /\ owed = {} /\ waiting = 0 /\ pending = <<>>
          /\ mode' = "off"
          /\ UNCHANGED <<issued, log, owed, waiting, received, pending, handled>>

Next == \/ Call \/ Post \/ AskOn \/ TurnOn \/ Close
        \/ Execute \/ Return \/ \E j \in owed : Answer(j)
        \/ Come \/ Handle \/ Discard \/ ComeDirectly \/ Closed

Spec == Init /\ [][Next]_serviceVars
=============================================================================
