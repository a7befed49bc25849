--------------------------- MODULE LatentTransfer ---------------------------
(***************************************************************************)
(* Latent transfers: triggerLatentClientEvent and triggerLatentServerEvent *)
(* send large events in parts, at a limited rate, over the connection of   *)
(* one player.  The module has one sender (a CLatentSendQueue), one        *)
(* receiver (a CLatentReceiver) and the reliable ordered channel between   *)
(* them; both ends keep a queue and a receiver per remote, which share     *)
(* nothing, so one remote stands for all.  `down` says which end is the    *)
(* server: it sends (triggerLatentClientEvent) or it receives.             *)
(*                                                                         *)
(* The player may leave on either side at any time (kicked from inside the *)
(* event a transfer delivers, timed out, disconnected), and a later player *)
(* may have the same address, thus the same NetPlayerID.                   *)
(*                                                                         *)
(* A queue is the set of its items: AddSend appends with increasing ids    *)
(* and nothing reorders the list, so its front is the item of least id.    *)
(* Parts carry between one byte and all that remains: what the packet size *)
(* and the bytes owed from earlier pulses make of it.  A pulse that sends  *)
(* several parts is several pulses of one part.                            *)
(***************************************************************************)
EXTENDS Naturals, Sequences

CONSTANTS
    VMs,          \* Lua VMs that send
    Rates,        \* bandwidths a script asks for, bytes per second
    Times,        \* possible m_iTimeMsBetweenCalls, smoothed and clamped to 1..100
    Sizes,        \* sizes of the events, in parts of least size
    PacketLimit,  \* LATENT_PACKET_MAX_SIZE, in the same unit
    MinRate,      \* MIN_SEND_RATE, 500
    IdSpace,      \* 2^15: the ids on the wire have 15 bits
    MaxSends,     \* bound: transfers of one connection
    MaxSessions,  \* bound: players that have this address, one after the other
    NoRx          \* no receiver for this remote

ASSUME SizesAssumption == Sizes \subseteq Nat \ {0} /\ PacketLimit \in Nat
ASSUME RatesAssumption == Rates \subseteq Nat /\ MinRate \in Nat /\ Times \subseteq Nat
ASSUME BoundsAssumption == /\ IdSpace \in Nat \ {0}
                           /\ MaxSends \in Nat /\ MaxSessions \in Nat
VARIABLES
    down,       \* the server sends (TRUE) or the client does; fixed
    time,       \* m_iTimeMsBetweenCalls of the sender's manager; fixed
    session,    \* how many players have had this address
    present,    \* the server knows the player and he is not leaving
    connected,  \* the client is connected
    txq,        \* m_TxQueue, set of items
    nextId,     \* m_uiNextSendId
    rate,       \* m_uiCurrentRate
    wire,       \* LATENT_TRANSFER packets on their way, in order
    rx,         \* the receiver: its activeRx and m_bDeferredDelete, or NoRx
    inside,     \* the receiver is running the packet handler of a transfer
    delivered,  \* history: transfers of this session handed to the handlers
    cancelled,  \* history: transfers of this session taken back
    dropped     \* history: this session was ended by OnReceiveError

vars == <<down, time, session, present, connected, txq, nextId, rate, wire,
          rx, inside, delivered, cancelled, dropped>>
senderVars == <<txq, nextId, rate>>
receiverVars == <<rx, inside>>
historyVars == <<delivered, cancelled, dropped>>
fixedVars == <<down, time>>

Ids == 0..(MaxSends - 1)
Item == [id : Ids, vm : VMs, size : Sizes, rate : Rates, pos : Nat,
         started : BOOLEAN, finishing : BOOLEAN]

\* `size` travels in the head only; it and the offset `pos` are recorded in
\* every part so that the invariants can speak of them.
Packet == [kind : {"head", "body", "tail", "cancel"}, id : Ids, size : Sizes,
           pos : Nat, n : Nat]

\* `id` is the whole id of the sender; the code keeps and compares the low
\* 15 bits.  `sess` is history: the session the transfer began in.
RxItem == [started : BOOLEAN, id : Nat, size : 0..PacketLimit, pos : Nat,
           deferred : BOOLEAN, sess : Nat]
ASSUME NoRxAssumption == NoRx \notin RxItem

FreshRx == [started |-> FALSE, id |-> 0, size |-> 0, pos |-> 0,
            deferred |-> FALSE, sess |-> session]

SenderLives == IF down THEN present ELSE connected
ReceiverLives == IF down THEN connected ELSE present
\* Neither end has gone, or decided to go.
Open == present /\ connected /\ ~dropped

-----------------------------------------------------------------------------
(* The sender *)

\* PostQueueRemove: r is the rate that a queue q is left with.
IsRate(r, q) == /\ r = MinRate \/ \E t \in q : t.rate = r
                /\ MinRate <= r
                /\ \A t \in q : t.rate <= r

Larger(a, b) == IF a < b THEN b ELSE a

IsFront(t, q) == t \in q /\ \A u \in q : t.id <= u.id

\* Mutant: a transfer that has been sent whole is never removed.
MutSettled(q) == q

\* What DoPulse leaves of the queue before it sends: a finished front goes.
Settled(q) == {t \in q : ~(IsFront(t, q) /\ t.finishing /\ t.pos = t.size)}

CancelPacket(t) == [kind |-> "cancel", id |-> t.id, size |-> t.size,
                    pos |-> t.pos, n |-> 0]

\* DoSendPacket: what is sent to a client that has gone is lost.
Put(packets) == wire' = IF connected THEN wire \o packets ELSE wire

AddSend(vm, size, r) ==
    /\ SenderLives
    /\ nextId < MaxSends
    /\ txq' = txq \cup {[id |-> nextId, vm |-> vm, size |-> size, rate |-> r,
                         pos |-> 0, started |-> FALSE, finishing |-> FALSE]}
    /\ nextId' = nextId + 1
    /\ rate' = Larger(rate, r)
    /\ UNCHANGED <<fixedVars, session, present, connected, wire, receiverVars,
                   historyVars>>

\* The kind of the next part of t, and how many bytes it may carry.
PartKind(t) == IF t.pos = 0 THEN "head" ELSE IF t.pos = t.size THEN "tail" ELSE "body"
\* Mutant: the remaining size does not limit the last part.
MutPartSizes(t) == IF t.pos = t.size THEN {0} ELSE 1..t.size

PartSizes(t) == IF t.pos = t.size THEN {0} ELSE 1..(t.size - t.pos)

Part(t, n) == [kind |-> PartKind(t), id |-> t.id, size |-> t.size,
               pos |-> t.pos, n |-> n]
Sent(t, n) == [t EXCEPT !.pos = @ + n,
                        !.started = @ \/ PartKind(t) = "head",
                        !.finishing = PartKind(t) = "tail"]

\* The rate that DoPulse goes on with: recomputed when it removed an item.
PulseRate(r, q) == IF q = txq THEN r = Larger(MinRate, rate) ELSE IsRate(r, q)

\* DoPulse in which no packet is due.
PulseIdle ==
    /\ SenderLives
    /\ txq # {}
    /\ txq' = Settled(txq)
    /\ \E r \in {MinRate, rate} \cup Rates : PulseRate(r, txq') /\ rate' = r
    /\ UNCHANGED <<fixedVars, session, present, connected, nextId, wire,
                   receiverVars, historyVars>>

\* DoPulse in which a part of the front is due.
PulseSend ==
    /\ SenderLives
    /\ \E t \in Settled(txq) :
         /\ IsFront(t, Settled(txq))
         /\ ~t.finishing
         /\ \E n \in PartSizes(t) :
              /\ txq' = (Settled(txq) \ {t}) \cup {Sent(t, n)}
              /\ Put(<<Part(t, n)>>)
    /\ \E r \in {MinRate, rate} \cup Rates :
         PulseRate(r, Settled(txq)) /\ rate' = r
    /\ UNCHANGED <<fixedVars, session, present, connected, nextId,
                   receiverVars, historyVars>>

\* Whether time * rate / 1000 is a whole byte: below that every pulse drops what
\* is due and no part is ever sent.  The time of a pulse does not change here, and
\* the rates are below those at which the product leaves its 32 bits.
RateSuffices(r) == time * Larger(MinRate, r) >= 1000

\* Mutant: the rate stays that of a transfer that has been removed.
MutRemoveRate(gone) ==
    /\ txq' = txq \ gone
    /\ \/ \E t \in gone : t.started /\ Put(<<CancelPacket(t)>>)
       \/ (\A t \in gone : ~t.started) /\ UNCHANGED wire
    /\ cancelled' = cancelled \cup {t.id : t \in gone}
    /\ UNCHANGED <<fixedVars, session, present, connected, nextId, rate,
                   receiverVars, delivered, dropped>>

\* Mutant: the receiver is not told.
MutRemoveSilent(gone) ==
    /\ txq' = txq \ gone
    /\ \E r \in {MinRate, rate} \cup Rates : IsRate(r, txq') /\ rate' = r
    /\ cancelled' = cancelled \cup {t.id : t \in gone}
    /\ UNCHANGED <<fixedVars, session, present, connected, nextId, wire,
                   receiverVars, delivered, dropped>>

\* Removes gone from the queue, tells the receiver about the one it has begun
\* to receive, and recomputes the rate when something was removed.
Remove(gone) ==
    /\ txq' = txq \ gone
    /\ \/ \E t \in gone : t.started /\ Put(<<CancelPacket(t)>>)
       \/ (\A t \in gone : ~t.started) /\ UNCHANGED wire
    /\ \E r \in {MinRate, rate} \cup Rates : IsRate(r, txq') /\ rate' = r
    /\ cancelled' = cancelled \cup {t.id : t \in gone}
    /\ UNCHANGED <<fixedVars, session, present, connected, nextId,
                   receiverVars, delivered, dropped>>

\* Mutant: a transfer whose tail is out can still be cancelled.
MutCancelSend(t) == SenderLives /\ Remove({t})

CancelSend(t) == /\ SenderLives
                 /\ ~(t.started /\ t.finishing)
                 /\ Remove({t})

\* Mutant: the end of a VM cancels what has been sent whole.
MutVMDestroyed(vm) == LET gone == {t \in txq : t.vm = vm}
                      IN SenderLives /\ gone # {} /\ Remove(gone)

\* OnLuaMainDestroy, from ~CLuaMain: the sends of a VM end with it.
VMDestroyed(vm) == LET gone == {t \in txq : t.vm = vm /\ ~t.finishing}
                   IN SenderLives /\ gone # {} /\ Remove(gone)

-----------------------------------------------------------------------------
(* The receiver *)

\* Mutant: no limit for the payload.
MutHeadRefused(p, r) == p.kind = "head" /\ r.started

HeadRefused(p, r) == p.kind = "head" /\ (r.started \/ p.size > PacketLimit)

\* A head begins a new item; whatever else arrives belongs to the one there is.
Headed(p, r) == IF p.kind = "head"
                THEN [r EXCEPT !.started = TRUE, !.id = p.id, !.size = p.size,
                               !.pos = 0, !.sess = session]
                ELSE r

PartRefused(p, r) ==
    \/ r.id % IdSpace # p.id % IdSpace
    \/ /\ p.kind # "cancel"
       /\ \/ r.pos + p.n > r.size
          \/ p.kind = "tail" /\ r.pos + p.n # r.size

\* OnReceiveError, having come as far as r.  A server lets the player quit,
\* with RemoveRemote from inside the receiver; without a player nothing
\* happens.  A client asks to be unloaded, and goes on until it is.
Fail(r) ==
    /\ IF down THEN rx' = r /\ dropped' = TRUE /\ UNCHANGED present
       ELSE IF present THEN rx' = NoRx /\ dropped' = TRUE /\ present' = FALSE
       ELSE rx' = r /\ UNCHANGED <<dropped, present>>
    /\ UNCHANGED <<inside, delivered>>

\* The tail of a transfer: its packet goes to the packet handlers, which know
\* nobody to give it to when the player has quit.
Finish(r) ==
    /\ IF r.started /\ (down \/ present)
       THEN /\ inside' = TRUE
            /\ rx' = r
            /\ delivered' = delivered \cup {r.id}
       ELSE rx' = FreshRx /\ UNCHANGED <<inside, delivered>>
    /\ UNCHANGED <<present, dropped>>

\* OnReceive.  What arrived before the client went is still processed.
Receive ==
    /\ wire # <<>>
    /\ ~inside
    /\ down => connected
    /\ LET p == Head(wire)
           r == IF rx = NoRx THEN FreshRx ELSE rx
           item == Headed(p, r)
           read == [item EXCEPT !.pos = @ + p.n]
       IN  \/ HeadRefused(p, r) /\ Fail(r)
           \/ ~HeadRefused(p, r) /\ PartRefused(p, item) /\ Fail(item)
           \/ /\ ~HeadRefused(p, r) /\ ~PartRefused(p, item)
              /\ \/ p.kind \in {"head", "body"} /\ rx' = read
                    /\ UNCHANGED <<present, inside, delivered, dropped>>
                 \/ p.kind = "cancel" /\ rx' = FreshRx
                    /\ UNCHANGED <<present, inside, delivered, dropped>>
                 \/ p.kind = "tail" /\ Finish(read)
    /\ wire' = Tail(wire)
    /\ UNCHANGED <<fixedVars, session, connected, senderVars, cancelled>>

\* The packet handler returns: a receiver that lost its player goes now.
HandlerReturns ==
    /\ inside
    /\ inside' = FALSE
    /\ rx' = IF rx.deferred THEN NoRx ELSE FreshRx
    /\ UNCHANGED <<fixedVars, session, present, connected, senderVars, wire,
                   historyVars>>

-----------------------------------------------------------------------------
(* Players come and go *)

\* Mutant: the receiver is deleted although it is running.
MutQuit ==
    /\ present
    /\ present' = FALSE
    /\ IF down THEN txq' = {} /\ rate' = 0 /\ UNCHANGED rx
       ELSE rx' = NoRx /\ UNCHANGED <<txq, rate>>
    /\ UNCHANGED <<fixedVars, session, connected, nextId, wire, inside,
                   historyVars>>

\* QuitPlayer on the server: kicked by a script, perhaps from inside the event
\* that the transfer delivered, or found to have disconnected.
Quit ==
    /\ present
    /\ present' = FALSE
    /\ IF down THEN txq' = {} /\ rate' = 0 /\ UNCHANGED rx
       ELSE /\ rx' = IF inside THEN [rx EXCEPT !.deferred = TRUE] ELSE NoRx
            /\ UNCHANGED <<txq, rate>>
    /\ UNCHANGED <<fixedVars, session, connected, nextId, wire, inside,
                   historyVars>>

\* The client disconnects or unloads: its queue and its receiver go with its
\* manager, whatever they hold.  A prefix of what it sent has arrived.
Drop ==
    /\ connected
    /\ down => ~inside
    /\ connected' = FALSE
    /\ IF down THEN rx' = NoRx /\ wire' = <<>> /\ UNCHANGED <<txq, rate>>
       ELSE /\ txq' = {} /\ rate' = 0 /\ UNCHANGED rx
            /\ \E k \in 0..Len(wire) : wire' = SubSeq(wire, 1, k)
    /\ UNCHANGED <<fixedVars, session, present, nextId, inside, historyVars>>

\* A player with the same address joins, once the server has no player and the
\* network nothing to deliver from the one before.
Join ==
    /\ ~present /\ ~connected
    /\ wire = <<>> /\ ~inside
    /\ session < MaxSessions
    /\ session' = session + 1
    /\ present' = TRUE /\ connected' = TRUE
    /\ nextId' = 0
    /\ delivered' = {} /\ cancelled' = {} /\ dropped' = FALSE
    /\ UNCHANGED <<fixedVars, txq, rate, wire, receiverVars>>

-----------------------------------------------------------------------------
Init ==
    /\ down \in BOOLEAN
    /\ time \in Times
    /\ session = 1
    /\ present = TRUE /\ connected = TRUE
    /\ txq = {} /\ nextId = 0 /\ rate = 0
    /\ wire = <<>>
    /\ rx = NoRx /\ inside = FALSE
    /\ delivered = {} /\ cancelled = {} /\ dropped = FALSE

Next ==
    \/ \E vm \in VMs, size \in Sizes, r \in Rates : AddSend(vm, size, r)
    \/ PulseIdle
    \/ PulseSend
    \/ \E t \in txq : CancelSend(t)
    \/ \E vm \in VMs : VMDestroyed(vm)
    \/ Receive
    \/ HandlerReturns
    \/ Quit
    \/ Drop
    \/ Join

\* The managers are pulsed every frame; bytes owed from earlier pulses add up
\* to a part, unless the rate is so low that none are ever owed.  The network
\* delivers, and packet handlers return.
Fairness == /\ WF_vars(PulseSend /\ RateSuffices(rate))
            /\ WF_vars(Receive)
            /\ WF_vars(HandlerReturns)

Spec == Init /\ [][Next]_vars /\ Fairness

-----------------------------------------------------------------------------
TypeOK ==
    /\ down \in BOOLEAN /\ time \in Times
    /\ session \in Nat
    /\ present \in BOOLEAN /\ connected \in BOOLEAN
    /\ txq \in SUBSET Item
    /\ nextId \in 0..MaxSends
    /\ rate \in Nat
    /\ wire \in Seq(Packet)
    /\ rx \in RxItem \cup {NoRx}
    /\ inside \in BOOLEAN
    /\ delivered \subseteq Nat /\ cancelled \subseteq Nat
    /\ dropped \in BOOLEAN

\* Only the front of the queue is ever being sent, and once its tail is out it
\* has been sent whole (CLatentSendQueue::DoPulse, across cancels and VM ends
\* that remove items in front of and behind each other).
OnlyFrontStarted ==
    \A t \in txq : /\ t.started => IsFront(t, txq)
                   /\ t.started <=> t.pos > 0
                   /\ t.pos <= t.size
                   /\ t.finishing => t.pos = t.size

\* The cached rate is that of the most urgent transfer in the queue and of no
\* transfer that has left it (AddSend, PostQueueRemove).
RateIsCurrent == /\ \A t \in txq : t.rate <= rate
                 /\ rate \in {0, MinRate} \/ \E t \in txq : t.rate = rate

Receiving == rx # NoRx /\ rx.started /\ ~inside
Leftover == rx # NoRx /\ rx.started /\ rx.sess # session
Sending(t) == t \in txq /\ t.started /\ ~t.finishing

Follows(p, q) == IF q.kind = "head" THEN p.kind \in {"tail", "cancel"}
                 ELSE /\ p.kind \in {"head", "body"}
                      /\ q.id = p.id /\ q.size = p.size /\ q.pos = p.pos + p.n

\* A client goes on after it refused a head: the rest of that transfer follows.
Refused(t) == down /\ dropped /\ t.size > PacketLimit

\* The receiver stands where p begins, or the sender where p ends.
Expected(p) == IF Receiving
               THEN /\ p.kind # "head"
                    /\ p.id = rx.id /\ p.size = rx.size /\ p.pos = rx.pos
               ELSE p.kind = "head" \/ Refused(p)
Continued(p) == IF p.kind \in {"tail", "cancel"} THEN ~\E t \in txq : Sending(t)
                ELSE \E t \in txq : /\ Sending(t)
                                    /\ t.id = p.id /\ t.size = p.size
                                    /\ t.pos = p.pos + p.n

WireInStep == \A i \in 1..(Len(wire) - 1) : Follows(wire[i], wire[i + 1])
ReceiverInStep == wire # <<>> /\ ReceiverLives /\ ~Leftover => Expected(wire[1])
SenderInStep == wire # <<>> /\ connected /\ SenderLives => Continued(wire[Len(wire)])
EndsInStep ==
    wire = <<>> /\ present /\ connected /\ ~Leftover
       => IF Receiving THEN \E t \in txq : /\ Sending(t) /\ t.id = rx.id
                                           /\ t.size = rx.size /\ t.pos = rx.pos
          ELSE \A t \in txq : Sending(t) => Refused(t)

\* The two ends stay in step, whatever is cancelled in between: what is on the
\* wire continues what the receiver has, part by part, and the sender continues
\* what is on the wire.  So no body or tail of an accepted head is refused.
InStep == WireInStep /\ ReceiverInStep /\ SenderInStep /\ EndsInStep

\* RemoveRemote from inside the handler of a transfer does not delete the
\* receiver under it, and does not forget to delete it afterwards.
ReceiverOutlivesHandler ==
    inside => rx # NoRx /\ (down \/ (rx.deferred <=> ~present))

\* A connection is ended by OnReceiveError only for an event over the limit, or
\* because the receiver still holds half a transfer of an earlier player with
\* the same address: never by cancels, VMs that end, or ids that wrap around.
OnlyLeftoversDrop ==
    [][~dropped /\ dropped' => Leftover \/ Head(wire).size > PacketLimit]_vars

\* What is on its way: not wholly sent, or its tail not yet received.
Pending == {t.id : t \in {u \in txq : ~u.finishing}}
           \cup {wire[i].id : i \in {k \in DOMAIN wire : wire[k].kind = "tail"}}

\* Latent transfers keep the promise of LatentService: in order, at most once,
\* none lost while the connection is open, none after it was cancelled.
Service == INSTANCE LatentService WITH open <- Open, pending <- Pending
ImplementsService == Service!Spec

\* A transfer at a sufficient rate does not stay forever: it is delivered, or
\* cancelled, or the connection ends.
TransfersEnd ==
    \A x \in Ids : (Open /\ \E t \in txq : t.id = x /\ RateSuffices(t.rate))
                      ~> (x \notin Pending \/ ~Open)
=============================================================================
