---------------------------- MODULE VehicleInOut ----------------------------
(***************************************************************************)
(* Getting in and out of vehicles, as the server decides it:               *)
(* CGame::Packet_Vehicle_InOut, the script functions that move peds among  *)
(* vehicles, deaths, spawns, syncer changes and the destructors that take  *)
(* peds and vehicles apart.                                                *)
(*                                                                         *)
(* The server runs all of it on one thread, but in the middle of most      *)
(* handlers it calls an event, and the scripts bound to the event may      *)
(* cancel it or move peds themselves.  `calls` is the stack of the handlers*)
(* suspended in an event, innermost first; packets are handled only when   *)
(* it is empty.                                                            *)
(*                                                                         *)
(* `client` is what the client that controls a ped (the player himself, or *)
(* the syncer of any other ped) still has to answer.  The client and the   *)
(* server talk over an ordered channel: an answer the server no longer     *)
(* expects may still arrive (`late`), but never after the next request.    *)
(***************************************************************************)
EXTENDS Naturals, Sequences, FiniteSets

CONSTANTS
    Peds,           \* all peds, the players among them
    Players,        \* the peds that are players
    Vehicles,
    MaxPassengers,  \* passenger seats of a vehicle; seat 0 is the driver's
    NoPed, NoVehicle,
    Ops,            \* what scripts and the server do in this instance
    Cancels,        \* the events that a handler may cancel
    WarpIns,        \* <<ped, seat>>: who may be let in without an animation
    Destroyable,    \* the peds and vehicles that may be destroyed
    Handlers,       \* do event handlers perform Ops?
    MaxCalls        \* no operation starts while so many are suspended

ASSUME PlayersAssumption == Players \subseteq Peds
ASSUME NullAssumption == NoPed \notin Peds /\ NoVehicle \notin Vehicles
ASSUME KindsAssumption == (Peds \cup {NoPed}) \cap (Vehicles \cup {NoVehicle}) = {}
ASSUME SeatsAssumption == MaxPassengers \in Nat
ASSUME BoundAssumption == MaxCalls \in Nat /\ Handlers \in BOOLEAN

VARIABLES
    occupied,         \* CPed::m_pVehicle and m_uiVehicleSeat
    occupants,        \* CVehicle::m_pOccupants
    action,           \* CPed::m_uiVehicleAction
    jackingVehicle,   \* CPed::m_pJackingVehicle
    jackingPed,       \* CVehicle::m_pJackingPed
    occupantChanged,  \* CVehicle::m_bOccupantChanged
    spawned, dead,    \* the peds with m_bSpawned, m_bIsDead
    gone,             \* the peds and vehicles that have been deleted
    client,           \* what each ped's client has to answer
    calls             \* the suspended calls of the server's thread

seats == <<occupied, occupants>>
links == <<jackingVehicle, jackingPed>>
lives == <<spawned, dead>>
vars == <<seats, action, links, occupantChanged, lives, gone, client, calls>>

-----------------------------------------------------------------------------
Seats == 0..MaxPassengers
Places == Vehicles \X Seats
Out == <<NoVehicle, 0>>  \* SetOccupiedVehicle (NULL, 0)
Actions == {"NONE", "ENTERING", "EXITING", "JACKING", "JACKED"}

Tasks == {"in", "out", "jack",
          "waiting"}  \* has answered and the server has ignored it
Free == [task |-> "none", veh |-> NoVehicle, late |-> FALSE]
Clients == [task : Tasks, veh : Vehicles, late : BOOLEAN] \cup {Free}
Owes(t, v) == [task |-> t, veh |-> v, late |-> FALSE]

\* CClientPed::ResetVehicleInOut: the client is free again, but an answer it
\* has sent before may still be on its way.
Reset(c) == IF c.task \in {"none", "waiting"} THEN Free ELSE [c EXCEPT !.late = TRUE]
ResetClients(S) == [p \in Peds |-> IF p \in S THEN Reset(client[p]) ELSE client[p]]

\* Events with a handler that may cancel them, or operate on peds.
Events == {"startEnter", "override", "startJack", "jackExit", "startExit",
           "fellOff", "jackAbort", "removing", "warped"}
\* Besides these, "seat" and the calls of CPed::SetSyncer go on by themselves
\* when the call above them returns.
SyncerCalls == {"syncer", "drag"}

Call(k, p, v, s, o, w) ==
    [kind |-> k, ped |-> p, veh |-> v, seat |-> s, other |-> o, warp |-> w]
CallsOf(kinds, vehicles) ==
    [kind : kinds, ped : Peds, veh : vehicles, seat : Seats, other : Peds \cup {NoPed},
     warp : BOOLEAN]
Calls == CallsOf(Events \cup {"seat"}, Vehicles) \cup CallsOf(SyncerCalls, {NoVehicle})

Idle == calls = <<>>
Running(k) == calls # <<>> /\ Head(calls).kind = k
Top == Head(calls)
Push(c) == <<c>> \o calls
Become(c) == <<c>> \o Tail(calls)

Exists(x) == x \notin gone
InVehicle(p) == occupied[p] # Out

Init ==
    /\ occupied = [p \in Peds |-> Out]
    /\ occupants = [x \in Places |-> NoPed]
    /\ action = [p \in Peds |-> "NONE"]
    /\ jackingVehicle = [p \in Peds |-> NoVehicle]
    /\ jackingPed = [v \in Vehicles |-> NoPed]
    /\ occupantChanged = [v \in Vehicles |-> FALSE]
    /\ spawned = Peds
    /\ dead = {}
    /\ gone = {}
    /\ client = [p \in Peds |-> Free]
    /\ calls = <<>>

-----------------------------------------------------------------------------
(* The two directions of who sits where, and of who jacks what.            *)

\* CPed::SetOccupiedVehicle (v, s), with CVehicle::SetOccupant (p, s).
SetOccupiedVehicle(p, v, s) ==
    /\ occupied' = [occupied EXCEPT ![p] = <<v, s>>]
    /\ occupants' = [occupants EXCEPT ![<<v, s>>] = p]

\* Mutant: the ped forgets his vehicle and not his seat.
LeaveVehicleKeepsSeat(p) ==
    /\ occupied' = [occupied EXCEPT ![p][1] = NoVehicle]
    /\ occupants' = [x \in Places |-> IF x = occupied[p] THEN NoPed ELSE occupants[x]]

\* SetOccupant (NULL, seat) on the ped's vehicle, then SetOccupiedVehicle (NULL, 0).
LeaveVehicle(p) ==
    /\ occupied' = [occupied EXCEPT ![p] = Out]
    /\ occupants' = [x \in Places |-> IF x = occupied[p] THEN NoPed ELSE occupants[x]]

\* The same, for a seat the caller has kept in a variable.
ClearSeat(p, v, s) ==
    /\ occupied' = [occupied EXCEPT ![p] = Out]
    /\ occupants' = [occupants EXCEPT ![<<v, s>>] = NoPed]

\* Mutant: the former links of both stay.
SetJackingVehicleOnly(p, v) ==
    /\ jackingVehicle' = [jackingVehicle EXCEPT ![p] = v]
    /\ jackingPed' = [jackingPed EXCEPT ![v] = p]

\* CPed::SetJackingVehicle (v), with CVehicle::SetJackingPed (p): each undoes
\* the other's former link.
SetJackingVehicle(p, v) ==
    /\ jackingVehicle' = [q \in Peds |-> IF q = p THEN v
                                         ELSE IF q = jackingPed[v] THEN NoVehicle
                                         ELSE jackingVehicle[q]]
    /\ jackingPed' = [u \in Vehicles |-> IF u = v THEN p
                                         ELSE IF u = jackingVehicle[p] THEN NoPed
                                         ELSE jackingPed[u]]

\* SetJackingVehicle (NULL) on the ped and SetJackingPed (NULL) on the vehicle.
ClearJacking(p, v) ==
    /\ jackingVehicle' = [q \in Peds |-> IF q = p \/ (v # NoVehicle /\ q = jackingPed[v])
                                         THEN NoVehicle ELSE jackingVehicle[q]]
    /\ jackingPed' = [u \in Vehicles |-> IF u = v \/ u = jackingVehicle[p]
                                         THEN NoPed ELSE jackingPed[u]]

-----------------------------------------------------------------------------
(* WarpPedIntoVehicle and RemovePedFromVehicle, as scripts and the server  *)
(* call them.  `below` is the stack of the caller.                         *)

\* The vehicle is never wrecked here, and is no train carriage.
CanWarp(p, v, s) ==
    /\ p \notin dead
    /\ occupants[<<v, s>>] # NoPed => action[occupants[<<v, s>>]] = "NONE"

\* Mutant: the seat the ped had before is not given up.
TakeSeatFromKeepsOld(was, p, v, s, below) ==
    /\ occupied' = [was EXCEPT ![p] = <<v, s>>]
    /\ occupants' = [occupants EXCEPT ![<<v, s>>] = p]
    /\ action' = [action EXCEPT ![p] = "NONE"]
    /\ client' = ResetClients({p})
    /\ calls' = <<Call("warped", p, v, s, NoPed, FALSE)>> \o below

\* The ped takes the seat, whoever is in it now; then the enter events.
TakeSeatFrom(was, p, v, s, below) ==
    /\ occupied' = [was EXCEPT ![p] = <<v, s>>]
    /\ occupants' = [x \in Places |-> IF x = <<v, s>> THEN p
                                      ELSE IF x = was[p] THEN NoPed
                                      ELSE occupants[x]]
    /\ action' = [action EXCEPT ![p] = "NONE"]
    /\ client' = ResetClients({p})
    /\ calls' = <<Call("warped", p, v, s, NoPed, FALSE)>> \o below

TakeSeat(p, v, s, below) == TakeSeatFrom(occupied, p, v, s, below)

\* The exit events run before the ped is taken out of the seat he had.
Removing(p) == Call("removing", p, occupied[p][1], occupied[p][2], NoPed, FALSE)

\* Mutant: the previous occupant is not tossed out.
WarpPedIntoVehicleOver(p, v, s, below) == TakeSeat(p, v, s, below)

WarpPedIntoVehicle(p, v, s, below) ==
    LET previous == occupants[<<v, s>>] IN
    IF previous # NoPed /\ InVehicle(previous)
    THEN /\ calls' = <<Removing(previous), Call("seat", p, v, s, NoPed, FALSE)>> \o below
         /\ UNCHANGED <<seats, action, client>>
    ELSE TakeSeat(p, v, s, below)

\* The occupant is out, the ped that is warped in takes his seat.
SeatIsFreed ==
    /\ Running("seat")
    /\ TakeSeat(Top.ped, Top.veh, Top.seat, Tail(calls))
    /\ UNCHANGED <<links, occupantChanged, lives, gone>>

WarpedReturns ==
    /\ Running("warped")
    /\ occupantChanged' = [occupantChanged EXCEPT ![Top.veh] = TRUE]
    /\ calls' = Tail(calls)
    /\ UNCHANGED <<seats, action, links, lives, gone, client>>

\* Mutant: the action is not reset.
RemovingReturnsKeepsAction ==
    /\ Running("removing")
    /\ ClearSeat(Top.ped, Top.veh, Top.seat)
    /\ client' = ResetClients({Top.ped})
    /\ calls' = Tail(calls)
    /\ UNCHANGED <<action, links, occupantChanged, lives, gone>>

RemovingReturns ==
    /\ Running("removing")
    /\ ClearSeat(Top.ped, Top.veh, Top.seat)
    /\ action' = [action EXCEPT ![Top.ped] = "NONE"]
    /\ client' = ResetClients({Top.ped})
    /\ calls' = Tail(calls)
    /\ UNCHANGED <<links, occupantChanged, lives, gone>>

-----------------------------------------------------------------------------
(* VEHICLE_REQUEST_IN.                                                     *)

\* The client has no answer to give, or has been told to forget it.
Asks(p) == Idle /\ Exists(p) /\ (client[p].task = "none" \/ client[p].late)

MayEnter(p) == p \in spawned /\ action[p] = "NONE" /\ ~InVehicle(p)

\* CVehicle::GetFreePassengerSeat, as a set with at most one seat.
FreePassengerSeat(v) ==
    LET free == {s \in 1..MaxPassengers : occupants[<<v, s>>] = NoPed}
    IN  {s \in free : \A t \in free : s <= t}

\* The seat a ped gets who wants seat s.
SeatFor(v, s) ==
    IF s > 0 /\ occupants[<<v, s>>] # NoPed THEN FreePassengerSeat(v) ELSE {s}

\* The player whose packet it is: the ped's own, or his syncer's.
Sender(p) == IF p \in Players THEN {p} ELSE {q \in Players : Exists(q)}

StartEnter(p, v, s) ==
    /\ SetOccupiedVehicle(p, v, s)
    /\ action' = [action EXCEPT ![p] = "ENTERING"]
    /\ occupantChanged' = [occupantChanged EXCEPT ![v] = FALSE]
    /\ \E w \in {FALSE} \cup (IF <<p, s>> \in WarpIns THEN {TRUE} ELSE {}), q \in Sender(p) :
          calls' = Push(Call("startEnter", p, v, s, q, w))
    /\ UNCHANGED links

StartJack(p, v, other) ==
    /\ action' = [action EXCEPT ![p] = "JACKING", ![other] = "JACKED"]
    /\ SetJackingVehicle(p, v)
    /\ calls' = Push(Call("startJack", p, v, 0, other, FALSE))
    /\ UNCHANGED <<seats, occupantChanged>>

CanJack(v) == /\ occupants[<<v, 0>>] # NoPed
              /\ action[occupants[<<v, 0>>]] = "NONE"

RequestIn(p, v, s) ==
    /\ Asks(p) /\ Exists(v)
    /\ client' = [client EXCEPT ![p] = Free]
    /\ \/ \E t \in SeatFor(v, s) :
             /\ MayEnter(p) /\ occupants[<<v, t>>] = NoPed
             /\ StartEnter(p, v, t)
       \/ /\ MayEnter(p) /\ s = 0 /\ CanJack(v)
          /\ StartJack(p, v, occupants[<<v, 0>>])
       \* VEHICLE_ATTEMPT_FAILED: one of the above, or he is too far away.
       \/ UNCHANGED <<seats, action, links, occupantChanged, calls>>
    /\ UNCHANGED <<lives, gone>>

\* The client is told that the ped may start to enter, or the ped is warped in.
\* For that the seat is emptied first, unless a warp has changed the occupants
\* in the meantime; for a passenger seat, the one taken out is the sender.
ConfirmEnter(p, v, s, sender, warpIn, below) ==
    LET removed == IF s = 0 THEN p ELSE sender IN
    CASE ~warpIn ->
            /\ client' = [client EXCEPT ![p] = Owes("in", v)]
            /\ calls' = below
            /\ UNCHANGED <<seats, action>>
      [] warpIn /\ ~occupantChanged[v] /\ p \notin dead ->
            TakeSeatFrom([occupied EXCEPT ![removed] = Out], p, v, s, below)
      [] warpIn /\ ~occupantChanged[v] /\ p \in dead ->
            /\ ClearSeat(removed, v, s)
            /\ action' = [action EXCEPT ![p] = "NONE"]
            /\ calls' = below
            /\ UNCHANGED client
      [] warpIn /\ occupantChanged[v] /\ CanWarp(p, v, s) ->
            WarpPedIntoVehicle(p, v, s, below)
      [] OTHER ->
            /\ action' = [action EXCEPT ![p] = "NONE"]
            /\ calls' = below
            /\ UNCHANGED <<seats, client>>

\* onVehicleStartEnter returns.  A driver becomes the syncer of the vehicle,
\* with events of its own, before he is let in.
StartEnterReturns ==
    /\ Running("startEnter")
    /\ IF action[Top.ped] # "ENTERING"
       THEN calls' = Tail(calls) /\ UNCHANGED <<seats, action, client>>
       ELSE IF Top.seat = 0
       THEN calls' = Become([Top EXCEPT !.kind = "override"]) /\ UNCHANGED <<seats, action, client>>
       ELSE ConfirmEnter(Top.ped, Top.veh, Top.seat, Top.other, Top.warp, Tail(calls))
    /\ UNCHANGED <<links, occupantChanged, lives, gone>>

OverrideSyncerReturns ==
    /\ Running("override")
    /\ ConfirmEnter(Top.ped, Top.veh, Top.seat, Top.other, Top.warp, Tail(calls))
    /\ UNCHANGED <<links, occupantChanged, lives, gone>>

StartEnterIsCancelled ==
    /\ Running("startEnter") /\ "startEnter" \in Cancels
    /\ IF occupantChanged[Top.veh] THEN UNCHANGED seats
                                   ELSE ClearSeat(Top.ped, Top.veh, Top.seat)
    /\ action' = [action EXCEPT ![Top.ped] = "NONE"]
    /\ calls' = Tail(calls)
    /\ UNCHANGED <<links, occupantChanged, lives, gone, client>>

\* onVehicleStartEnter of a jack returns, then onVehicleStartExit of the victim.
StartJackReturns ==
    /\ Running("startJack")
    /\ calls' = IF action[Top.ped] = "JACKING" THEN Become([Top EXCEPT !.kind = "jackExit"])
                                               ELSE Tail(calls)
    /\ UNCHANGED <<seats, action, links, occupantChanged, lives, gone, client>>

\* Mutant: only the victim is released.
StartJackIsCancelledOne ==
    /\ Running("startJack") /\ "startJack" \in Cancels
    /\ action' = [action EXCEPT ![Top.other] = "NONE"]
    /\ calls' = Tail(calls)
    /\ UNCHANGED <<seats, links, occupantChanged, lives, gone, client>>

StartJackIsCancelled ==
    /\ Running("startJack") /\ "startJack" \in Cancels
    /\ action' = [action EXCEPT ![Top.ped] = "NONE", ![Top.other] = "NONE"]
    /\ calls' = Tail(calls)
    /\ UNCHANGED <<seats, links, occupantChanged, lives, gone, client>>

JackExitReturns ==
    /\ Running("jackExit")
    /\ client' = IF action[Top.other] = "JACKED"
                 THEN [client EXCEPT ![Top.ped] = Owes("jack", Top.veh)] ELSE client
    /\ calls' = Tail(calls)
    /\ UNCHANGED <<seats, action, links, occupantChanged, lives, gone>>

\* Nothing is undone.
JackExitIsCancelled ==
    /\ Running("jackExit") /\ "jackExit" \in Cancels
    /\ calls' = Tail(calls)
    /\ UNCHANGED <<seats, action, links, occupantChanged, lives, gone, client>>

-----------------------------------------------------------------------------
(* The answers of the clients.  A client sends one when its animation has  *)
(* ended, and then waits for what the server returns.                      *)

HasAnswer(p, t) == Idle /\ Exists(p) /\ client[p].task = t

\* The server does not expect the answer: it does nothing and returns nothing.
Ignored(p) ==
    /\ client' = [client EXCEPT ![p] = IF @.late THEN Free ELSE [@ EXCEPT !.task = "waiting"]]
    /\ UNCHANGED <<seats, action, links, calls>>

\* Is he in the vehicle of the packet, at the seat he has now?
Sits(p, v) == occupants[<<v, occupied[p][2]>>] = p

\* VEHICLE_NOTIFY_IN.
NotifyIn(p) ==
    /\ HasAnswer(p, "in")
    /\ IF action[p] = "ENTERING" /\ Sits(p, client[p].veh)
       THEN /\ action' = [action EXCEPT ![p] = "NONE"]
            /\ client' = [client EXCEPT ![p] = Free]
            /\ UNCHANGED <<seats, links, calls>>
       ELSE Ignored(p)
    /\ UNCHANGED <<occupantChanged, lives, gone>>

\* VEHICLE_NOTIFY_IN_ABORT.
NotifyInAbort(p) ==
    /\ HasAnswer(p, "in")
    /\ IF action[p] = "ENTERING" /\ Sits(p, client[p].veh)
       THEN /\ ClearSeat(p, client[p].veh, occupied[p][2])
            /\ action' = [action EXCEPT ![p] = "NONE"]
            /\ client' = [client EXCEPT ![p] = Free]
            /\ UNCHANGED <<links, calls>>
       ELSE Ignored(p)
    /\ UNCHANGED <<occupantChanged, lives, gone>>

\* VEHICLE_REQUEST_OUT, for the vehicle the client thinks the ped is in.
RequestOut(p, v) ==
    /\ Asks(p) /\ Exists(v)
    /\ client' = [client EXCEPT ![p] = Free]
    /\ calls' = IF action[p] = "NONE" /\ Sits(p, v)
                THEN Push(Call("startExit", p, v, occupied[p][2], NoPed, FALSE))
                ELSE calls
    /\ UNCHANGED <<seats, action, links, occupantChanged, lives, gone>>

StartExitReturns ==
    /\ Running("startExit")
    /\ IF occupied[Top.ped][1] = Top.veh
       THEN /\ action' = [action EXCEPT ![Top.ped] = "EXITING"]
            /\ client' = [client EXCEPT ![Top.ped] = Owes("out", Top.veh)]
       ELSE UNCHANGED <<action, client>>
    /\ calls' = Tail(calls)
    /\ UNCHANGED <<seats, links, occupantChanged, lives, gone>>

StartExitIsCancelled ==
    /\ Running("startExit") /\ "startExit" \in Cancels
    /\ calls' = Tail(calls)
    /\ UNCHANGED <<seats, action, links, occupantChanged, lives, gone, client>>

\* VEHICLE_NOTIFY_OUT.
NotifyOut(p) ==
    /\ HasAnswer(p, "out")
    /\ IF action[p] = "EXITING" /\ Sits(p, client[p].veh)
       THEN /\ ClearSeat(p, client[p].veh, occupied[p][2])
            /\ action' = [action EXCEPT ![p] = "NONE"]
            /\ client' = [client EXCEPT ![p] = Free]
            /\ UNCHANGED <<links, calls>>
       ELSE Ignored(p)
    /\ UNCHANGED <<occupantChanged, lives, gone>>

\* VEHICLE_NOTIFY_FELL_OFF; the sender becomes the syncer of the vehicle, with
\* events, before the ped's action is reset.  The ped may fall off after he has
\* asked to get out; the confirmation then makes his client answer that as well.
NotifyFellOff(p, v) ==
    /\ Asks(p) \/ HasAnswer(p, "out")
    /\ Exists(v) /\ Sits(p, v)
    /\ ClearSeat(p, v, occupied[p][2])
    /\ client' = [client EXCEPT ![p] = IF @.task = "out" THEN Reset(@) ELSE Free]
    /\ calls' = Push(Call("fellOff", p, v, occupied[p][2], NoPed, FALSE))
    /\ UNCHANGED <<action, links, occupantChanged, lives, gone>>

FellOffReturns ==
    /\ Running("fellOff")
    /\ action' = [action EXCEPT ![Top.ped] = "NONE"]
    /\ calls' = Tail(calls)
    /\ UNCHANGED <<seats, links, occupantChanged, lives, gone, client>>

\* VEHICLE_NOTIFY_JACK: whoever is in the driver's seat now is thrown out.
NotifyJack(p) ==
    LET v == client[p].veh
        jacked == occupants[<<v, 0>>] IN
    /\ HasAnswer(p, "jack")
    /\ IF action[p] = "JACKING"
       THEN /\ occupied' = [q \in Peds |-> IF q = p THEN <<v, 0>>
                                           ELSE IF q = jacked THEN Out ELSE occupied[q]]
            /\ occupants' = [occupants EXCEPT ![<<v, 0>>] = p]
            /\ action' = [q \in Peds |-> IF q \in {p, jacked} THEN "NONE" ELSE action[q]]
            /\ ClearJacking(p, v)
            /\ client' = [q \in Peds |-> IF q = p THEN Free
                                         ELSE IF q = jacked THEN Reset(client[q])
                                         ELSE client[q]]
            /\ UNCHANGED calls
       ELSE Ignored(p)
    /\ UNCHANGED <<occupantChanged, lives, gone>>

\* VEHICLE_NOTIFY_JACK_ABORT; `started` is whether the jacked ped was already
\* being pulled out.
NotifyJackAbort(p, started) ==
    LET v == client[p].veh
        jacked == occupants[<<v, 0>>]
        thrown == started /\ jacked # NoPed IN
    /\ HasAnswer(p, "jack")
    /\ IF action[p] = "JACKING"
       THEN /\ occupied' = [q \in Peds |-> IF q = p \/ (thrown /\ q = jacked) THEN Out
                                           ELSE occupied[q]]
            /\ occupants' = IF thrown THEN [occupants EXCEPT ![<<v, 0>>] = NoPed] ELSE occupants
            /\ action' = [q \in Peds |-> IF q = p \/ (~thrown /\ q = jacked) THEN "NONE"
                                         ELSE action[q]]
            /\ ClearJacking(p, v)
            /\ client' = [q \in Peds |-> IF q = p THEN Free
                                         ELSE IF thrown /\ q = jacked THEN Reset(client[q])
                                         ELSE client[q]]
            /\ calls' = IF thrown THEN Push(Call("jackAbort", jacked, v, 0, p, FALSE)) ELSE calls
       ELSE Ignored(p)
    /\ UNCHANGED <<occupantChanged, lives, gone>>

JackAbortReturns ==
    /\ Running("jackAbort")
    /\ action' = [action EXCEPT ![Top.ped] = "NONE"]
    /\ calls' = Tail(calls)
    /\ UNCHANGED <<seats, links, occupantChanged, lives, gone, client>>

-----------------------------------------------------------------------------
(* What scripts and the rest of the server do to peds and vehicles.        *)

\* Scripts run when no packet is being handled, or inside an event.
Operates(op) ==
    /\ op \in Ops
    /\ Len(calls) < MaxCalls
    /\ Idle \/ (Handlers /\ \E k \in Events : Running(k))

ScriptWarps(p, v, s) ==
    /\ Operates("warp") /\ Exists(p) /\ Exists(v)
    /\ CanWarp(p, v, s)
    /\ WarpPedIntoVehicle(p, v, s, calls)
    /\ UNCHANGED <<links, occupantChanged, lives, gone>>

ScriptRemoves(p) ==
    /\ Operates("remove") /\ Exists(p)
    /\ InVehicle(p)
    /\ calls' = Push(Removing(p))
    /\ UNCHANGED <<seats, action, links, occupantChanged, lives, gone, client>>

\* Mutant: the vehicle is not told.
DiesInSeat(p) ==
    /\ dead' = dead \cup {p}
    /\ action' = [action EXCEPT ![p] = IF @ = "JACKING" THEN @ ELSE "NONE"]
    /\ occupied' = [occupied EXCEPT ![p] = Out]
    /\ UNCHANGED <<occupants, links, occupantChanged, gone, client, calls>>

\* A ped that is jacking keeps his action: his client still has to tell
\* whether it had pulled the other one out.
Dies(p) ==
    /\ dead' = dead \cup {p}
    /\ action' = [action EXCEPT ![p] = IF @ = "JACKING" THEN @ ELSE "NONE"]
    /\ LeaveVehicle(p)
    /\ UNCHANGED <<links, occupantChanged, gone, client, calls>>

\* CStaticFunctionDefinitions::KillPed.
ScriptKills(p) ==
    /\ Operates("kill") /\ Exists(p)
    /\ p \in spawned \ dead
    /\ Dies(p)
    /\ spawned' = spawned \ {p}

\* PACKET_ID_PLAYER_WASTED, PACKET_ID_PED_WASTED: only a player is unspawned.
Wasted(p) ==
    /\ Idle /\ "kill" \in Ops /\ Exists(p)
    /\ p \notin dead
    /\ Dies(p)
    /\ spawned' = spawned \ (Players \cap {p})

\* Mutant: a jacker who spawns does not release his victim.
SpawnPlayerKeepsVictim(p) ==
    LET v == jackingVehicle[p] IN
    /\ Operates("spawn") /\ Exists(p) /\ p \in Players
    /\ LeaveVehicle(p)
    /\ action' = [action EXCEPT ![p] = "NONE"]
    /\ client' = ResetClients({p})
    /\ IF v # NoVehicle /\ jackingPed[v] = p THEN ClearJacking(p, v) ELSE UNCHANGED links
    /\ spawned' = spawned \cup {p}
    /\ dead' = dead \ {p}
    /\ UNCHANGED <<occupantChanged, gone, calls>>

SpawnPlayer(p) ==
    LET v == jackingVehicle[p]
        left == [x \in Places |-> IF x = occupied[p] THEN NoPed ELSE occupants[x]]
        released == IF v # NoVehicle /\ action[p] = "JACKING" THEN left[<<v, 0>>] ELSE NoPed IN
    /\ Operates("spawn") /\ Exists(p) /\ p \in Players
    /\ LeaveVehicle(p)
    /\ action' = [q \in Peds |-> IF q \in {p, released} THEN "NONE" ELSE action[q]]
    /\ client' = ResetClients({p, released})
    /\ IF v # NoVehicle /\ jackingPed[v] = p THEN ClearJacking(p, v) ELSE UNCHANGED links
    /\ spawned' = spawned \cup {p}
    /\ dead' = dead \ {p}
    /\ UNCHANGED <<occupantChanged, gone, calls>>

\* CPed::SetSyncer, when another player becomes the syncer of a ped or none is
\* left.  What the former syncer has to answer will not be accepted any more.
SyncerChanges(p) ==
    /\ Operates("syncer") /\ Exists(p) /\ p \notin Players
    /\ client' = [client EXCEPT ![p] = Free]
    /\ calls' = Push(Call("syncer", p, NoVehicle, 0, NoPed, FALSE))
    /\ UNCHANGED <<seats, action, links, occupantChanged, lives, gone>>

\* The cases of an entering, an exiting and a jacking ped fall through from one
\* to the next.  The warp of an entering ped is always refused: he is in the
\* seat already, and entering.
SyncerRemoves ==
    /\ Running("syncer")
    /\ action[Top.ped] \in {"ENTERING", "EXITING"}
    /\ InVehicle(Top.ped) /\ Sits(Top.ped, occupied[Top.ped][1])
    /\ calls' = <<Removing(Top.ped), [Top EXCEPT !.kind = "drag"]>> \o Tail(calls)
    /\ UNCHANGED <<seats, action, links, occupantChanged, lives, gone, client>>

SyncerWarps ==
    LET p == Top.ped
        v == jackingVehicle[p] IN
    /\ \/ Running("drag")
       \/ /\ Running("syncer")
          /\ \/ action[p] = "JACKING"
             \/ /\ action[p] \in {"ENTERING", "EXITING"}
                /\ ~(InVehicle(p) /\ Sits(p, occupied[p][1]))
    /\ IF v # NoVehicle /\ CanWarp(p, v, 0)
       THEN WarpPedIntoVehicle(p, v, 0, Tail(calls))
       ELSE calls' = Tail(calls) /\ UNCHANGED <<seats, action, client>>
    /\ UNCHANGED <<links, occupantChanged, lives, gone>>

SyncerIsSet ==
    /\ Running("syncer")
    /\ action[Top.ped] \in {"NONE", "JACKED"}
    /\ calls' = Tail(calls)
    /\ UNCHANGED <<seats, action, links, occupantChanged, lives, gone, client>>

\* CPed::~CPed, when CElementDeleter deletes a ped or a player who has quit.
PedIsDeleted(p) ==
    LET v == jackingVehicle[p]
        victim == IF v # NoVehicle /\ action[p] = "JACKING" THEN occupants[<<v, 0>>] ELSE NoPed IN
    /\ Idle /\ p \in Destroyable /\ Exists(p)
    /\ gone' = gone \cup {p}
    /\ occupied' = [q \in Peds |-> IF q \in {p, victim} THEN Out ELSE occupied[q]]
    /\ occupants' = [x \in Places |->
                       IF x = occupied[p] \/ (victim # NoPed /\ x = <<v, 0>>) THEN NoPed
                       ELSE occupants[x]]
    /\ action' = [q \in Peds |-> IF q \in {p, victim} THEN "NONE" ELSE action[q]]
    /\ IF v # NoVehicle /\ jackingPed[v] = p THEN ClearJacking(p, v) ELSE UNCHANGED links
    /\ client' = [q \in Peds |-> IF q = p THEN Free
                                 ELSE IF q = victim THEN Reset(client[q]) ELSE client[q]]
    /\ spawned' = spawned \ {p}
    /\ dead' = dead \ {p}
    /\ UNCHANGED <<occupantChanged, calls>>

\* Mutant: the ped that is jacking the vehicle is not told.
VehicleIsDeletedKeepsJacker(v) ==
    LET riders == {p \in Peds : \E s \in Seats : occupants[<<v, s>>] = p} IN
    /\ Idle /\ v \in Destroyable /\ Exists(v)
    /\ gone' = gone \cup {v}
    /\ occupied' = [p \in Peds |-> IF p \in riders THEN Out ELSE occupied[p]]
    /\ occupants' = [x \in Places |-> IF x[1] = v THEN NoPed ELSE occupants[x]]
    /\ action' = [p \in Peds |-> IF p \in riders THEN "NONE" ELSE action[p]]
    /\ client' = [p \in Peds |-> IF client[p].veh = v THEN Free ELSE client[p]]
    /\ UNCHANGED <<occupantChanged, links, lives, calls>>

\* CVehicle::~CVehicle.
VehicleIsDeleted(v) ==
    LET jacker == jackingPed[v]
        riders == {p \in Peds : \E s \in Seats : occupants[<<v, s>>] = p} IN
    /\ Idle /\ v \in Destroyable /\ Exists(v)
    /\ gone' = gone \cup {v}
    /\ occupied' = [p \in Peds |-> IF p \in riders THEN Out ELSE occupied[p]]
    /\ occupants' = [x \in Places |-> IF x[1] = v THEN NoPed ELSE occupants[x]]
    /\ action' = [p \in Peds |-> IF p \in riders \/ (p = jacker /\ action[p] = "JACKING")
                                 THEN "NONE" ELSE action[p]]
    /\ IF jacker # NoPed THEN ClearJacking(jacker, v) ELSE UNCHANGED links
    /\ client' = [p \in Peds |-> IF client[p].veh = v THEN Free ELSE client[p]]
    /\ UNCHANGED <<occupantChanged, lives, calls>>

-----------------------------------------------------------------------------
Packet(p) ==
    \/ \E v \in Vehicles : \/ \E s \in Seats : RequestIn(p, v, s)
                           \/ RequestOut(p, v)
                           \/ NotifyFellOff(p, v)
    \/ NotifyIn(p)
    \/ NotifyInAbort(p)
    \/ NotifyOut(p)
    \/ NotifyJack(p)
    \/ \E started \in BOOLEAN : NotifyJackAbort(p, started)
    \/ Wasted(p)

Operation ==
    \/ \E p \in Peds :
          \/ \E v \in Vehicles, s \in Seats : ScriptWarps(p, v, s)
          \/ ScriptRemoves(p)
          \/ ScriptKills(p)
          \/ SpawnPlayer(p)
          \/ SyncerChanges(p)
          \/ PedIsDeleted(p)
    \/ \E v \in Vehicles : VehicleIsDeleted(v)

Return ==
    \/ SeatIsFreed \/ WarpedReturns \/ RemovingReturns
    \/ StartEnterReturns \/ OverrideSyncerReturns \/ StartEnterIsCancelled
    \/ StartJackReturns \/ StartJackIsCancelled
    \/ JackExitReturns \/ JackExitIsCancelled
    \/ StartExitReturns \/ StartExitIsCancelled
    \/ FellOffReturns \/ JackAbortReturns
    \/ SyncerRemoves \/ SyncerWarps \/ SyncerIsSet

Next == (\E p \in Peds : Packet(p)) \/ Operation \/ Return

Spec == Init /\ [][Next]_vars

-----------------------------------------------------------------------------
\* Every pointer is to an element of its kind, every action one of CPed's.
TypeOK ==
    /\ occupied \in [Peds -> Places \cup {Out}]
    /\ occupants \in [Places -> Peds \cup {NoPed}]
    /\ action \in [Peds -> Actions]
    /\ jackingVehicle \in [Peds -> Vehicles \cup {NoVehicle}]
    /\ jackingPed \in [Vehicles -> Peds \cup {NoPed}]
    /\ occupantChanged \in [Vehicles -> BOOLEAN]
    /\ spawned \subseteq Peds /\ dead \subseteq Peds
    /\ gone \subseteq Peds \cup Vehicles
    /\ client \in [Peds -> Clients]
    /\ calls \in Seq(Calls)

\* A vehicle has a ped in a seat exactly when the ped has that vehicle and that
\* seat: what CPed::SetOccupiedVehicle and CVehicle::SetOccupant keep in two
\* places never comes apart, so no ped is in two seats and no seat has two peds.
SeatsAgree ==
    \A p \in Peds, x \in Places : occupants[x] = p <=> occupied[p] = x

\* A ped has a vehicle he jacks exactly when the vehicle has him as its jacker.
JackLinks ==
    \A p \in Peds, v \in Vehicles : jackingPed[v] = p <=> jackingVehicle[p] = v

\* Between two packets, a ped the server has as entering or leaving a vehicle is
\* in that vehicle, and his client has still to say how it ended: nobody gets
\* stuck in the entry packet handshaking.
HandshakeAnswered ==
    Idle => \A p \in Peds : action[p] \in {"ENTERING", "EXITING"} =>
        client[p] = Owes(IF action[p] = "ENTERING" THEN "in" ELSE "out", occupied[p][1])

\* Nothing that is left refers to a ped or a vehicle that has been deleted.
NoDangling ==
    \A g \in gone : /\ \A x \in Places : occupants[x] # g
                    /\ \A p \in Peds : occupied[p][1] # g /\ jackingVehicle[p] # g
                    /\ \A v \in Vehicles : jackingPed[v] # g
                    /\ \A i \in 1..Len(calls) : g \notin {calls[i].ped, calls[i].veh, calls[i].other}

\* A ped that is jacking has a client that still has to say whether it has
\* jacked: the server waits for VEHICLE_NOTIFY_JACK or VEHICLE_NOTIFY_JACK_ABORT.
JackAnswered ==
    Idle => \A p \in Peds : action[p] = "JACKING" =>
        client[p].task = "jack" /\ ~client[p].late

\* A ped that is being jacked has somebody who jacks his vehicle.
VictimHasJacker ==
    \A q \in Peds : action[q] = "JACKED" /\ InVehicle(q) =>
        \E p \in Peds : action[p] = "JACKING" /\ jackingVehicle[p] = occupied[q][1]

\* Seen from outside, the server hands out the seats as VehicleSeats promises:
\* one ped at a time, a free seat or the one of a driver who is thrown out.
Seating == INSTANCE VehicleSeats WITH place <- occupied
ImplementsSeating == Seating!Spec
=============================================================================
