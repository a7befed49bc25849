------------------------- MODULE VehicleJackProofs --------------------------
(***************************************************************************)
(* Jacking, as long as handlers only cancel events: the server waits for   *)
(* no jack that no client plays, and nobody stays jacked without a jacker. *)
(***************************************************************************)
EXTENDS VehicleHandshakeProofs

-----------------------------------------------------------------------------
(* While the events of a jack run, both of its peds are in it.             *)

Jacks == {"startJack", "jackExit"}

JackHandled ==
    calls # <<>> /\ Top.kind \in Jacks =>
        /\ action[Top.ped] = "JACKING" /\ jackingVehicle[Top.ped] = Top.veh
        /\ action[Top.other] = "JACKED" /\ occupied[Top.other] = <<Top.veh, 0>>
        /\ Top.other \in Peds

\* No jack is being handled.
LEMMA NoJackHandled ==
    ASSUME \/ calls' = <<>>
           \/ \E c \in Calls : c.kind \notin Jacks /\ (calls' = <<c>> \/ \E d \in Calls : calls' = <<c, d>>)
    PROVE  JackHandled' /\ ~(calls # <<>> /\ Top.kind \in Jacks)'
<1>1. ASSUME NEW c \in Calls, c.kind \notin Jacks,
             calls' = <<c>> \/ \E d \in Calls : calls' = <<c, d>>
      PROVE  Top'.kind \notin Jacks
  BY <1>1 DEF Top
<1> QED BY <1>1 DEF JackHandled

\* After a packet that starts no jack, none is being handled.
LEMMA PacketHandles ==
    ASSUME TypeOK, SeatsInv, NEW p \in Peds, Packet(p)
    PROVE  \/ JackHandled' /\ ~(calls # <<>> /\ Top.kind \in Jacks)'
           \/ \E v \in Vehicles : /\ Asks(p) /\ MayEnter(p) /\ CanJack(v)
                                  /\ StartJack(p, v, occupants[<<v, 0>>])
                                  /\ client' = [client EXCEPT ![p] = Free]
                                  /\ UNCHANGED gone
<1>c. calls = <<>>
  BY DEF Packet, RequestIn, RequestOut, NotifyFellOff, NotifyIn, NotifyInAbort, NotifyOut,
         NotifyJack, NotifyJackAbort, Wasted, Asks, HasAnswer, Idle
<1>o. occupied[p][2] \in Seats /\ 0 \in Seats /\ \A v \in Vehicles : <<v, 0>> \in Places
  BY PlaceParts, SeatsAssumption DEF Seats, Places
<1>p. ASSUME NEW c \in Calls PROVE Push(c) = <<c>>
  BY <1>c, PushWhenIdle DEF Idle
<1>k. ASSUME NEW k \in Events \ Jacks, NEW q \in Peds, NEW v \in Vehicles, NEW s \in Seats,
             NEW o \in Peds \cup {NoPed}, NEW w \in BOOLEAN, calls' = Push(Call(k, q, v, s, o, w))
      PROVE  JackHandled' /\ ~(calls # <<>> /\ Top.kind \in Jacks)'
  <2>1. PICK c \in Calls : c = Call(k, q, v, s, o, w)
    BY CallType
  <2>2. calls' = <<c>> /\ c.kind \notin Jacks
    BY <1>k, <1>p, <2>1 DEF Call
  <2> QED BY <2>2, NoJackHandled
<1>1. ASSUME NEW v \in Vehicles, NEW s \in Seats, RequestIn(p, v, s)
      PROVE  \/ JackHandled' /\ ~(calls # <<>> /\ Top.kind \in Jacks)'
             \/ /\ Asks(p) /\ MayEnter(p) /\ CanJack(v)
                /\ StartJack(p, v, occupants[<<v, 0>>])
                /\ client' = [client EXCEPT ![p] = Free]
                /\ UNCHANGED gone
  <2>1. ASSUME NEW t \in SeatFor(v, s), StartEnter(p, v, t)
        PROVE  JackHandled' /\ ~(calls # <<>> /\ Top.kind \in Jacks)'
    <3>1. t \in Seats
      BY SeatsAssumption DEF SeatFor, FreePassengerSeat, Seats
    <3>2. PICK w \in BOOLEAN, q \in Sender(p) : calls' = Push(Call("startEnter", p, v, t, q, w))
      BY <2>1 DEF StartEnter
    <3>3. q \in Peds
      BY PlayersAssumption DEF Sender
    <3> QED BY <1>k, <3>1, <3>2, <3>3 DEF Events, Jacks
  <2> QED BY <1>1, <1>c, <2>1, NoJackHandled DEF RequestIn
<1>2. ASSUME NEW v \in Vehicles, RequestOut(p, v) \/ NotifyFellOff(p, v)
      PROVE  JackHandled' /\ ~(calls # <<>> /\ Top.kind \in Jacks)'
  <2>1. \/ calls' = <<>>
        \/ \E k \in {"startExit", "fellOff"} :
              calls' = Push(Call(k, p, v, occupied[p][2], NoPed, FALSE))
    BY <1>2, <1>c DEF RequestOut, NotifyFellOff
  <2> QED BY <1>k, <1>o, <2>1, NoJackHandled DEF Events, Jacks
<1>3. ASSUME NEW started \in BOOLEAN, NotifyJackAbort(p, started)
      PROVE  JackHandled' /\ ~(calls # <<>> /\ Top.kind \in Jacks)'
  <2> DEFINE v == client[p].veh
             jacked == occupants[<<v, 0>>]
  <2>0. v \in Vehicles
    <3>1. client[p].task = "jack" /\ client[p] \in Clients
      BY <1>3 DEF NotifyJackAbort, HasAnswer, TypeOK
    <3> QED BY <3>1 DEF Clients, Free
  <2>1. jacked \in Peds \cup {NoPed}
    BY <1>o, <2>0 DEF TypeOK
  <2>2. calls' = <<>> \/ (jacked # NoPed /\ calls' = Push(Call("jackAbort", jacked, v, 0, p, FALSE)))
    BY <1>3, <1>c DEF NotifyJackAbort, Ignored
  <2> HIDE DEF v, jacked
  <2> QED BY <1>k, <1>o, <2>0, <2>1, <2>2, NoJackHandled DEF Events, Jacks
<1>4. ASSUME NotifyIn(p) \/ NotifyInAbort(p) \/ NotifyOut(p) \/ NotifyJack(p) \/ Wasted(p)
      PROVE  JackHandled' /\ ~(calls # <<>> /\ Top.kind \in Jacks)'
  <2>1. calls' = <<>>
    BY <1>4, <1>c DEF NotifyIn, NotifyInAbort, NotifyOut, NotifyJack, Wasted, Dies, Ignored
  <2> QED BY <2>1, NoJackHandled
<1> QED BY <1>1, <1>2, <1>3, <1>4 DEF Packet

\* WarpPedIntoVehicle, called by the outermost handler, starts no jack.
LEMMA WarpHandles ==
    ASSUME TypeOK, NEW p \in Peds, NEW v \in Vehicles, NEW s \in Seats,
           NEW was, TakeSeatFrom(was, p, v, s, <<>>) \/ WarpPedIntoVehicle(p, v, s, <<>>)
    PROVE  JackHandled' /\ ~(calls # <<>> /\ Top.kind \in Jacks)'
<1>1. PICK w \in Calls : w = Call("warped", p, v, s, NoPed, FALSE)
  BY CallType DEF Events
<1>2. w.kind \notin Jacks /\ <<w>> \o <<>> = <<w>>
  BY <1>1 DEF Call, Jacks
<1>3. CASE calls' = <<Call("warped", p, v, s, NoPed, FALSE)>> \o <<>>
  BY <1>1, <1>2, <1>3, NoJackHandled
<1>4. CASE ~(calls' = <<Call("warped", p, v, s, NoPed, FALSE)>> \o <<>>)
  <2> DEFINE previous == occupants[<<v, s>>]
  <2>1. /\ previous # NoPed /\ InVehicle(previous)
        /\ calls' = <<Removing(previous), Call("seat", p, v, s, NoPed, FALSE)>> \o <<>>
    BY <1>4 DEF TakeSeatFrom, WarpPedIntoVehicle, TakeSeat
  <2>2. previous \in Peds
    BY <2>1 DEF TypeOK, Places
  <2>3. PICK c \in Calls, d \in Calls :
           c = Removing(previous) /\ d = Call("seat", p, v, s, NoPed, FALSE)
    BY <2>1, <2>2, PlaceParts, CallType DEF Removing, Events
  <2>4. calls' = <<c, d>> /\ c.kind \notin Jacks
    BY <2>1, <2>3 DEF Removing, Call, Jacks
  <2> QED BY <2>4, NoJackHandled
<1> QED BY <1>3, <1>4

\* Scripts and the server start no jack.
LEMMA OperationHandles ==
    ASSUME TypeOK, OnlyCancels, Operation
    PROVE  JackHandled' /\ ~(calls # <<>> /\ Top.kind \in Jacks)'
<1>c. calls = <<>>
  BY DEF Operation, ScriptWarps, ScriptRemoves, ScriptKills, SpawnPlayer, SyncerChanges,
         PedIsDeleted, VehicleIsDeleted, Operates, OnlyCancels, Idle
<1>p. ASSUME NEW c \in Calls PROVE Push(c) = <<c>>
  BY <1>c, PushWhenIdle DEF Idle
<1>1. ASSUME NEW p \in Peds, NEW v \in Vehicles, NEW s \in Seats, ScriptWarps(p, v, s)
      PROVE  JackHandled' /\ ~(calls # <<>> /\ Top.kind \in Jacks)'
  BY <1>1, <1>c, WarpHandles DEF ScriptWarps
<1>2. ASSUME NEW p \in Peds, ScriptRemoves(p) \/ SyncerChanges(p)
      PROVE  JackHandled' /\ ~(calls # <<>> /\ Top.kind \in Jacks)'
  <2>1. CASE ScriptRemoves(p)
    <3>1. InVehicle(p) /\ calls' = Push(Removing(p))
      BY <2>1 DEF ScriptRemoves
    <3>2. PICK c \in Calls : c = Removing(p)
      BY <3>1, PlaceParts, CallType DEF Removing, Events
    <3>3. calls' = <<c>> /\ c.kind \notin Jacks
      BY <1>p, <3>1, <3>2 DEF Removing, Call, Jacks
    <3> QED BY <3>3, NoJackHandled
  <2>2. CASE SyncerChanges(p)
    <3>0. 0 \in Seats
      BY SeatsAssumption DEF Seats
    <3>1. PICK c \in Calls : c = Call("syncer", p, NoVehicle, 0, NoPed, FALSE)
      BY <3>0 DEF Call, Calls, CallsOf, SyncerCalls
    <3>2. calls' = <<c>> /\ c.kind \notin Jacks
      BY <1>p, <2>2, <3>1 DEF SyncerChanges, Call, Jacks
    <3> QED BY <3>2, NoJackHandled
  <2> QED BY <1>2, <2>1, <2>2
<1>3. ASSUME \/ \E p \in Peds : ScriptKills(p) \/ SpawnPlayer(p) \/ PedIsDeleted(p)
             \/ \E v \in Vehicles : VehicleIsDeleted(v)
      PROVE  JackHandled' /\ ~(calls # <<>> /\ Top.kind \in Jacks)'
  <2>1. calls' = <<>>
    BY <1>3, <1>c DEF ScriptKills, Dies, SpawnPlayer, PedIsDeleted, VehicleIsDeleted
  <2> QED BY <2>1, NoJackHandled
<1> QED BY <1>1, <1>2, <1>3 DEF Operation

\* When an event returns, a jack is handled only if its first event was and nobody
\* has ended it.
LEMMA ReturnHandles ==
    ASSUME TypeOK, SeatsInv, HandshakeInv, Return
    PROVE  \/ ~(calls # <<>> /\ Top.kind \in Jacks)'
           \/ /\ StartJackReturns
              /\ (calls # <<>>)' /\ Top' \in Calls
              /\ Top'.ped = Top.ped /\ Top'.veh = Top.veh /\ Top'.other = Top.other
<1> DEFINE None == ~(calls # <<>> /\ Top.kind \in Jacks)'
<1>c. calls # <<>>
  BY DEF Return, SeatIsFreed, WarpedReturns, RemovingReturns, StartEnterReturns,
         OverrideSyncerReturns, StartEnterIsCancelled, StartJackReturns, StartJackIsCancelled,
         JackExitReturns, JackExitIsCancelled, StartExitReturns, StartExitIsCancelled,
         FellOffReturns, JackAbortReturns, SyncerRemoves, SyncerWarps, SyncerIsSet, Running
<1>0. /\ SeatsAgree /\ CallsFit /\ 0 \in Seats /\ Handling
      /\ jackingVehicle \in [Peds -> Vehicles \cup {NoVehicle}]
  BY SeatsAssumption DEF TypeOK, SeatsInv, Seats, HandshakeInv
<1>t. /\ Top \in Calls /\ Fits(Top)
      /\ \/ Tail(calls) = <<>>
         \/ \E d \in Calls : Tail(calls) = <<d>> /\ Continues(Top, d)
      /\ Top.kind # "removing" => Tail(calls) = <<>>
      /\ Top.ped \in Peds /\ Top.seat \in Seats
      /\ Top.kind \notin SyncerCalls => Top.veh \in Vehicles
  BY <1>0, <1>c, SuspendedCalls, CallParts, TopOfCalls
<1>b. ASSUME calls' = Tail(calls) PROVE None
  <2>1. calls' = <<>> \/ \E d \in Calls : calls' = <<d>> /\ d.kind \notin Jacks
    BY <1>b, <1>t DEF Continues, Jacks
  <2> QED BY <2>1, NoJackHandled
<1>k. ASSUME NEW k \in {"override", "jackExit", "drag"}, calls' = Become([Top EXCEPT !.kind = k]),
             Top.kind \in {"startEnter", "startJack", "syncer"}, k = "drag" => Top.kind = "syncer",
             k # "drag" => Top.kind # "syncer"
      PROVE  /\ k # "jackExit" => None
             /\ (calls # <<>>)' /\ Top' \in Calls
             /\ Top'.ped = Top.ped /\ Top'.veh = Top.veh /\ Top'.other = Top.other
  <2>1. [Top EXCEPT !.kind = k] \in Calls
    BY <1>k, <1>t DEF Calls, CallsOf, Events, SyncerCalls
  <2>2. PICK c \in Calls : c = [Top EXCEPT !.kind = k]
    BY <2>1
  <2>3. calls' = <<c>>
    <3>1. calls' = <<c>> \o Tail(calls)
      BY <1>k, <2>2 DEF Become
    <3>2. Tail(calls) = <<>>
      BY <1>k, <1>t
    <3>3. calls' = <<c>> \o <<>>
      BY ONLY <3>1, <3>2
    <3>4. <<c>> \o <<>> = <<c>>
      OBVIOUS
    <3> QED BY <3>3, <3>4
  <2>4. c.ped = Top.ped /\ c.veh = Top.veh /\ c.other = Top.other /\ c.kind = k
    BY <1>t, <2>2 DEF Calls, CallsOf
  <2>5. Top' = c /\ (calls # <<>>)'
    BY <2>3, OtherHandled
  <2>6. k # "jackExit" => None
    BY <2>3, <2>4, NoJackHandled DEF Jacks
  <2> QED BY <2>4, <2>5, <2>6
<1>1. ASSUME SeatIsFreed PROVE None
  <2>1. /\ Top.veh \in Vehicles
        /\ TakeSeatFrom(occupied, Top.ped, Top.veh, Top.seat, <<>>)
    BY <1>1, <1>t DEF SeatIsFreed, Running, Top, TakeSeat, SyncerCalls
  <2> QED BY <1>t, <2>1, WarpHandles
<1>2. ASSUME ConfirmEnter(Top.ped, Top.veh, Top.seat, Top.other, Top.warp, Tail(calls)),
             Top.kind \in {"startEnter", "override"}
      PROVE  None
  <2>1. Tail(calls) = <<>> /\ Top.veh \in Vehicles
    BY <1>2, <1>t DEF SyncerCalls
  <2>2. \/ calls' = Tail(calls)
        \/ \E was : TakeSeatFrom(was, Top.ped, Top.veh, Top.seat, <<>>)
        \/ WarpPedIntoVehicle(Top.ped, Top.veh, Top.seat, <<>>)
    BY <1>2, <2>1 DEF ConfirmEnter
  <2> QED BY <1>b, <1>t, <2>1, <2>2, WarpHandles
<1>3. ASSUME StartEnterReturns \/ OverrideSyncerReturns PROVE None
  <2>1. Top.kind \in {"startEnter", "override"}
    BY <1>3 DEF StartEnterReturns, OverrideSyncerReturns, Running, Top
  <2>2. \/ calls' = Tail(calls)
        \/ ConfirmEnter(Top.ped, Top.veh, Top.seat, Top.other, Top.warp, Tail(calls))
        \/ Top.kind = "startEnter" /\ calls' = Become([Top EXCEPT !.kind = "override"])
    BY <1>3 DEF StartEnterReturns, OverrideSyncerReturns, Running, Top
  <2> QED BY <1>2, <1>b, <1>k, <2>1, <2>2
<1>4. ASSUME StartJackReturns
      PROVE  \/ None
             \/ /\ StartJackReturns
                /\ (calls # <<>>)' /\ Top' \in Calls
                /\ Top'.ped = Top.ped /\ Top'.veh = Top.veh /\ Top'.other = Top.other
  <2>1. /\ Top.kind = "startJack"
        /\ calls' = Tail(calls) \/ calls' = Become([Top EXCEPT !.kind = "jackExit"])
    BY <1>4 DEF StartJackReturns, Running, Top
  <2> QED BY <1>4, <1>b, <1>k, <2>1
<1>5. ASSUME \/ WarpedReturns \/ RemovingReturns \/ StartEnterIsCancelled \/ StartJackIsCancelled
             \/ JackExitReturns \/ JackExitIsCancelled \/ StartExitReturns \/ StartExitIsCancelled
             \/ FellOffReturns \/ JackAbortReturns \/ SyncerIsSet
      PROVE  None
  BY <1>5, <1>b DEF WarpedReturns, RemovingReturns, StartEnterIsCancelled, StartJackIsCancelled,
                    JackExitReturns, JackExitIsCancelled, StartExitReturns, StartExitIsCancelled,
                    FellOffReturns, JackAbortReturns, SyncerIsSet
<1>6. ASSUME SyncerRemoves PROVE None
  <2>1. /\ Top.kind = "syncer" /\ InVehicle(Top.ped)
        /\ calls' = <<Removing(Top.ped), [Top EXCEPT !.kind = "drag"]>> \o Tail(calls)
    BY <1>6 DEF SyncerRemoves, Running, Top
  <2>2. PICK c \in Calls, d \in Calls : c = Removing(Top.ped) /\ d = [Top EXCEPT !.kind = "drag"]
    <3>1. Removing(Top.ped) \in Calls
      BY <1>t, <2>1, PlaceParts, CallType DEF Removing, Events
    <3>2. [Top EXCEPT !.kind = "drag"] \in Calls
      BY <1>t, <2>1 DEF Calls, CallsOf, Events, SyncerCalls
    <3> QED BY <3>1, <3>2
  <2>3. calls' = <<c, d>> \o Tail(calls)
    BY ONLY <2>1, <2>2
  <2>4. Tail(calls) = <<>>
    BY <1>t, <2>1
  <2>5. calls' = <<c, d>> \o <<>>
    BY ONLY <2>3, <2>4
  <2>6. calls' = <<c, d>> /\ c.kind \notin Jacks
    BY <2>2, <2>5 DEF Removing, Call, Jacks
  <2> QED BY <2>6, NoJackHandled
<1>7. ASSUME SyncerWarps PROVE None
  <2> DEFINE v == jackingVehicle[Top.ped]
  <2>0. Top.kind \in {"syncer", "drag"} /\ Tail(calls) = <<>>
    BY <1>7, <1>t DEF SyncerWarps, Running, Top
  <2>1. CASE v # NoVehicle /\ CanWarp(Top.ped, v, 0)
    <3>1. WarpPedIntoVehicle(Top.ped, v, 0, <<>>) /\ v \in Vehicles
      BY <1>0, <1>7, <1>t, <2>0, <2>1 DEF SyncerWarps
    <3> QED BY <1>0, <1>t, <3>1, WarpHandles
  <2>2. CASE ~(v # NoVehicle /\ CanWarp(Top.ped, v, 0))
    BY <1>7, <1>b, <2>2 DEF SyncerWarps
  <2> QED BY <2>1, <2>2
<1> QED BY <1>1, <1>3, <1>4, <1>5, <1>6, <1>7 DEF Return

\* A jack starts.
LEMMA JackStarts ==
    ASSUME TypeOK, SeatsAgree, NEW p \in Peds, NEW v \in Vehicles,
           Asks(p), MayEnter(p), CanJack(v), StartJack(p, v, occupants[<<v, 0>>])
    PROVE  LET other == occupants[<<v, 0>>] IN
           /\ other \in Peds /\ other # p /\ occupied[other] = <<v, 0>> /\ action[other] = "NONE"
           /\ action[p] = "NONE" /\ ~InVehicle(p) /\ UNCHANGED seats
           /\ action'[p] = "JACKING" /\ action'[other] = "JACKED"
           /\ \A q \in Peds \ {p, other} : action'[q] = action[q]
           /\ jackingVehicle'[p] = v
           /\ \A q \in Peds \ {p} : jackingVehicle'[q] =
                 IF q = jackingPed[v] THEN NoVehicle ELSE jackingVehicle[q]
           /\ (calls # <<>>)' /\ Top' \in Calls /\ Top'.kind = "startJack"
           /\ Top'.ped = p /\ Top'.veh = v /\ Top'.other = other
           /\ Len(calls') = 1
<1> DEFINE other == occupants[<<v, 0>>]
<1>0. <<v, 0>> \in Places /\ 0 \in Seats
  BY SeatsAssumption DEF Places, Seats
<1>1. /\ other \in Peds /\ InVehicle(other) /\ occupied[other] = <<v, 0>> /\ action[other] = "NONE"
      /\ action[p] = "NONE" /\ ~InVehicle(p) /\ other # p /\ UNCHANGED seats
  BY <1>0, OccupantsAreIn DEF CanJack, MayEnter, StartJack
<1>2. PICK c \in Calls : c = Call("startJack", p, v, 0, other, FALSE)
  BY <1>0, <1>1, CallType DEF Events
<1>3. calls' = <<c>>
  BY <1>2, PushWhenIdle DEF StartJack, Asks
<1>4. /\ (calls # <<>>)' /\ Top' = c /\ c.kind = "startJack"
      /\ c.ped = p /\ c.veh = v /\ c.other = other /\ Len(calls') = 1
  BY <1>2, <1>3, OtherHandled DEF Call
<1>5. /\ action' = [action EXCEPT ![p] = "JACKING", ![other] = "JACKED"]
      /\ action \in [Peds -> Actions]
      /\ jackingVehicle' = [q \in Peds |-> IF q = p THEN v
                                           ELSE IF q = jackingPed[v] THEN NoVehicle
                                           ELSE jackingVehicle[q]]
  BY DEF StartJack, SetJackingVehicle, TypeOK
<1> HIDE DEF other
<1>6. /\ action'[p] = "JACKING" /\ action'[other] = "JACKED"
      /\ \A q \in Peds \ {p, other} : action'[q] = action[q]
  BY <1>1, <1>5
<1>7. /\ jackingVehicle'[p] = v
      /\ \A q \in Peds \ {p} : jackingVehicle'[q] =
            IF q = jackingPed[v] THEN NoVehicle ELSE jackingVehicle[q]
  BY <1>5
<1> QED BY <1>1, <1>2, <1>4, <1>6, <1>7 DEF other

\* As long as handlers only cancel events, while the events of a jack run its jacker
\* is jacking that vehicle and its victim is the driver, being jacked.
LEMMA JackInvariant ==
    ASSUME OnlyCancels
    PROVE  Spec => [](HandshakeInv /\ JackHandled)
<1>1. Init => HandshakeInv /\ JackHandled
  BY DEF Init, HandshakeInv, Handshakes, Handling, Handshaking, Running, JackHandled
<1>2. TypeOK /\ SeatsInv /\ HandshakeInv /\ JackHandled /\ [Next]_vars => (HandshakeInv /\ JackHandled)'
  <2> SUFFICES ASSUME TypeOK, SeatsInv, HandshakeInv, JackHandled, [Next]_vars
               PROVE  HandshakeInv' /\ JackHandled'
    OBVIOUS
  <2>1. CASE UNCHANGED vars
    BY <2>1 DEF vars, seats, links, HandshakeInv, Handshakes, Handling, Handshaking, Promised,
                Settles, InVehicle, Running, Top, JackHandled
  <2>2. ASSUME NEW p \in Peds, Packet(p) PROVE JackHandled'
    <3>1. ASSUME NEW v \in Vehicles, Asks(p), MayEnter(p), CanJack(v),
                 StartJack(p, v, occupants[<<v, 0>>])
          PROVE  JackHandled'
      <4> DEFINE other == occupants[<<v, 0>>]
      <4>1. /\ other \in Peds /\ occupied'[other] = <<v, 0>>
            /\ action'[p] = "JACKING" /\ action'[other] = "JACKED" /\ jackingVehicle'[p] = v
            /\ Top'.ped = p /\ Top'.veh = v /\ Top'.other = other
        BY <3>1, JackStarts DEF SeatsInv, seats
      <4> HIDE DEF other
      <4> QED BY <4>1 DEF JackHandled
    <3> QED BY <2>2, <3>1, PacketHandles
  <2>3. ASSUME Return PROVE JackHandled'
    <3>1. CASE /\ StartJackReturns
               /\ Top'.ped = Top.ped /\ Top'.veh = Top.veh /\ Top'.other = Top.other
      <4>1. /\ Top.kind = "startJack" /\ calls # <<>>
            /\ UNCHANGED <<seats, action, links>>
        BY <3>1 DEF StartJackReturns, Running, Top
      <4> QED BY <3>1, <4>1 DEF JackHandled, Jacks, seats, links
    <3>2. CASE ~(calls # <<>> /\ Top.kind \in Jacks)'
      BY <3>2 DEF JackHandled
    <3> QED BY <2>3, <3>1, <3>2, ReturnHandles
  <2> QED BY <2>1, <2>2, <2>3, OperationHandles, PacketHandshakes, OperationHandshakes,
             ReturnHandshakes DEF Next
<1> QED BY <1>1, <1>2, SeatsInvariant, TypeCorrect, PTL DEF Spec

-----------------------------------------------------------------------------
(* A jack is answered.                                                     *)

\* Handlers that only cancel events, and not the exit event of a jack; no ped
\* changes his syncer, and no vehicle is destroyed.
JacksGoOn ==
    /\ OnlyCancels /\ "jackExit" \notin Cancels
    /\ "syncer" \notin Ops /\ Destroyable \cap Vehicles = {}

\* The ped's client has still to say whether he has jacked.
Waits(p) == client[p].task = "jack" /\ ~client[p].late

\* The events that run will tell his client to jack.
StartsToJack(p) == calls # <<>> /\ Top.kind \in Jacks /\ Top.ped = p

JackersWait == \A p \in Peds : action[p] = "JACKING" => Waits(p) \/ StartsToJack(p)

\* A step that starts no jack and leaves alone the clients of those who go on jacking.
LEMMA JackersGoOn ==
    ASSUME \A q \in Peds : action'[q] = "JACKING" =>
              \/ Waits(q)' \/ StartsToJack(q)'
              \/ Waits(q) /\ client'[q] = client[q]
    PROVE  JackersWait'
BY DEF JackersWait, Waits

\* Packets, and those who are jacking.
LEMMA PacketWaits ==
    ASSUME TypeOK, SeatsInv, JackersWait, NEW p \in Peds, Packet(p)
    PROVE  JackersWait'
<1>c. calls = <<>>
  BY DEF Packet, RequestIn, RequestOut, NotifyFellOff, NotifyIn, NotifyInAbort, NotifyOut,
         NotifyJack, NotifyJackAbort, Wasted, Asks, HasAnswer, Idle
<1>0. /\ occupants \in [Places -> Peds \cup {NoPed}]
      /\ action \in [Peds -> Actions]
      /\ client \in [Peds -> Clients]
      /\ SeatsAgree /\ JackersAreOut
      /\ \A q \in Peds : action[q] = "JACKING" => Waits(q)
  BY <1>c DEF TypeOK, SeatsInv, JackersWait, StartsToJack
\* Only the client of a ped that is not jacking changes.
<1>q. ASSUME \A q \in Peds : action'[q] = "JACKING" => action[q] = "JACKING" /\ client'[q] = client[q]
      PROVE  JackersWait'
  BY <1>0, <1>q, JackersGoOn
<1>a. Asks(p) => action[p] # "JACKING"
  BY <1>0 DEF Asks, Waits
<1>i. ASSUME Ignored(p), action[p] # "JACKING" PROVE JackersWait'
  <2>1. UNCHANGED action /\ \A q \in Peds \ {p} : client'[q] = client[q]
    BY <1>0, <1>i DEF Ignored
  <2> QED BY <1>i, <1>q, <2>1
<1>1. ASSUME NEW v \in Vehicles, NEW s \in Seats, RequestIn(p, v, s) PROVE JackersWait'
  <2>0. /\ action[p] # "JACKING" /\ Asks(p)
        /\ \A q \in Peds \ {p} : client'[q] = client[q]
    BY <1>0, <1>1, <1>a DEF RequestIn
  <2>1. ASSUME NEW t \in SeatFor(v, s), StartEnter(p, v, t) PROVE JackersWait'
    <3>1. action'[p] = "ENTERING" /\ \A q \in Peds \ {p} : action'[q] = action[q]
      BY <1>0, <2>1 DEF StartEnter
    <3> QED BY <1>q, <2>0, <3>1
  <2>2. ASSUME MayEnter(p), CanJack(v), StartJack(p, v, occupants[<<v, 0>>]) PROVE JackersWait'
    <3>1. /\ \A q \in Peds \ {p} : action'[q] \in {action[q], "JACKED"}
          /\ (calls # <<>>)' /\ Top'.kind = "startJack" /\ Top'.ped = p
      BY <1>0, <2>0, <2>2, JackStarts
    <3>2. \A q \in Peds : q = p => StartsToJack(q)'
      BY <3>1 DEF StartsToJack, Jacks
    <3> QED BY <1>0, <2>0, <3>1, <3>2, JackersGoOn
  <2>3. ASSUME UNCHANGED action PROVE JackersWait'
    BY <1>q, <2>0, <2>3
  <2> QED BY <1>1, <2>1, <2>2, <2>3 DEF RequestIn
<1>2. ASSUME NotifyIn(p) \/ NotifyInAbort(p) \/ NotifyOut(p) PROVE JackersWait'
  <2>1. action[p] # "JACKING"
    BY <1>0, <1>2 DEF NotifyIn, NotifyInAbort, NotifyOut, HasAnswer, Waits
  <2>2. CASE action' = [action EXCEPT ![p] = "NONE"] /\ client' = [client EXCEPT ![p] = Free]
    <3>1. action'[p] = "NONE"
      BY <1>0, <2>2
    <3>2. \A q \in Peds \ {p} : action'[q] = action[q] /\ client'[q] = client[q]
      BY <1>0, <2>2
    <3> QED BY <1>q, <3>1, <3>2
  <2> QED BY <1>2, <1>i, <2>1, <2>2 DEF NotifyIn, NotifyInAbort, NotifyOut
<1>3. ASSUME NEW v \in Vehicles, RequestOut(p, v) \/ NotifyFellOff(p, v) PROVE JackersWait'
  <2>1. /\ action[p] # "JACKING" /\ UNCHANGED action
        /\ \A q \in Peds \ {p} : client'[q] = client[q]
    BY <1>0, <1>3, <1>a DEF RequestOut, NotifyFellOff, HasAnswer, Waits
  <2> QED BY <1>q, <2>1
<1>4. ASSUME NotifyJack(p) PROVE JackersWait'
  <2>1. CASE action[p] # "JACKING"
    BY <1>4, <1>i, <2>1 DEF NotifyJack
  <2>2. CASE action[p] = "JACKING"
    <3> DEFINE jacked == occupants[<<client[p].veh, 0>>]
    <3>1. /\ action' = [q \in Peds |-> IF q \in {p, jacked} THEN "NONE" ELSE action[q]]
          /\ client' = [q \in Peds |-> IF q = p THEN Free
                                       ELSE IF q = jacked THEN Reset(client[q])
                                       ELSE client[q]]
      BY <1>4, <2>2 DEF NotifyJack
    <3> HIDE DEF jacked
    <3> QED BY <1>q, <3>1
  <2> QED BY <2>1, <2>2
<1>5. ASSUME NEW started \in BOOLEAN, NotifyJackAbort(p, started) PROVE JackersWait'
  <2>1. CASE action[p] # "JACKING"
    BY <1>5, <1>i, <2>1 DEF NotifyJackAbort
  <2>2. CASE action[p] = "JACKING"
    <3> DEFINE v == client[p].veh
               jacked == occupants[<<v, 0>>]
               thrown == started /\ jacked # NoPed
    <3>1. /\ action' = [q \in Peds |-> IF q = p \/ (~thrown /\ q = jacked) THEN "NONE"
                                       ELSE action[q]]
          /\ client' = [q \in Peds |-> IF q = p THEN Free
                                       ELSE IF thrown /\ q = jacked THEN Reset(client[q])
                                       ELSE client[q]]
      BY <1>5, <2>2 DEF NotifyJackAbort
    <3>2. v \in Vehicles
      <4>1. client[p].task = "jack" /\ client[p] \in Clients
        BY <1>0, <1>5 DEF NotifyJackAbort, HasAnswer
      <4> QED BY <4>1 DEF Clients, Free
    <3>3. thrown => jacked \in Peds /\ action[jacked] # "JACKING"
      <4>1. <<v, 0>> \in Places
        BY <3>2, SeatsAssumption DEF Places, Seats
      <4> QED BY <1>0, <4>1, OccupantsAreIn DEF JackersAreOut
    <3> HIDE DEF v, jacked, thrown
    <3> QED BY <1>q, <3>1, <3>3
  <2> QED BY <2>1, <2>2
<1>6. ASSUME Wasted(p) PROVE JackersWait'
  <2>1. /\ UNCHANGED client
        /\ action' = [action EXCEPT ![p] = IF action[p] = "JACKING" THEN action[p] ELSE "NONE"]
    BY <1>6 DEF Wasted, Dies
  <2>2. \A q \in Peds : action'[q] = "JACKING" => action[q] = "JACKING"
    BY <1>0, <2>1
  <2> QED BY <1>q, <2>1, <2>2
<1> QED BY <1>1, <1>2, <1>3, <1>4, <1>5, <1>6 DEF Packet

\* A warp changes the action and the client of nobody but the ped, and ends his action.
LEMMA WarpChanges ==
    ASSUME TypeOK, NEW p \in Peds, NEW v, NEW s, NEW was, NEW below,
           TakeSeatFrom(was, p, v, s, below) \/ WarpPedIntoVehicle(p, v, s, below)
    PROVE  /\ action'[p] \in {action[p], "NONE"}
           /\ \A q \in Peds \ {p} : action'[q] = action[q] /\ client'[q] = client[q]
           /\ action'[p] # "NONE" => client'[p] = client[p]
BY DEF TypeOK, TakeSeatFrom, WarpPedIntoVehicle, TakeSeat, ResetClients

\* What scripts and the server do, and those who are jacking.
LEMMA OperationWaits ==
    ASSUME TypeOK, JacksGoOn, SeatsInv, JackersWait, Operation
    PROVE  JackersWait'
<1>c. calls = <<>>
  BY DEF Operation, ScriptWarps, ScriptRemoves, ScriptKills, SpawnPlayer, SyncerChanges,
         PedIsDeleted, VehicleIsDeleted, Operates, JacksGoOn, OnlyCancels, Idle
<1>0. /\ action \in [Peds -> Actions]
      /\ \A q \in Peds : action[q] = "JACKING" => Waits(q)
  BY <1>c DEF TypeOK, JackersWait, StartsToJack
<1>q. ASSUME \A q \in Peds : action'[q] = "JACKING" => action[q] = "JACKING" /\ client'[q] = client[q]
      PROVE  JackersWait'
  BY <1>0, <1>q, JackersGoOn
<1>1. ASSUME NEW p \in Peds, NEW v \in Vehicles, NEW s \in Seats, ScriptWarps(p, v, s)
      PROVE  JackersWait'
  <2>1. WarpPedIntoVehicle(p, v, s, calls)
    BY <1>1 DEF ScriptWarps
  <2>2. /\ action'[p] \in {action[p], "NONE"}
        /\ \A q \in Peds \ {p} : action'[q] = action[q] /\ client'[q] = client[q]
        /\ action'[p] # "NONE" => client'[p] = client[p]
    BY <2>1, WarpChanges
  <2> QED BY <1>q, <2>2
<1>2. ASSUME NEW p \in Peds, ScriptRemoves(p) PROVE JackersWait'
  BY <1>2, <1>q DEF ScriptRemoves
<1>3. ASSUME NEW p \in Peds, ScriptKills(p) PROVE JackersWait'
  <2>1. /\ UNCHANGED client
        /\ action' = [action EXCEPT ![p] = IF action[p] = "JACKING" THEN action[p] ELSE "NONE"]
    BY <1>3 DEF ScriptKills, Dies
  <2>2. \A q \in Peds : action'[q] = "JACKING" => action[q] = "JACKING"
    BY <1>0, <2>1
  <2> QED BY <1>q, <2>1, <2>2
<1>4. ASSUME NEW p \in Peds, SpawnPlayer(p) PROVE JackersWait'
  <2>1. PICK S : /\ action' = [q \in Peds |-> IF q \in S THEN "NONE" ELSE action[q]]
                 /\ client' = ResetClients(S)
    BY <1>4 DEF SpawnPlayer
  <2>2. \A q \in Peds : action'[q] = "JACKING" => action[q] = "JACKING" /\ client'[q] = client[q]
    BY <2>1 DEF ResetClients
  <2> QED BY <1>q, <2>2
<1>5. ASSUME NEW p \in Peds, PedIsDeleted(p) PROVE JackersWait'
  <2> DEFINE victim == IF jackingVehicle[p] # NoVehicle /\ action[p] = "JACKING"
                       THEN occupants[<<jackingVehicle[p], 0>>] ELSE NoPed
  <2>1. /\ action' = [q \in Peds |-> IF q \in {p, victim} THEN "NONE" ELSE action[q]]
        /\ client' = [q \in Peds |-> IF q = p THEN Free
                                     ELSE IF q = victim THEN Reset(client[q]) ELSE client[q]]
    BY <1>5 DEF PedIsDeleted
  <2> HIDE DEF victim
  <2> QED BY <1>q, <2>1
<1>6. ASSUME NEW v \in Vehicles, VehicleIsDeleted(v) PROVE FALSE
  BY <1>6 DEF VehicleIsDeleted, JacksGoOn
<1>7. ASSUME NEW p \in Peds, SyncerChanges(p) PROVE FALSE
  BY <1>7 DEF SyncerChanges, Operates, JacksGoOn
<1> QED BY <1>1, <1>2, <1>3, <1>4, <1>5, <1>6, <1>7 DEF Operation

\* Going on when an event has returned, and those who are jacking.
LEMMA ReturnWaits ==
    ASSUME TypeOK, JacksGoOn, SeatsInv, HandshakeInv, JackHandled, JackersWait, Return
    PROVE  JackersWait'
<1>c. calls # <<>>
  BY DEF Return, SeatIsFreed, WarpedReturns, RemovingReturns, StartEnterReturns,
         OverrideSyncerReturns, StartEnterIsCancelled, StartJackReturns, StartJackIsCancelled,
         JackExitReturns, JackExitIsCancelled, StartExitReturns, StartExitIsCancelled,
         FellOffReturns, JackAbortReturns, SyncerRemoves, SyncerWarps, SyncerIsSet, Running
<1>0. /\ action \in [Peds -> Actions] /\ client \in [Peds -> Clients]
      /\ Handling /\ CallsFit
  BY DEF TypeOK, HandshakeInv, SeatsInv
<1>t. /\ Top \in Calls /\ Top.ped \in Peds
      /\ \A q \in Peds : action[q] = "JACKING" => Waits(q) \/ (Top.kind \in Jacks /\ Top.ped = q)
  BY <1>0, <1>c, SuspendedCalls, CallParts DEF JackersWait, StartsToJack
\* The handler is not about a jack.
<1>q. ASSUME Top.kind \notin Jacks,
             \A q \in Peds \ {Top.ped} : action'[q] = action[q] /\ client'[q] = client[q],
             \/ action'[Top.ped] # "JACKING"
             \/ action'[Top.ped] = action[Top.ped] /\ client'[Top.ped] = client[Top.ped]
      PROVE  JackersWait'
  BY <1>q, <1>t, JackersGoOn
<1>1. ASSUME SeatIsFreed PROVE JackersWait'
  <2>1. /\ Top.kind = "seat"
        /\ TakeSeatFrom(occupied, Top.ped, Top.veh, Top.seat, Tail(calls))
    BY <1>1 DEF SeatIsFreed, Running, Top, TakeSeat
  <2>2. /\ action'[Top.ped] \in {action[Top.ped], "NONE"}
        /\ \A q \in Peds \ {Top.ped} : action'[q] = action[q] /\ client'[q] = client[q]
        /\ action'[Top.ped] # "NONE" => client'[Top.ped] = client[Top.ped]
    BY <1>t, <2>1, WarpChanges
  <2> QED BY <1>q, <2>1, <2>2 DEF Jacks
<1>2. ASSUME RemovingReturns PROVE JackersWait'
  <2>1. /\ Top.kind = "removing" /\ action' = [action EXCEPT ![Top.ped] = "NONE"]
        /\ client' = ResetClients({Top.ped})
    BY <1>2 DEF RemovingReturns, Running, Top
  <2>2. /\ action'[Top.ped] = "NONE"
        /\ \A q \in Peds \ {Top.ped} : action'[q] = action[q] /\ client'[q] = client[q]
    BY <1>0, <1>t, <2>1 DEF ResetClients
  <2> QED BY <1>q, <2>1, <2>2 DEF Jacks
<1>3. ASSUME StartEnterReturns \/ OverrideSyncerReturns PROVE JackersWait'
  <2>1. Top.kind \in {"startEnter", "override"} /\ action[Top.ped] = "ENTERING"
    BY <1>0, <1>3 DEF StartEnterReturns, OverrideSyncerReturns, Running, Top, Handling
  <2>2. CASE ConfirmEnter(Top.ped, Top.veh, Top.seat, Top.other, Top.warp, Tail(calls))
    <3>1. \/ UNCHANGED <<action, client>>
          \/ client' = [client EXCEPT ![Top.ped] = Owes("in", Top.veh)] /\ UNCHANGED action
          \/ action' = [action EXCEPT ![Top.ped] = "NONE"] /\ UNCHANGED client
          \/ \E was : \/ TakeSeatFrom(was, Top.ped, Top.veh, Top.seat, Tail(calls))
                      \/ WarpPedIntoVehicle(Top.ped, Top.veh, Top.seat, Tail(calls))
      BY <2>2 DEF ConfirmEnter
    <3>2. CASE \E was : \/ TakeSeatFrom(was, Top.ped, Top.veh, Top.seat, Tail(calls))
                        \/ WarpPedIntoVehicle(Top.ped, Top.veh, Top.seat, Tail(calls))
      <4>1. /\ action'[Top.ped] \in {action[Top.ped], "NONE"}
            /\ \A q \in Peds \ {Top.ped} : action'[q] = action[q] /\ client'[q] = client[q]
        BY <1>t, <3>2, WarpChanges
      <4> QED BY <1>q, <2>1, <4>1 DEF Jacks
    <3>3. CASE \/ UNCHANGED <<action, client>>
               \/ client' = [client EXCEPT ![Top.ped] = Owes("in", Top.veh)] /\ UNCHANGED action
               \/ action' = [action EXCEPT ![Top.ped] = "NONE"] /\ UNCHANGED client
      <4>1. /\ action'[Top.ped] \in {action[Top.ped], "NONE"}
            /\ \A q \in Peds \ {Top.ped} : action'[q] = action[q] /\ client'[q] = client[q]
        BY <1>0, <1>t, <3>3
      <4> QED BY <1>q, <2>1, <4>1 DEF Jacks
    <3> QED BY <3>1, <3>2, <3>3
  <2>3. CASE UNCHANGED <<action, client>>
    BY <1>q, <2>1, <2>3 DEF Jacks
  <2> QED BY <1>3, <2>2, <2>3 DEF StartEnterReturns, OverrideSyncerReturns
<1>4. ASSUME StartJackReturns PROVE JackersWait'
  <2>1. /\ Top.kind = "startJack" /\ UNCHANGED <<action, client>>
        /\ action[Top.ped] = "JACKING"
        /\ calls' = Become([Top EXCEPT !.kind = "jackExit"])
    BY <1>4, <1>c DEF StartJackReturns, Running, Top, JackHandled, Jacks
  <2>2. [Top EXCEPT !.kind = "jackExit"] \in Calls
    BY <1>t, <2>1 DEF Calls, CallsOf, Events, SyncerCalls
  <2>3. PICK c \in Calls : c = [Top EXCEPT !.kind = "jackExit"]
    BY <2>2
  <2>4. c.kind = "jackExit" /\ c.ped = Top.ped
    BY <1>t, <2>3 DEF Calls, CallsOf
  <2>5. calls' = <<c>>
    <3>1. calls' = <<c>> \o Tail(calls)
      BY <2>1, <2>3 DEF Become
    <3>2. Tail(calls) = <<>>
      BY <1>0, <1>c, <2>1, SuspendedCalls
    <3>3. calls' = <<c>> \o <<>>
      BY ONLY <3>1, <3>2
    <3>4. <<c>> \o <<>> = <<c>>
      OBVIOUS
    <3> QED BY <3>3, <3>4
  <2>6. Top' = c /\ (calls # <<>>)'
    BY <2>5, OtherHandled
  <2>7. \A q \in Peds : q = Top.ped => StartsToJack(q)'
    BY <2>4, <2>6 DEF StartsToJack, Jacks
  <2> QED BY <1>t, <2>1, <2>7, JackersGoOn
<1>5. ASSUME StartJackIsCancelled PROVE JackersWait'
  <2>1. /\ action' = [action EXCEPT ![Top.ped] = "NONE", ![Top.other] = "NONE"]
        /\ UNCHANGED client
    BY <1>5 DEF StartJackIsCancelled
  <2>2. \A q \in Peds : action'[q] = "JACKING" => action[q] = "JACKING" /\ q # Top.ped
    BY <1>0, <2>1
  <2> QED BY <1>t, <2>1, <2>2, JackersGoOn
<1>6. ASSUME JackExitReturns PROVE JackersWait'
  <2>1. Top.kind = "jackExit" /\ action[Top.other] = "JACKED"
    BY <1>6, <1>c DEF JackExitReturns, Running, Top, JackHandled, Jacks
  <2>2. /\ client' = [client EXCEPT ![Top.ped] = Owes("jack", Top.veh)] /\ UNCHANGED action
    BY <1>6, <2>1 DEF JackExitReturns
  <2>3. \A q \in Peds : q = Top.ped => Waits(q)'
    BY <1>0, <2>2 DEF Waits, Owes
  <2>4. \A q \in Peds \ {Top.ped} : client'[q] = client[q]
    BY <1>0, <2>2
  <2> QED BY <1>t, <2>2, <2>3, <2>4, JackersGoOn
<1>7. ASSUME JackExitIsCancelled PROVE FALSE
  BY <1>7 DEF JackExitIsCancelled, JacksGoOn
<1>8. ASSUME StartExitReturns PROVE JackersWait'
  <2>1. /\ Top.kind = "startExit"
        /\ \/ UNCHANGED <<action, client>>
           \/ /\ action' = [action EXCEPT ![Top.ped] = "EXITING"]
              /\ client' = [client EXCEPT ![Top.ped] = Owes("out", Top.veh)]
    BY <1>8 DEF StartExitReturns, Running, Top
  <2>2. \/ UNCHANGED <<action, client>>
        \/ /\ action'[Top.ped] = "EXITING"
           /\ \A q \in Peds \ {Top.ped} : action'[q] = action[q] /\ client'[q] = client[q]
    BY <1>0, <1>t, <2>1
  <2> QED BY <1>q, <2>1, <2>2 DEF Jacks
<1>9. ASSUME StartEnterIsCancelled \/ FellOffReturns \/ JackAbortReturns PROVE JackersWait'
  <2>1. /\ Top.kind \notin Jacks /\ UNCHANGED client
        /\ action' = [action EXCEPT ![Top.ped] = "NONE"]
    BY <1>9 DEF StartEnterIsCancelled, FellOffReturns, JackAbortReturns, Running, Top, Jacks
  <2>2. action'[Top.ped] = "NONE" /\ \A q \in Peds \ {Top.ped} : action'[q] = action[q]
    BY <1>0, <1>t, <2>1
  <2> QED BY <1>q, <2>1, <2>2
<1>10. ASSUME WarpedReturns \/ StartExitIsCancelled \/ SyncerRemoves \/ SyncerIsSet
       PROVE  JackersWait'
  <2>1. Top.kind \notin Jacks /\ UNCHANGED <<action, client>>
    BY <1>10 DEF WarpedReturns, StartExitIsCancelled, SyncerRemoves, SyncerIsSet, Running, Top, Jacks
  <2> QED BY <1>q, <2>1
<1>11. ASSUME SyncerWarps PROVE JackersWait'
  <2>1. /\ Top.kind \notin Jacks
        /\ \/ UNCHANGED <<action, client>>
           \/ WarpPedIntoVehicle(Top.ped, jackingVehicle[Top.ped], 0, Tail(calls))
    BY <1>11 DEF SyncerWarps, Running, Top, Jacks
  <2>2. /\ \A q \in Peds \ {Top.ped} : action'[q] = action[q] /\ client'[q] = client[q]
        /\ \/ action'[Top.ped] = "NONE"
           \/ action'[Top.ped] = action[Top.ped] /\ client'[Top.ped] = client[Top.ped]
    BY <1>t, <2>1, WarpChanges
  <2> QED BY <1>q, <2>1, <2>2
<1> QED BY <1>1, <1>2, <1>3, <1>4, <1>5, <1>6, <1>7, <1>8, <1>9, <1>10, <1>11 DEF Return

\* When handlers only cancel the events before a jack, no ped changes his syncer and
\* no vehicle is destroyed, the server waits for no jack that no client plays:
\* whenever no handler is suspended, the client of every ped that is jacking has
\* still to send VEHICLE_NOTIFY_JACK or VEHICLE_NOTIFY_JACK_ABORT.
THEOREM JacksAnswered ==
    ASSUME JacksGoOn
    PROVE  Spec => []JackAnswered
<1>0. OnlyCancels
  BY DEF JacksGoOn
<1>1. Init => JackersWait
  BY DEF Init, JackersWait
<1>2. TypeOK /\ SeatsInv /\ HandshakeInv /\ JackHandled /\ JackersWait /\ [Next]_vars => JackersWait'
  <2> SUFFICES ASSUME TypeOK, SeatsInv, HandshakeInv, JackHandled, JackersWait, [Next]_vars
               PROVE  JackersWait'
    OBVIOUS
  <2>1. CASE UNCHANGED vars
    BY <2>1 DEF vars, JackersWait, Waits, StartsToJack, Top
  <2> QED BY <2>1, PacketWaits, OperationWaits, ReturnWaits DEF Next
<1>3. JackersWait => JackAnswered
  BY DEF JackersWait, JackAnswered, Waits, StartsToJack, Idle
<1> QED BY <1>0, <1>1, <1>2, <1>3, SeatsInvariant, TypeCorrect, JackInvariant, PTL DEF Spec

-----------------------------------------------------------------------------
(* Nobody is left jacked.                                                  *)

\* Handlers only cancel events, and scripts warp nobody into a vehicle.
NobodyWarps == OnlyCancels /\ "warp" \notin Ops

HasJacker(v) == \E p \in Peds : action[p] = "JACKING" /\ jackingVehicle[p] = v

\* A ped that is being jacked in a vehicle is its driver.
Victims == \A q \in Peds : action[q] = "JACKED" /\ InVehicle(q) =>
              occupied[q][2] = 0 /\ HasJacker(occupied[q][1])

\* The client of a jacker jacks the vehicle the server has for him, if it has one.
Knows == \A p \in Peds : action[p] = "JACKING" /\ client[p].task = "jack" =>
            jackingVehicle[p] \in {client[p].veh, NoVehicle}

\* Only a jacker whose syncer changes waits for a seat to be emptied, and handlers
\* that end a ped's action are not about a jacker.
CallFits(c) ==
    /\ c.kind = "seat" => c.seat = 0 /\ jackingVehicle[c.ped] = c.veh
    /\ c.kind \in {"fellOff", "jackAbort"} => action[c.ped] # "JACKING"

JackFits == \A i \in 1..Len(calls) : CallFits(calls[i])

VictimInv == Victims /\ Knows /\ JackFits

\* A step in which nobody starts to be jacked, and every jacker goes on or has no
\* victim any more.
LEMMA VictimsGoOn ==
    ASSUME TypeOK, Victims,
           \A q \in Peds : action'[q] = "JACKED" /\ InVehicle(q)' =>
              action[q] = "JACKED" /\ occupied'[q] = occupied[q],
           \A p \in Peds : action[p] = "JACKING" =>
              \/ action'[p] = "JACKING" /\ jackingVehicle'[p] = jackingVehicle[p]
              \/ \A q \in Peds : occupied[q] = <<jackingVehicle[p], 0>> =>
                    action'[q] # "JACKED" \/ ~InVehicle(q)'
    PROVE  Victims'
<1> SUFFICES ASSUME NEW q \in Peds, action'[q] = "JACKED", InVehicle(q)'
             PROVE  occupied'[q][2] = 0 /\ HasJacker(occupied[q][1])'
  BY DEF Victims
<1>1. action[q] = "JACKED" /\ occupied'[q] = occupied[q] /\ InVehicle(q)
  BY DEF InVehicle
<1>2. PICK p \in Peds : action[p] = "JACKING" /\ jackingVehicle[p] = occupied[q][1]
  BY <1>1 DEF Victims, HasJacker
<1>3. occupied[q] = <<jackingVehicle[p], 0>>
  BY <1>1, <1>2, PlaceParts DEF Victims
<1>4. action'[p] = "JACKING" /\ jackingVehicle'[p] = jackingVehicle[p]
  BY <1>2, <1>3
<1>5. occupied'[q][1] = jackingVehicle'[p] /\ occupied'[q][2] = 0
  BY <1>1, <1>2, <1>3, <1>4
<1> QED BY <1>1, <1>2, <1>4, <1>5 DEF HasJacker

\* A step that tells nobody to jack.
LEMMA KnowsGoOn ==
    ASSUME Knows,
           \A p \in Peds : action'[p] = "JACKING" /\ client'[p].task = "jack" =>
              /\ action[p] = "JACKING" /\ client'[p] = client[p]
              /\ jackingVehicle'[p] \in {jackingVehicle[p], NoVehicle}
    PROVE  Knows'
BY DEF Knows

\* What is handled now is about no jacker.
LEMMA NothingFits ==
    ASSUME \/ calls' = <<>>
           \/ \E c \in Calls : /\ c.kind \notin {"seat", "fellOff", "jackAbort"}
                               /\ \/ calls' = <<c>>
                                  \/ \E d \in Calls : d.kind = "drag" /\ calls' = <<c, d>>
    PROVE  JackFits'
<1>1. ASSUME NEW c \in Calls, c.kind \notin {"seat", "fellOff", "jackAbort"},
             \/ calls' = <<c>>
             \/ \E d \in Calls : d.kind = "drag" /\ calls' = <<c, d>>
      PROVE  \A i \in 1..Len(calls') : calls'[i].kind \notin {"seat", "fellOff", "jackAbort"}
  <2>1. CASE calls' = <<c>>
    BY <1>1, <2>1
  <2>2. ASSUME NEW d \in Calls, d.kind = "drag", calls' = <<c, d>>
        PROVE  \A i \in 1..Len(calls') : calls'[i].kind \notin {"seat", "fellOff", "jackAbort"}
    BY <1>1, <2>2
  <2> QED BY <1>1, <2>1, <2>2
<1> QED BY <1>1 DEF JackFits, CallFits

\* What is handled now fits.
LEMMA OneFits ==
    ASSUME NEW c \in Calls, CallFits(c)', calls' = <<c>>
    PROVE  JackFits'
BY DEF JackFits

\* Those who do not sit in the seat, as the seat has it.
LEMMA OnlyOccupant ==
    ASSUME TypeOK, SeatsAgree, NEW v \in Vehicles \cup {NoVehicle}, NEW q \in Peds,
           occupied[q] = <<v, 0>>
    PROVE  \/ v \in Vehicles /\ occupants[<<v, 0>>] = q
           \/ v = NoVehicle /\ ~InVehicle(q)
<1>1. 0 \in Seats
  BY SeatsAssumption DEF Seats
<1> QED BY <1>1 DEF SeatsAgree, Places, InVehicle, Out

\* Packets, and those who are jacked.
LEMMA PacketVictims ==
    ASSUME TypeOK, SeatsInv, JackLinks, VictimInv, NEW p \in Peds, Packet(p)
    PROVE  VictimInv'
<1>c. calls = <<>>
  BY DEF Packet, RequestIn, RequestOut, NotifyFellOff, NotifyIn, NotifyInAbort, NotifyOut,
         NotifyJack, NotifyJackAbort, Wasted, Asks, HasAnswer, Idle
<1>0. /\ occupied \in [Peds -> Places \cup {Out}]
      /\ occupants \in [Places -> Peds \cup {NoPed}]
      /\ action \in [Peds -> Actions]
      /\ client \in [Peds -> Clients]
      /\ jackingVehicle \in [Peds -> Vehicles \cup {NoVehicle}]
      /\ SeatsAgree /\ JackersAreOut
      /\ Victims /\ Knows
  BY DEF TypeOK, SeatsInv, VictimInv
<1>o. occupied[p][2] \in Seats /\ 0 \in Seats /\ \A v \in Vehicles : <<v, 0>> \in Places
  BY PlaceParts, SeatsAssumption DEF Seats, Places
<1>p. ASSUME NEW c \in Calls PROVE Push(c) = <<c>>
  BY <1>c, PushWhenIdle DEF Idle
\* Only a ped that is not jacking takes part.
<1>q. ASSUME action[p] # "JACKING", action'[p] # "JACKING",
             action'[p] = "JACKED" /\ InVehicle(p)' => action[p] = "JACKED" /\ occupied'[p] = occupied[p],
             \A q \in Peds \ {p} : /\ occupied'[q] = occupied[q] /\ action'[q] = action[q]
                                   /\ client'[q] = client[q],
             UNCHANGED links
      PROVE  Victims' /\ Knows'
  <2>1. \A q \in Peds : action'[q] = "JACKED" /\ InVehicle(q)' =>
           action[q] = "JACKED" /\ occupied'[q] = occupied[q]
    BY <1>q
  <2>2. Victims'
    BY <1>0, <1>q, <2>1, VictimsGoOn DEF links
  <2>3. Knows'
    BY <1>0, <1>q, KnowsGoOn DEF links
  <2> QED BY <2>2, <2>3
\* The server has done nothing but take note of the packet.
<1>i. ASSUME UNCHANGED <<seats, action, links>>,
             client'[p].task # "jack",
             \A q \in Peds \ {p} : client'[q] = client[q]
      PROVE  Victims' /\ Knows'
  <2>1. Victims'
    BY <1>0, <1>i, VictimsGoOn DEF links, seats, InVehicle
  <2>2. Knows'
    BY <1>0, <1>i, KnowsGoOn DEF links
  <2> QED BY <2>1, <2>2
<1>j. ASSUME Ignored(p), client[p].task \in {"in", "out", "jack"} PROVE VictimInv'
  <2>1. /\ calls' = <<>> /\ UNCHANGED <<seats, action, links>>
        /\ client' = [client EXCEPT ![p] = IF @.late THEN Free ELSE [@ EXCEPT !.task = "waiting"]]
    BY <1>c, <1>j DEF Ignored
  <2>2. client'[p].task # "jack" /\ \A q \in Peds \ {p} : client'[q] = client[q]
    <3>1. client[p] \in [task : Tasks, veh : Vehicles, late : BOOLEAN]
      BY <1>0, <1>j DEF Clients, Free
    <3> QED BY <1>0, <2>1, <3>1 DEF Free
  <2> QED BY <1>i, <2>1, <2>2, NothingFits DEF VictimInv
<1>1. ASSUME NEW v \in Vehicles, NEW s \in Seats, RequestIn(p, v, s) PROVE VictimInv'
  <2>0. /\ client' = [client EXCEPT ![p] = Free] /\ Asks(p)
        /\ client'[p].task = "none" /\ \A q \in Peds \ {p} : client'[q] = client[q]
    BY <1>0, <1>1 DEF RequestIn, Free
  <2>1. ASSUME NEW t \in SeatFor(v, s), MayEnter(p), StartEnter(p, v, t) PROVE VictimInv'
    <3>1. t \in Seats
      BY SeatsAssumption DEF SeatFor, FreePassengerSeat, Seats
    <3>2. PICK w \in BOOLEAN, q \in Sender(p) : calls' = Push(Call("startEnter", p, v, t, q, w))
      BY <2>1 DEF StartEnter
    <3>3. q \in Peds
      BY PlayersAssumption DEF Sender
    <3>4. PICK c \in Calls : c = Call("startEnter", p, v, t, q, w)
      BY <3>1, <3>3, CallType DEF Events
    <3>5. JackFits'
      BY <1>p, <3>2, <3>4, NothingFits DEF Call
    <3>6. /\ \A r \in Peds \ {p} : occupied'[r] = occupied[r] /\ action'[r] = action[r]
          /\ action[p] = "NONE" /\ action'[p] = "ENTERING" /\ UNCHANGED links
      BY <1>0, <2>1 DEF StartEnter, SetOccupiedVehicle, MayEnter
    <3> QED BY <1>q, <2>0, <3>5, <3>6 DEF VictimInv
  <2>2. ASSUME MayEnter(p), CanJack(v), StartJack(p, v, occupants[<<v, 0>>]) PROVE VictimInv'
    <3> DEFINE other == occupants[<<v, 0>>]
    <3>1. /\ other \in Peds /\ other # p /\ occupied[other] = <<v, 0>> /\ action[other] = "NONE"
          /\ action[p] = "NONE" /\ ~InVehicle(p) /\ UNCHANGED seats
          /\ action'[p] = "JACKING" /\ action'[other] = "JACKED"
          /\ \A q \in Peds \ {p, other} : action'[q] = action[q]
          /\ jackingVehicle'[p] = v
          /\ \A q \in Peds \ {p} : jackingVehicle'[q] =
                IF q = jackingPed[v] THEN NoVehicle ELSE jackingVehicle[q]
          /\ Top' \in Calls /\ Top'.kind = "startJack"
      BY <1>0, <2>0, <2>2, JackStarts
    <3>2. \A q \in Peds : q = other <=> occupied[q] = <<v, 0>>
      BY <1>0, <1>o DEF SeatsAgree
    <3> HIDE DEF other
    <3>3. Victims'
      <4> SUFFICES ASSUME NEW q \in Peds, action'[q] = "JACKED", InVehicle(q)'
                   PROVE  occupied'[q][2] = 0 /\ HasJacker(occupied[q][1])'
        BY DEF Victims
      <4>1. CASE q = other
        BY <3>1, <4>1 DEF HasJacker, seats
      <4>2. CASE q # other
        <5>1. action[q] = "JACKED" /\ InVehicle(q) /\ occupied'[q] = occupied[q]
          BY <3>1, <4>2 DEF seats, InVehicle
        <5>2. PICK r \in Peds : action[r] = "JACKING" /\ jackingVehicle[r] = occupied[q][1]
          BY <1>0, <5>1 DEF Victims, HasJacker
        <5>3. occupied[q] = <<jackingVehicle[r], 0>>
          BY <1>0, <5>1, <5>2, PlaceParts DEF Victims
        <5>4. r # jackingPed[v]
          BY <3>2, <4>2, <5>3 DEF JackLinks
        <5>5. action'[r] = "JACKING" /\ jackingVehicle'[r] = jackingVehicle[r]
          BY <3>1, <5>2, <5>4
        <5> QED BY <1>0, <5>1, <5>2, <5>5 DEF HasJacker, Victims
      <4> QED BY <4>1, <4>2
    <3>4. Knows'
      <4>1. \A q \in Peds : action'[q] = "JACKING" /\ client'[q].task = "jack" =>
               /\ action[q] = "JACKING" /\ client'[q] = client[q]
               /\ jackingVehicle'[q] \in {jackingVehicle[q], NoVehicle}
        BY <2>0, <3>1
      <4> QED BY <1>0, <4>1, KnowsGoOn
    <3>5. JackFits'
      <4>1. PICK c \in Calls : c = Call("startJack", p, v, 0, other, FALSE)
        BY <1>o, <3>1, CallType DEF Events
      <4>2. calls' = Push(c)
        BY <2>2, <4>1 DEF StartJack, other
      <4>3. calls' = <<c>> /\ c.kind = "startJack"
        BY <1>p, <4>1, <4>2 DEF Call
      <4> QED BY <4>3, NothingFits
    <3> QED BY <3>3, <3>4, <3>5 DEF VictimInv
  <2>3. ASSUME UNCHANGED <<seats, action, links, calls>> PROVE VictimInv'
    BY <1>c, <1>i, <2>0, <2>3, NothingFits DEF VictimInv
  <2> QED BY <1>1, <2>1, <2>2, <2>3 DEF RequestIn
<1>2. ASSUME NotifyIn(p) \/ NotifyInAbort(p) \/ NotifyOut(p) PROVE VictimInv'
  <2>1. CASE Ignored(p)
    BY <1>2, <1>j, <2>1 DEF NotifyIn, NotifyInAbort, NotifyOut, HasAnswer
  <2>2. CASE ~Ignored(p)
    <3>1. /\ action[p] \in {"ENTERING", "EXITING"} /\ UNCHANGED <<links, calls>>
          /\ action' = [action EXCEPT ![p] = "NONE"]
          /\ client' = [client EXCEPT ![p] = Free]
          /\ UNCHANGED occupied \/ occupied' = [occupied EXCEPT ![p] = Out]
      BY <1>2, <2>2 DEF NotifyIn, NotifyInAbort, NotifyOut, ClearSeat, seats
    <3>2. /\ \A r \in Peds \ {p} : /\ occupied'[r] = occupied[r] /\ action'[r] = action[r]
                                   /\ client'[r] = client[r]
          /\ action'[p] = "NONE"
      BY <1>0, <3>1
    <3> QED BY <1>c, <1>q, <3>1, <3>2, NothingFits DEF VictimInv
  <2> QED BY <2>1, <2>2
<1>4. ASSUME NEW v \in Vehicles, RequestOut(p, v) PROVE VictimInv'
  <2>1. /\ UNCHANGED <<seats, action, links>>
        /\ client'[p].task = "none" /\ \A q \in Peds \ {p} : client'[q] = client[q]
    BY <1>0, <1>4 DEF RequestOut, Free
  <2>2. PICK c \in Calls : c = Call("startExit", p, v, occupied[p][2], NoPed, FALSE)
    BY <1>o, CallType DEF Events
  <2>3. calls' = <<c>> \/ calls' = <<>>
    BY <1>4, <1>c, <1>p, <2>2 DEF RequestOut
  <2>4. JackFits'
    BY <2>2, <2>3, NothingFits DEF Call
  <2> QED BY <1>i, <2>1, <2>4 DEF VictimInv
<1>5. ASSUME NEW v \in Vehicles, NotifyFellOff(p, v) PROVE VictimInv'
  <2>1. action[p] # "JACKING"
    <3>1. occupants[<<v, occupied[p][2]>>] = p /\ <<v, occupied[p][2]>> \in Places
      BY <1>5, <1>o DEF NotifyFellOff, Sits, Places
    <3> QED BY <1>0, <3>1, OccupantsAreIn, NullAssumption DEF JackersAreOut
  <2>2. /\ UNCHANGED <<action, links>> /\ occupied' = [occupied EXCEPT ![p] = Out]
        /\ \A q \in Peds \ {p} : client'[q] = client[q]
    BY <1>0, <1>5 DEF NotifyFellOff, ClearSeat
  <2>3. /\ \A q \in Peds \ {p} : client'[q] = client[q] /\ occupied'[q] = occupied[q]
        /\ ~InVehicle(p)'
    BY <1>0, <2>2 DEF InVehicle
  <2>4. PICK c \in Calls : c = Call("fellOff", p, v, occupied[p][2], NoPed, FALSE)
    BY <1>o, CallType DEF Events
  <2>5. calls' = <<c>> /\ c.kind = "fellOff" /\ c.ped = p
    BY <1>5, <1>p, <2>4 DEF NotifyFellOff, Call
  <2>6. CallFits(c)'
    BY <2>1, <2>2, <2>5 DEF CallFits
  <2> QED BY <1>q, <2>1, <2>2, <2>3, <2>5, <2>6, OneFits DEF VictimInv
<1>6. ASSUME NotifyJack(p) \/ \E started \in BOOLEAN : NotifyJackAbort(p, started) PROVE VictimInv'
  <2> DEFINE v == client[p].veh
             jacked == occupants[<<v, 0>>]
  <2>0. /\ client[p].task = "jack" /\ v \in Vehicles /\ jacked \in Peds \cup {NoPed}
    <3>1. client[p].task = "jack" /\ client[p] \in Clients
      BY <1>0, <1>6 DEF NotifyJack, NotifyJackAbort, HasAnswer
    <3>2. v \in Vehicles
      BY <3>1 DEF Clients, Free
    <3> QED BY <1>0, <1>o, <3>1, <3>2
  <2>1. CASE action[p] # "JACKING"
    <3>1. Ignored(p)
      BY <1>6, <2>1 DEF NotifyJack, NotifyJackAbort
    <3> QED BY <1>j, <2>0, <3>1
  <2>2. ASSUME action[p] = "JACKING",
               ClearJacking(p, v),
               action'[p] = "NONE",
               occupied'[p] = <<v, 0>> \/ occupied'[p] = Out,
               \A q \in Peds \ {p} : q = jacked => action'[q] = "NONE" \/ occupied'[q] = Out,
               \A q \in Peds \ {p} : q = jacked => action'[q] \in {action[q], "NONE"},
               \A q \in Peds \ {p, jacked} : /\ occupied'[q] = occupied[q] /\ action'[q] = action[q]
                                             /\ client'[q] = client[q]
        PROVE  Victims' /\ Knows'
    <3>1. /\ jackingVehicle[p] \in {v, NoVehicle}
          /\ jacked \in Peds => InVehicle(jacked) /\ action[jacked] # "JACKING"
      <4>1. jackingVehicle[p] \in {v, NoVehicle}
        BY <1>0, <2>0, <2>2 DEF Knows
      <4>2. jacked \in Peds => InVehicle(jacked) /\ action[jacked] # "JACKING"
        BY <1>0, <1>o, <2>0, NullAssumption, OccupantsAreIn DEF JackersAreOut
      <4> QED BY <4>1, <4>2
    <3>2. \A q \in Peds : occupied[q] = <<v, 0>> => q = jacked
      BY <1>0, <1>o, <2>0 DEF SeatsAgree
    <3>3. \A q \in Peds : jackingVehicle'[q] = IF q = p \/ q = jackingPed[v] THEN NoVehicle
                                               ELSE jackingVehicle[q]
      BY <2>0, <2>2, NullAssumption DEF ClearJacking
    <3>4. \A q \in Peds : q = jackingPed[v] => jackingVehicle[q] = v
      BY <2>0 DEF JackLinks
    <3> HIDE DEF v, jacked
    <3>5. \A q \in Peds : action'[q] = "JACKED" /\ InVehicle(q)' =>
             q \notin {p, jacked} /\ action[q] = "JACKED" /\ occupied'[q] = occupied[q]
      BY <2>2 DEF InVehicle
    <3>6. ASSUME NEW r \in Peds, action[r] = "JACKING",
                 ~(action'[r] = "JACKING" /\ jackingVehicle'[r] = jackingVehicle[r])
          PROVE  \A q \in Peds : occupied[q] = <<jackingVehicle[r], 0>> =>
                    action'[q] # "JACKED" \/ ~InVehicle(q)'
      <4>1. r # jacked
        BY <3>1, <3>6
      <4>2. jackingVehicle[r] \in {v, NoVehicle}
        BY <2>2, <3>1, <3>3, <3>4, <3>6, <4>1
      <4>3. \A q \in Peds : occupied[q] = <<NoVehicle, 0>> => ~InVehicle(q)
        BY DEF InVehicle, Out
      <4>4. \A q \in Peds : action'[q] = "JACKED" /\ InVehicle(q)' => q # jacked /\ InVehicle(q)
        BY <3>5 DEF InVehicle
      <4> QED BY <3>2, <4>2, <4>3, <4>4
    <3>7. Victims'
      BY <1>0, <3>5, <3>6, VictimsGoOn
    <3>8. \A q \in Peds : action'[q] = "JACKING" => q \notin {p, jacked} /\ action[q] = "JACKING"
      BY <2>2, <3>1
    <3>9. Knows'
      BY <1>0, <2>2, <3>3, <3>8, KnowsGoOn
    <3> QED BY <3>7, <3>9
  <2>3. CASE action[p] = "JACKING" /\ NotifyJack(p)
    <3>1. /\ occupied' = [q \in Peds |-> IF q = p THEN <<v, 0>>
                                          ELSE IF q = jacked THEN Out ELSE occupied[q]]
          /\ action' = [q \in Peds |-> IF q \in {p, jacked} THEN "NONE" ELSE action[q]]
          /\ client' = [q \in Peds |-> IF q = p THEN Free
                                        ELSE IF q = jacked THEN Reset(client[q])
                                        ELSE client[q]]
          /\ ClearJacking(p, v) /\ UNCHANGED calls
      BY <2>3 DEF NotifyJack
    <3> HIDE DEF v, jacked
    <3>2. Victims' /\ Knows'
      BY <2>2, <2>3, <3>1
    <3> QED BY <1>c, <3>1, <3>2, NothingFits DEF VictimInv
  <2>4. ASSUME action[p] = "JACKING", NEW started \in BOOLEAN, NotifyJackAbort(p, started)
        PROVE  VictimInv'
    <3> DEFINE thrown == started /\ jacked # NoPed
    <3>1. /\ occupied' = [q \in Peds |-> IF q = p \/ (thrown /\ q = jacked) THEN Out
                                          ELSE occupied[q]]
          /\ action' = [q \in Peds |-> IF q = p \/ (~thrown /\ q = jacked) THEN "NONE"
                                        ELSE action[q]]
          /\ client' = [q \in Peds |-> IF q = p THEN Free
                                        ELSE IF thrown /\ q = jacked THEN Reset(client[q])
                                        ELSE client[q]]
          /\ calls' = IF thrown THEN Push(Call("jackAbort", jacked, v, 0, p, FALSE)) ELSE calls
          /\ ClearJacking(p, v)
      BY <2>4 DEF NotifyJackAbort
    <3>2. Victims' /\ Knows'
      <4> HIDE DEF v, jacked, thrown
      <4> QED BY <2>2, <2>4, <3>1
    <3>3. CASE thrown
      <4>1. PICK c \in Calls : c = Call("jackAbort", jacked, v, 0, p, FALSE)
        BY <1>o, <2>0, <3>3, CallType DEF Events
      <4>2. calls' = <<c>> /\ c.ped = jacked /\ c.kind = "jackAbort"
        BY <1>p, <3>1, <3>3, <4>1 DEF Call
      <4>3. jacked \in Peds /\ action[jacked] # "JACKING"
        BY <1>0, <1>o, <2>0, <3>3, OccupantsAreIn DEF JackersAreOut
      <4>4. action'[jacked] # "JACKING"
        <5> HIDE DEF v, jacked, thrown
        <5> QED BY <3>1, <4>3
      <4>5. CallFits(c)'
        BY <4>2, <4>4 DEF CallFits
      <4> QED BY <3>2, <4>2, <4>5, OneFits DEF VictimInv
    <3>4. CASE ~thrown
      <4>1. calls' = <<>>
        BY <1>c, <3>1, <3>4
      <4> QED BY <3>2, <4>1, NothingFits DEF VictimInv
    <3> QED BY <3>3, <3>4
  <2> QED BY <1>6, <2>1, <2>3, <2>4
<1>7. ASSUME Wasted(p) PROVE VictimInv'
  <2>1. /\ UNCHANGED <<client, calls, links>> /\ occupied' = [occupied EXCEPT ![p] = Out]
        /\ action' = [action EXCEPT ![p] = IF action[p] = "JACKING" THEN action[p] ELSE "NONE"]
    BY <1>7 DEF Wasted, Dies, LeaveVehicle
  <2>2. /\ \A r \in Peds \ {p} : occupied'[r] = occupied[r] /\ action'[r] = action[r]
        /\ action'[p] = IF action[p] = "JACKING" THEN "JACKING" ELSE "NONE"
    BY <1>0, <2>1
  <2>3. Victims' /\ Knows'
    <3>1. Victims'
      BY <1>0, <2>1, <2>2, VictimsGoOn DEF links
    <3>2. Knows'
      BY <1>0, <2>1, <2>2, KnowsGoOn DEF links
    <3> QED BY <3>1, <3>2
  <2> QED BY <1>c, <2>1, <2>3, NothingFits DEF VictimInv
<1> QED BY <1>1, <1>2, <1>4, <1>5, <1>6, <1>7 DEF Packet

\* What scripts and the server do, and those who are jacked.
LEMMA OperationVictims ==
    ASSUME TypeOK, NobodyWarps, SeatsInv, JackLinks, VictimInv, Operation
    PROVE  VictimInv'
<1>c. calls = <<>>
  BY DEF Operation, ScriptWarps, ScriptRemoves, ScriptKills, SpawnPlayer, SyncerChanges,
         PedIsDeleted, VehicleIsDeleted, Operates, NobodyWarps, OnlyCancels, Idle
<1>0. /\ occupied \in [Peds -> Places \cup {Out}]
      /\ occupants \in [Places -> Peds \cup {NoPed}]
      /\ action \in [Peds -> Actions]
      /\ client \in [Peds -> Clients]
      /\ jackingVehicle \in [Peds -> Vehicles \cup {NoVehicle}]
      /\ SeatsAgree /\ JackersAreOut /\ 0 \in Seats
      /\ Victims /\ Knows
      /\ \A v \in Vehicles : <<v, 0>> \in Places
  BY SeatsAssumption DEF TypeOK, SeatsInv, VictimInv, Seats, Places
<1>p. ASSUME NEW c \in Calls PROVE Push(c) = <<c>>
  BY <1>c, PushWhenIdle DEF Idle
\* A jacker and his victim end what they do together.
<1>e. ASSUME NEW p \in Peds,
             LET v == jackingVehicle[p]
                 victim == IF v # NoVehicle /\ action[p] = "JACKING" THEN occupants[<<v, 0>>] ELSE NoPed
             IN  /\ action' = [q \in Peds |-> IF q \in {p, victim} THEN "NONE" ELSE action[q]]
                 /\ \A q \in Peds \ {p, victim} : occupied'[q] = occupied[q] /\ client'[q] = client[q]
                 /\ IF v # NoVehicle /\ jackingPed[v] = p THEN ClearJacking(p, v) ELSE UNCHANGED links,
             occupied'[p] = Out
      PROVE  Victims' /\ Knows'
  <2> DEFINE v == jackingVehicle[p]
             victim == IF v # NoVehicle /\ action[p] = "JACKING" THEN occupants[<<v, 0>>] ELSE NoPed
  <2>1. \A q \in Peds \ {p} : jackingVehicle'[q] = jackingVehicle[q]
    BY <1>0, <1>e, NullAssumption DEF ClearJacking, links
  <2>2. /\ action' = [q \in Peds |-> IF q \in {p, victim} THEN "NONE" ELSE action[q]]
        /\ \A q \in Peds \ {p, victim} : occupied'[q] = occupied[q] /\ client'[q] = client[q]
    BY <1>e
  <2>3. victim \in Peds => action[victim] # "JACKING"
    BY <1>0, NullAssumption, OccupantsAreIn DEF JackersAreOut
  <2>4. action[p] = "JACKING" => \A q \in Peds : occupied[q] = <<v, 0>> => q = victim \/ ~InVehicle(q)
    <3>1. v \in Vehicles \cup {NoVehicle}
      BY <1>0
    <3>2. \A q \in Peds : occupied[q] = <<v, 0>> =>
             \/ v \in Vehicles /\ occupants[<<v, 0>>] = q
             \/ v = NoVehicle /\ ~InVehicle(q)
      BY <1>0, <3>1, OnlyOccupant
    <3> QED BY <3>2, NullAssumption
  <2> HIDE DEF v, victim
  <2>5. \A q \in Peds : action'[q] = "JACKED" /\ InVehicle(q)' =>
           q \notin {p, victim} /\ InVehicle(q) /\ action[q] = "JACKED" /\ occupied'[q] = occupied[q]
    BY <2>2 DEF InVehicle
  <2>6. ASSUME NEW r \in Peds, action[r] = "JACKING",
               ~(action'[r] = "JACKING" /\ jackingVehicle'[r] = jackingVehicle[r])
        PROVE  \A q \in Peds : occupied[q] = <<jackingVehicle[r], 0>> =>
                  action'[q] # "JACKED" \/ ~InVehicle(q)'
    <3>1. r = p
      BY <2>1, <2>2, <2>3, <2>6
    <3> QED BY <2>4, <2>5, <2>6, <3>1 DEF v
  <2>7. Victims'
    BY <1>0, <2>5, <2>6, VictimsGoOn
  <2>8. Knows'
    BY <1>0, <2>1, <2>2, KnowsGoOn
  <2> QED BY <2>7, <2>8
<1>1. ASSUME NEW p \in Peds, NEW v \in Vehicles, NEW s \in Seats, ScriptWarps(p, v, s)
      PROVE  FALSE
  BY <1>1 DEF ScriptWarps, Operates, NobodyWarps
<1>2. ASSUME NEW p \in Peds, ScriptRemoves(p) PROVE VictimInv'
  <2>1. InVehicle(p) /\ UNCHANGED <<seats, action, links, client>> /\ calls' = Push(Removing(p))
    BY <1>2 DEF ScriptRemoves
  <2>2. PICK c \in Calls : c = Removing(p)
    BY <2>1, PlaceParts, CallType DEF Removing, Events
  <2>3. JackFits'
    BY <1>p, <2>1, <2>2, NothingFits DEF Removing, Call
  <2>4. Victims' /\ Knows'
    BY <1>0, <2>1 DEF Victims, Knows, HasJacker, InVehicle, seats, links
  <2> QED BY <2>3, <2>4 DEF VictimInv
<1>3. ASSUME NEW p \in Peds, ScriptKills(p) PROVE VictimInv'
  <2>1. /\ UNCHANGED <<client, calls, links>> /\ occupied' = [occupied EXCEPT ![p] = Out]
        /\ action' = [action EXCEPT ![p] = IF action[p] = "JACKING" THEN action[p] ELSE "NONE"]
    BY <1>3 DEF ScriptKills, Dies, LeaveVehicle
  <2>2. /\ \A r \in Peds \ {p} : occupied'[r] = occupied[r] /\ action'[r] = action[r]
        /\ action'[p] = IF action[p] = "JACKING" THEN "JACKING" ELSE "NONE"
    BY <1>0, <2>1
  <2>3. Victims'
    BY <1>0, <2>1, <2>2, VictimsGoOn DEF links
  <2>4. Knows'
    BY <1>0, <2>1, <2>2, KnowsGoOn DEF links
  <2> QED BY <1>c, <2>1, <2>3, <2>4, NothingFits DEF VictimInv
<1>4. ASSUME NEW p \in Peds, SpawnPlayer(p) PROVE VictimInv'
  <2> DEFINE v == jackingVehicle[p]
             left == [x \in Places |-> IF x = occupied[p] THEN NoPed ELSE occupants[x]]
             victim == IF v # NoVehicle /\ action[p] = "JACKING" THEN occupants[<<v, 0>>] ELSE NoPed
             released == IF v # NoVehicle /\ action[p] = "JACKING" THEN left[<<v, 0>>] ELSE NoPed
  <2>1. /\ UNCHANGED calls /\ occupied' = [occupied EXCEPT ![p] = Out]
        /\ action' = [q \in Peds |-> IF q \in {p, released} THEN "NONE" ELSE action[q]]
        /\ client' = ResetClients({p, released})
        /\ IF v # NoVehicle /\ jackingPed[v] = p THEN ClearJacking(p, v) ELSE UNCHANGED links
    BY <1>4 DEF SpawnPlayer, LeaveVehicle
  <2>2. released = victim
    <3>1. CASE v # NoVehicle /\ action[p] = "JACKING"
      <4>1. <<v, 0>> \in Places /\ <<v, 0>> # occupied[p]
        BY <1>0, <3>1, NullAssumption DEF JackersAreOut, InVehicle, Out
      <4> QED BY <3>1, <4>1
    <3>2. CASE ~(v # NoVehicle /\ action[p] = "JACKING")
      BY <3>2
    <3> QED BY <3>1, <3>2
  <2>3. /\ action' = [q \in Peds |-> IF q \in {p, victim} THEN "NONE" ELSE action[q]]
        /\ client' = ResetClients({p, victim})
    BY <2>1, <2>2
  <2>4. /\ occupied'[p] = Out
        /\ \A q \in Peds \ {p, victim} : occupied'[q] = occupied[q] /\ client'[q] = client[q]
    <3> HIDE DEF victim
    <3> QED BY <1>0, <2>1, <2>3 DEF ResetClients
  <2>5. Victims' /\ Knows'
    BY <1>e, <2>1, <2>3, <2>4
  <2> QED BY <1>c, <2>1, <2>5, NothingFits DEF VictimInv
<1>5. ASSUME NEW p \in Peds, SyncerChanges(p) PROVE VictimInv'
  <2>1. /\ UNCHANGED <<seats, action, links>> /\ client' = [client EXCEPT ![p] = Free]
        /\ calls' = Push(Call("syncer", p, NoVehicle, 0, NoPed, FALSE))
    BY <1>5 DEF SyncerChanges
  <2>2. PICK c \in Calls : c = Call("syncer", p, NoVehicle, 0, NoPed, FALSE)
    BY <1>0 DEF Call, Calls, CallsOf, SyncerCalls
  <2>3. JackFits'
    BY <1>p, <2>1, <2>2, NothingFits DEF Call
  <2>4. Victims'
    BY <1>0, <2>1 DEF Victims, HasJacker, InVehicle, seats, links
  <2>5. /\ client'[p].task = "none" /\ \A q \in Peds \ {p} : client'[q] = client[q]
    BY <1>0, <2>1 DEF Free
  <2>6. Knows'
    BY <1>0, <2>1, <2>5, KnowsGoOn DEF links
  <2> QED BY <2>3, <2>4, <2>6 DEF VictimInv
<1>6. ASSUME NEW p \in Peds, PedIsDeleted(p) PROVE VictimInv'
  <2> DEFINE v == jackingVehicle[p]
             victim == IF v # NoVehicle /\ action[p] = "JACKING" THEN occupants[<<v, 0>>] ELSE NoPed
  <2>1. /\ UNCHANGED calls
        /\ occupied' = [q \in Peds |-> IF q \in {p, victim} THEN Out ELSE occupied[q]]
        /\ action' = [q \in Peds |-> IF q \in {p, victim} THEN "NONE" ELSE action[q]]
        /\ client' = [q \in Peds |-> IF q = p THEN Free
                                     ELSE IF q = victim THEN Reset(client[q]) ELSE client[q]]
        /\ IF v # NoVehicle /\ jackingPed[v] = p THEN ClearJacking(p, v) ELSE UNCHANGED links
    BY <1>6 DEF PedIsDeleted
  <2>2. /\ occupied'[p] = Out
        /\ \A q \in Peds \ {p, victim} : occupied'[q] = occupied[q] /\ client'[q] = client[q]
    <3> HIDE DEF victim
    <3> QED BY <2>1
  <2>3. Victims' /\ Knows'
    BY <1>e, <2>1, <2>2
  <2> QED BY <1>c, <2>1, <2>3, NothingFits DEF VictimInv
<1>7. ASSUME NEW v \in Vehicles, VehicleIsDeleted(v) PROVE VictimInv'
  <2> DEFINE jacker == jackingPed[v]
             riders == {p \in Peds : \E s \in Seats : occupants[<<v, s>>] = p}
  <2>1. /\ UNCHANGED calls
        /\ occupied' = [p \in Peds |-> IF p \in riders THEN Out ELSE occupied[p]]
        /\ action' = [p \in Peds |-> IF p \in riders \/ (p = jacker /\ action[p] = "JACKING")
                                     THEN "NONE" ELSE action[p]]
        /\ client' = [p \in Peds |-> IF client[p].veh = v THEN Free ELSE client[p]]
        /\ IF jacker # NoPed THEN ClearJacking(jacker, v) ELSE UNCHANGED links
    BY <1>7 DEF VehicleIsDeleted
  <2>2. /\ \A p \in Peds : p \in riders => InVehicle(p) /\ action[p] # "JACKING"
        /\ \A p \in Peds : occupied[p] = <<v, 0>> => p \in riders
    <3>1. ASSUME NEW p \in Peds, p \in riders PROVE InVehicle(p) /\ action[p] # "JACKING"
      <4>1. PICK s \in Seats : occupants[<<v, s>>] = p
        BY <3>1
      <4>2. <<v, s>> \in Places /\ p # NoPed
        BY NullAssumption DEF Places
      <4> QED BY <1>0, <4>1, <4>2, OccupantsAreIn DEF JackersAreOut
    <3>2. ASSUME NEW p \in Peds, occupied[p] = <<v, 0>> PROVE p \in riders
      <4>1. occupants[<<v, 0>>] = p
        BY <1>0, <3>2 DEF SeatsAgree
      <4> QED BY <1>0, <4>1
    <3> QED BY <3>1, <3>2
  <2>3. \A p \in Peds : /\ p # jacker => jackingVehicle'[p] = jackingVehicle[p]
                        /\ p = jacker => jackingVehicle[p] = v /\ jackingVehicle'[p] = NoVehicle
    BY <1>0, <2>1, NullAssumption DEF ClearJacking, JackLinks, links, TypeOK
  <2> HIDE DEF riders, jacker
  <2>4. \A q \in Peds : action'[q] = "JACKED" /\ InVehicle(q)' =>
           q \notin riders /\ action[q] = "JACKED" /\ occupied'[q] = occupied[q]
    BY <2>1 DEF InVehicle
  <2>5. ASSUME NEW r \in Peds, action[r] = "JACKING",
               ~(action'[r] = "JACKING" /\ jackingVehicle'[r] = jackingVehicle[r])
        PROVE  \A q \in Peds : occupied[q] = <<jackingVehicle[r], 0>> =>
                  action'[q] # "JACKED" \/ ~InVehicle(q)'
    <3>1. r = jacker /\ jackingVehicle[r] = v
      BY <2>1, <2>2, <2>3, <2>5
    <3> QED BY <2>2, <2>4, <3>1
  <2>6. Victims'
    BY <1>0, <2>4, <2>5, VictimsGoOn
  <2>7. \A q \in Peds : action'[q] = "JACKING" /\ client'[q].task = "jack" =>
           /\ action[q] = "JACKING" /\ client'[q] = client[q]
           /\ jackingVehicle'[q] \in {jackingVehicle[q], NoVehicle}
    BY <2>1, <2>3 DEF Free
  <2>8. Knows'
    BY <1>0, <2>7, KnowsGoOn
  <2> QED BY <1>c, <2>1, <2>6, <2>8, NothingFits DEF VictimInv
<1> QED BY <1>1, <1>2, <1>3, <1>4, <1>5, <1>6, <1>7 DEF Operation

\* Letting in the ped whose enter event has run concerns nobody else.
LEMMA ConfirmChanges ==
    ASSUME TypeOK, SeatsAgree, calls # <<>>, Top \in Calls, Fits(Top), Tail(calls) = <<>>,
           Top.kind \in {"startEnter", "override"}, action[Top.ped] = "ENTERING",
           ConfirmEnter(Top.ped, Top.veh, Top.seat, Top.other, Top.warp, Tail(calls))
    PROVE  /\ action'[Top.ped] \in {"ENTERING", "NONE"}
           /\ \A q \in Peds \ {Top.ped} : /\ occupied'[q] = occupied[q] /\ action'[q] = action[q]
                                          /\ client'[q] = client[q]
           /\ calls' = <<>> \/ \E c \in Calls : c.kind = "warped" /\ calls' = <<c>>
<1> DEFINE p == Top.ped
           v == Top.veh
           s == Top.seat
           w == Top.warp
           removed == IF s = 0 THEN p ELSE Top.other
<1>0. /\ p \in Peds /\ v \in Vehicles /\ s \in Seats /\ <<v, s>> \in Places
      /\ occupied[p] = <<v, s>>
      /\ w => removed = p
      /\ ConfirmEnter(p, v, s, Top.other, w, <<>>)
      /\ occupied \in [Peds -> Places \cup {Out}] /\ action \in [Peds -> Actions]
      /\ client \in [Peds -> Clients]
  BY CallParts, TopOfCalls DEF Fits, TypeOK, Places, SyncerCalls
<1>1. occupants[<<v, s>>] = p
  BY <1>0 DEF SeatsAgree
<1>2. ~CanWarp(p, v, s) \/ ~occupantChanged[v]
  BY <1>0, <1>1, NullAssumption DEF CanWarp
<1>3. CASE w /\ ~occupantChanged[v] /\ p \notin dead
  <2>1. TakeSeatFrom([occupied EXCEPT ![removed] = Out], p, v, s, <<>>)
    BY <1>0, <1>3 DEF ConfirmEnter
  <2>2. removed = p
    BY <1>0, <1>3
  <2>3. PICK c \in Calls : c = Call("warped", p, v, s, NoPed, FALSE)
    BY <1>0, CallType DEF Events
  <2>4. calls' = <<c>> \o <<>>
    BY <2>1, <2>3 DEF TakeSeatFrom
  <2>5. calls' = <<c>> /\ c.kind = "warped"
    BY <2>3, <2>4 DEF Call
  <2>6. /\ occupied' = [[occupied EXCEPT ![removed] = Out] EXCEPT ![p] = <<v, s>>]
        /\ action' = [action EXCEPT ![p] = "NONE"]
        /\ client' = ResetClients({p})
    BY <2>1 DEF TakeSeatFrom
  <2> HIDE DEF p, v, s, removed
  <2>7. /\ action'[p] = "NONE"
        /\ \A q \in Peds \ {p} : /\ occupied'[q] = occupied[q] /\ action'[q] = action[q]
                                 /\ client'[q] = client[q]
    BY <1>0, <2>2, <2>6 DEF ResetClients
  <2> QED BY <2>5, <2>7 DEF p
<1>4. CASE ~(w /\ ~occupantChanged[v] /\ p \notin dead)
  <2>1. /\ \/ UNCHANGED seats
           \/ removed = p /\ ClearSeat(removed, v, s)
        /\ \/ UNCHANGED action /\ client' = [client EXCEPT ![p] = Owes("in", v)]
           \/ action' = [action EXCEPT ![p] = "NONE"] /\ UNCHANGED client
        /\ calls' = <<>>
    BY <1>0, <1>2, <1>4 DEF ConfirmEnter
  <2> HIDE DEF p, v, s, removed
  <2>2. /\ action'[p] \in {action[p], "NONE"}
        /\ \A q \in Peds \ {p} : /\ occupied'[q] = occupied[q] /\ action'[q] = action[q]
                                 /\ client'[q] = client[q]
    BY <1>0, <2>1 DEF ClearSeat, seats
  <2> QED BY <2>1, <2>2 DEF p
<1> QED BY <1>3, <1>4

\* Going on when an event has returned, and those who are jacked.
LEMMA ReturnVictims ==
    ASSUME TypeOK, SeatsInv, HandshakeInv, JackHandled, VictimInv, Return
    PROVE  VictimInv'
<1>c. calls # <<>>
  BY DEF Return, SeatIsFreed, WarpedReturns, RemovingReturns, StartEnterReturns,
         OverrideSyncerReturns, StartEnterIsCancelled, StartJackReturns, StartJackIsCancelled,
         JackExitReturns, JackExitIsCancelled, StartExitReturns, StartExitIsCancelled,
         FellOffReturns, JackAbortReturns, SyncerRemoves, SyncerWarps, SyncerIsSet, Running
<1>l. UNCHANGED links
  BY DEF Return, SeatIsFreed, WarpedReturns, RemovingReturns, StartEnterReturns,
         OverrideSyncerReturns, StartEnterIsCancelled, StartJackReturns, StartJackIsCancelled,
         JackExitReturns, JackExitIsCancelled, StartExitReturns, StartExitIsCancelled,
         FellOffReturns, JackAbortReturns, SyncerRemoves, SyncerWarps, SyncerIsSet
<1>0. /\ occupied \in [Peds -> Places \cup {Out}]
      /\ occupants \in [Places -> Peds \cup {NoPed}]
      /\ action \in [Peds -> Actions]
      /\ client \in [Peds -> Clients]
      /\ jackingVehicle \in [Peds -> Vehicles \cup {NoVehicle}]
      /\ calls \in Seq(Calls)
      /\ SeatsAgree /\ JackersAreOut /\ CallsFit /\ 0 \in Seats /\ Handling
      /\ Victims /\ Knows /\ JackFits
  BY SeatsAssumption DEF TypeOK, SeatsInv, Seats, HandshakeInv, VictimInv
<1>t. /\ Top \in Calls /\ Fits(Top) /\ CallFits(Top)
      /\ \/ Tail(calls) = <<>>
         \/ \E d \in Calls : Tail(calls) = <<d>> /\ Continues(Top, d)
      /\ Top.kind # "removing" => Tail(calls) = <<>>
      /\ Top.ped \in Peds /\ Top.seat \in Seats
      /\ Top.kind \notin SyncerCalls => Top.veh \in Vehicles
  <2>1. Top = calls[1] /\ 1 \in 1..Len(calls)
    BY <1>0, <1>c, HeadTailProperties, EmptySeq, LenProperties DEF Top
  <2> QED BY <1>0, <1>c, <2>1, SuspendedCalls, CallParts, TopOfCalls DEF JackFits
<1>f. Top \in Calls /\ Tail(calls) = <<>> /\ calls' = Tail(calls) => JackFits'
  BY NothingFits
\* The handler is about a ped that is not jacking, and tells nobody to jack.
<1>q. ASSUME action[Top.ped] # "JACKING", action'[Top.ped] \notin {"JACKING", "JACKED"},
             \A q \in Peds \ {Top.ped} : /\ occupied'[q] = occupied[q] /\ action'[q] = action[q]
                                         /\ client'[q] = client[q]
      PROVE  Victims' /\ Knows'
  <2>1. Victims'
    BY <1>0, <1>l, <1>q, VictimsGoOn DEF links
  <2>2. Knows'
    BY <1>0, <1>l, <1>q, KnowsGoOn DEF links
  <2> QED BY <2>1, <2>2
\* The handler only goes on.
<1>u. ASSUME UNCHANGED <<seats, action, client>> PROVE Victims' /\ Knows'
  BY <1>0, <1>l, <1>u DEF Victims, Knows, HasJacker, InVehicle, seats, links
\* A ped takes a free seat of the vehicle he jacks.
<1>w. ASSUME NEW p \in Peds, NEW v \in Vehicles, occupants[<<v, 0>>] = NoPed, jackingVehicle[p] = v,
             TakeSeatFrom(occupied, p, v, 0, <<>>)
      PROVE  VictimInv'
  <2>1. /\ action'[p] = "NONE"
        /\ \A q \in Peds \ {p} : /\ occupied'[q] = occupied[q] /\ action'[q] = action[q]
                                 /\ client'[q] = client[q]
    BY <1>0, <1>w DEF TakeSeatFrom, ResetClients
  <2>2. \A q \in Peds : occupied[q] # <<v, 0>>
    BY <1>0, <1>w, NullAssumption DEF SeatsAgree, Places
  <2>3. Victims'
    BY <1>0, <1>l, <1>w, <2>1, <2>2, VictimsGoOn DEF links
  <2>4. Knows'
    BY <1>0, <1>l, <2>1, KnowsGoOn DEF links
  <2>5. PICK c \in Calls : c = Call("warped", p, v, 0, NoPed, FALSE)
    BY <1>0, CallType DEF Events
  <2>6. calls' = <<c>> \o <<>>
    BY <1>w, <2>5 DEF TakeSeatFrom
  <2>7. calls' = <<c>> /\ c.kind = "warped"
    BY <2>5, <2>6 DEF Call
  <2> QED BY <2>3, <2>4, <2>7, NothingFits DEF VictimInv
<1>1. ASSUME SeatIsFreed PROVE VictimInv'
  <2>1. /\ Top.kind = "seat" /\ Top.veh \in Vehicles
        /\ TakeSeatFrom(occupied, Top.ped, Top.veh, Top.seat, <<>>)
    BY <1>1, <1>t DEF SeatIsFreed, Running, Top, TakeSeat, SyncerCalls
  <2>2. /\ Top.seat = 0 /\ jackingVehicle[Top.ped] = Top.veh
        /\ occupants[<<Top.veh, Top.seat>>] = NoPed
    BY <1>t, <2>1 DEF CallFits, Fits
  <2> QED BY <1>t, <1>w, <2>1, <2>2
<1>2. ASSUME RemovingReturns PROVE VictimInv'
  <2>1. /\ Top.kind = "removing" /\ ClearSeat(Top.ped, Top.veh, Top.seat)
        /\ action' = [action EXCEPT ![Top.ped] = "NONE"]
        /\ client' = ResetClients({Top.ped})
        /\ calls' = Tail(calls)
    BY <1>2 DEF RemovingReturns, Running, Top
  <2>2. action[Top.ped] # "JACKING"
    <3>1. occupied[Top.ped] = <<Top.veh, Top.seat>> /\ Top.veh \in Vehicles
      BY <1>t, <2>1 DEF Fits, SyncerCalls
    <3> QED BY <1>0, <1>t, <3>1, NullAssumption DEF JackersAreOut, InVehicle, Out
  <2>3. /\ action'[Top.ped] = "NONE"
        /\ \A q \in Peds \ {Top.ped} : /\ occupied'[q] = occupied[q] /\ action'[q] = action[q]
                                       /\ client'[q] = client[q]
    BY <1>0, <1>t, <2>1 DEF ClearSeat, ResetClients
  <2>4. JackFits'
    <3>1. CASE Tail(calls) = <<>>
      BY <1>f, <1>t, <2>1, <3>1
    <3>2. ASSUME NEW d \in Calls, Tail(calls) = <<d>>, Continues(Top, d) PROVE JackFits'
      <4>1. d = calls[2] /\ 2 \in 1..Len(calls)
        <5> DEFINE rest == Tail(calls)
        <5>0. rest = <<d>>
          BY <3>2
        <5> HIDE DEF rest
        <5>1. Len(rest) = 1 /\ rest[1] = d
          BY <5>0
        <5>2. /\ Len(calls) \in Nat /\ Len(rest) = Len(calls) - 1
              /\ \A i \in 1..Len(rest) : rest[i] = calls[i + 1]
          BY <1>0, <1>c, HeadTailProperties, LenProperties DEF rest
        <5> QED BY <5>1, <5>2
      <4>2. CallFits(d)'
        <5>1. CallFits(d) /\ d.kind \in {"seat", "drag"}
          BY <1>0, <3>2, <4>1 DEF JackFits, Continues
        <5> QED BY <1>l, <5>1 DEF CallFits, links
      <4> QED BY <2>1, <3>2, <4>2, OneFits
    <3> QED BY <1>t, <3>1, <3>2
  <2> QED BY <1>q, <2>2, <2>3, <2>4 DEF VictimInv
<1>3. ASSUME StartEnterReturns \/ OverrideSyncerReturns PROVE VictimInv'
  <2>1. /\ Top.kind \in {"startEnter", "override"} /\ action[Top.ped] = "ENTERING"
        /\ Tail(calls) = <<>>
    BY <1>0, <1>3, <1>t DEF StartEnterReturns, OverrideSyncerReturns, Running, Top, Handling
  <2>2. CASE ConfirmEnter(Top.ped, Top.veh, Top.seat, Top.other, Top.warp, Tail(calls))
    <3>1. /\ action'[Top.ped] \in {"ENTERING", "NONE"}
          /\ \A q \in Peds \ {Top.ped} : /\ occupied'[q] = occupied[q] /\ action'[q] = action[q]
                                         /\ client'[q] = client[q]
          /\ calls' = <<>> \/ \E c \in Calls : c.kind = "warped" /\ calls' = <<c>>
      BY <1>0, <1>c, <1>t, <2>1, <2>2, ConfirmChanges
    <3>2. JackFits'
      BY <3>1, NothingFits
    <3> QED BY <1>q, <2>1, <3>1, <3>2 DEF VictimInv
  <2>3. CASE /\ calls' = Become([Top EXCEPT !.kind = "override"])
             /\ UNCHANGED <<seats, action, client>> /\ Top.kind = "startEnter"
    <3>1. [Top EXCEPT !.kind = "override"] \in Calls
      BY <1>t, <2>3 DEF Calls, CallsOf, Events, SyncerCalls
    <3>2. PICK c \in Calls : c = [Top EXCEPT !.kind = "override"]
      BY <3>1
    <3>3. c.kind = "override"
      BY <1>t, <3>2 DEF Calls, CallsOf
    <3>4. calls' = <<c>> \o Tail(calls)
      BY <2>3, <3>2 DEF Become
    <3>5. calls' = <<c>> \o <<>>
      BY ONLY <2>1, <3>4
    <3>6. calls' = <<c>>
      BY <3>5
    <3> QED BY <1>u, <2>3, <3>3, <3>6, NothingFits DEF VictimInv
  <2> QED BY <1>3, <2>1, <2>2, <2>3 DEF StartEnterReturns, OverrideSyncerReturns, Running, Top
<1>4. ASSUME StartEnterIsCancelled PROVE VictimInv'
  <2>1. /\ UNCHANGED seats \/ ClearSeat(Top.ped, Top.veh, Top.seat)
        /\ action' = [action EXCEPT ![Top.ped] = "NONE"] /\ UNCHANGED client
        /\ calls' = Tail(calls) /\ Tail(calls) = <<>> /\ action[Top.ped] = "ENTERING"
    BY <1>0, <1>4, <1>t DEF StartEnterIsCancelled, Running, Top, Handling
  <2>2. /\ action'[Top.ped] = "NONE"
        /\ \A q \in Peds \ {Top.ped} : occupied'[q] = occupied[q] /\ action'[q] = action[q]
    BY <1>0, <1>t, <2>1 DEF ClearSeat, seats
  <2> QED BY <1>f, <1>q, <1>t, <2>1, <2>2 DEF VictimInv
<1>5. ASSUME StartJackReturns PROVE VictimInv'
  <2>1. /\ Top.kind = "startJack" /\ UNCHANGED <<seats, action, client>> /\ Tail(calls) = <<>>
        /\ calls' = Tail(calls) \/ calls' = Become([Top EXCEPT !.kind = "jackExit"])
    BY <1>5, <1>t DEF StartJackReturns, Running, Top
  <2>2. [Top EXCEPT !.kind = "jackExit"] \in Calls
    BY <1>t, <2>1 DEF Calls, CallsOf, Events, SyncerCalls
  <2>3. PICK c \in Calls : c = [Top EXCEPT !.kind = "jackExit"]
    BY <2>2
  <2>4. c.kind = "jackExit"
    BY <1>t, <2>3 DEF Calls, CallsOf
  <2>5. calls' = Tail(calls) \/ calls' = <<c>> \o Tail(calls)
    BY <2>1, <2>3 DEF Become
  <2>6. calls' = <<>> \/ calls' = <<c>> \o <<>>
    BY ONLY <2>1, <2>5
  <2>7. calls' = <<>> \/ calls' = <<c>>
    BY <2>6
  <2> QED BY <1>u, <2>1, <2>4, <2>7, NothingFits DEF VictimInv
<1>6. ASSUME StartJackIsCancelled PROVE VictimInv'
  <2> DEFINE p == Top.ped
             other == Top.other
             v == Top.veh
  <2>1. /\ action' = [action EXCEPT ![p] = "NONE", ![other] = "NONE"]
        /\ UNCHANGED <<seats, client>> /\ calls' = Tail(calls) /\ Tail(calls) = <<>>
        /\ jackingVehicle[p] = v /\ other \in Peds /\ action[other] = "JACKED"
        /\ occupied[other] = <<v, 0>> /\ v \in Vehicles
    BY <1>6, <1>c, <1>t DEF StartJackIsCancelled, Running, Top, JackHandled, Jacks, SyncerCalls
  <2>2. p \in Peds
    BY <1>t
  <2>3. \A q \in Peds : occupied[q] = <<v, 0>> => q = other
    <3>1. <<v, 0>> \in Places
      BY <1>0, <2>1 DEF Places
    <3> HIDE DEF p, other, v
    <3> QED BY <1>0, <2>1, <3>1 DEF SeatsAgree
  <2> HIDE DEF p, other, v
  <2>4. /\ action'[p] = "NONE" /\ action'[other] = "NONE"
        /\ \A q \in Peds \ {p, other} : action'[q] = action[q]
    BY <1>0, <2>1, <2>2
  <2>5. Victims'
    BY <1>0, <1>l, <2>1, <2>3, <2>4, VictimsGoOn DEF links, seats, InVehicle
  <2>6. Knows'
    BY <1>0, <1>l, <2>1, <2>4, KnowsGoOn DEF links
  <2> QED BY <1>f, <1>t, <2>1, <2>5, <2>6 DEF VictimInv
<1>7. ASSUME JackExitReturns PROVE VictimInv'
  <2>1. /\ Top.kind = "jackExit" /\ UNCHANGED <<seats, action>>
        /\ calls' = Tail(calls) /\ Tail(calls) = <<>>
        /\ jackingVehicle[Top.ped] = Top.veh
        /\ \/ client' = [client EXCEPT ![Top.ped] = Owes("jack", Top.veh)]
           \/ UNCHANGED client
    BY <1>7, <1>c, <1>t DEF JackExitReturns, Running, Top, JackHandled, Jacks
  <2>2. Victims'
    BY <1>0, <1>l, <2>1 DEF Victims, HasJacker, InVehicle, seats, links
  <2>3. Knows'
    BY <1>0, <1>l, <2>1 DEF Knows, Owes, links
  <2> QED BY <1>f, <1>t, <2>1, <2>2, <2>3 DEF VictimInv
<1>8. ASSUME StartExitReturns PROVE VictimInv'
  <2>0. /\ Top.kind = "startExit" /\ UNCHANGED seats /\ Top.veh \in Vehicles
        /\ calls' = Tail(calls) /\ Tail(calls) = <<>>
    BY <1>8, <1>t DEF StartExitReturns, Running, Top, SyncerCalls
  <2>1. CASE occupied[Top.ped][1] = Top.veh
    <3>1. action[Top.ped] # "JACKING"
      BY <1>0, <1>t, <2>0, <2>1, NullAssumption DEF JackersAreOut, InVehicle, Out
    <3>2. /\ action' = [action EXCEPT ![Top.ped] = "EXITING"]
          /\ client' = [client EXCEPT ![Top.ped] = Owes("out", Top.veh)]
      BY <1>8, <2>1 DEF StartExitReturns
    <3>3. /\ action'[Top.ped] = "EXITING"
          /\ \A q \in Peds \ {Top.ped} : /\ occupied'[q] = occupied[q] /\ action'[q] = action[q]
                                         /\ client'[q] = client[q]
      BY <1>0, <1>t, <2>0, <3>2 DEF seats
    <3> QED BY <1>f, <1>q, <1>t, <2>0, <3>1, <3>3 DEF VictimInv
  <2>2. CASE occupied[Top.ped][1] # Top.veh
    <3>1. UNCHANGED <<action, client>>
      BY <1>8, <2>2 DEF StartExitReturns
    <3> QED BY <1>f, <1>t, <1>u, <2>0, <3>1 DEF VictimInv
  <2> QED BY <2>1, <2>2
<1>9. ASSUME FellOffReturns \/ JackAbortReturns PROVE VictimInv'
  <2>1. /\ action' = [action EXCEPT ![Top.ped] = "NONE"] /\ UNCHANGED <<seats, client>>
        /\ calls' = Tail(calls) /\ Tail(calls) = <<>> /\ action[Top.ped] # "JACKING"
    BY <1>9, <1>t DEF FellOffReturns, JackAbortReturns, Running, Top, CallFits
  <2>2. /\ action'[Top.ped] = "NONE"
        /\ \A q \in Peds \ {Top.ped} : occupied'[q] = occupied[q] /\ action'[q] = action[q]
    BY <1>0, <1>t, <2>1 DEF seats
  <2> QED BY <1>f, <1>q, <1>t, <2>1, <2>2 DEF VictimInv
<1>10. ASSUME WarpedReturns \/ JackExitIsCancelled \/ StartExitIsCancelled \/ SyncerIsSet
       PROVE  VictimInv'
  <2>1. /\ UNCHANGED <<seats, action, client>> /\ calls' = Tail(calls) /\ Tail(calls) = <<>>
    BY <1>10, <1>t DEF WarpedReturns, JackExitIsCancelled, StartExitIsCancelled, SyncerIsSet,
                       Running, Top
  <2> QED BY <1>f, <1>t, <1>u, <2>1 DEF VictimInv
<1>11. ASSUME SyncerRemoves PROVE VictimInv'
  <2>1. /\ Top.kind = "syncer" /\ InVehicle(Top.ped) /\ UNCHANGED <<seats, action, client>>
        /\ calls' = <<Removing(Top.ped), [Top EXCEPT !.kind = "drag"]>> \o Tail(calls)
    BY <1>11 DEF SyncerRemoves, Running, Top
  <2>2. Removing(Top.ped) \in Calls
    BY <1>t, <2>1, PlaceParts, CallType DEF Removing, Events
  <2>3. [Top EXCEPT !.kind = "drag"] \in Calls
    BY <1>t, <2>1 DEF Calls, CallsOf, Events, SyncerCalls
  <2>4. PICK c \in Calls, d \in Calls : c = Removing(Top.ped) /\ d = [Top EXCEPT !.kind = "drag"]
    BY <2>2, <2>3
  <2>5. calls' = <<c, d>> \o Tail(calls)
    BY ONLY <2>1, <2>4
  <2>6. Tail(calls) = <<>>
    BY <1>t, <2>1
  <2>7. calls' = <<c, d>> \o <<>>
    BY ONLY <2>5, <2>6
  <2>8. calls' = <<c, d>>
    BY <2>7
  <2>9. c.kind = "removing" /\ d.kind = "drag"
    BY <1>t, <2>4 DEF Removing, Call, Calls, CallsOf
  <2> QED BY <1>u, <2>1, <2>8, <2>9, NothingFits DEF VictimInv
<1>12. ASSUME SyncerWarps PROVE VictimInv'
  <2> DEFINE p == Top.ped
             v == jackingVehicle[p]
             previous == occupants[<<v, 0>>]
  <2>0. Top.kind \in {"syncer", "drag"} /\ Tail(calls) = <<>> /\ p \in Peds
    BY <1>12, <1>t DEF SyncerWarps, Running, Top
  <2>1. CASE ~(v # NoVehicle /\ CanWarp(p, v, 0))
    <3>1. calls' = Tail(calls) /\ UNCHANGED <<seats, action, client>>
      BY <1>12, <2>1 DEF SyncerWarps
    <3> QED BY <1>f, <1>t, <1>u, <2>0, <3>1 DEF VictimInv
  <2>2. CASE v # NoVehicle /\ CanWarp(p, v, 0)
    <3>1. WarpPedIntoVehicle(p, v, 0, <<>>) /\ v \in Vehicles
      BY <1>0, <1>12, <2>0, <2>2 DEF SyncerWarps
    <3>2. CASE previous = NoPed
      <4>1. TakeSeatFrom(occupied, p, v, 0, <<>>)
        BY <3>1, <3>2 DEF WarpPedIntoVehicle, TakeSeat
      <4> QED BY <1>w, <2>0, <3>1, <3>2, <4>1
    <3>3. CASE previous # NoPed
      <4>0. <<v, 0>> \in Places
        BY <1>0, <3>1 DEF Places
      <4>1. previous \in Peds /\ InVehicle(previous)
        BY <1>0, <3>3, <4>0, OccupantsAreIn
      <4>2. PICK c \in Calls, d \in Calls :
               c = Removing(previous) /\ d = Call("seat", p, v, 0, NoPed, FALSE)
        BY <1>0, <2>0, <3>1, <4>1, PlaceParts, CallType DEF Removing, Events
      <4>3. calls' = <<c, d>> \o <<>> /\ UNCHANGED <<seats, action, client>>
        BY <3>1, <3>3, <4>1, <4>2 DEF WarpPedIntoVehicle
      <4>4. /\ calls' = <<c, d>> /\ c.kind = "removing"
            /\ d.kind = "seat" /\ d.seat = 0 /\ d.ped = p /\ d.veh = v
        BY <4>2, <4>3 DEF Removing, Call
      <4>5. CallFits(c)' /\ CallFits(d)'
        BY <1>l, <4>4 DEF CallFits, links
      <4>6. JackFits'
        BY <4>4, <4>5 DEF JackFits
      <4> QED BY <1>u, <4>3, <4>6 DEF VictimInv
    <3> QED BY <3>2, <3>3
  <2> QED BY <2>1, <2>2
<1> QED BY <1>1, <1>2, <1>3, <1>4, <1>5, <1>6, <1>7, <1>8, <1>9, <1>10, <1>11, <1>12 DEF Return

\* As long as handlers only cancel events and scripts warp nobody into a vehicle,
\* nobody stays jacked when the one who jacked him has died, left, been destroyed,
\* changed his syncer or jacked something else: a ped that is being jacked in a
\* vehicle always has somebody who is jacking that vehicle.
THEOREM VictimsHaveJackers ==
    ASSUME NobodyWarps
    PROVE  Spec => []VictimHasJacker
<1>0. OnlyCancels
  BY DEF NobodyWarps
<1>1. Init => VictimInv
  BY DEF Init, VictimInv, Victims, Knows, JackFits
<1>2. TypeOK /\ SeatsInv /\ JackLinks /\ HandshakeInv /\ JackHandled /\ VictimInv /\ [Next]_vars
        => VictimInv'
  <2> SUFFICES ASSUME TypeOK, SeatsInv, JackLinks, HandshakeInv, JackHandled, VictimInv, [Next]_vars
               PROVE  VictimInv'
    OBVIOUS
  <2>1. CASE UNCHANGED vars
    BY <2>1 DEF vars, seats, links, VictimInv, Victims, Knows, JackFits, CallFits, HasJacker, InVehicle
  <2> QED BY <2>1, PacketVictims, OperationVictims, ReturnVictims DEF Next
<1>3. VictimInv => VictimHasJacker
  BY DEF VictimInv, Victims, HasJacker, VictimHasJacker
<1> QED BY <1>0, <1>1, <1>2, <1>3, SeatsInvariant, TypeCorrect, LinksAgree, JackInvariant, PTL DEF Spec

=============================================================================
