------------------------- MODULE VehicleInOutProofs -------------------------
(* Proofs about VehicleInOut, for any peds, players, vehicles and seats.    *)
EXTENDS VehicleInOut, SequenceTheorems, TLAPS

-----------------------------------------------------------------------------
(* Type correctness.                                                        *)

\* Pushing calls on a stack of calls.
LEMMA PushCalls ==
    ASSUME NEW below \in Seq(Calls), NEW a \in Calls, NEW b \in Calls
    PROVE  <<a>> \o below \in Seq(Calls) /\ <<a, b>> \o below \in Seq(Calls)
<1>1. <<a>> \in Seq(Calls) /\ <<a, b>> \in Seq(Calls)
  OBVIOUS
<1> QED BY <1>1, ConcatProperties

\* The innermost call of a suspended thread, and the calls under it.
LEMMA TopOfCalls ==
    ASSUME TypeOK, calls # <<>>
    PROVE  /\ Top \in Calls
           /\ Top.kind \notin SyncerCalls => Top.veh \in Vehicles
           /\ Tail(calls) \in Seq(Calls)
<1>1. calls \in Seq(Calls)
  BY DEF TypeOK
<1>2. Top \in Calls /\ Tail(calls) \in Seq(Calls)
  BY <1>1, HeadTailProperties DEF Top
<1>3. Top.kind \notin SyncerCalls => Top.veh \in Vehicles
  BY <1>2 DEF Calls, CallsOf
<1> QED BY <1>2, <1>3

\* The parts of a call.
LEMMA CallParts ==
    ASSUME NEW c \in Calls
    PROVE  c.ped \in Peds /\ c.seat \in Seats /\ c.other \in Peds \cup {NoPed} /\ c.warp \in BOOLEAN
BY DEF Calls, CallsOf

\* A call that is made has the type of a call.
LEMMA CallType ==
    ASSUME NEW k \in Events \cup {"seat"}, NEW p \in Peds, NEW v \in Vehicles, NEW s \in Seats,
           NEW o \in Peds \cup {NoPed}, NEW w \in BOOLEAN
    PROVE  Call(k, p, v, s, o, w) \in Calls
BY DEF Call, Calls, CallsOf

\* Where a ped is, is a place or none at all.
LEMMA PlaceParts ==
    ASSUME TypeOK, NEW p \in Peds
    PROVE  /\ occupied[p][2] \in Seats
           /\ InVehicle(p) => occupied[p] \in Places /\ occupied[p][1] \in Vehicles
           /\ InVehicle(p) => occupied[p] = <<occupied[p][1], occupied[p][2]>>
           /\ occupied[p][1] \in Vehicles => occupied[p] \in Places
<1>1. occupied[p] \in Places \cup {Out} /\ 0 \in Seats
  BY SeatsAssumption DEF TypeOK, Seats
<1> QED BY <1>1, NullAssumption DEF Places, Out, InVehicle

\* A client that is told to forget what it owes is a client.
LEMMA ResetType ==
    ASSUME TypeOK
    PROVE  /\ \A p \in Peds : Reset(client[p]) \in Clients
           /\ \A S : ResetClients(S) \in [Peds -> Clients]
           /\ Free \in Clients
           /\ \A v \in Vehicles, t \in Tasks : Owes(t, v) \in Clients
<1>1. ASSUME NEW p \in Peds PROVE Reset(client[p]) \in Clients
  <2>1. client[p] \in Clients
    BY DEF TypeOK
  <2>2. CASE client[p].task \in {"none", "waiting"}
    BY <2>2 DEF Reset, Clients
  <2>3. CASE client[p].task \notin {"none", "waiting"}
    <3>1. client[p] \in [task : Tasks, veh : Vehicles, late : BOOLEAN]
      BY <2>1, <2>3 DEF Clients, Free
    <3>2. [client[p] EXCEPT !.late = TRUE] \in [task : Tasks, veh : Vehicles, late : BOOLEAN]
      BY <3>1
    <3> QED BY <2>3, <3>2 DEF Reset, Clients
  <2> QED BY <2>2, <2>3
<1>2. \A S : ResetClients(S) \in [Peds -> Clients]
  BY <1>1 DEF TypeOK, ResetClients
<1>3. Free \in Clients /\ \A v \in Vehicles, t \in Tasks : Owes(t, v) \in Clients
  BY DEF Clients, Owes
<1> QED BY <1>1, <1>2, <1>3

\* What the seats' and the links' variables may hold.
SeatsType == /\ occupied \in [Peds -> Places \cup {Out}]
             /\ occupants \in [Places -> Peds \cup {NoPed}]
LinksType == /\ jackingVehicle \in [Peds -> Vehicles \cup {NoVehicle}]
             /\ jackingPed \in [Vehicles -> Peds \cup {NoPed}]

\* The helpers that change the seats and the links keep their types.
LEMMA HelperTypes ==
    ASSUME TypeOK, NEW p \in Peds
    PROVE  /\ \A v \in Vehicles, s \in Seats : SetOccupiedVehicle(p, v, s) => SeatsType'
           /\ LeaveVehicle(p) => SeatsType'
           /\ \A v, s : ClearSeat(p, v, s) => SeatsType'
           /\ \A v \in Vehicles : SetJackingVehicle(p, v) => LinksType'
           /\ \A v : ClearJacking(p, v) => LinksType'
<1>1. \A v \in Vehicles, s \in Seats : SetOccupiedVehicle(p, v, s) => SeatsType'
  BY DEF TypeOK, SetOccupiedVehicle, SeatsType, Places
<1>2. LeaveVehicle(p) => SeatsType'
  BY DEF TypeOK, LeaveVehicle, SeatsType
<1>3. \A v, s : ClearSeat(p, v, s) => SeatsType'
  BY DEF TypeOK, ClearSeat, SeatsType
<1>4. \A v \in Vehicles : SetJackingVehicle(p, v) => LinksType'
  BY DEF TypeOK, SetJackingVehicle, LinksType
<1>5. \A v : ClearJacking(p, v) => LinksType'
  BY DEF TypeOK, ClearJacking, LinksType
<1> QED BY <1>1, <1>2, <1>3, <1>4, <1>5

\* What a warp changes keeps its type.
LEMMA TakeSeatType ==
    ASSUME TypeOK, NEW p \in Peds, NEW v \in Vehicles, NEW s \in Seats,
           NEW below \in Seq(Calls), NEW was \in [Peds -> Places \cup {Out}],
           TakeSeatFrom(was, p, v, s, below)
    PROVE  /\ SeatsType'
           /\ action' \in [Peds -> Actions]
           /\ client' \in [Peds -> Clients]
           /\ calls' \in Seq(Calls)
<1>1. SeatsType'
  BY DEF TypeOK, TakeSeatFrom, SeatsType, Places
<1>2. action' \in [Peds -> Actions]
  BY DEF TypeOK, TakeSeatFrom, Actions
<1>3. client' \in [Peds -> Clients]
  BY ResetType DEF TakeSeatFrom
<1>4. Call("warped", p, v, s, NoPed, FALSE) \in Calls
  BY CallType DEF Events
<1>5. calls' \in Seq(Calls)
  BY <1>4, PushCalls DEF TakeSeatFrom
<1> QED BY <1>1, <1>2, <1>3, <1>5

\* So does what WarpPedIntoVehicle changes, up to the first event it calls.
LEMMA WarpType ==
    ASSUME TypeOK, NEW p \in Peds, NEW v \in Vehicles, NEW s \in Seats,
           NEW below \in Seq(Calls), WarpPedIntoVehicle(p, v, s, below)
    PROVE  /\ SeatsType'
           /\ action' \in [Peds -> Actions]
           /\ client' \in [Peds -> Clients]
           /\ calls' \in Seq(Calls)
<1> DEFINE previous == occupants[<<v, s>>]
<1>1. CASE previous # NoPed /\ InVehicle(previous)
  <2>1. previous \in Peds
    BY <1>1 DEF TypeOK, Places
  <2>2. Removing(previous) \in Calls /\ Call("seat", p, v, s, NoPed, FALSE) \in Calls
    BY <1>1, <2>1, PlaceParts, CallType DEF Removing, Events
  <2>3. calls' \in Seq(Calls) /\ UNCHANGED <<seats, action, client>>
    BY <1>1, <2>2, PushCalls DEF WarpPedIntoVehicle
  <2> QED BY <2>3 DEF TypeOK, seats, SeatsType
<1>2. CASE ~(previous # NoPed /\ InVehicle(previous))
  <2>1. TakeSeatFrom(occupied, p, v, s, below)
    BY <1>2 DEF WarpPedIntoVehicle, TakeSeat
  <2> QED BY <2>1, TakeSeatType DEF TypeOK
<1> QED BY <1>1, <1>2

\* Letting a ped in keeps the types.
LEMMA ConfirmType ==
    ASSUME TypeOK, NEW c \in Calls, c.veh \in Vehicles, NEW below \in Seq(Calls),
           ConfirmEnter(c.ped, c.veh, c.seat, c.other, c.warp, below)
    PROVE  /\ SeatsType'
           /\ action' \in [Peds -> Actions]
           /\ client' \in [Peds -> Clients]
           /\ calls' \in Seq(Calls)
<1> DEFINE p == c.ped
           v == c.veh
           s == c.seat
           w == c.warp
           removed == IF s = 0 THEN p ELSE c.other
<1>0. p \in Peds /\ s \in Seats /\ ConfirmEnter(p, v, s, c.other, w, below)
  BY CallParts
<1>1. CASE ~w
  <2>1. /\ client' = [client EXCEPT ![p] = Owes("in", v)]
        /\ calls' = below
        /\ UNCHANGED <<seats, action>>
    BY <1>0, <1>1 DEF ConfirmEnter
  <2>2. Owes("in", v) \in Clients
    BY ResetType DEF Tasks
  <2> QED BY <2>1, <2>2 DEF TypeOK, seats, SeatsType
<1>2. CASE w /\ ~occupantChanged[v] /\ p \notin dead
  <2>1. TakeSeatFrom([occupied EXCEPT ![removed] = Out], p, v, s, below)
    BY <1>0, <1>2 DEF ConfirmEnter
  <2>2. [occupied EXCEPT ![removed] = Out] \in [Peds -> Places \cup {Out}]
    BY DEF TypeOK
  <2> HIDE DEF removed
  <2> QED BY <1>0, <2>1, <2>2, TakeSeatType
<1>3. CASE w /\ ~occupantChanged[v] /\ p \in dead
  <2>1. /\ ClearSeat(removed, v, s)
        /\ action' = [action EXCEPT ![p] = "NONE"]
        /\ calls' = below
        /\ UNCHANGED client
    BY <1>0, <1>3 DEF ConfirmEnter
  <2>2. SeatsType'
    BY <2>1 DEF TypeOK, ClearSeat, SeatsType
  <2> QED BY <2>1, <2>2 DEF TypeOK, Actions
<1>4. CASE w /\ occupantChanged[v] /\ CanWarp(p, v, s)
  <2>1. WarpPedIntoVehicle(p, v, s, below)
    BY <1>0, <1>4 DEF ConfirmEnter
  <2> QED BY <1>0, <2>1, WarpType
<1>5. CASE w /\ occupantChanged[v] /\ ~CanWarp(p, v, s)
  <2>1. /\ action' = [action EXCEPT ![p] = "NONE"]
        /\ calls' = below
        /\ UNCHANGED <<seats, client>>
    BY <1>0, <1>5 DEF ConfirmEnter
  <2> QED BY <2>1 DEF TypeOK, seats, SeatsType, Actions
<1> QED BY <1>1, <1>2, <1>3, <1>4, <1>5

\* What is left of type correctness when an action has been split into these.
LEMMA TypesTogether ==
    ASSUME SeatsType', LinksType', action' \in [Peds -> Actions],
           occupantChanged' \in [Vehicles -> BOOLEAN],
           spawned' \subseteq Peds, dead' \subseteq Peds, gone' \subseteq Peds \cup Vehicles,
           client' \in [Peds -> Clients], calls' \in Seq(Calls)
    PROVE  TypeOK'
BY DEF TypeOK, SeatsType, LinksType

\* Handling a packet keeps the types.
LEMMA PacketTypes ==
    ASSUME TypeOK, NEW p \in Peds, Packet(p)
    PROVE  TypeOK'
<1> USE DEF SeatsType, LinksType, seats, links, lives
<1>0. /\ occupied \in [Peds -> Places \cup {Out}]
      /\ occupants \in [Places -> Peds \cup {NoPed}]
      /\ action \in [Peds -> Actions]
      /\ jackingVehicle \in [Peds -> Vehicles \cup {NoVehicle}]
      /\ jackingPed \in [Vehicles -> Peds \cup {NoPed}]
      /\ occupantChanged \in [Vehicles -> BOOLEAN]
      /\ spawned \subseteq Peds /\ dead \subseteq Peds
      /\ gone \subseteq Peds \cup Vehicles
      /\ client \in [Peds -> Clients]
      /\ calls \in Seq(Calls)
  BY DEF TypeOK
<1>00. \A c \in Calls : Push(c) \in Seq(Calls)
  BY <1>0, PushCalls DEF Push
<1>f. [client EXCEPT ![p] = Free] \in [Peds -> Clients]
  BY <1>0, ResetType
<1>o. occupied[p][2] \in Seats
  BY PlaceParts
<1>i. ASSUME Ignored(p), HasAnswer(p, "in") \/ HasAnswer(p, "out") \/ HasAnswer(p, "jack")
      PROVE  client' \in [Peds -> Clients]
  <2>1. client[p] \in [task : Tasks, veh : Vehicles, late : BOOLEAN]
    BY <1>i, <1>0 DEF HasAnswer, Clients, Free
  <2>2. [client[p] EXCEPT !.task = "waiting"] \in [task : Tasks, veh : Vehicles, late : BOOLEAN]
    BY <2>1 DEF Tasks
  <2>3. client' = [client EXCEPT ![p] = IF client[p].late THEN Free
                                        ELSE [client[p] EXCEPT !.task = "waiting"]]
    BY <1>i, <1>0 DEF Ignored
  <2> QED BY <1>0, <2>2, <2>3 DEF Clients
<1>v. ASSUME HasAnswer(p, "in") \/ HasAnswer(p, "out") \/ HasAnswer(p, "jack")
      PROVE  client[p].veh \in Vehicles
  BY <1>v, <1>0 DEF HasAnswer, Clients, Free
<1>1. ASSUME NEW v \in Vehicles, NEW s \in Seats, RequestIn(p, v, s) PROVE TypeOK'
  <2>0. client' \in [Peds -> Clients] /\ UNCHANGED <<lives, gone>>
    BY <1>f, <1>1 DEF RequestIn
  <2>1. ASSUME NEW t \in SeatFor(v, s), StartEnter(p, v, t) PROVE TypeOK'
    <3>1. t \in Seats
      BY SeatsAssumption DEF SeatFor, FreePassengerSeat, Seats
    <3>2. SeatsType'
      BY <2>1, <3>1, HelperTypes DEF StartEnter
    <3>3. PICK w \in BOOLEAN, q \in Sender(p) : calls' = Push(Call("startEnter", p, v, t, q, w))
      BY <2>1 DEF StartEnter
    <3>4. q \in Peds
      BY PlayersAssumption DEF Sender
    <3>5. calls' \in Seq(Calls)
      BY <1>00, <3>1, <3>3, <3>4, CallType DEF Events
    <3>6. /\ action' \in [Peds -> Actions] /\ occupantChanged' \in [Vehicles -> BOOLEAN]
          /\ UNCHANGED links
      BY <2>1, <1>0 DEF StartEnter, Actions
    <3> QED BY <1>0, <2>0, <3>2, <3>5, <3>6, TypesTogether
  <2>2. ASSUME CanJack(v), StartJack(p, v, occupants[<<v, 0>>]) PROVE TypeOK'
    <3>1. occupants[<<v, 0>>] \in Peds /\ 0 \in Seats
      BY <1>0, <2>2, SeatsAssumption DEF CanJack, Places, Seats
    <3>2. LinksType'
      BY <2>2, HelperTypes DEF StartJack
    <3>3. calls' \in Seq(Calls)
      BY <1>00, <2>2, <3>1, CallType DEF StartJack, Events
    <3>4. action' \in [Peds -> Actions] /\ UNCHANGED <<seats, occupantChanged>>
      BY <1>0, <2>2 DEF StartJack, Actions
    <3> QED BY <1>0, <2>0, <3>2, <3>3, <3>4, TypesTogether
  <2>3. ASSUME UNCHANGED <<seats, action, links, occupantChanged, calls>> PROVE TypeOK'
    BY <1>0, <2>0, <2>3, TypesTogether
  <2> QED BY <1>1, <2>1, <2>2, <2>3 DEF RequestIn
<1>2. ASSUME NotifyIn(p) PROVE TypeOK'
  <2>1. client' \in [Peds -> Clients]
    BY <1>2, <1>f, <1>i DEF NotifyIn
  <2>2. action' \in [Peds -> Actions]
    BY <1>2, <1>0 DEF NotifyIn, Ignored, Actions
  <2>3. UNCHANGED <<seats, links, calls, occupantChanged, lives, gone>>
    BY <1>2 DEF NotifyIn, Ignored
  <2> QED BY <1>0, <2>1, <2>2, <2>3, TypesTogether
<1>3. ASSUME NotifyInAbort(p) PROVE TypeOK'
  <2>1. client' \in [Peds -> Clients]
    BY <1>3, <1>f, <1>i DEF NotifyInAbort
  <2>2. action' \in [Peds -> Actions] /\ UNCHANGED <<links, calls, occupantChanged, lives, gone>>
    BY <1>3, <1>0 DEF NotifyInAbort, Ignored, Actions
  <2>3. SeatsType'
    BY <1>3, <1>0, HelperTypes DEF NotifyInAbort, Ignored
  <2> QED BY <1>0, <2>1, <2>2, <2>3, TypesTogether
<1>4. ASSUME NEW v \in Vehicles, RequestOut(p, v) PROVE TypeOK'
  <2>1. calls' \in Seq(Calls)
    <3>1. Call("startExit", p, v, occupied[p][2], NoPed, FALSE) \in Calls
      BY <1>o, CallType DEF Events
    <3> QED BY <1>4, <3>1, <1>0, <1>00 DEF RequestOut
  <2>2. client' \in [Peds -> Clients] /\ UNCHANGED <<seats, action, links, occupantChanged, lives, gone>>
    BY <1>4, <1>f DEF RequestOut
  <2> QED BY <1>0, <2>1, <2>2, TypesTogether
<1>5. ASSUME NotifyOut(p) PROVE TypeOK'
  <2>1. client' \in [Peds -> Clients]
    BY <1>5, <1>f, <1>i DEF NotifyOut
  <2>2. action' \in [Peds -> Actions] /\ UNCHANGED <<links, calls, occupantChanged, lives, gone>>
    BY <1>5, <1>0 DEF NotifyOut, Ignored, Actions
  <2>3. SeatsType'
    BY <1>5, <1>0, HelperTypes DEF NotifyOut, Ignored
  <2> QED BY <1>0, <2>1, <2>2, <2>3, TypesTogether
<1>6. ASSUME NEW v \in Vehicles, NotifyFellOff(p, v) PROVE TypeOK'
  <2>1. calls' \in Seq(Calls)
    <3>1. Call("fellOff", p, v, occupied[p][2], NoPed, FALSE) \in Calls
      BY <1>o, CallType DEF Events
    <3> QED BY <1>6, <3>1, <1>00 DEF NotifyFellOff
  <2>2. client' \in [Peds -> Clients] /\ UNCHANGED <<action, links, occupantChanged, lives, gone>>
    BY <1>0, <1>6, ResetType DEF NotifyFellOff, Clients
  <2>3. SeatsType'
    BY <1>6, HelperTypes DEF NotifyFellOff
  <2> QED BY <1>0, <2>1, <2>2, <2>3, TypesTogether
<1>7. ASSUME NotifyJack(p) PROVE TypeOK'
  <2> DEFINE v == client[p].veh
             jacked == occupants[<<v, 0>>]
  <2>0. v \in Vehicles /\ <<v, 0>> \in Places
    BY <1>7, <1>v, SeatsAssumption DEF NotifyJack, Places, Seats
  <2>1. CASE action[p] = "JACKING"
    <3>1. /\ occupied' = [q \in Peds |-> IF q = p THEN <<v, 0>>
                                          ELSE IF q = jacked THEN Out ELSE occupied[q]]
          /\ occupants' = [occupants EXCEPT ![<<v, 0>>] = p]
          /\ action' = [q \in Peds |-> IF q \in {p, jacked} THEN "NONE" ELSE action[q]]
          /\ ClearJacking(p, v)
          /\ client' = [q \in Peds |-> IF q = p THEN Free
                                        ELSE IF q = jacked THEN Reset(client[q])
                                        ELSE client[q]]
          /\ UNCHANGED <<calls, occupantChanged, lives, gone>>
      BY <1>7, <2>1 DEF NotifyJack
    <3> HIDE DEF v, jacked
    <3>2. SeatsType' /\ action' \in [Peds -> Actions]
      BY <1>0, <2>0, <3>1 DEF Actions
    <3>3. LinksType'
      BY <3>1, HelperTypes
    <3>4. client' \in [Peds -> Clients]
      BY <1>0, <3>1, ResetType
    <3> QED BY <1>0, <3>1, <3>2, <3>3, <3>4, TypesTogether
  <2>2. CASE action[p] # "JACKING"
    <3>1. /\ client' \in [Peds -> Clients]
          /\ UNCHANGED <<seats, action, links, calls, occupantChanged, lives, gone>>
      BY <1>7, <1>i, <2>2 DEF NotifyJack, Ignored
    <3> QED BY <1>0, <3>1, TypesTogether
  <2> QED BY <2>1, <2>2
<1>8. ASSUME NEW started \in BOOLEAN, NotifyJackAbort(p, started) PROVE TypeOK'
  <2> DEFINE v == client[p].veh
             jacked == occupants[<<v, 0>>]
             thrown == started /\ jacked # NoPed
  <2>0. v \in Vehicles /\ <<v, 0>> \in Places /\ jacked \in Peds \cup {NoPed} /\ 0 \in Seats
    <3>1. v \in Vehicles
      BY <1>8, <1>v DEF NotifyJackAbort
    <3>2. 0 \in Seats
      BY SeatsAssumption DEF Seats
    <3> QED BY <1>0, <3>1, <3>2 DEF Places
  <2>1. CASE action[p] = "JACKING"
    <3>1. /\ occupied' = [q \in Peds |-> IF q = p \/ (thrown /\ q = jacked) THEN Out
                                          ELSE occupied[q]]
          /\ occupants' = IF thrown THEN [occupants EXCEPT ![<<v, 0>>] = NoPed] ELSE occupants
          /\ action' = [q \in Peds |-> IF q = p \/ (~thrown /\ q = jacked) THEN "NONE"
                                        ELSE action[q]]
          /\ ClearJacking(p, v)
          /\ client' = [q \in Peds |-> IF q = p THEN Free
                                        ELSE IF thrown /\ q = jacked THEN Reset(client[q])
                                        ELSE client[q]]
          /\ calls' = IF thrown THEN Push(Call("jackAbort", jacked, v, 0, p, FALSE)) ELSE calls
          /\ UNCHANGED <<occupantChanged, lives, gone>>
      BY <1>8, <2>1 DEF NotifyJackAbort
    <3>2. calls' \in Seq(Calls)
      <4>1. CASE thrown
        <5>1. Call("jackAbort", jacked, v, 0, p, FALSE) \in Calls
          BY <2>0, <4>1, CallType DEF Events
        <5> QED BY <1>00, <3>1, <4>1, <5>1
      <4> QED BY <1>0, <3>1, <4>1
    <3> HIDE DEF v, jacked, thrown
    <3>3. SeatsType' /\ action' \in [Peds -> Actions]
      BY <1>0, <2>0, <3>1 DEF Actions
    <3>4. LinksType'
      BY <3>1, HelperTypes
    <3>5. client' \in [Peds -> Clients]
      BY <1>0, <3>1, ResetType
    <3> QED BY <1>0, <3>1, <3>2, <3>3, <3>4, <3>5, TypesTogether
  <2>2. CASE action[p] # "JACKING"
    <3>1. /\ client' \in [Peds -> Clients]
          /\ UNCHANGED <<seats, action, links, calls, occupantChanged, lives, gone>>
      BY <1>8, <1>i, <2>2 DEF NotifyJackAbort, Ignored
    <3> QED BY <1>0, <3>1, TypesTogether
  <2> QED BY <2>1, <2>2
<1>9. ASSUME Wasted(p) PROVE TypeOK'
  <2>1. SeatsType' /\ action' \in [Peds -> Actions]
    BY <1>0, <1>9, HelperTypes DEF Wasted, Dies, Actions
  <2>2. /\ spawned' \subseteq Peds /\ dead' \subseteq Peds
        /\ UNCHANGED <<links, occupantChanged, gone, client, calls>>
    BY <1>0, <1>9 DEF Wasted, Dies
  <2> QED BY <1>0, <2>1, <2>2, TypesTogether
<1> QED BY <1>1, <1>2, <1>3, <1>4, <1>5, <1>6, <1>7, <1>8, <1>9 DEF Packet

\* What scripts and the rest of the server do keeps the types.
LEMMA OperationTypes ==
    ASSUME TypeOK, Operation
    PROVE  TypeOK'
<1> USE DEF SeatsType, LinksType, seats, links, lives
<1>0. /\ occupied \in [Peds -> Places \cup {Out}]
      /\ occupants \in [Places -> Peds \cup {NoPed}]
      /\ action \in [Peds -> Actions]
      /\ jackingVehicle \in [Peds -> Vehicles \cup {NoVehicle}]
      /\ jackingPed \in [Vehicles -> Peds \cup {NoPed}]
      /\ occupantChanged \in [Vehicles -> BOOLEAN]
      /\ spawned \subseteq Peds /\ dead \subseteq Peds
      /\ gone \subseteq Peds \cup Vehicles
      /\ client \in [Peds -> Clients]
      /\ calls \in Seq(Calls)
  BY DEF TypeOK
<1>00. \A c \in Calls : Push(c) \in Seq(Calls)
  BY <1>0, PushCalls DEF Push
<1>c. 0 \in Seats /\ \A v \in Vehicles : <<v, 0>> \in Places
  BY SeatsAssumption DEF Seats, Places
<1>1. ASSUME NEW p \in Peds, NEW v \in Vehicles, NEW s \in Seats, ScriptWarps(p, v, s)
      PROVE  TypeOK'
  <2>1. WarpPedIntoVehicle(p, v, s, calls) /\ UNCHANGED <<links, occupantChanged, lives, gone>>
    BY <1>1 DEF ScriptWarps
  <2>2. SeatsType' /\ action' \in [Peds -> Actions] /\ client' \in [Peds -> Clients] /\ calls' \in Seq(Calls)
    BY <1>0, <2>1, WarpType
  <2> QED BY <1>0, <2>1, <2>2, TypesTogether
<1>2. ASSUME NEW p \in Peds, ScriptRemoves(p) PROVE TypeOK'
  <2>1. Removing(p) \in Calls
    BY <1>2, PlaceParts, CallType DEF ScriptRemoves, Removing, Events
  <2>2. /\ calls' \in Seq(Calls)
        /\ UNCHANGED <<seats, action, links, occupantChanged, lives, gone, client>>
    BY <1>00, <1>2, <2>1 DEF ScriptRemoves
  <2> QED BY <1>0, <2>2, TypesTogether
<1>3. ASSUME NEW p \in Peds, ScriptKills(p) PROVE TypeOK'
  <2>1. SeatsType' /\ action' \in [Peds -> Actions]
    BY <1>0, <1>3, HelperTypes DEF ScriptKills, Dies, Actions
  <2>2. /\ spawned' \subseteq Peds /\ dead' \subseteq Peds
        /\ UNCHANGED <<links, occupantChanged, gone, client, calls>>
    BY <1>0, <1>3 DEF ScriptKills, Dies
  <2> QED BY <1>0, <2>1, <2>2, TypesTogether
<1>4. ASSUME NEW p \in Peds, SpawnPlayer(p) PROVE TypeOK'
  <2>1. SeatsType' /\ action' \in [Peds -> Actions]
    BY <1>0, <1>4, HelperTypes DEF SpawnPlayer, Actions
  <2>2. client' \in [Peds -> Clients]
    BY <1>4, ResetType DEF SpawnPlayer
  <2>3. LinksType'
    BY <1>0, <1>4, HelperTypes DEF SpawnPlayer
  <2>4. spawned' \subseteq Peds /\ dead' \subseteq Peds /\ UNCHANGED <<occupantChanged, gone, calls>>
    BY <1>0, <1>4 DEF SpawnPlayer
  <2> QED BY <1>0, <2>1, <2>2, <2>3, <2>4, TypesTogether
<1>5. ASSUME NEW p \in Peds, SyncerChanges(p) PROVE TypeOK'
  <2>1. Call("syncer", p, NoVehicle, 0, NoPed, FALSE) \in Calls
    BY <1>c DEF Call, Calls, CallsOf, SyncerCalls
  <2>2. /\ calls' \in Seq(Calls) /\ client' \in [Peds -> Clients]
        /\ UNCHANGED <<seats, action, links, occupantChanged, lives, gone>>
    BY <1>0, <1>00, <1>5, <2>1, ResetType DEF SyncerChanges
  <2> QED BY <1>0, <2>2, TypesTogether
<1>6. ASSUME NEW p \in Peds, PedIsDeleted(p) PROVE TypeOK'
  <2>1. SeatsType'
    BY <1>0, <1>6 DEF PedIsDeleted
  <2>2. action' \in [Peds -> Actions]
    BY <1>0, <1>6 DEF PedIsDeleted, Actions
  <2>3. client' \in [Peds -> Clients]
    BY <1>0, <1>6, ResetType DEF PedIsDeleted
  <2>4. LinksType'
    BY <1>0, <1>6, HelperTypes DEF PedIsDeleted
  <2>5. /\ spawned' \subseteq Peds /\ dead' \subseteq Peds /\ gone' \subseteq Peds \cup Vehicles
        /\ UNCHANGED <<occupantChanged, calls>>
    BY <1>0, <1>6 DEF PedIsDeleted
  <2> QED BY <1>0, <2>1, <2>2, <2>3, <2>4, <2>5, TypesTogether
<1>7. ASSUME NEW v \in Vehicles, VehicleIsDeleted(v) PROVE TypeOK'
  <2>1. SeatsType'
    BY <1>0, <1>7 DEF VehicleIsDeleted
  <2>2. action' \in [Peds -> Actions]
    BY <1>0, <1>7 DEF VehicleIsDeleted, Actions
  <2>3. client' \in [Peds -> Clients]
    BY <1>0, <1>7, ResetType DEF VehicleIsDeleted
  <2>4. LinksType'
    BY <1>0, <1>7, HelperTypes DEF VehicleIsDeleted
  <2>5. gone' \subseteq Peds \cup Vehicles /\ UNCHANGED <<occupantChanged, lives, calls>>
    BY <1>0, <1>7 DEF VehicleIsDeleted
  <2> QED BY <1>0, <2>1, <2>2, <2>3, <2>4, <2>5, TypesTogether
<1> QED BY <1>1, <1>2, <1>3, <1>4, <1>5, <1>6, <1>7 DEF Operation

\* Going on when an event has returned keeps the types.
LEMMA ReturnTypes ==
    ASSUME TypeOK, Return
    PROVE  TypeOK'
<1> USE DEF SeatsType, LinksType, seats, links, lives
<1>0. /\ occupied \in [Peds -> Places \cup {Out}]
      /\ occupants \in [Places -> Peds \cup {NoPed}]
      /\ action \in [Peds -> Actions]
      /\ jackingVehicle \in [Peds -> Vehicles \cup {NoVehicle}]
      /\ jackingPed \in [Vehicles -> Peds \cup {NoPed}]
      /\ occupantChanged \in [Vehicles -> BOOLEAN]
      /\ spawned \subseteq Peds /\ dead \subseteq Peds
      /\ gone \subseteq Peds \cup Vehicles
      /\ client \in [Peds -> Clients]
      /\ calls \in Seq(Calls)
  BY DEF TypeOK
<1>c. calls # <<>>
  BY DEF Return, SeatIsFreed, WarpedReturns, RemovingReturns, StartEnterReturns,
         OverrideSyncerReturns, StartEnterIsCancelled, StartJackReturns, StartJackIsCancelled,
         JackExitReturns, JackExitIsCancelled, StartExitReturns, StartExitIsCancelled,
         FellOffReturns, JackAbortReturns, SyncerRemoves, SyncerWarps, SyncerIsSet, Running
<1>t. /\ Top \in Calls /\ Tail(calls) \in Seq(Calls)
      /\ Top.kind \notin SyncerCalls => Top.veh \in Vehicles
      /\ Top.ped \in Peds /\ Top.seat \in Seats /\ Top.other \in Peds \cup {NoPed}
      /\ Top.warp \in BOOLEAN
  BY <1>c, TopOfCalls, CallParts
<1>b. \A c \in Calls : Become(c) \in Seq(Calls)
  BY <1>t, PushCalls DEF Become
<1>k. \A k \in Events : Top.kind \notin SyncerCalls => [Top EXCEPT !.kind = k] \in Calls
  BY <1>t DEF Calls, CallsOf
<1>s. ASSUME NEW k \in (Events \cup {"seat"}) \ SyncerCalls, Running(k) PROVE Top.veh \in Vehicles
  BY <1>s, <1>t DEF Running, Top
<1> DEFINE Others == UNCHANGED <<links, occupantChanged, lives, gone>>
<1>1. ASSUME SeatIsFreed PROVE TypeOK'
  <2>1. Top.veh \in Vehicles /\ TakeSeatFrom(occupied, Top.ped, Top.veh, Top.seat, Tail(calls)) /\ Others
    BY <1>1, <1>s DEF SeatIsFreed, TakeSeat, SyncerCalls
  <2>2. SeatsType' /\ action' \in [Peds -> Actions] /\ client' \in [Peds -> Clients] /\ calls' \in Seq(Calls)
    BY <1>0, <1>t, <2>1, TakeSeatType
  <2> QED BY <1>0, <2>1, <2>2, TypesTogether
<1>2. ASSUME WarpedReturns PROVE TypeOK'
  <2>1. /\ occupantChanged' \in [Vehicles -> BOOLEAN] /\ calls' = Tail(calls)
        /\ UNCHANGED <<seats, action, links, lives, gone, client>>
    BY <1>0, <1>2 DEF WarpedReturns
  <2> QED BY <1>0, <1>t, <2>1, TypesTogether
<1>3. ASSUME RemovingReturns PROVE TypeOK'
  <2>1. /\ action' \in [Peds -> Actions] /\ calls' = Tail(calls)
        /\ client' \in [Peds -> Clients] /\ Others
    BY <1>0, <1>3, ResetType DEF RemovingReturns, Actions
  <2>2. SeatsType'
    BY <1>3, <1>t, HelperTypes DEF RemovingReturns
  <2> QED BY <1>0, <1>t, <2>1, <2>2, TypesTogether
<1>4. ASSUME StartEnterReturns PROVE TypeOK'
  <2>1. CASE action[Top.ped] # "ENTERING"
    <3>1. calls' = Tail(calls) /\ UNCHANGED <<seats, action, client>> /\ Others
      BY <1>4, <2>1 DEF StartEnterReturns
    <3> QED BY <1>0, <1>t, <3>1, TypesTogether
  <2>2. CASE action[Top.ped] = "ENTERING" /\ Top.seat = 0
    <3>1. /\ calls' = Become([Top EXCEPT !.kind = "override"])
          /\ UNCHANGED <<seats, action, client>> /\ Others
      BY <1>4, <2>2 DEF StartEnterReturns
    <3>2. [Top EXCEPT !.kind = "override"] \in Calls
      BY <1>4, <1>k DEF StartEnterReturns, Running, Top, Events, SyncerCalls
    <3>3. calls' \in Seq(Calls)
      BY <1>b, <3>1, <3>2
    <3> QED BY <1>0, <3>1, <3>3, TypesTogether
  <2>3. CASE action[Top.ped] = "ENTERING" /\ Top.seat # 0
    <3>1. /\ ConfirmEnter(Top.ped, Top.veh, Top.seat, Top.other, Top.warp, Tail(calls))
          /\ Others /\ Top.veh \in Vehicles
      BY <1>4, <1>s, <2>3 DEF StartEnterReturns, Events, SyncerCalls
    <3>2. SeatsType' /\ action' \in [Peds -> Actions] /\ client' \in [Peds -> Clients] /\ calls' \in Seq(Calls)
      BY <1>t, <3>1, ConfirmType
    <3> QED BY <1>0, <3>1, <3>2, TypesTogether
  <2> QED BY <2>1, <2>2, <2>3
<1>5. ASSUME OverrideSyncerReturns PROVE TypeOK'
  <2>1. /\ ConfirmEnter(Top.ped, Top.veh, Top.seat, Top.other, Top.warp, Tail(calls))
        /\ Others /\ Top.veh \in Vehicles
    BY <1>5, <1>s DEF OverrideSyncerReturns, Events, SyncerCalls
  <2>2. SeatsType' /\ action' \in [Peds -> Actions] /\ client' \in [Peds -> Clients] /\ calls' \in Seq(Calls)
    BY <1>t, <2>1, ConfirmType
  <2> QED BY <1>0, <2>1, <2>2, TypesTogether
<1>6. ASSUME StartEnterIsCancelled PROVE TypeOK'
  <2>1. SeatsType'
    BY <1>0, <1>6, <1>t, HelperTypes DEF StartEnterIsCancelled
  <2>2. /\ action' \in [Peds -> Actions] /\ calls' = Tail(calls)
        /\ UNCHANGED client /\ Others
    BY <1>0, <1>6 DEF StartEnterIsCancelled, Actions
  <2> QED BY <1>0, <1>t, <2>1, <2>2, TypesTogether
<1>7. ASSUME StartJackReturns PROVE TypeOK'
  <2>1. [Top EXCEPT !.kind = "jackExit"] \in Calls
    BY <1>7, <1>k DEF StartJackReturns, Running, Top, Events, SyncerCalls
  <2>2. calls' \in Seq(Calls) /\ UNCHANGED <<seats, action, client>> /\ Others
    BY <1>7, <1>b, <1>t, <2>1 DEF StartJackReturns
  <2> QED BY <1>0, <2>2, TypesTogether
<1>8. ASSUME StartJackIsCancelled PROVE TypeOK'
  <2>1. /\ action' \in [Peds -> Actions] /\ calls' = Tail(calls)
        /\ UNCHANGED <<seats, client>> /\ Others
    BY <1>0, <1>8 DEF StartJackIsCancelled, Actions
  <2> QED BY <1>0, <1>t, <2>1, TypesTogether
<1>9. ASSUME JackExitReturns PROVE TypeOK'
  <2>1. Owes("jack", Top.veh) \in Clients
    BY <1>9, <1>s, ResetType DEF JackExitReturns, Events, SyncerCalls, Tasks
  <2>2. /\ client' \in [Peds -> Clients] /\ calls' = Tail(calls)
        /\ UNCHANGED <<seats, action>> /\ Others
    BY <1>0, <1>9, <2>1 DEF JackExitReturns
  <2> QED BY <1>0, <1>t, <2>2, TypesTogether
<1>10. ASSUME JackExitIsCancelled \/ StartExitIsCancelled \/ SyncerIsSet PROVE TypeOK'
  <2>1. calls' = Tail(calls) /\ UNCHANGED <<seats, action, client>> /\ Others
    BY <1>10 DEF JackExitIsCancelled, StartExitIsCancelled, SyncerIsSet
  <2> QED BY <1>0, <1>t, <2>1, TypesTogether
<1>11. ASSUME StartExitReturns PROVE TypeOK'
  <2>1. Owes("out", Top.veh) \in Clients
    BY <1>11, <1>s, ResetType DEF StartExitReturns, Events, SyncerCalls, Tasks
  <2>2. /\ client' \in [Peds -> Clients] /\ action' \in [Peds -> Actions]
        /\ calls' = Tail(calls) /\ UNCHANGED seats /\ Others
    BY <1>0, <1>11, <2>1 DEF StartExitReturns, Actions
  <2> QED BY <1>0, <1>t, <2>2, TypesTogether
<1>12. ASSUME FellOffReturns \/ JackAbortReturns PROVE TypeOK'
  <2>1. /\ action' \in [Peds -> Actions] /\ calls' = Tail(calls)
        /\ UNCHANGED <<seats, client>> /\ Others
    BY <1>0, <1>12 DEF FellOffReturns, JackAbortReturns, Actions
  <2> QED BY <1>0, <1>t, <2>1, TypesTogether
<1>13. ASSUME SyncerRemoves PROVE TypeOK'
  <2>1. Removing(Top.ped) \in Calls
    BY <1>13, <1>t, PlaceParts, CallType DEF SyncerRemoves, Removing, Events
  <2>2. [Top EXCEPT !.kind = "drag"] \in Calls
    BY <1>13, <1>t DEF SyncerRemoves, Running, Top, Calls, CallsOf, Events, SyncerCalls
  <2>3. calls' \in Seq(Calls) /\ UNCHANGED <<seats, action, client>> /\ Others
    BY <1>13, <1>t, <2>1, <2>2, PushCalls DEF SyncerRemoves
  <2> QED BY <1>0, <2>3, TypesTogether
<1>14. ASSUME SyncerWarps PROVE TypeOK'
  <2> DEFINE v == jackingVehicle[Top.ped]
  <2>1. CASE v # NoVehicle /\ CanWarp(Top.ped, v, 0)
    <3>1. WarpPedIntoVehicle(Top.ped, v, 0, Tail(calls)) /\ Others
      BY <1>14, <2>1 DEF SyncerWarps
    <3>2. v \in Vehicles /\ 0 \in Seats
      BY <1>0, <1>t, <2>1, SeatsAssumption DEF Seats
    <3>3. SeatsType' /\ action' \in [Peds -> Actions] /\ client' \in [Peds -> Clients] /\ calls' \in Seq(Calls)
      BY <1>t, <3>1, <3>2, WarpType
    <3> QED BY <1>0, <3>1, <3>3, TypesTogether
  <2>2. CASE ~(v # NoVehicle /\ CanWarp(Top.ped, v, 0))
    <3>1. calls' = Tail(calls) /\ UNCHANGED <<seats, action, client>> /\ Others
      BY <1>14, <2>2 DEF SyncerWarps
    <3> QED BY <1>0, <1>t, <3>1, TypesTogether
  <2> QED BY <2>1, <2>2
<1> QED BY <1>1, <1>2, <1>3, <1>4, <1>5, <1>6, <1>7, <1>8, <1>9, <1>10, <1>11, <1>12, <1>13,
           <1>14 DEF Return

\* Every variable keeps its type in every state the server can reach: no seat,
\* link or suspended call ever holds anything but an element of its kind.
THEOREM TypeCorrect == Spec => []TypeOK
<1>1. Init => TypeOK
  <2>1. <<>> \in Seq(Calls) /\ Free \in Clients
    BY DEF Clients
  <2> QED BY <2>1 DEF Init, TypeOK, Actions, Out
<1>2. TypeOK /\ [Next]_vars => TypeOK'
  <2> SUFFICES ASSUME TypeOK, [Next]_vars PROVE TypeOK'
    OBVIOUS
  <2>1. CASE UNCHANGED vars
    BY <2>1 DEF TypeOK, vars, seats, links, lives
  <2> QED BY <2>1, PacketTypes, OperationTypes, ReturnTypes DEF Next
<1> QED BY <1>1, <1>2, PTL DEF Spec

-----------------------------------------------------------------------------
(* Who jacks what.                                                          *)

\* Each of the two directions undoes the other's former link.
LEMMA LinkHelpers ==
    ASSUME TypeOK, JackLinks, NEW p \in Peds, NEW v \in Vehicles,
           SetJackingVehicle(p, v) \/ ClearJacking(p, v)
    PROVE  JackLinks'
<1>0. /\ jackingVehicle \in [Peds -> Vehicles \cup {NoVehicle}]
      /\ jackingPed \in [Vehicles -> Peds \cup {NoPed}]
  BY DEF TypeOK
<1> SUFFICES ASSUME NEW q \in Peds, NEW u \in Vehicles
             PROVE  jackingPed'[u] = q <=> jackingVehicle'[q] = u
  BY DEF JackLinks
<1>1. CASE SetJackingVehicle(p, v)
  BY <1>0, <1>1, NullAssumption DEF SetJackingVehicle, JackLinks
<1>2. CASE ClearJacking(p, v)
  BY <1>0, <1>2, NullAssumption DEF ClearJacking, JackLinks
<1> QED BY <1>1, <1>2

\* No step changes the links in any other way.
LEMMA LinkSteps ==
    ASSUME TypeOK, Next
    PROVE  \/ UNCHANGED links
           \/ \E p \in Peds, v \in Vehicles : SetJackingVehicle(p, v) \/ ClearJacking(p, v)
<1> DEFINE LinkStep == \/ UNCHANGED links
                      \/ \E p \in Peds, v \in Vehicles : \/ SetJackingVehicle(p, v)
                                                          \/ ClearJacking(p, v)
<1> SUFFICES LinkStep
  OBVIOUS
<1>0. \A p \in Peds : jackingVehicle[p] # NoVehicle => jackingVehicle[p] \in Vehicles
  BY DEF TypeOK
<1>1. ASSUME NEW p \in Peds, Packet(p) PROVE LinkStep
  <2>1. ASSUME NEW v \in Vehicles, NEW s \in Seats, RequestIn(p, v, s) PROVE LinkStep
    BY <2>1 DEF RequestIn, StartEnter, StartJack
  <2>2. ASSUME NEW v \in Vehicles, RequestOut(p, v) \/ NotifyFellOff(p, v) PROVE LinkStep
    BY <2>2 DEF RequestOut, NotifyFellOff
  <2>3. ASSUME NotifyIn(p) \/ NotifyInAbort(p) \/ NotifyOut(p) \/ Wasted(p) PROVE LinkStep
    BY <2>3 DEF NotifyIn, NotifyInAbort, NotifyOut, Wasted, Dies, Ignored
  <2>4. ASSUME NotifyJack(p) \/ \E started \in BOOLEAN : NotifyJackAbort(p, started)
        PROVE  LinkStep
    <3>0. client[p].task = "jack" /\ client[p] \in Clients
      BY <2>4 DEF TypeOK, NotifyJack, NotifyJackAbort, HasAnswer
    <3>1. client[p].veh \in Vehicles
      BY <3>0 DEF Clients, Free
    <3>2. ClearJacking(p, client[p].veh) \/ UNCHANGED links
      BY <2>4 DEF NotifyJack, NotifyJackAbort, Ignored
    <3> QED BY <3>1, <3>2
  <2> QED BY <1>1, <2>1, <2>2, <2>3, <2>4 DEF Packet
<1>2. ASSUME Operation PROVE LinkStep
  <2>1. ASSUME NEW p \in Peds, SpawnPlayer(p) \/ PedIsDeleted(p) PROVE LinkStep
    BY <1>0, <2>1 DEF SpawnPlayer, PedIsDeleted
  <2>2. ASSUME NEW v \in Vehicles, VehicleIsDeleted(v) PROVE LinkStep
    BY <2>2 DEF VehicleIsDeleted, TypeOK
  <2>3. ASSUME NEW p \in Peds, \/ \E v \in Vehicles, s \in Seats : ScriptWarps(p, v, s)
                               \/ ScriptRemoves(p) \/ ScriptKills(p) \/ SyncerChanges(p)
        PROVE  LinkStep
    BY <2>3 DEF ScriptWarps, ScriptRemoves, ScriptKills, Dies, SyncerChanges
  <2> QED BY <1>2, <2>1, <2>2, <2>3 DEF Operation
<1>3. ASSUME Return PROVE LinkStep
  BY <1>3 DEF Return, SeatIsFreed, WarpedReturns, RemovingReturns, StartEnterReturns,
         OverrideSyncerReturns, StartEnterIsCancelled, StartJackReturns, StartJackIsCancelled,
         JackExitReturns, JackExitIsCancelled, StartExitReturns, StartExitIsCancelled,
         FellOffReturns, JackAbortReturns, SyncerRemoves, SyncerWarps, SyncerIsSet
<1> QED BY <1>1, <1>2, <1>3 DEF Next

\* In every state, and whatever the scripts do in the middle of a handler, a ped
\* has a vehicle he jacks exactly when the vehicle has him as its jacker: no ped
\* jacks two vehicles, no vehicle has two jackers, and a destructor that follows
\* one direction finds the other.
THEOREM LinksAgree == Spec => []JackLinks
<1>1. Init => JackLinks
  BY NullAssumption DEF Init, JackLinks
<1>2. TypeOK /\ JackLinks /\ [Next]_vars => JackLinks'
  <2> SUFFICES ASSUME TypeOK, JackLinks, [Next]_vars PROVE JackLinks'
    OBVIOUS
  <2>1. CASE UNCHANGED links
    BY <2>1 DEF links, JackLinks
  <2>2. CASE UNCHANGED vars
    BY <2>1, <2>2 DEF vars
  <2> QED BY <2>1, <2>2, LinkSteps, LinkHelpers
<1> QED BY <1>1, <1>2, TypeCorrect, PTL DEF Spec

-----------------------------------------------------------------------------
(* Who sits where, when event handlers cancel events and do nothing else.   *)

\* Handlers operate on no ped, and only players enter as passengers without an
\* animation.
OnlyCancels == Handlers = FALSE /\ \A x \in WarpIns : x[2] # 0 => x[1] \in Players

\* A ped that is jacking is in no vehicle yet.
JackersAreOut == \A p \in Peds : action[p] = "JACKING" => ~InVehicle(p)

\* What a suspended handler has kept in its variables still is so.
Fits(c) ==
    /\ c.kind \in {"startEnter", "override", "removing"} => occupied[c.ped] = <<c.veh, c.seat>>
    /\ (c.kind \in {"startEnter", "override"} /\ c.warp /\ c.seat # 0) => c.other = c.ped
    /\ c.kind = "seat" => occupants[<<c.veh, c.seat>>] = NoPed

\* The seat that is being emptied is the one the ped under it waits for.
Continues(c, d) ==
    /\ c.kind = "removing"
    /\ \/ d.kind = "drag"
       \/ d.kind = "seat" /\ d.veh = c.veh /\ d.seat = c.seat

CallsFit ==
    \/ calls = <<>>
    \/ \E c \in Calls : calls = <<c>> /\ Fits(c)
    \/ \E c, d \in Calls : calls = <<c, d>> /\ Fits(c) /\ Continues(c, d)

SeatsInv == SeatsAgree /\ JackersAreOut /\ CallsFit

\* A ped that gets a place he is alone in, or that leaves, keeps the two
\* directions together.
LEMMA SeatHelpers ==
    ASSUME TypeOK, SeatsAgree, NEW p \in Peds, NEW v \in Vehicles, NEW s \in Seats
    PROVE  /\ SetOccupiedVehicle(p, v, s) /\ ~InVehicle(p) /\ occupants[<<v, s>>] = NoPed => SeatsAgree'
           /\ ClearSeat(p, v, s) /\ occupied[p] = <<v, s>> => SeatsAgree'
<1>0. /\ occupied \in [Peds -> Places \cup {Out}] /\ occupants \in [Places -> Peds \cup {NoPed}]
      /\ <<v, s>> \in Places /\ Out \notin Places
      /\ \A q \in Peds, x \in Places : occupants[x] = q <=> occupied[q] = x
  BY NullAssumption DEF TypeOK, Places, Out, SeatsAgree
<1>1. ASSUME SetOccupiedVehicle(p, v, s), ~InVehicle(p), occupants[<<v, s>>] = NoPed PROVE SeatsAgree'
  BY <1>0, <1>1, NullAssumption DEF SetOccupiedVehicle, InVehicle, SeatsAgree
<1>2. ASSUME ClearSeat(p, v, s), occupied[p] = <<v, s>> PROVE SeatsAgree'
  BY <1>0, <1>2, NullAssumption DEF ClearSeat, SeatsAgree
<1> QED BY <1>1, <1>2

\* So does a ped that leaves whatever place he has.
LEMMA LeaveHelper ==
    ASSUME TypeOK, SeatsAgree, NEW p \in Peds, LeaveVehicle(p)
    PROVE  SeatsAgree'
<1>1. /\ occupied \in [Peds -> Places \cup {Out}] /\ occupants \in [Places -> Peds \cup {NoPed}]
      /\ Out \notin Places
  BY NullAssumption DEF TypeOK, Places, Out
<1> QED BY <1>1, NullAssumption DEF LeaveVehicle, SeatsAgree

\* Nobody who is not in a vehicle is the occupant of a seat.
LEMMA OccupantsAreIn ==
    ASSUME TypeOK, SeatsAgree, NEW x \in Places, occupants[x] # NoPed
    PROVE  occupants[x] \in Peds /\ InVehicle(occupants[x]) /\ occupied[occupants[x]] = x
BY NullAssumption DEF TypeOK, SeatsAgree, InVehicle, Out, Places

\* A ped that takes a free seat, or the one he has.
LEMMA TakeSeatFits ==
    ASSUME TypeOK, SeatsAgree, JackersAreOut, NEW p \in Peds, NEW v \in Vehicles, NEW s \in Seats,
           NEW was \in {occupied, [occupied EXCEPT ![p] = Out]},
           was # occupied => occupied[p] = <<v, s>>,
           occupants[<<v, s>>] \in {NoPed, p},
           TakeSeatFrom(was, p, v, s, <<>>)
    PROVE  SeatsInv'
<1>0. /\ occupied \in [Peds -> Places \cup {Out}] /\ occupants \in [Places -> Peds \cup {NoPed}]
      /\ action \in [Peds -> Actions]
      /\ <<v, s>> \in Places /\ Out \notin Places
      /\ \A q \in Peds, x \in Places : occupants[x] = q <=> occupied[q] = x
  BY NullAssumption DEF TypeOK, Places, Out, SeatsAgree
<1>1. /\ occupied' = [was EXCEPT ![p] = <<v, s>>]
      /\ occupants' = [x \in Places |-> IF x = <<v, s>> THEN p
                                        ELSE IF x = was[p] THEN NoPed
                                        ELSE occupants[x]]
      /\ action' = [action EXCEPT ![p] = "NONE"]
      /\ calls' = <<Call("warped", p, v, s, NoPed, FALSE)>>
  <2>1. calls' = <<Call("warped", p, v, s, NoPed, FALSE)>> \o <<>>
    BY DEF TakeSeatFrom
  <2>2. Call("warped", p, v, s, NoPed, FALSE) \in Calls
    BY CallType DEF Events
  <2>3. calls' = <<Call("warped", p, v, s, NoPed, FALSE)>>
    BY <2>1, <2>2
  <2> QED BY <2>3 DEF TakeSeatFrom
<1>2. SeatsAgree'
  <2>1. CASE was = occupied
    BY <1>0, <1>1, <2>1, NullAssumption DEF SeatsAgree
  <2>2. CASE was # occupied
    BY <1>0, <1>1, <2>2, NullAssumption DEF SeatsAgree
  <2> QED BY <2>1, <2>2
<1>3. JackersAreOut'
  <2>1. \A q \in Peds \ {p} : occupied'[q] = occupied[q] /\ action'[q] = action[q]
    BY <1>0, <1>1
  <2>2. action'[p] = "NONE"
    BY <1>0, <1>1
  <2> QED BY <2>1, <2>2 DEF JackersAreOut, InVehicle
<1>4. CallsFit'
  <2>1. Call("warped", p, v, s, NoPed, FALSE) \in Calls
    BY CallType DEF Events
  <2>2. Fits(Call("warped", p, v, s, NoPed, FALSE))'
    BY DEF Fits, Call
  <2> QED BY <1>1, <2>1, <2>2 DEF CallsFit
<1> QED BY <1>2, <1>3, <1>4 DEF SeatsInv

\* WarpPedIntoVehicle, called by the outermost handler.
LEMMA WarpFits ==
    ASSUME TypeOK, SeatsAgree, JackersAreOut, NEW p \in Peds, NEW v \in Vehicles, NEW s \in Seats,
           WarpPedIntoVehicle(p, v, s, <<>>)
    PROVE  SeatsInv'
<1> DEFINE previous == occupants[<<v, s>>]
<1>0. <<v, s>> \in Places
  BY DEF Places
<1>1. CASE previous # NoPed
  <2>1. previous \in Peds /\ InVehicle(previous) /\ occupied[previous] = <<v, s>>
    BY <1>0, <1>1, OccupantsAreIn
  <2>2. Removing(previous) \in Calls /\ Call("seat", p, v, s, NoPed, FALSE) \in Calls
    BY <2>1, CallType, PlaceParts DEF Removing, Events
  <2>3. PICK c \in Calls, d \in Calls : c = Removing(previous) /\ d = Call("seat", p, v, s, NoPed, FALSE)
    BY <2>2
  <2>4. calls' = <<c, d>> \o <<>> /\ UNCHANGED <<seats, action>>
    BY <1>1, <2>1, <2>3 DEF WarpPedIntoVehicle
  <2>5. calls' = <<c, d>>
    BY <2>4
  <2>6. Fits(c)' /\ Continues(c, d)'
    BY <2>1, <2>3, <2>4 DEF Fits, Continues, Removing, Call, seats
  <2>7. CallsFit'
    BY <2>5, <2>6 DEF CallsFit
  <2>8. SeatsAgree' /\ JackersAreOut'
    BY <2>4 DEF SeatsAgree, JackersAreOut, InVehicle, seats
  <2> QED BY <2>7, <2>8 DEF SeatsInv
<1>2. CASE previous = NoPed
  <2>1. TakeSeatFrom(occupied, p, v, s, <<>>)
    BY <1>2 DEF WarpPedIntoVehicle, TakeSeat
  <2>2. occupants[<<v, s>>] \in {NoPed, p}
    BY <1>2
  <2> HIDE DEF previous
  <2> QED BY <2>1, <2>2, TakeSeatFits
<1> QED BY <1>1, <1>2

\* Pushing a call when no handler is suspended.
LEMMA PushWhenIdle ==
    ASSUME Idle, NEW c \in Calls
    PROVE  Push(c) = <<c>>
<1>1. Push(c) = <<c>> \o <<>>
  BY DEF Push, Idle
<1> QED BY <1>1

\* Nothing is left to fit when the outermost handler has returned.
LEMMA NoCallsFit == calls' = <<>> => CallsFit'
BY DEF CallsFit

\* Nobody starts to jack, and nobody who jacks gets in.
LEMMA JackersStayOut ==
    ASSUME JackersAreOut,
           \A q \in Peds : action'[q] = "JACKING" =>
              action[q] = "JACKING" /\ occupied'[q] \in {occupied[q], Out}
    PROVE  JackersAreOut'
BY DEF JackersAreOut, InVehicle

\* A step that moves nobody and after which no handler is suspended.
LEMMA NobodyMoves ==
    ASSUME SeatsAgree, JackersAreOut, UNCHANGED seats, calls' = <<>>,
           \A q \in Peds : action'[q] = "JACKING" => action[q] = "JACKING"
    PROVE  SeatsInv'
<1>1. SeatsAgree'
  BY DEF seats, SeatsAgree
<1>2. JackersAreOut'
  BY JackersStayOut DEF seats
<1> QED BY <1>1, <1>2, NoCallsFit DEF SeatsInv

\* Packets and the seats.
LEMMA PacketSeats ==
    ASSUME TypeOK, OnlyCancels, SeatsInv, NEW p \in Peds, Packet(p)
    PROVE  SeatsInv'
<1>0. /\ occupied \in [Peds -> Places \cup {Out}]
      /\ occupants \in [Places -> Peds \cup {NoPed}]
      /\ action \in [Peds -> Actions]
      /\ SeatsAgree /\ JackersAreOut
  BY DEF TypeOK, SeatsInv
<1>v. ASSUME HasAnswer(p, "in") \/ HasAnswer(p, "out") \/ HasAnswer(p, "jack")
      PROVE  client[p].veh \in Vehicles /\ calls = <<>>
  BY <1>v DEF TypeOK, HasAnswer, Clients, Free, Idle
<1>s. ASSUME NEW v \in Vehicles, Sits(p, v) PROVE occupied[p] = <<v, occupied[p][2]>>
  <2>1. occupied[p][2] \in Seats
    BY PlaceParts
  <2>2. <<v, occupied[p][2]>> \in Places
    BY <2>1 DEF Places
  <2> QED BY <1>0, <1>s, <2>2 DEF Sits, SeatsAgree
<1>o. occupied[p][2] \in Seats /\ 0 \in Seats
  BY PlaceParts, SeatsAssumption DEF Seats
<1>1. ASSUME NEW v \in Vehicles, NEW s \in Seats, RequestIn(p, v, s) PROVE SeatsInv'
  <2>0. Idle
    BY <1>1 DEF RequestIn, Asks
  <2>1. ASSUME NEW t \in SeatFor(v, s), MayEnter(p), occupants[<<v, t>>] = NoPed, StartEnter(p, v, t)
        PROVE  SeatsInv'
    <3>1. t \in Seats
      BY SeatsAssumption DEF SeatFor, FreePassengerSeat, Seats
    <3>2. SeatsAgree'
      BY <1>0, <2>1, <3>1, SeatHelpers DEF StartEnter, MayEnter
    <3>3. JackersAreOut'
      BY <1>0, <2>1 DEF StartEnter, SetOccupiedVehicle, JackersAreOut, InVehicle
    <3>4. PICK w \in {FALSE} \cup (IF <<p, t>> \in WarpIns THEN {TRUE} ELSE {}), q \in Sender(p) :
             calls' = Push(Call("startEnter", p, v, t, q, w))
      BY <2>1 DEF StartEnter
    <3>5. q \in Peds /\ w \in BOOLEAN
      BY PlayersAssumption DEF Sender
    <3>6. PICK c \in Calls : c = Call("startEnter", p, v, t, q, w)
      BY <3>1, <3>5, CallType DEF Events
    <3>7. w /\ t # 0 => q = p
      <4>1. w => <<p, t>> \in WarpIns
        BY <3>4
      <4>2. w /\ t # 0 => p \in Players
        BY <4>1 DEF OnlyCancels
      <4> QED BY <4>2, <3>4 DEF Sender
    <3>8. occupied'[p] = <<v, t>>
      BY <1>0, <2>1 DEF StartEnter, SetOccupiedVehicle
    <3>9. Fits(c)'
      BY <3>6, <3>7, <3>8 DEF Fits, Call
    <3>10. calls' = <<c>>
      BY <2>0, <3>4, <3>6, PushWhenIdle
    <3> QED BY <3>2, <3>3, <3>9, <3>10 DEF SeatsInv, CallsFit
  <2>2. ASSUME MayEnter(p), CanJack(v), StartJack(p, v, occupants[<<v, 0>>]) PROVE SeatsInv'
    <3> DEFINE other == occupants[<<v, 0>>]
    <3>1. other \in Peds
      BY <1>0, <1>o, <2>2 DEF CanJack, Places
    <3>2. PICK c \in Calls : c = Call("startJack", p, v, 0, other, FALSE)
      BY <1>o, <3>1, CallType DEF Events
    <3>3. calls' = <<c>> /\ Fits(c)'
      BY <2>0, <2>2, <3>2, PushWhenIdle DEF StartJack, Fits, Call
    <3>4. SeatsAgree'
      BY <1>0, <2>2 DEF StartJack, seats, SeatsAgree
    <3>5. JackersAreOut'
      BY <1>0, <2>2, <3>1 DEF StartJack, MayEnter, JackersAreOut, InVehicle, seats
    <3> QED BY <3>3, <3>4, <3>5 DEF SeatsInv, CallsFit
  <2>3. ASSUME UNCHANGED <<seats, action, calls>> PROVE SeatsInv'
    BY <1>0, <2>0, <2>3, NobodyMoves DEF Idle
  <2> QED BY <1>1, <2>1, <2>2, <2>3 DEF RequestIn
<1>2. ASSUME NotifyIn(p) PROVE SeatsInv'
  <2>1. UNCHANGED <<seats, calls>> /\ \A q \in Peds : action'[q] = "JACKING" => action[q] = "JACKING"
    BY <1>0, <1>2 DEF NotifyIn, Ignored
  <2>2. calls' = <<>>
    BY <1>2, <1>v, <2>1 DEF NotifyIn
  <2> QED BY <1>0, <2>1, <2>2, NobodyMoves
<1>3. ASSUME NotifyInAbort(p) \/ NotifyOut(p) PROVE SeatsInv'
  <2>1. client[p].veh \in Vehicles /\ calls = <<>>
    BY <1>3, <1>v DEF NotifyInAbort, NotifyOut
  <2>2. CASE Ignored(p)
    <3>1. UNCHANGED <<seats, action, calls>>
      BY <2>2 DEF Ignored
    <3> QED BY <1>0, <2>1, <3>1, NobodyMoves
  <2>3. CASE ~Ignored(p)
    <3>1. /\ Sits(p, client[p].veh)
          /\ ClearSeat(p, client[p].veh, occupied[p][2])
          /\ action' = [action EXCEPT ![p] = "NONE"]
          /\ UNCHANGED calls
      BY <1>3, <2>3 DEF NotifyInAbort, NotifyOut
    <3>2. SeatsAgree'
      BY <1>0, <1>o, <1>s, <2>1, <3>1, SeatHelpers
    <3>3. JackersAreOut'
      BY <1>0, <3>1 DEF ClearSeat, JackersAreOut, InVehicle
    <3> QED BY <2>1, <3>1, <3>2, <3>3, NoCallsFit DEF SeatsInv
  <2> QED BY <2>2, <2>3
<1>4. ASSUME NEW v \in Vehicles, RequestOut(p, v) PROVE SeatsInv'
  <2>1. Idle /\ UNCHANGED <<seats, action>>
    BY <1>4 DEF RequestOut, Asks
  <2>2. PICK c \in Calls : c = Call("startExit", p, v, occupied[p][2], NoPed, FALSE)
    BY <1>o, CallType DEF Events
  <2>3. calls' = <<c>> \/ calls' = <<>>
    BY <1>4, <2>1, <2>2, PushWhenIdle DEF RequestOut, Idle
  <2>4. Fits(c)'
    BY <2>2 DEF Fits, Call
  <2>5. SeatsAgree' /\ JackersAreOut'
    BY <1>0, <2>1 DEF SeatsAgree, JackersAreOut, InVehicle, seats
  <2> QED BY <2>3, <2>4, <2>5 DEF SeatsInv, CallsFit
<1>5. ASSUME NEW v \in Vehicles, NotifyFellOff(p, v) PROVE SeatsInv'
  <2>1. /\ Idle /\ Sits(p, v) /\ ClearSeat(p, v, occupied[p][2]) /\ UNCHANGED action
        /\ calls' = Push(Call("fellOff", p, v, occupied[p][2], NoPed, FALSE))
    BY <1>5 DEF NotifyFellOff, Asks, HasAnswer
  <2>2. PICK c \in Calls : c = Call("fellOff", p, v, occupied[p][2], NoPed, FALSE)
    BY <1>o, CallType DEF Events
  <2>3. calls' = <<c>> /\ Fits(c)'
    BY <2>1, <2>2, PushWhenIdle DEF Fits, Call
  <2>4. SeatsAgree'
    BY <1>0, <1>o, <1>s, <2>1, SeatHelpers
  <2>5. JackersAreOut'
    BY <1>0, <2>1 DEF ClearSeat, JackersAreOut, InVehicle
  <2> QED BY <2>3, <2>4, <2>5 DEF SeatsInv, CallsFit
<1>6. ASSUME NotifyJack(p) PROVE SeatsInv'
  <2> DEFINE v == client[p].veh
             jacked == occupants[<<v, 0>>]
  <2>0. v \in Vehicles /\ calls = <<>> /\ <<v, 0>> \in Places
    BY <1>6, <1>o, <1>v DEF NotifyJack, Places
  <2>1. CASE action[p] = "JACKING"
    <3>1. /\ occupied' = [q \in Peds |-> IF q = p THEN <<v, 0>>
                                          ELSE IF q = jacked THEN Out ELSE occupied[q]]
          /\ occupants' = [occupants EXCEPT ![<<v, 0>>] = p]
          /\ action' = [q \in Peds |-> IF q \in {p, jacked} THEN "NONE" ELSE action[q]]
          /\ UNCHANGED calls
      BY <1>6, <2>1 DEF NotifyJack
    <3>2. occupied[p] = Out
      BY <2>1, <1>0 DEF JackersAreOut, InVehicle
    <3>3. jacked \in Peds \cup {NoPed} /\ Out \notin Places
      BY <1>0, <2>0, NullAssumption DEF Places, Out
    <3> HIDE DEF v, jacked
    <3>4. SeatsAgree'
      BY <1>0, <2>0, <3>1, <3>2, <3>3, NullAssumption DEF SeatsAgree, jacked
    <3>5. JackersAreOut'
      BY <1>0, <3>1 DEF JackersAreOut, InVehicle
    <3> QED BY <2>0, <3>1, <3>4, <3>5, NoCallsFit DEF SeatsInv
  <2>2. CASE action[p] # "JACKING"
    <3>1. UNCHANGED <<seats, action, calls>>
      BY <1>6, <2>2 DEF NotifyJack, Ignored
    <3> QED BY <1>0, <2>0, <3>1, NobodyMoves
  <2> QED BY <2>1, <2>2
<1>7. ASSUME NEW started \in BOOLEAN, NotifyJackAbort(p, started) PROVE SeatsInv'
  <2> DEFINE v == client[p].veh
             jacked == occupants[<<v, 0>>]
             thrown == started /\ jacked # NoPed
  <2>0. v \in Vehicles /\ calls = <<>> /\ <<v, 0>> \in Places
    BY <1>7, <1>o, <1>v DEF NotifyJackAbort, Places
  <2>1. CASE action[p] = "JACKING"
    <3>1. /\ occupied' = [q \in Peds |-> IF q = p \/ (thrown /\ q = jacked) THEN Out
                                          ELSE occupied[q]]
          /\ occupants' = IF thrown THEN [occupants EXCEPT ![<<v, 0>>] = NoPed] ELSE occupants
          /\ action' = [q \in Peds |-> IF q = p \/ (~thrown /\ q = jacked) THEN "NONE"
                                        ELSE action[q]]
          /\ calls' = IF thrown THEN Push(Call("jackAbort", jacked, v, 0, p, FALSE)) ELSE calls
      BY <1>7, <2>1 DEF NotifyJackAbort
    <3>2. occupied[p] = Out
      BY <2>1, <1>0 DEF JackersAreOut, InVehicle
    <3>3. jacked \in Peds \cup {NoPed} /\ Out \notin Places
      BY <1>0, <2>0, NullAssumption DEF Places, Out
    <3>4. CallsFit'
      <4>1. CASE thrown
        <5>1. PICK c \in Calls : c = Call("jackAbort", jacked, v, 0, p, FALSE)
          BY <1>o, <2>0, <3>3, <4>1, CallType DEF Events
        <5>2. calls' = <<c>> /\ Fits(c)'
          BY <2>0, <3>1, <4>1, <5>1, PushWhenIdle DEF Fits, Call, Idle
        <5> QED BY <5>2 DEF CallsFit
      <4> QED BY <2>0, <3>1, <4>1, NoCallsFit
    <3> HIDE DEF v, jacked, thrown
    <3>5. SeatsAgree'
      BY <1>0, <2>0, <3>1, <3>2, <3>3, NullAssumption DEF SeatsAgree, jacked
    <3>6. JackersAreOut'
      BY <1>0, <3>1 DEF JackersAreOut, InVehicle
    <3> QED BY <3>4, <3>5, <3>6 DEF SeatsInv
  <2>2. CASE action[p] # "JACKING"
    <3>1. UNCHANGED <<seats, action, calls>>
      BY <1>7, <2>2 DEF NotifyJackAbort, Ignored
    <3> QED BY <1>0, <2>0, <3>1, NobodyMoves
  <2> QED BY <2>1, <2>2
<1>8. ASSUME Wasted(p) PROVE SeatsInv'
  <2>1. Idle /\ LeaveVehicle(p) /\ UNCHANGED calls
        /\ action' = [action EXCEPT ![p] = IF action[p] = "JACKING" THEN action[p] ELSE "NONE"]
    BY <1>8 DEF Wasted, Dies
  <2>2. SeatsAgree'
    BY <1>0, <2>1, LeaveHelper
  <2>3. JackersAreOut'
    BY <1>0, <2>1 DEF LeaveVehicle, JackersAreOut, InVehicle
  <2> QED BY <2>1, <2>2, <2>3, NoCallsFit DEF SeatsInv, Idle
<1> QED BY <1>1, <1>2, <1>3, <1>4, <1>5, <1>6, <1>7, <1>8 DEF Packet

\* Operations of scripts and of the rest of the server, and the seats.
LEMMA OperationSeats ==
    ASSUME TypeOK, OnlyCancels, SeatsInv, Operation
    PROVE  SeatsInv'
<1>0. /\ occupied \in [Peds -> Places \cup {Out}]
      /\ occupants \in [Places -> Peds \cup {NoPed}]
      /\ action \in [Peds -> Actions]
      /\ SeatsAgree /\ JackersAreOut /\ Out \notin Places
  BY NullAssumption DEF TypeOK, SeatsInv, Places, Out
<1>c. 0 \in Seats /\ \A v \in Vehicles : <<v, 0>> \in Places
  BY SeatsAssumption DEF Seats, Places
<1>i. ASSUME NEW op, Operates(op) PROVE Idle
  BY <1>i DEF Operates, OnlyCancels
<1>1. ASSUME NEW p \in Peds, NEW v \in Vehicles, NEW s \in Seats, ScriptWarps(p, v, s)
      PROVE  SeatsInv'
  <2>1. WarpPedIntoVehicle(p, v, s, <<>>)
    BY <1>1, <1>i DEF ScriptWarps, Idle
  <2> QED BY <1>0, <2>1, WarpFits
<1>2. ASSUME NEW p \in Peds, ScriptRemoves(p) PROVE SeatsInv'
  <2>1. Idle /\ InVehicle(p) /\ UNCHANGED <<seats, action>> /\ calls' = Push(Removing(p))
    BY <1>2, <1>i DEF ScriptRemoves
  <2>2. PICK c \in Calls : c = Removing(p)
    BY <2>1, PlaceParts, CallType DEF Removing, Events
  <2>3. occupied[p] = <<occupied[p][1], occupied[p][2]>>
    BY <2>1, PlaceParts
  <2>4. calls' = <<c>> /\ Fits(c)'
    BY <2>1, <2>2, <2>3, PushWhenIdle DEF Fits, Removing, Call, seats
  <2>5. SeatsAgree' /\ JackersAreOut'
    BY <1>0, <2>1 DEF SeatsAgree, JackersAreOut, InVehicle, seats
  <2> QED BY <2>4, <2>5 DEF SeatsInv, CallsFit
<1>3. ASSUME NEW p \in Peds, ScriptKills(p) PROVE SeatsInv'
  <2>1. Idle /\ LeaveVehicle(p) /\ UNCHANGED calls
        /\ action' = [action EXCEPT ![p] = IF action[p] = "JACKING" THEN action[p] ELSE "NONE"]
    BY <1>3, <1>i DEF ScriptKills, Dies
  <2>2. SeatsAgree'
    BY <1>0, <2>1, LeaveHelper
  <2>3. JackersAreOut'
    BY <1>0, <2>1 DEF LeaveVehicle, JackersAreOut, InVehicle
  <2> QED BY <2>1, <2>2, <2>3, NoCallsFit DEF SeatsInv, Idle
<1>4. ASSUME NEW p \in Peds, SpawnPlayer(p) PROVE SeatsInv'
  <2>1. Idle /\ LeaveVehicle(p) /\ UNCHANGED calls
    BY <1>4, <1>i DEF SpawnPlayer
  <2>2. \A q \in Peds : action'[q] \in {action[q], "NONE"}
    BY <1>0, <1>4 DEF SpawnPlayer
  <2>3. SeatsAgree'
    BY <1>0, <2>1, LeaveHelper
  <2>4. JackersAreOut'
    BY <1>0, <2>1, <2>2 DEF LeaveVehicle, JackersAreOut, InVehicle
  <2> QED BY <2>1, <2>3, <2>4, NoCallsFit DEF SeatsInv, Idle
<1>5. ASSUME NEW p \in Peds, SyncerChanges(p) PROVE SeatsInv'
  <2>1. /\ Idle /\ UNCHANGED <<seats, action>>
        /\ calls' = Push(Call("syncer", p, NoVehicle, 0, NoPed, FALSE))
    BY <1>5, <1>i DEF SyncerChanges
  <2>2. PICK c \in Calls : c = Call("syncer", p, NoVehicle, 0, NoPed, FALSE)
    BY <1>c DEF Call, Calls, CallsOf, SyncerCalls
  <2>3. calls' = <<c>> /\ Fits(c)'
    BY <2>1, <2>2, PushWhenIdle DEF Fits, Call
  <2>4. SeatsAgree' /\ JackersAreOut'
    BY <1>0, <2>1 DEF SeatsAgree, JackersAreOut, InVehicle, seats
  <2> QED BY <2>3, <2>4 DEF SeatsInv, CallsFit
<1>6. ASSUME NEW p \in Peds, PedIsDeleted(p) PROVE SeatsInv'
  <2> DEFINE v == jackingVehicle[p]
             victim == IF v # NoVehicle /\ action[p] = "JACKING" THEN occupants[<<v, 0>>] ELSE NoPed
  <2>1. /\ occupied' = [q \in Peds |-> IF q \in {p, victim} THEN Out ELSE occupied[q]]
        /\ occupants' = [x \in Places |->
                           IF x = occupied[p] \/ (victim # NoPed /\ x = <<v, 0>>) THEN NoPed
                           ELSE occupants[x]]
        /\ action' = [q \in Peds |-> IF q \in {p, victim} THEN "NONE" ELSE action[q]]
        /\ Idle /\ UNCHANGED calls
    BY <1>6 DEF PedIsDeleted
  <2>2. victim # NoPed => <<v, 0>> \in Places /\ victim = occupants[<<v, 0>>] /\ victim \in Peds
    BY <1>0, <1>c DEF TypeOK
  <2> HIDE DEF v, victim
  <2>3. SeatsAgree'
    BY <1>0, <2>1, <2>2, NullAssumption DEF SeatsAgree
  <2>4. JackersAreOut'
    BY <1>0, <2>1 DEF JackersAreOut, InVehicle
  <2> QED BY <2>1, <2>3, <2>4, NoCallsFit DEF SeatsInv, Idle
<1>7. ASSUME NEW v \in Vehicles, VehicleIsDeleted(v) PROVE SeatsInv'
  <2> DEFINE riders == {p \in Peds : \E s \in Seats : occupants[<<v, s>>] = p}
  <2>1. /\ occupied' = [p \in Peds |-> IF p \in riders THEN Out ELSE occupied[p]]
        /\ occupants' = [x \in Places |-> IF x[1] = v THEN NoPed ELSE occupants[x]]
        /\ \A p \in Peds : action'[p] \in {action[p], "NONE"}
        /\ Idle /\ UNCHANGED calls
    BY <1>0, <1>7 DEF VehicleIsDeleted
  <2>2. \A p \in Peds, x \in Places : occupants[x] = p /\ x[1] = v => p \in riders
    BY DEF Places
  <2>3. \A p \in riders : \E s \in Seats : <<v, s>> \in Places /\ occupied[p] = <<v, s>>
    BY <1>0 DEF Places, SeatsAgree
  <2>4. SeatsAgree'
    <3> SUFFICES ASSUME NEW p \in Peds, NEW x \in Places
                 PROVE  occupants'[x] = p <=> occupied'[p] = x
      BY DEF SeatsAgree
    <3>1. CASE x[1] = v
      <4>1. occupants'[x] # p
        BY <2>1, <3>1, NullAssumption
      <4>2. occupied'[p] # x
        <5>1. CASE p \in riders
          BY <1>0, <2>1, <5>1
        <5>2. CASE p \notin riders
          BY <1>0, <2>1, <2>2, <3>1, <5>2 DEF SeatsAgree
        <5> QED BY <5>1, <5>2
      <4> QED BY <4>1, <4>2
    <3>2. CASE x[1] # v
      <4>1. occupants'[x] = occupants[x]
        BY <2>1, <3>2
      <4>2. occupied'[p] = x <=> occupied[p] = x
        <5>1. CASE p \in riders
          <6>1. PICK s \in Seats : occupied[p] = <<v, s>>
            BY <2>3, <5>1
          <6>2. occupied[p] # x
            BY <3>2, <6>1
          <6>3. occupied'[p] = Out
            BY <2>1, <5>1
          <6>4. Out # x
            BY NullAssumption DEF Out, Places
          <6> QED BY <6>2, <6>3, <6>4
        <5>2. CASE p \notin riders
          BY <2>1, <5>2
        <5> QED BY <5>1, <5>2
      <4> QED BY <1>0, <4>1, <4>2 DEF SeatsAgree
    <3> QED BY <3>1, <3>2
  <2>5. JackersAreOut'
    BY <1>0, <2>1 DEF JackersAreOut, InVehicle
  <2> QED BY <2>1, <2>4, <2>5, NoCallsFit DEF SeatsInv, Idle
<1> QED BY <1>1, <1>2, <1>3, <1>4, <1>5, <1>6, <1>7 DEF Operation

\* The suspended handler and the one under it.
LEMMA SuspendedCalls ==
    ASSUME CallsFit, calls # <<>>
    PROVE  /\ Top \in Calls /\ Fits(Top)
           /\ \/ Tail(calls) = <<>>
              \/ \E d \in Calls : Tail(calls) = <<d>> /\ Continues(Top, d)
           /\ Top.kind # "removing" => Tail(calls) = <<>>
<1>1. CASE \E c \in Calls : calls = <<c>> /\ Fits(c)
  <2>1. PICK c \in Calls : calls = <<c>> /\ Fits(c)
    BY <1>1
  <2>2. Top = c /\ Tail(calls) = <<>>
    BY <2>1 DEF Top
  <2> QED BY <2>1, <2>2
<1>2. CASE \E c, d \in Calls : calls = <<c, d>> /\ Fits(c) /\ Continues(c, d)
  <2>1. PICK c \in Calls, d \in Calls : calls = <<c, d>> /\ Fits(c) /\ Continues(c, d)
    BY <1>2
  <2>2. Top = c /\ Tail(calls) = <<d>> /\ c.kind = "removing"
    BY <2>1 DEF Top, Continues
  <2> QED BY <2>1, <2>2
<1> QED BY <1>1, <1>2 DEF CallsFit

\* Going on when an event has returned, and the seats.
LEMMA ReturnSeats ==
    ASSUME TypeOK, OnlyCancels, SeatsInv, Return
    PROVE  SeatsInv'
<1>0. /\ occupied \in [Peds -> Places \cup {Out}]
      /\ occupants \in [Places -> Peds \cup {NoPed}]
      /\ action \in [Peds -> Actions]
      /\ SeatsAgree /\ JackersAreOut /\ CallsFit /\ Out \notin Places
  BY NullAssumption DEF TypeOK, SeatsInv, Places, Out
<1>c. calls # <<>>
  BY DEF Return, SeatIsFreed, WarpedReturns, RemovingReturns, StartEnterReturns,
         OverrideSyncerReturns, StartEnterIsCancelled, StartJackReturns, StartJackIsCancelled,
         JackExitReturns, JackExitIsCancelled, StartExitReturns, StartExitIsCancelled,
         FellOffReturns, JackAbortReturns, SyncerRemoves, SyncerWarps, SyncerIsSet, Running
<1>t. /\ Top \in Calls /\ Fits(Top)
      /\ \/ Tail(calls) = <<>>
         \/ \E d \in Calls : Tail(calls) = <<d>> /\ Continues(Top, d)
      /\ Top.kind # "removing" => Tail(calls) = <<>>
      /\ Top.ped \in Peds /\ Top.seat \in Seats
      /\ Top.kind \notin SyncerCalls => Top.veh \in Vehicles
  BY <1>0, <1>c, SuspendedCalls, CallParts, TopOfCalls
<1>1. ASSUME SeatIsFreed PROVE SeatsInv'
  <2>1. /\ Top.kind = "seat" /\ Top.veh \in Vehicles /\ occupants[<<Top.veh, Top.seat>>] = NoPed
        /\ TakeSeatFrom(occupied, Top.ped, Top.veh, Top.seat, <<>>)
    BY <1>1, <1>t DEF SeatIsFreed, Running, Top, Fits, TakeSeat, SyncerCalls
  <2> QED BY <1>0, <1>t, <2>1, TakeSeatFits
<1>2. ASSUME RemovingReturns PROVE SeatsInv'
  <2>1. /\ Top.kind = "removing" /\ Top.veh \in Vehicles
        /\ occupied[Top.ped] = <<Top.veh, Top.seat>>
        /\ ClearSeat(Top.ped, Top.veh, Top.seat)
        /\ action' = [action EXCEPT ![Top.ped] = "NONE"]
        /\ calls' = Tail(calls)
    BY <1>2, <1>t DEF RemovingReturns, Running, Top, Fits, SyncerCalls
  <2>2. SeatsAgree'
    BY <1>0, <1>t, <2>1, SeatHelpers
  <2>3. JackersAreOut'
    BY <1>0, <2>1 DEF ClearSeat, JackersAreOut, InVehicle
  <2>4. CASE Tail(calls) = <<>>
    BY <2>1, <2>2, <2>3, <2>4, NoCallsFit DEF SeatsInv
  <2>5. ASSUME NEW d \in Calls, Tail(calls) = <<d>>, Continues(Top, d) PROVE SeatsInv'
    <3>1. d.kind = "drag" \/ (d.kind = "seat" /\ d.veh = Top.veh /\ d.seat = Top.seat)
      BY <2>5 DEF Continues
    <3>2. <<Top.veh, Top.seat>> \in Places /\ occupants'[<<Top.veh, Top.seat>>] = NoPed
      BY <1>0, <1>t, <2>1 DEF ClearSeat, Places
    <3>3. Fits(d)'
      BY <3>1, <3>2 DEF Fits
    <3> QED BY <2>1, <2>2, <2>3, <2>5, <3>3 DEF SeatsInv, CallsFit
  <2> QED BY <1>t, <2>4, <2>5
<1>3. ASSUME ConfirmEnter(Top.ped, Top.veh, Top.seat, Top.other, Top.warp, Tail(calls)),
             Top.kind \in {"startEnter", "override"}
      PROVE  SeatsInv'
  <2> DEFINE p == Top.ped
             v == Top.veh
             s == Top.seat
             w == Top.warp
             removed == IF s = 0 THEN p ELSE Top.other
  <2>0. /\ v \in Vehicles /\ p \in Peds /\ s \in Seats
        /\ occupied[p] = <<v, s>> /\ <<v, s>> \in Places
        /\ w => removed = p
        /\ Tail(calls) = <<>> /\ ConfirmEnter(p, v, s, Top.other, w, <<>>)
    BY <1>3, <1>t DEF Fits, SyncerCalls, Places
  <2>a. occupants[<<v, s>>] = p
    BY <1>0, <2>0 DEF SeatsAgree
  <2>1. CASE ~w
    <3>1. calls' = <<>> /\ UNCHANGED <<seats, action>>
      BY <2>0, <2>1 DEF ConfirmEnter
    <3> QED BY <1>0, <3>1, NobodyMoves
  <2>2. CASE w /\ ~occupantChanged[v] /\ p \notin dead
    <3>1. TakeSeatFrom([occupied EXCEPT ![removed] = Out], p, v, s, <<>>)
      BY <2>0, <2>2 DEF ConfirmEnter
    <3>2. TakeSeatFrom([occupied EXCEPT ![p] = Out], p, v, s, <<>>)
      BY <2>0, <2>2, <3>1
    <3> HIDE DEF p, v, s
    <3> QED BY <1>0, <2>0, <2>a, <3>2, TakeSeatFits
  <2>3. CASE w /\ ~occupantChanged[v] /\ p \in dead
    <3>1. /\ ClearSeat(removed, v, s)
          /\ action' = [action EXCEPT ![p] = "NONE"]
          /\ calls' = <<>>
      BY <2>0, <2>3 DEF ConfirmEnter
    <3>2. ClearSeat(p, v, s)
      BY <2>0, <2>3, <3>1
    <3>3. SeatsAgree'
      BY <1>0, <2>0, <3>2, SeatHelpers
    <3>4. JackersAreOut'
      BY <1>0, <3>1, <3>2 DEF ClearSeat, JackersAreOut, InVehicle
    <3> QED BY <3>1, <3>3, <3>4, NoCallsFit DEF SeatsInv
  <2>4. CASE w /\ occupantChanged[v] /\ CanWarp(p, v, s)
    <3>1. WarpPedIntoVehicle(p, v, s, <<>>)
      BY <2>0, <2>4 DEF ConfirmEnter
    <3> QED BY <1>0, <2>0, <3>1, WarpFits
  <2>5. CASE w /\ occupantChanged[v] /\ ~CanWarp(p, v, s)
    <3>1. calls' = <<>> /\ UNCHANGED seats /\ action' = [action EXCEPT ![p] = "NONE"]
      BY <2>0, <2>5 DEF ConfirmEnter
    <3>2. \A q \in Peds : action'[q] = "JACKING" => action[q] = "JACKING"
      BY <1>0, <3>1
    <3> QED BY <1>0, <3>1, <3>2, NobodyMoves
  <2> QED BY <2>1, <2>2, <2>3, <2>4, <2>5
<1>4. ASSUME StartEnterReturns PROVE SeatsInv'
  <2>0. Top.kind = "startEnter"
    BY <1>4 DEF StartEnterReturns, Running, Top
  <2>1. CASE action[Top.ped] # "ENTERING"
    <3>1. calls' = <<>> /\ UNCHANGED <<seats, action>>
      BY <1>4, <1>t, <2>0, <2>1 DEF StartEnterReturns
    <3> QED BY <1>0, <3>1, NobodyMoves
  <2>2. CASE action[Top.ped] = "ENTERING" /\ Top.seat = 0
    <3>1. /\ calls' = <<[Top EXCEPT !.kind = "override"]>> \o Tail(calls)
          /\ UNCHANGED <<seats, action>>
      BY <1>4, <2>2 DEF StartEnterReturns, Become
    <3>2. [Top EXCEPT !.kind = "override"] \in Calls
      BY <1>t, <2>0 DEF Calls, CallsOf, Events, SyncerCalls
    <3>3. PICK c \in Calls : c = [Top EXCEPT !.kind = "override"]
      BY <3>2
    <3>4. calls' = <<c>>
      <4>1. calls' = <<c>> \o Tail(calls)
        BY ONLY <3>1, <3>3
      <4>2. Tail(calls) = <<>>
        BY <1>t, <2>0
      <4>3. calls' = <<c>> \o <<>>
        BY ONLY <4>1, <4>2
      <4>4. <<c>> \o <<>> = <<c>>
        OBVIOUS
      <4> QED BY <4>3, <4>4
    <3>5. Fits(c)'
      <4>1. /\ c.ped = Top.ped /\ c.veh = Top.veh /\ c.seat = Top.seat /\ c.kind = "override"
            /\ c.other = Top.other /\ c.warp = Top.warp
        BY <1>t, <3>3 DEF Calls, CallsOf
      <4> QED BY <1>t, <2>0, <3>1, <4>1 DEF Fits, seats
    <3>6. SeatsAgree' /\ JackersAreOut'
      BY <1>0, <3>1 DEF SeatsAgree, JackersAreOut, InVehicle, seats
    <3> QED BY <3>4, <3>5, <3>6 DEF SeatsInv, CallsFit
  <2>3. CASE action[Top.ped] = "ENTERING" /\ Top.seat # 0
    <3>1. ConfirmEnter(Top.ped, Top.veh, Top.seat, Top.other, Top.warp, Tail(calls))
      BY <1>4, <2>3 DEF StartEnterReturns
    <3> QED BY <1>3, <2>0, <3>1
  <2> QED BY <2>1, <2>2, <2>3
<1>5. ASSUME OverrideSyncerReturns PROVE SeatsInv'
  <2>1. /\ ConfirmEnter(Top.ped, Top.veh, Top.seat, Top.other, Top.warp, Tail(calls))
        /\ Top.kind = "override"
    BY <1>5 DEF OverrideSyncerReturns, Running, Top
  <2> QED BY <1>3, <2>1
<1>6. ASSUME StartEnterIsCancelled PROVE SeatsInv'
  <2>1. /\ Top.kind = "startEnter" /\ Top.veh \in Vehicles /\ Tail(calls) = <<>>
        /\ occupied[Top.ped] = <<Top.veh, Top.seat>>
        /\ UNCHANGED seats \/ ClearSeat(Top.ped, Top.veh, Top.seat)
        /\ action' = [action EXCEPT ![Top.ped] = "NONE"]
        /\ calls' = <<>>
    BY <1>6, <1>t DEF StartEnterIsCancelled, Running, Top, Fits, SyncerCalls
  <2>2. SeatsAgree'
    <3>1. CASE UNCHANGED seats
      BY <1>0, <3>1 DEF SeatsAgree, seats
    <3>2. CASE ClearSeat(Top.ped, Top.veh, Top.seat)
      BY <1>0, <1>t, <2>1, <3>2, SeatHelpers
    <3> QED BY <2>1, <3>1, <3>2
  <2>3. JackersAreOut'
    BY <1>0, <2>1 DEF ClearSeat, JackersAreOut, InVehicle, seats
  <2> QED BY <2>1, <2>2, <2>3, NoCallsFit DEF SeatsInv
<1>7. ASSUME StartJackReturns PROVE SeatsInv'
  <2>0. Top.kind = "startJack" /\ UNCHANGED <<seats, action>>
    BY <1>7 DEF StartJackReturns, Running, Top
  <2>1. [Top EXCEPT !.kind = "jackExit"] \in Calls
    BY <1>t, <2>0 DEF Calls, CallsOf, Events, SyncerCalls
  <2>2. PICK c \in Calls : c = [Top EXCEPT !.kind = "jackExit"]
    BY <2>1
  <2>3. calls' = <<c>> \/ calls' = <<>>
    <3>1. Tail(calls) = <<>>
      BY <1>t, <2>0
    <3>2. calls' = <<c>> \o Tail(calls) \/ calls' = Tail(calls)
      BY <1>7, <2>2 DEF StartJackReturns, Become
    <3>3. calls' = <<c>> \o <<>> \/ calls' = <<>>
      BY ONLY <3>1, <3>2
    <3>4. <<c>> \o <<>> = <<c>>
      OBVIOUS
    <3> QED BY <3>3, <3>4
  <2>4. Fits(c)'
    BY <1>t, <2>2 DEF Fits, Calls, CallsOf
  <2>5. SeatsAgree' /\ JackersAreOut'
    BY <1>0, <2>0 DEF SeatsAgree, JackersAreOut, InVehicle, seats
  <2> QED BY <2>3, <2>4, <2>5 DEF SeatsInv, CallsFit
<1>8. ASSUME \/ WarpedReturns \/ StartJackIsCancelled \/ JackExitReturns \/ JackExitIsCancelled
             \/ StartExitReturns \/ StartExitIsCancelled \/ FellOffReturns \/ JackAbortReturns
             \/ SyncerIsSet
      PROVE  SeatsInv'
  <2>1. Top.kind # "removing" /\ calls' = Tail(calls) /\ UNCHANGED seats
    BY <1>8 DEF WarpedReturns, StartJackIsCancelled, JackExitReturns, JackExitIsCancelled,
                StartExitReturns, StartExitIsCancelled, FellOffReturns, JackAbortReturns,
                SyncerIsSet, Running, Top
  <2>2. \A q \in Peds : action'[q] = "JACKING" => action[q] = "JACKING"
    BY <1>0, <1>8 DEF WarpedReturns, StartJackIsCancelled, JackExitReturns, JackExitIsCancelled,
                StartExitReturns, StartExitIsCancelled, FellOffReturns, JackAbortReturns,
                SyncerIsSet
  <2> QED BY <1>0, <1>t, <2>1, <2>2, NobodyMoves
<1>9. ASSUME SyncerRemoves PROVE SeatsInv'
  <2>1. /\ Top.kind = "syncer" /\ InVehicle(Top.ped) /\ UNCHANGED <<seats, action>>
        /\ calls' = <<Removing(Top.ped), [Top EXCEPT !.kind = "drag"]>> \o Tail(calls)
    BY <1>9 DEF SyncerRemoves, Running, Top
  <2>2. Removing(Top.ped) \in Calls /\ [Top EXCEPT !.kind = "drag"] \in Calls
    <3>1. Removing(Top.ped) \in Calls
      BY <1>t, <2>1, PlaceParts, CallType DEF Removing, Events
    <3>2. [Top EXCEPT !.kind = "drag"] \in Calls
      BY <1>t, <2>1 DEF Calls, CallsOf, Events, SyncerCalls
    <3> QED BY <3>1, <3>2
  <2>3. PICK c \in Calls, d \in Calls : c = Removing(Top.ped) /\ d = [Top EXCEPT !.kind = "drag"]
    BY <2>2
  <2>4. calls' = <<c, d>>
    <3>1. Tail(calls) = <<>>
      BY <1>t, <2>1
    <3>2. calls' = <<c, d>> \o Tail(calls)
      BY ONLY <2>1, <2>3
    <3>3. calls' = <<c, d>> \o <<>>
      BY ONLY <3>1, <3>2
    <3>4. <<c, d>> \o <<>> = <<c, d>>
      OBVIOUS
    <3> QED BY <3>3, <3>4
  <2>5. occupied[Top.ped] = <<occupied[Top.ped][1], occupied[Top.ped][2]>>
    BY <1>t, <2>1, PlaceParts
  <2>6. Fits(c)' /\ Continues(c, d)'
    <3>1. d.kind = "drag"
      BY <1>t, <2>3 DEF Calls, CallsOf
    <3>2. c = Call("removing", Top.ped, occupied[Top.ped][1], occupied[Top.ped][2], NoPed, FALSE)
      BY <2>3 DEF Removing
    <3>3. /\ c.kind = "removing" /\ c.ped = Top.ped
          /\ <<c.veh, c.seat>> = occupied[Top.ped]
      BY <2>5, <3>2 DEF Call
    <3> QED BY <2>1, <3>1, <3>3 DEF Fits, Continues, seats
  <2>7. SeatsAgree' /\ JackersAreOut'
    BY <1>0, <2>1 DEF SeatsAgree, JackersAreOut, InVehicle, seats
  <2> QED BY <2>4, <2>6, <2>7 DEF SeatsInv, CallsFit
<1>10. ASSUME SyncerWarps PROVE SeatsInv'
  <2> DEFINE v == jackingVehicle[Top.ped]
  <2>0. Top.kind \in {"syncer", "drag"} /\ Tail(calls) = <<>>
    BY <1>10, <1>t DEF SyncerWarps, Running, Top
  <2>1. CASE v # NoVehicle /\ CanWarp(Top.ped, v, 0)
    <3>1. WarpPedIntoVehicle(Top.ped, v, 0, <<>>)
      BY <1>10, <2>0, <2>1 DEF SyncerWarps
    <3>2. v \in Vehicles /\ 0 \in Seats
      BY <1>t, <2>1, SeatsAssumption DEF Seats, TypeOK
    <3> QED BY <1>0, <1>t, <3>1, <3>2, WarpFits
  <2>2. CASE ~(v # NoVehicle /\ CanWarp(Top.ped, v, 0))
    <3>1. calls' = <<>> /\ UNCHANGED <<seats, action>>
      BY <1>10, <2>0, <2>2 DEF SyncerWarps
    <3> QED BY <1>0, <3>1, NobodyMoves
  <2> QED BY <2>1, <2>2
<1> QED BY <1>1, <1>2, <1>4, <1>5, <1>6, <1>7, <1>8, <1>9, <1>10 DEF Return

\* What the seats, the jackers and the suspended calls have to do with each other.
LEMMA SeatsInvariant ==
    ASSUME OnlyCancels
    PROVE  Spec => []SeatsInv
<1>1. Init => SeatsInv
  BY NullAssumption DEF Init, SeatsInv, SeatsAgree, JackersAreOut, CallsFit, Places, Out
<1>2. TypeOK /\ SeatsInv /\ [Next]_vars => SeatsInv'
  <2> SUFFICES ASSUME TypeOK, SeatsInv, [Next]_vars PROVE SeatsInv'
    OBVIOUS
  <2>1. CASE UNCHANGED vars
    BY <2>1 DEF vars, seats, SeatsInv, SeatsAgree, JackersAreOut, InVehicle, CallsFit, Fits, Continues
  <2> QED BY <2>1, PacketSeats, OperationSeats, ReturnSeats DEF Next
<1> QED BY <1>1, <1>2, TypeCorrect, PTL DEF Spec

\* As long as event handlers only cancel events, a ped is the occupant of a seat
\* of a vehicle in exactly the states in which that seat is the place the ped has.
THEOREM SeatsKept ==
    ASSUME OnlyCancels
    PROVE  Spec => []SeatsAgree
<1>1. SeatsInv => SeatsAgree
  BY DEF SeatsInv
<1> QED BY <1>1, SeatsInvariant, PTL
=============================================================================
