----------------------- MODULE VehicleHandshakeProofs -----------------------
(***************************************************************************)
(* More about VehicleInOut as long as handlers only cancel events: no      *)
(* pointer dangles, seats are handed out as VehicleSeats promises, and     *)
(* every handshake is answered.                                            *)
(***************************************************************************)
EXTENDS VehicleInOutProofs

-----------------------------------------------------------------------------
(* What is deleted is forgotten: every pointer is to what still exists.    *)

CallExists(c) == Exists(c.ped) /\ Exists(c.veh) /\ Exists(c.other)
StackExists(st) == \A i \in 1..Len(st) : CallExists(st[i])

SeatsExist == /\ \A x \in Places : Exists(occupants[x])
              /\ \A p \in Peds : Exists(occupied[p][1])
LinksExist == /\ \A p \in Peds : Exists(jackingVehicle[p])
              /\ \A v \in Vehicles : Exists(jackingPed[v])
ClientsExist == \A p \in Peds : Exists(client[p].veh)

AllExist == SeatsExist /\ LinksExist /\ ClientsExist /\ StackExists(calls)

\* The null pointers are never deleted.
LEMMA NullsExist ==
    ASSUME TypeOK
    PROVE  Exists(NoPed) /\ Exists(NoVehicle)
BY NullAssumption, KindsAssumption DEF TypeOK, Exists

\* Calls on a stack that only refers to what exists.
LEMMA PushExists ==
    ASSUME NEW below \in Seq(Calls), NEW a \in Calls, NEW b \in Calls,
           StackExists(below), CallExists(a), CallExists(b)
    PROVE  StackExists(<<a>> \o below) /\ StackExists(<<a, b>> \o below)
<1>1. <<a>> \in Seq(Calls) /\ <<a, b>> \in Seq(Calls) /\ Len(below) \in Nat
  BY LenProperties
<1>2. /\ Len(<<a>> \o below) = 1 + Len(below)
      /\ (<<a>> \o below)[1] = a
      /\ \A i \in 2..1 + Len(below) : (<<a>> \o below)[i] = below[i - 1]
  BY <1>1, ConcatProperties
<1>3. /\ Len(<<a, b>> \o below) = 2 + Len(below)
      /\ (<<a, b>> \o below)[1] = a /\ (<<a, b>> \o below)[2] = b
      /\ \A i \in 3..2 + Len(below) : (<<a, b>> \o below)[i] = below[i - 2]
  BY <1>1, ConcatProperties
<1>4. StackExists(<<a>> \o below)
  BY <1>1, <1>2 DEF StackExists
<1>5. StackExists(<<a, b>> \o below)
  BY <1>1, <1>3 DEF StackExists
<1> QED BY <1>4, <1>5

\* The innermost call and those under it.
LEMMA TopExists ==
    ASSUME TypeOK, StackExists(calls), calls # <<>>
    PROVE  CallExists(Top) /\ StackExists(Tail(calls))
<1>1. calls \in Seq(Calls)
  BY DEF TypeOK
<1>2. /\ Top = calls[1] /\ Len(calls) \in Nat /\ Len(calls) >= 1
      /\ Len(Tail(calls)) = Len(calls) - 1
      /\ \A i \in 1..Len(Tail(calls)) : Tail(calls)[i] = calls[i + 1]
  BY <1>1, HeadTailProperties, EmptySeq, LenProperties DEF Top
<1> QED BY <1>2 DEF StackExists

\* What is on top of what exists.
LEMMA CallExistsIf ==
    ASSUME NEW k, NEW p, NEW v, NEW s, NEW o, NEW w, Exists(p), Exists(v), Exists(o)
    PROVE  CallExists(Call(k, p, v, s, o, w))
BY DEF CallExists, Call

\* A client that is told to forget what it owes
LEMMA ResetExists ==
    ASSUME TypeOK, ClientsExist, UNCHANGED gone
    PROVE  /\ \A p \in Peds : Exists(Reset(client[p]).veh)
           /\ \A S : client' = ResetClients(S) => ClientsExist'
           /\ Exists(Free.veh)
<1>1. \A p \in Peds : Exists(Reset(client[p]).veh)
  <2> SUFFICES ASSUME NEW p \in Peds PROVE Exists(Reset(client[p]).veh)
    OBVIOUS
  <2>1. client[p] \in Clients
    BY DEF TypeOK
  <2>2. CASE client[p].task \in {"none", "waiting"}
    BY <2>2, NullsExist DEF Reset, Free
  <2>3. CASE client[p].task \notin {"none", "waiting"}
    <3>1. client[p] \in [task : Tasks, veh : Vehicles, late : BOOLEAN]
      BY <2>1, <2>3 DEF Clients, Free
    <3>2. [client[p] EXCEPT !.late = TRUE].veh = client[p].veh
      BY <3>1
    <3> QED BY <2>3, <3>2 DEF Reset, ClientsExist
  <2> QED BY <2>2, <2>3
<1>2. ASSUME NEW S, client' = ResetClients(S) PROVE ClientsExist'
  BY <1>1, <1>2 DEF ResetClients, ClientsExist, Exists
<1>3. Exists(Free.veh)
  BY NullsExist DEF Free
<1> QED BY <1>1, <1>2, <1>3

\* The helpers that change the seats and the links only give what exists.
LEMMA HelpersExist ==
    ASSUME TypeOK, SeatsExist, LinksExist, UNCHANGED gone, NEW p \in Peds
    PROVE  /\ \A v \in Vehicles, s \in Seats :
                 Exists(p) /\ Exists(v) /\ SetOccupiedVehicle(p, v, s) => SeatsExist'
           /\ LeaveVehicle(p) => SeatsExist'
           /\ \A v, s : ClearSeat(p, v, s) => SeatsExist'
           /\ \A v \in Vehicles : Exists(p) /\ Exists(v) /\ SetJackingVehicle(p, v) => LinksExist'
           /\ \A v : ClearJacking(p, v) => LinksExist'
           /\ UNCHANGED seats => SeatsExist'
           /\ UNCHANGED links => LinksExist'
<1>0. /\ occupied \in [Peds -> Places \cup {Out}]
      /\ occupants \in [Places -> Peds \cup {NoPed}]
      /\ jackingVehicle \in [Peds -> Vehicles \cup {NoVehicle}]
      /\ jackingPed \in [Vehicles -> Peds \cup {NoPed}]
      /\ Exists(NoPed) /\ Exists(NoVehicle) /\ Exists(Out[1])
      /\ \A g : Exists(g)' <=> Exists(g)
  BY NullsExist DEF TypeOK, Out, Exists
<1>1. ASSUME NEW v \in Vehicles, NEW s \in Seats, Exists(p), Exists(v), SetOccupiedVehicle(p, v, s)
      PROVE  SeatsExist'
  BY <1>0, <1>1 DEF SetOccupiedVehicle, SeatsExist, Exists
<1>2. ASSUME LeaveVehicle(p) PROVE SeatsExist'
  BY <1>0, <1>2 DEF LeaveVehicle, SeatsExist, Exists
<1>3. ASSUME NEW v, NEW s, ClearSeat(p, v, s) PROVE SeatsExist'
  BY <1>0, <1>3 DEF ClearSeat, SeatsExist, Exists
<1>4. ASSUME NEW v \in Vehicles, Exists(p), Exists(v), SetJackingVehicle(p, v) PROVE LinksExist'
  BY <1>0, <1>4 DEF SetJackingVehicle, LinksExist, Exists
<1>5. ASSUME NEW v, ClearJacking(p, v) PROVE LinksExist'
  BY <1>0, <1>5 DEF ClearJacking, LinksExist, Exists
<1>6. (UNCHANGED seats => SeatsExist') /\ (UNCHANGED links => LinksExist')
  BY DEF seats, links, SeatsExist, LinksExist, Exists
<1> QED BY <1>1, <1>2, <1>3, <1>4, <1>5, <1>6

\* A stack of calls to what exists, after a step that deletes nothing.
LEMMA StackStays ==
    ASSUME UNCHANGED gone, StackExists(calls')
    PROVE  StackExists(calls)'
BY DEF StackExists, CallExists, Exists

\* What a warp changes refers to what exists.
LEMMA TakeSeatExists ==
    ASSUME TypeOK, AllExist, UNCHANGED gone, NEW p \in Peds, NEW v \in Vehicles, NEW s \in Seats,
           Exists(p), Exists(v), NEW below \in Seq(Calls), StackExists(below),
           NEW was \in [Peds -> Places \cup {Out}], \A q \in Peds : Exists(was[q][1]),
           TakeSeatFrom(was, p, v, s, below)
    PROVE  SeatsExist' /\ ClientsExist' /\ StackExists(calls)'
<1>0. Exists(NoPed) /\ SeatsExist /\ ClientsExist /\ \A g : Exists(g)' <=> Exists(g)
  BY NullsExist DEF AllExist, Exists
<1>1. SeatsExist'
  BY <1>0 DEF TakeSeatFrom, SeatsExist
<1>2. ClientsExist'
  BY <1>0, ResetExists DEF TakeSeatFrom
<1>3. PICK c \in Calls : c = Call("warped", p, v, s, NoPed, FALSE)
  BY CallType DEF Events
<1>4. StackExists(<<c>> \o below)
  BY <1>0, <1>3, PushExists, CallExistsIf
<1>5. StackExists(calls)'
  BY <1>3, <1>4, StackStays DEF TakeSeatFrom
<1> QED BY <1>1, <1>2, <1>5

\* So does what WarpPedIntoVehicle changes.
LEMMA WarpExists ==
    ASSUME TypeOK, AllExist, UNCHANGED gone, NEW p \in Peds, NEW v \in Vehicles, NEW s \in Seats,
           Exists(p), Exists(v), NEW below \in Seq(Calls), StackExists(below),
           WarpPedIntoVehicle(p, v, s, below)
    PROVE  SeatsExist' /\ ClientsExist' /\ StackExists(calls)'
<1> DEFINE previous == occupants[<<v, s>>]
<1>0. Exists(NoPed) /\ SeatsExist /\ ClientsExist
  BY NullsExist DEF AllExist
<1>1. CASE previous # NoPed /\ InVehicle(previous)
  <2>1. previous \in Peds /\ Exists(previous) /\ Exists(occupied[previous][1])
    BY <1>0, <1>1 DEF TypeOK, Places, SeatsExist
  <2>2. Removing(previous) \in Calls /\ Call("seat", p, v, s, NoPed, FALSE) \in Calls
    BY <1>1, <2>1, PlaceParts, CallType DEF Removing, Events
  <2>3. CallExists(Removing(previous)) /\ CallExists(Call("seat", p, v, s, NoPed, FALSE))
    BY <1>0, <2>1, CallExistsIf DEF Removing
  <2>4. PICK c \in Calls, d \in Calls : c = Removing(previous) /\ d = Call("seat", p, v, s, NoPed, FALSE)
    BY <2>2
  <2>5. StackExists(<<c, d>> \o below)
    BY <2>3, <2>4, PushExists
  <2>6. calls' = <<c, d>> \o below /\ UNCHANGED <<seats, client>>
    BY <1>1, <2>4 DEF WarpPedIntoVehicle
  <2> QED BY <1>0, <2>5, <2>6, StackStays DEF seats, SeatsExist, ClientsExist, Exists
<1>2. CASE ~(previous # NoPed /\ InVehicle(previous))
  <2>1. TakeSeatFrom(occupied, p, v, s, below)
    BY <1>2 DEF WarpPedIntoVehicle, TakeSeat
  <2>2. \A q \in Peds : Exists(occupied[q][1])
    BY <1>0 DEF SeatsExist
  <2> QED BY <2>1, <2>2, TakeSeatExists DEF TypeOK
<1> QED BY <1>1, <1>2

\* So does what letting a ped in changes.
LEMMA ConfirmExists ==
    ASSUME TypeOK, AllExist, UNCHANGED gone, NEW c \in Calls, c.veh \in Vehicles, CallExists(c),
           NEW below \in Seq(Calls), StackExists(below),
           ConfirmEnter(c.ped, c.veh, c.seat, c.other, c.warp, below)
    PROVE  SeatsExist' /\ ClientsExist' /\ StackExists(calls)'
<1> DEFINE p == c.ped
           v == c.veh
           s == c.seat
           w == c.warp
           removed == IF s = 0 THEN p ELSE c.other
<1>0. /\ p \in Peds /\ s \in Seats /\ ConfirmEnter(p, v, s, c.other, w, below)
      /\ Exists(p) /\ Exists(v) /\ Exists(NoPed) /\ Exists(Out[1])
      /\ SeatsExist /\ ClientsExist /\ \A g : Exists(g)' <=> Exists(g)
  BY CallParts, NullsExist DEF CallExists, AllExist, Out, Exists
<1>1. CASE ~w
  <2>1. /\ client' = [client EXCEPT ![p] = Owes("in", v)]
        /\ calls' = below
        /\ UNCHANGED <<seats, action>>
    BY <1>0, <1>1 DEF ConfirmEnter
  <2>2. Owes("in", v).veh = v
    BY DEF Owes
  <2> QED BY <1>0, <2>1, <2>2, StackStays DEF TypeOK, seats, SeatsExist, ClientsExist
<1>2. CASE w /\ ~occupantChanged[v] /\ p \notin dead
  <2>1. TakeSeatFrom([occupied EXCEPT ![removed] = Out], p, v, s, below)
    BY <1>0, <1>2 DEF ConfirmEnter
  <2>2. [occupied EXCEPT ![removed] = Out] \in [Peds -> Places \cup {Out}]
    BY DEF TypeOK
  <2>3. \A q \in Peds : Exists([occupied EXCEPT ![removed] = Out][q][1])
    BY <1>0 DEF TypeOK, SeatsExist
  <2> HIDE DEF removed
  <2> QED BY <1>0, <2>1, <2>2, <2>3, TakeSeatExists
<1>3. CASE w /\ ~occupantChanged[v] /\ p \in dead
  <2>1. ClearSeat(removed, v, s) /\ calls' = below /\ UNCHANGED client
    BY <1>0, <1>3 DEF ConfirmEnter
  <2>2. SeatsExist'
    BY <1>0, <2>1 DEF TypeOK, ClearSeat, SeatsExist
  <2> QED BY <1>0, <2>1, <2>2, StackStays DEF ClientsExist
<1>4. CASE w /\ occupantChanged[v] /\ CanWarp(p, v, s)
  <2>1. WarpPedIntoVehicle(p, v, s, below)
    BY <1>0, <1>4 DEF ConfirmEnter
  <2> QED BY <1>0, <2>1, WarpExists
<1>5. CASE w /\ occupantChanged[v] /\ ~CanWarp(p, v, s)
  <2>1. calls' = below /\ UNCHANGED <<seats, client>>
    BY <1>0, <1>5 DEF ConfirmEnter
  <2> QED BY <1>0, <2>1, StackStays DEF seats, SeatsExist, ClientsExist
<1> QED BY <1>1, <1>2, <1>3, <1>4, <1>5

\* A packet of a ped that exists names what exists.
LEMMA PacketExists ==
    ASSUME TypeOK, AllExist, NEW p \in Peds, Packet(p)
    PROVE  AllExist'
<1>0. /\ SeatsExist /\ LinksExist /\ ClientsExist /\ StackExists(calls)
      /\ occupants \in [Places -> Peds \cup {NoPed}] /\ client \in [Peds -> Clients]
      /\ UNCHANGED gone /\ \A g : Exists(g)' <=> Exists(g)
      /\ Exists(NoPed) /\ Exists(NoVehicle) /\ Exists(Out[1]) /\ Exists(Free.veh)
  <2>1. UNCHANGED gone
    BY DEF Packet, RequestIn, RequestOut, NotifyFellOff, NotifyIn, NotifyInAbort, NotifyOut,
           NotifyJack, NotifyJackAbort, Wasted, Dies
  <2> QED BY <2>1, NullsExist, ResetExists DEF AllExist, TypeOK, Exists, Out
<1>p. ASSUME NEW c \in Calls, CallExists(c) PROVE StackExists(Push(c))
  BY <1>0, <1>p, PushExists DEF Push, TypeOK
<1>o. occupied[p][2] \in Seats /\ 0 \in Seats /\ \A v \in Vehicles : <<v, 0>> \in Places
  BY PlaceParts, SeatsAssumption DEF Seats, Places
<1>f. ASSUME client' = [client EXCEPT ![p] = Free] PROVE ClientsExist'
  BY <1>0, <1>f DEF ClientsExist
<1>i. ASSUME Ignored(p), HasAnswer(p, "in") \/ HasAnswer(p, "out") \/ HasAnswer(p, "jack")
      PROVE  AllExist'
  <2>1. client[p] \in [task : Tasks, veh : Vehicles, late : BOOLEAN]
    BY <1>0, <1>i DEF HasAnswer, Clients, Free
  <2>2. [client[p] EXCEPT !.task = "waiting"].veh = client[p].veh
    BY <2>1
  <2>3. client' = [client EXCEPT ![p] = IF client[p].late THEN Free
                                        ELSE [client[p] EXCEPT !.task = "waiting"]]
        /\ UNCHANGED <<seats, links, calls>>
    BY <1>i, <1>0 DEF Ignored
  <2>4. ClientsExist'
    BY <1>0, <2>2, <2>3 DEF ClientsExist
  <2> QED BY <1>0, <2>3, <2>4, HelpersExist, StackStays DEF AllExist
<1>v. ASSUME HasAnswer(p, "in") \/ HasAnswer(p, "out") \/ HasAnswer(p, "jack")
      PROVE  client[p].veh \in Vehicles /\ Exists(p) /\ Exists(client[p].veh)
  BY <1>v, <1>0 DEF HasAnswer, Clients, Free, ClientsExist
<1>1. ASSUME NEW v \in Vehicles, NEW s \in Seats, RequestIn(p, v, s) PROVE AllExist'
  <2>0. ClientsExist' /\ Exists(p) /\ Exists(v)
    BY <1>f, <1>1 DEF RequestIn, Asks
  <2>1. ASSUME NEW t \in SeatFor(v, s), StartEnter(p, v, t) PROVE AllExist'
    <3>1. t \in Seats
      BY SeatsAssumption DEF SeatFor, FreePassengerSeat, Seats
    <3>2. SeatsExist' /\ LinksExist'
      BY <1>0, <2>0, <2>1, <3>1, HelpersExist DEF StartEnter
    <3>3. PICK w \in BOOLEAN, q \in Sender(p) : calls' = Push(Call("startEnter", p, v, t, q, w))
      BY <2>1 DEF StartEnter
    <3>4. q \in Peds /\ Exists(q)
      BY <2>0, PlayersAssumption DEF Sender
    <3>5. StackExists(Push(Call("startEnter", p, v, t, q, w)))
      BY <1>p, <2>0, <3>1, <3>4, CallType, CallExistsIf DEF Events
    <3> QED BY <1>0, <2>0, <3>2, <3>3, <3>5, StackStays DEF AllExist
  <2>2. ASSUME CanJack(v), StartJack(p, v, occupants[<<v, 0>>]) PROVE AllExist'
    <3>1. occupants[<<v, 0>>] \in Peds /\ Exists(occupants[<<v, 0>>])
      BY <1>0, <1>o, <2>2 DEF CanJack, SeatsExist
    <3>2. SeatsExist' /\ LinksExist'
      BY <1>0, <2>0, <2>2, HelpersExist DEF StartJack
    <3>3. StackExists(calls')
      BY <1>o, <1>p, <2>0, <2>2, <3>1, CallType, CallExistsIf DEF StartJack, Events
    <3> QED BY <1>0, <2>0, <3>2, <3>3, StackStays DEF AllExist
  <2>3. ASSUME UNCHANGED <<seats, links, calls>> PROVE AllExist'
    BY <1>0, <2>0, <2>3, HelpersExist, StackStays DEF AllExist
  <2> QED BY <1>1, <2>1, <2>2, <2>3 DEF RequestIn
<1>2. ASSUME NotifyIn(p), ~Ignored(p) PROVE AllExist'
  <2>1. ClientsExist' /\ UNCHANGED <<seats, links, calls>>
    BY <1>2, <1>f DEF NotifyIn
  <2> QED BY <1>0, <2>1, HelpersExist, StackStays DEF AllExist
<1>3. ASSUME NotifyInAbort(p) \/ NotifyOut(p), ~Ignored(p) PROVE AllExist'
  <2>1. ClientsExist' /\ ClearSeat(p, client[p].veh, occupied[p][2]) /\ UNCHANGED <<links, calls>>
    BY <1>3, <1>f DEF NotifyInAbort, NotifyOut
  <2> QED BY <1>0, <2>1, HelpersExist, StackStays DEF AllExist
<1>4. ASSUME NEW v \in Vehicles, RequestOut(p, v) PROVE AllExist'
  <2>1. ClientsExist' /\ UNCHANGED <<seats, links>> /\ Exists(p) /\ Exists(v)
    BY <1>4, <1>f DEF RequestOut, Asks
  <2>2. StackExists(calls')
    <3>1. StackExists(Push(Call("startExit", p, v, occupied[p][2], NoPed, FALSE)))
      BY <1>0, <1>o, <1>p, <2>1, CallType, CallExistsIf DEF Events
    <3> QED BY <1>0, <1>4, <3>1 DEF RequestOut
  <2> QED BY <1>0, <2>1, <2>2, HelpersExist, StackStays DEF AllExist
<1>5. ASSUME NEW v \in Vehicles, NotifyFellOff(p, v) PROVE AllExist'
  <2>1. /\ ClientsExist' /\ ClearSeat(p, v, occupied[p][2]) /\ UNCHANGED links
        /\ Exists(p) /\ Exists(v)
    <3>1. client' = [client EXCEPT ![p] = IF client[p].task = "out" THEN Reset(client[p]) ELSE Free]
      BY <1>0, <1>5 DEF NotifyFellOff
    <3>2. ClientsExist'
      BY <1>0, <3>1, ResetExists DEF ClientsExist
    <3> QED BY <1>5, <3>2 DEF NotifyFellOff, Asks, HasAnswer
  <2>2. StackExists(calls')
    BY <1>0, <1>5, <1>o, <1>p, <2>1, CallType, CallExistsIf DEF NotifyFellOff, Events
  <2> QED BY <1>0, <2>1, <2>2, HelpersExist, StackStays DEF AllExist
<1>6. ASSUME NotifyJack(p), ~Ignored(p) PROVE AllExist'
  <2> DEFINE v == client[p].veh
             jacked == occupants[<<v, 0>>]
  <2>0. v \in Vehicles /\ Exists(p) /\ Exists(v) /\ <<v, 0>> \in Places
    BY <1>6, <1>o, <1>v DEF NotifyJack
  <2>1. /\ occupied' = [q \in Peds |-> IF q = p THEN <<v, 0>>
                                        ELSE IF q = jacked THEN Out ELSE occupied[q]]
        /\ occupants' = [occupants EXCEPT ![<<v, 0>>] = p]
        /\ ClearJacking(p, v)
        /\ client' = [q \in Peds |-> IF q = p THEN Free
                                      ELSE IF q = jacked THEN Reset(client[q])
                                      ELSE client[q]]
        /\ UNCHANGED calls
    BY <1>6 DEF NotifyJack
  <2> HIDE DEF v, jacked
  <2>2. SeatsExist'
    BY <1>0, <2>0, <2>1 DEF SeatsExist
  <2>3. ClientsExist'
    BY <1>0, <2>1, ResetExists DEF ClientsExist
  <2> QED BY <1>0, <2>1, <2>2, <2>3, HelpersExist, StackStays DEF AllExist
<1>7. ASSUME NEW started \in BOOLEAN, NotifyJackAbort(p, started), ~Ignored(p) PROVE AllExist'
  <2> DEFINE v == client[p].veh
             jacked == occupants[<<v, 0>>]
             thrown == started /\ jacked # NoPed
  <2>0. /\ v \in Vehicles /\ Exists(p) /\ Exists(v) /\ <<v, 0>> \in Places
        /\ jacked \in Peds \cup {NoPed} /\ Exists(jacked)
    BY <1>0, <1>7, <1>o, <1>v DEF NotifyJackAbort, SeatsExist
  <2>1. /\ occupied' = [q \in Peds |-> IF q = p \/ (thrown /\ q = jacked) THEN Out
                                        ELSE occupied[q]]
        /\ occupants' = IF thrown THEN [occupants EXCEPT ![<<v, 0>>] = NoPed] ELSE occupants
        /\ ClearJacking(p, v)
        /\ client' = [q \in Peds |-> IF q = p THEN Free
                                      ELSE IF thrown /\ q = jacked THEN Reset(client[q])
                                      ELSE client[q]]
        /\ calls' = IF thrown THEN Push(Call("jackAbort", jacked, v, 0, p, FALSE)) ELSE calls
    BY <1>7 DEF NotifyJackAbort
  <2>2. StackExists(calls')
    <3>1. CASE thrown
      <4>1. StackExists(Push(Call("jackAbort", jacked, v, 0, p, FALSE)))
        BY <1>o, <1>p, <2>0, <3>1, CallType, CallExistsIf DEF Events
      <4> QED BY <2>1, <3>1, <4>1
    <3> QED BY <1>0, <2>1, <3>1
  <2> HIDE DEF v, jacked, thrown
  <2>3. SeatsExist'
    BY <1>0, <2>0, <2>1 DEF SeatsExist
  <2>4. ClientsExist'
    BY <1>0, <2>1, ResetExists DEF ClientsExist
  <2> QED BY <1>0, <2>1, <2>2, <2>3, <2>4, HelpersExist, StackStays DEF AllExist
<1>8. ASSUME Wasted(p) PROVE AllExist'
  <2>1. LeaveVehicle(p) /\ UNCHANGED <<links, client, calls>>
    BY <1>8 DEF Wasted, Dies
  <2> QED BY <1>0, <2>1, HelpersExist, StackStays DEF AllExist, ClientsExist
<1>9. NotifyIn(p) => HasAnswer(p, "in")
  BY DEF NotifyIn
<1>10. NotifyInAbort(p) => HasAnswer(p, "in")
  BY DEF NotifyInAbort
<1>11. NotifyOut(p) => HasAnswer(p, "out")
  BY DEF NotifyOut
<1>12. NotifyJack(p) \/ (\E started \in BOOLEAN : NotifyJackAbort(p, started)) => HasAnswer(p, "jack")
  BY DEF NotifyJack, NotifyJackAbort
<1> QED BY <1>i, <1>1, <1>2, <1>3, <1>4, <1>5, <1>6, <1>7, <1>8, <1>9, <1>10, <1>11, <1>12 DEF Packet

\* What scripts and the server do to what exists; and a destructor leaves no
\* pointer to what it destroys, because both directions of each agree.
LEMMA OperationExists ==
    ASSUME TypeOK, SeatsAgree, JackLinks, AllExist, Operation
    PROVE  AllExist'
<1>0. /\ SeatsExist /\ LinksExist /\ ClientsExist /\ StackExists(calls)
      /\ occupants \in [Places -> Peds \cup {NoPed}] /\ client \in [Peds -> Clients]
      /\ occupied \in [Peds -> Places \cup {Out}]
      /\ jackingVehicle \in [Peds -> Vehicles \cup {NoVehicle}]
      /\ jackingPed \in [Vehicles -> Peds \cup {NoPed}]
      /\ calls \in Seq(Calls) /\ 0 \in Seats /\ \A v \in Vehicles : <<v, 0>> \in Places
      /\ Exists(NoPed) /\ Exists(NoVehicle)
  BY NullsExist, SeatsAssumption DEF AllExist, TypeOK, Seats, Places
<1>1. ASSUME UNCHANGED gone, NEW p \in Peds,
             \/ \E v \in Vehicles, s \in Seats : ScriptWarps(p, v, s)
             \/ ScriptRemoves(p) \/ ScriptKills(p) \/ SpawnPlayer(p) \/ SyncerChanges(p)
      PROVE  AllExist'
  <2>0. \A g : Exists(g)' <=> Exists(g)
    BY <1>1 DEF Exists
  <2>1. ASSUME NEW v \in Vehicles, NEW s \in Seats, ScriptWarps(p, v, s) PROVE AllExist'
    <3>1. /\ WarpPedIntoVehicle(p, v, s, calls) /\ Exists(p) /\ Exists(v) /\ UNCHANGED links
      BY <2>1 DEF ScriptWarps
    <3> QED BY <1>0, <1>1, <3>1, WarpExists, HelpersExist DEF AllExist
  <2>2. ASSUME ScriptRemoves(p) PROVE AllExist'
    <3>1. InVehicle(p) /\ Exists(p) /\ UNCHANGED <<seats, links, client>>
          /\ calls' = <<Removing(p)>> \o calls
      BY <2>2 DEF ScriptRemoves, Push
    <3>2. Removing(p) \in Calls /\ CallExists(Removing(p))
      BY <1>0, <3>1, PlaceParts, CallType, CallExistsIf DEF Removing, Events, SeatsExist
    <3>3. StackExists(<<Removing(p)>> \o calls)
      BY <1>0, <3>2, PushExists
    <3> QED BY <1>0, <1>1, <2>0, <3>1, <3>3, HelpersExist, StackStays DEF AllExist, ClientsExist
  <2>3. ASSUME ScriptKills(p) PROVE AllExist'
    <3>1. LeaveVehicle(p) /\ UNCHANGED <<links, client, calls>>
      BY <2>3 DEF ScriptKills, Dies
    <3> QED BY <1>0, <1>1, <2>0, <3>1, HelpersExist, StackStays DEF AllExist, ClientsExist
  <2>4. ASSUME SpawnPlayer(p) PROVE AllExist'
    <3>1. /\ LeaveVehicle(p) /\ UNCHANGED calls
          /\ UNCHANGED links \/ ClearJacking(p, jackingVehicle[p])
          /\ \E S : client' = ResetClients(S)
      BY <2>4 DEF SpawnPlayer
    <3> QED BY <1>0, <1>1, <2>0, <3>1, HelpersExist, ResetExists, StackStays DEF AllExist
  <2>5. ASSUME SyncerChanges(p) PROVE AllExist'
    <3>1. /\ UNCHANGED <<seats, links>> /\ Exists(p)
          /\ client' = [client EXCEPT ![p] = Free]
          /\ calls' = <<Call("syncer", p, NoVehicle, 0, NoPed, FALSE)>> \o calls
      BY <2>5 DEF SyncerChanges, Push
    <3>2. Call("syncer", p, NoVehicle, 0, NoPed, FALSE) \in Calls
      BY <1>0 DEF Call, Calls, CallsOf, SyncerCalls
    <3>3. StackExists(<<Call("syncer", p, NoVehicle, 0, NoPed, FALSE)>> \o calls)
      BY <1>0, <3>1, <3>2, PushExists, CallExistsIf
    <3>4. ClientsExist'
      BY <1>0, <2>0, <3>1 DEF ClientsExist, Free
    <3> QED BY <1>0, <1>1, <2>0, <3>1, <3>3, <3>4, HelpersExist, StackStays DEF AllExist
  <2> QED BY <1>1, <2>1, <2>2, <2>3, <2>4, <2>5
<1>2. ASSUME NEW p \in Peds, PedIsDeleted(p) PROVE AllExist'
  <2> DEFINE v == jackingVehicle[p]
             victim == IF v # NoVehicle /\ action[p] = "JACKING" THEN occupants[<<v, 0>>] ELSE NoPed
  <2>1. /\ calls = <<>> /\ calls' = <<>> /\ gone' = gone \cup {p}
        /\ occupied' = [q \in Peds |-> IF q \in {p, victim} THEN Out ELSE occupied[q]]
        /\ occupants' = [x \in Places |->
                           IF x = occupied[p] \/ (victim # NoPed /\ x = <<v, 0>>) THEN NoPed
                           ELSE occupants[x]]
        /\ IF v # NoVehicle /\ jackingPed[v] = p THEN ClearJacking(p, v) ELSE UNCHANGED links
        /\ client' = [q \in Peds |-> IF q = p THEN Free
                                     ELSE IF q = victim THEN Reset(client[q]) ELSE client[q]]
    BY <1>2 DEF PedIsDeleted, Idle
  <2>2. \A g : Exists(g)' <=> Exists(g) /\ g # p
    BY <2>1 DEF Exists
  <2>3. p \notin Vehicles \cup {NoVehicle} /\ p # NoPed
    BY KindsAssumption, NullAssumption
  <2>4. SeatsExist'
    <3>1. \A x \in Places : occupants'[x] = NoPed \/ (occupants'[x] = occupants[x] /\ occupants[x] # p)
      BY <1>0, <2>1 DEF SeatsAgree
    <3>2. \A q \in Peds : occupied'[q][1] \in Vehicles \cup {NoVehicle}
                          /\ (occupied'[q] = occupied[q] \/ occupied'[q] = Out)
      BY <1>0, <2>1 DEF Places, Out
    <3> QED BY <1>0, <2>2, <2>3, <3>1, <3>2 DEF SeatsExist, Out
  <2>5. LinksExist'
    <3>1. \A q \in Peds : jackingVehicle'[q] \in {jackingVehicle[q], NoVehicle}
      BY <1>0, <2>1 DEF ClearJacking, links
    <3>2. \A u \in Vehicles : jackingPed'[u] \in {jackingPed[u], NoPed}
      BY <1>0, <2>1 DEF ClearJacking, links
    <3>3. \A u \in Vehicles : jackingPed'[u] # p
      <4>1. CASE v # NoVehicle
        <5>1. jackingPed[v] = p /\ ClearJacking(p, v)
          BY <1>0, <2>1, <4>1 DEF JackLinks
        <5> QED BY <1>0, <2>3, <5>1 DEF ClearJacking, JackLinks
      <4>2. CASE v = NoVehicle
        BY <1>0, <2>1, <4>2, NullAssumption DEF JackLinks, links
      <4> QED BY <4>1, <4>2
    <3> QED BY <1>0, <2>2, <2>3, <3>1, <3>2, <3>3 DEF LinksExist
  <2>6. ClientsExist'
    <3>1. \A q \in Peds : Reset(client[q]).veh \in {client[q].veh, NoVehicle}
      <4> TAKE q \in Peds
      <4>1. client[q] \in Clients
        BY <1>0
      <4>2. CASE client[q].task \in {"none", "waiting"}
        BY <4>2 DEF Reset, Free
      <4>3. CASE client[q].task \notin {"none", "waiting"}
        BY <4>1, <4>3 DEF Reset, Clients, Free
      <4> QED BY <4>2, <4>3
    <3>2. \A q \in Peds : client[q].veh \in Vehicles \cup {NoVehicle}
      BY <1>0 DEF Clients, Free
    <3>3. \A q \in Peds : client'[q].veh \in {client[q].veh, NoVehicle}
      BY <2>1, <3>1 DEF Free
    <3> QED BY <1>0, <2>2, <2>3, <3>2, <3>3 DEF ClientsExist
  <2> QED BY <2>1, <2>4, <2>5, <2>6 DEF AllExist, StackExists
<1>3. ASSUME NEW v \in Vehicles, VehicleIsDeleted(v) PROVE AllExist'
  <2> DEFINE jacker == jackingPed[v]
             riders == {p \in Peds : \E s \in Seats : occupants[<<v, s>>] = p}
  <2>1. /\ calls = <<>> /\ calls' = <<>> /\ gone' = gone \cup {v}
        /\ occupied' = [p \in Peds |-> IF p \in riders THEN Out ELSE occupied[p]]
        /\ occupants' = [x \in Places |-> IF x[1] = v THEN NoPed ELSE occupants[x]]
        /\ IF jacker # NoPed THEN ClearJacking(jacker, v) ELSE UNCHANGED links
        /\ client' = [p \in Peds |-> IF client[p].veh = v THEN Free ELSE client[p]]
    BY <1>3 DEF VehicleIsDeleted, Idle
  <2>2. \A g : Exists(g)' <=> Exists(g) /\ g # v
    BY <2>1 DEF Exists
  <2>3. v \notin Peds \cup {NoPed} /\ v # NoVehicle
    BY KindsAssumption, NullAssumption
  <2>4. SeatsExist'
    <3>1. \A x \in Places : occupants'[x] \in {NoPed, occupants[x]} /\ occupants[x] # v
      BY <1>0, <2>1, <2>3
    <3>2. \A q \in Peds : occupied[q][1] = v => q \in riders
      <4> SUFFICES ASSUME NEW q \in Peds, occupied[q][1] = v PROVE q \in riders
        OBVIOUS
      <4>1. occupied[q] \in Places
        BY <1>0, <2>3 DEF Out
      <4>2. occupants[occupied[q]] = q
        BY <4>1 DEF SeatsAgree
      <4> QED BY <4>1, <4>2 DEF Places
    <3>3. \A q \in Peds : occupied'[q] = Out \/ (occupied'[q] = occupied[q] /\ occupied[q][1] # v)
      BY <2>1, <3>2
    <3> QED BY <1>0, <2>2, <2>3, <3>1, <3>3 DEF SeatsExist, Out
  <2>5. LinksExist'
    <3>1. \A q \in Peds : jackingVehicle'[q] \in {jackingVehicle[q], NoVehicle}
      BY <1>0, <2>1 DEF ClearJacking, links
    <3>2. \A u \in Vehicles : jackingPed'[u] \in {jackingPed[u], NoPed}
      BY <1>0, <2>1 DEF ClearJacking, links
    <3>3. \A q \in Peds : jackingVehicle'[q] # v
      <4>1. CASE jacker # NoPed
        BY <1>0, <2>1, <2>3, <4>1 DEF ClearJacking, JackLinks
      <4>2. CASE jacker = NoPed
        BY <1>0, <2>1, <4>2, NullAssumption DEF JackLinks, links
      <4> QED BY <4>1, <4>2
    <3> QED BY <1>0, <2>2, <2>3, <3>1, <3>2, <3>3 DEF LinksExist
  <2>6. ClientsExist'
    BY <1>0, <2>1, <2>2, <2>3 DEF ClientsExist, Free
  <2> QED BY <2>1, <2>4, <2>5, <2>6 DEF AllExist, StackExists
<1>4. ASSUME NEW p \in Peds,
             \/ \E v \in Vehicles, s \in Seats : ScriptWarps(p, v, s)
             \/ ScriptRemoves(p) \/ ScriptKills(p) \/ SpawnPlayer(p) \/ SyncerChanges(p)
      PROVE  UNCHANGED gone
  BY <1>4 DEF ScriptWarps, ScriptRemoves, ScriptKills, Dies, SpawnPlayer, SyncerChanges
<1> QED BY <1>1, <1>2, <1>3, <1>4 DEF Operation

\* A handler that goes on when an event has returned goes on with what exists.
LEMMA ReturnExists ==
    ASSUME TypeOK, AllExist, Return
    PROVE  AllExist'
<1>c. calls # <<>> /\ UNCHANGED <<links, gone>>
  BY DEF Return, SeatIsFreed, WarpedReturns, RemovingReturns, StartEnterReturns,
         OverrideSyncerReturns, StartEnterIsCancelled, StartJackReturns, StartJackIsCancelled,
         JackExitReturns, JackExitIsCancelled, StartExitReturns, StartExitIsCancelled,
         FellOffReturns, JackAbortReturns, SyncerRemoves, SyncerWarps, SyncerIsSet, Running
<1>0. /\ SeatsExist /\ LinksExist /\ ClientsExist /\ StackExists(calls)
      /\ client \in [Peds -> Clients]
      /\ jackingVehicle \in [Peds -> Vehicles \cup {NoVehicle}]
      /\ 0 \in Seats /\ \A g : Exists(g)' <=> Exists(g)
      /\ Exists(NoPed) /\ LinksExist'
  BY <1>c, NullsExist, SeatsAssumption, HelpersExist DEF AllExist, TypeOK, Seats, Exists, LinksExist, links
<1>t. /\ Top \in Calls /\ CallExists(Top) /\ Top.ped \in Peds /\ Top.seat \in Seats
      /\ Exists(Top.ped) /\ Exists(Top.veh)
      /\ Top.kind \notin SyncerCalls => Top.veh \in Vehicles
      /\ Tail(calls) \in Seq(Calls) /\ StackExists(Tail(calls))
  BY <1>0, <1>c, TopOfCalls, TopExists, CallParts DEF CallExists
<1>1. ASSUME SeatIsFreed PROVE AllExist'
  <2>1. /\ Top.kind = "seat"
        /\ TakeSeatFrom(occupied, Top.ped, Top.veh, Top.seat, Tail(calls))
    BY <1>1 DEF SeatIsFreed, Running, Top, TakeSeat
  <2>2. Top.veh \in Vehicles
    BY <1>t, <2>1 DEF SyncerCalls
  <2>3. \A q \in Peds : Exists(occupied[q][1])
    BY <1>0 DEF SeatsExist
  <2> QED BY <1>0, <1>c, <1>t, <2>1, <2>2, <2>3, TakeSeatExists DEF AllExist, TypeOK
<1>2. ASSUME RemovingReturns PROVE AllExist'
  <2>1. /\ ClearSeat(Top.ped, Top.veh, Top.seat) /\ calls' = Tail(calls)
        /\ client' = ResetClients({Top.ped})
    BY <1>2 DEF RemovingReturns
  <2> QED BY <1>0, <1>c, <1>t, <2>1, HelpersExist, ResetExists, StackStays DEF AllExist
<1>3. ASSUME ConfirmEnter(Top.ped, Top.veh, Top.seat, Top.other, Top.warp, Tail(calls)),
             Top.kind \in {"startEnter", "override"}
      PROVE  AllExist'
  <2>1. Top.veh \in Vehicles
    BY <1>3, <1>t DEF SyncerCalls
  <2> QED BY <1>0, <1>3, <1>c, <1>t, <2>1, ConfirmExists DEF AllExist
<1>4. ASSUME StartEnterReturns \/ OverrideSyncerReturns \/ StartJackReturns PROVE AllExist'
  <2>1. Top.kind \in {"startEnter", "override", "startJack"}
    BY <1>4 DEF StartEnterReturns, OverrideSyncerReturns, StartJackReturns, Running, Top
  <2>2. \A k \in {"override", "jackExit"} :
           [Top EXCEPT !.kind = k] \in Calls /\ CallExists([Top EXCEPT !.kind = k])
    <3>1. \A k \in {"override", "jackExit"} : [Top EXCEPT !.kind = k] \in Calls
      BY <1>t, <2>1 DEF Calls, CallsOf, Events, SyncerCalls
    <3>2. \A k : LET c == [Top EXCEPT !.kind = k] IN c.ped = Top.ped /\ c.veh = Top.veh /\ c.other = Top.other
      BY <1>t DEF Calls, CallsOf
    <3> QED BY <1>t, <3>1, <3>2 DEF CallExists
  <2>3. \A k \in {"override", "jackExit"} : StackExists(Become([Top EXCEPT !.kind = k]))
    BY <1>t, <2>2, PushExists DEF Become
  <2>4. CASE ConfirmEnter(Top.ped, Top.veh, Top.seat, Top.other, Top.warp, Tail(calls))
             /\ Top.kind \in {"startEnter", "override"}
    BY <1>3, <2>4
  <2>5. CASE /\ UNCHANGED <<seats, client>>
             /\ \/ calls' = Tail(calls)
                \/ \E k \in {"override", "jackExit"} : calls' = Become([Top EXCEPT !.kind = k])
    BY <1>0, <1>c, <1>t, <2>3, <2>5, HelpersExist, StackStays DEF AllExist, ClientsExist
  <2> QED BY <1>4, <2>1, <2>4, <2>5
          DEF StartEnterReturns, OverrideSyncerReturns, StartJackReturns, Running, Top
<1>5. ASSUME StartEnterIsCancelled PROVE AllExist'
  <2>1. /\ UNCHANGED seats \/ ClearSeat(Top.ped, Top.veh, Top.seat)
        /\ calls' = Tail(calls) /\ UNCHANGED client
    BY <1>5 DEF StartEnterIsCancelled
  <2> QED BY <1>0, <1>c, <1>t, <2>1, HelpersExist, StackStays DEF AllExist, ClientsExist
<1>6. ASSUME JackExitReturns \/ StartExitReturns PROVE AllExist'
  <2>1. /\ calls' = Tail(calls) /\ UNCHANGED seats
        /\ \/ UNCHANGED client
           \/ client' = [client EXCEPT ![Top.ped] = Owes("jack", Top.veh)]
           \/ client' = [client EXCEPT ![Top.ped] = Owes("out", Top.veh)]
    BY <1>6 DEF JackExitReturns, StartExitReturns
  <2>2. ClientsExist'
    BY <1>0, <1>t, <2>1 DEF ClientsExist, Owes
  <2> QED BY <1>0, <1>c, <1>t, <2>1, <2>2, HelpersExist, StackStays DEF AllExist
<1>7. ASSUME \/ WarpedReturns \/ StartJackIsCancelled \/ JackExitIsCancelled
             \/ StartExitIsCancelled \/ FellOffReturns \/ JackAbortReturns \/ SyncerIsSet
      PROVE  AllExist'
  <2>1. calls' = Tail(calls) /\ UNCHANGED <<seats, client>>
    BY <1>7 DEF WarpedReturns, StartJackIsCancelled, JackExitIsCancelled,
                StartExitIsCancelled, FellOffReturns, JackAbortReturns, SyncerIsSet
  <2> QED BY <1>0, <1>c, <1>t, <2>1, HelpersExist, StackStays DEF AllExist, ClientsExist
<1>8. ASSUME SyncerRemoves PROVE AllExist'
  <2>1. /\ Top.kind = "syncer" /\ InVehicle(Top.ped) /\ UNCHANGED <<seats, client>>
        /\ calls' = <<Removing(Top.ped), [Top EXCEPT !.kind = "drag"]>> \o Tail(calls)
    BY <1>8 DEF SyncerRemoves, Running, Top
  <2>2. Removing(Top.ped) \in Calls /\ CallExists(Removing(Top.ped))
    BY <1>0, <1>t, <2>1, PlaceParts, CallType, CallExistsIf DEF Removing, Events, SeatsExist
  <2>3. [Top EXCEPT !.kind = "drag"] \in Calls /\ CallExists([Top EXCEPT !.kind = "drag"])
    <3>1. [Top EXCEPT !.kind = "drag"] \in Calls
      BY <1>t, <2>1 DEF Calls, CallsOf, Events, SyncerCalls
    <3>2. LET c == [Top EXCEPT !.kind = "drag"] IN c.ped = Top.ped /\ c.veh = Top.veh /\ c.other = Top.other
      BY <1>t DEF Calls, CallsOf
    <3> QED BY <1>t, <3>1, <3>2 DEF CallExists
  <2>4. PICK c \in Calls, d \in Calls : c = Removing(Top.ped) /\ d = [Top EXCEPT !.kind = "drag"]
    BY <2>2, <2>3
  <2>5. StackExists(<<c, d>> \o Tail(calls))
    BY <1>t, <2>2, <2>3, <2>4, PushExists
  <2> QED BY <1>0, <1>c, <2>1, <2>4, <2>5, HelpersExist, StackStays DEF AllExist, ClientsExist, seats, SeatsExist
<1>9. ASSUME SyncerWarps PROVE AllExist'
  <2> DEFINE v == jackingVehicle[Top.ped]
  <2>1. CASE v # NoVehicle /\ CanWarp(Top.ped, v, 0)
    <3>1. WarpPedIntoVehicle(Top.ped, v, 0, Tail(calls))
      BY <1>9, <2>1 DEF SyncerWarps
    <3>2. v \in Vehicles /\ Exists(v)
      BY <1>0, <1>t, <2>1 DEF LinksExist
    <3> QED BY <1>0, <1>c, <1>t, <3>1, <3>2, WarpExists DEF AllExist
  <2>2. CASE ~(v # NoVehicle /\ CanWarp(Top.ped, v, 0))
    <3>1. calls' = Tail(calls) /\ UNCHANGED <<seats, client>>
      BY <1>9, <2>2 DEF SyncerWarps
    <3> QED BY <1>0, <1>c, <1>t, <3>1, HelpersExist, StackStays DEF AllExist, ClientsExist
  <2> QED BY <2>1, <2>2
<1> QED BY <1>1, <1>2, <1>4, <1>5, <1>6, <1>7, <1>8, <1>9 DEF Return

\* Every pointer of a state of the server is to what exists.
LEMMA ExistsAlways ==
    ASSUME OnlyCancels
    PROVE  Spec => []AllExist
<1>1. Init => AllExist
  BY DEF Init, AllExist, SeatsExist, LinksExist, ClientsExist, StackExists, Exists, Out, Free
<1>2. TypeOK /\ SeatsAgree /\ JackLinks /\ AllExist /\ [Next]_vars => AllExist'
  <2> SUFFICES ASSUME TypeOK, SeatsAgree, JackLinks, AllExist, [Next]_vars PROVE AllExist'
    OBVIOUS
  <2>1. CASE UNCHANGED vars
    BY <2>1 DEF vars, seats, links, AllExist, SeatsExist, LinksExist, ClientsExist, StackExists,
                CallExists, Exists
  <2> QED BY <2>1, PacketExists, OperationExists, ReturnExists DEF Next
<1> QED BY <1>1, <1>2, TypeCorrect, LinksAgree, SeatsKept, PTL DEF Spec

\* As long as handlers only cancel events, nothing that is left refers to a ped or
\* a vehicle that has been deleted: CPed::~CPed and CVehicle::~CVehicle find every
\* pointer to what they destroy.
THEOREM NothingDangles ==
    ASSUME OnlyCancels
    PROVE  Spec => []NoDangling
<1>1. AllExist => NoDangling
  BY DEF AllExist, SeatsExist, LinksExist, StackExists, CallExists, Exists, NoDangling
<1> QED BY <1>1, ExistsAlways, PTL

-----------------------------------------------------------------------------
(* Getting in and out is answered.                                         *)

Handshaking(p) == action[p] \in {"ENTERING", "EXITING"}

\* The ped is in the vehicle, and his client will say how it ended.
Promised(p) ==
    /\ InVehicle(p)
    /\ client[p] = Owes(IF action[p] = "ENTERING" THEN "in" ELSE "out", occupied[p][1])

\* When the innermost handler goes on it ends the ped's handshake or tells his client.
Settles(p) ==
    /\ calls # <<>> /\ Top.ped = p
    /\ Top.kind \in {"startEnter", "override", "removing", "syncer", "fellOff", "jackAbort"}

Handshakes == \A p \in Peds : Handshaking(p) => Promised(p) \/ Settles(p)

\* What is so while the innermost handler is suspended.
Handling ==
    /\ Running("startEnter") \/ Running("override") => action[Top.ped] = "ENTERING"
    /\ Running("syncer") /\ Handshaking(Top.ped) => InVehicle(Top.ped)
    /\ Running("startJack") \/ Running("jackExit") => ~Handshaking(Top.ped)

HandshakeInv == Handshakes /\ Handling

\* A ped in a vehicle sits there.
LEMMA SitsInside ==
    ASSUME TypeOK, SeatsAgree, NEW p \in Peds, InVehicle(p)
    PROVE  Sits(p, occupied[p][1])
BY PlaceParts DEF SeatsAgree, Sits

\* A step that changes nothing for those whose handshakes go on.
LEMMA HandshakesGoOn ==
    ASSUME \A q \in Peds : Handshaking(q)' =>
              \/ Settles(q)'
              \/ Promised(q)'
              \/ /\ Promised(q)
                 /\ action'[q] = action[q] /\ occupied'[q] = occupied[q] /\ client'[q] = client[q]
    PROVE  Handshakes'
BY DEF Handshakes, Promised, InVehicle

\* While no handler is suspended, every handshake is with a client.
LEMMA IdlePromised ==
    ASSUME HandshakeInv, calls = <<>>
    PROVE  \A q \in Peds : Handshaking(q) => Promised(q)
BY DEF HandshakeInv, Handshakes, Settles

\* Nothing is being handled.
LEMMA NothingHandled ==
    ASSUME calls' = <<>>
    PROVE  Handling'
BY DEF Handling, Running

\* Something without a part in the handshake of its ped is being handled.
LEMMA OtherHandled ==
    ASSUME NEW c, calls' = <<c>>
    PROVE  /\ Top' = c /\ (calls # <<>>)'
           /\ c.kind \notin {"startEnter", "override", "syncer", "startJack", "jackExit"} => Handling'
<1>1. Head(<<c>>) = c /\ <<c>> # <<>>
  OBVIOUS
<1>2. Top' = c /\ calls' # <<>>
  BY <1>1 DEF Top
<1> QED BY <1>2 DEF Handling, Running, Top

\* Packets, and the handshakes.
LEMMA PacketHandshakes ==
    ASSUME TypeOK, SeatsInv, HandshakeInv, NEW p \in Peds, Packet(p)
    PROVE  HandshakeInv'
<1>c. calls = <<>>
  BY DEF Packet, RequestIn, RequestOut, NotifyFellOff, NotifyIn, NotifyInAbort, NotifyOut,
         NotifyJack, NotifyJackAbort, Wasted, Asks, HasAnswer, Idle
<1>0. /\ occupied \in [Peds -> Places \cup {Out}]
      /\ occupants \in [Places -> Peds \cup {NoPed}]
      /\ action \in [Peds -> Actions]
      /\ client \in [Peds -> Clients]
      /\ SeatsAgree /\ JackersAreOut
      /\ \A q \in Peds : Handshaking(q) => Promised(q)
  BY <1>c, IdlePromised DEF TypeOK, SeatsInv
<1>o. occupied[p][2] \in Seats /\ 0 \in Seats /\ \A v \in Vehicles : <<v, 0>> \in Places
  BY PlaceParts, SeatsAssumption DEF Seats, Places
<1>p. ASSUME NEW c \in Calls PROVE Push(c) = <<c>>
  BY <1>c, PushWhenIdle DEF Idle
<1>a. Asks(p) => ~Handshaking(p)
  BY <1>0 DEF Asks, Promised, Owes
<1>i. ASSUME Ignored(p), ~Handshaking(p) PROVE HandshakeInv'
  <2>1. calls' = <<>> /\ UNCHANGED <<seats, action>>
        /\ \A q \in Peds \ {p} : client'[q] = client[q]
    BY <1>0, <1>c, <1>i DEF Ignored
  <2>2. Handshakes'
    BY <1>0, <1>i, <2>1, HandshakesGoOn DEF Handshaking, seats
  <2> QED BY <2>1, <2>2, NothingHandled DEF HandshakeInv
<1>1. ASSUME NEW v \in Vehicles, NEW s \in Seats, RequestIn(p, v, s) PROVE HandshakeInv'
  <2>0. ~Handshaking(p) /\ client' = [client EXCEPT ![p] = Free]
    BY <1>1, <1>a DEF RequestIn
  <2>1. ASSUME NEW t \in SeatFor(v, s), StartEnter(p, v, t) PROVE HandshakeInv'
    <3>1. t \in Seats
      BY SeatsAssumption DEF SeatFor, FreePassengerSeat, Seats
    <3>2. PICK w \in BOOLEAN, q \in Sender(p) : calls' = Push(Call("startEnter", p, v, t, q, w))
      BY <2>1 DEF StartEnter
    <3>3. q \in Peds
      BY PlayersAssumption DEF Sender
    <3>4. PICK c \in Calls : c = Call("startEnter", p, v, t, q, w)
      BY <3>1, <3>3, CallType DEF Events
    <3>5. Top' = c /\ (calls # <<>>)'
      BY <1>p, <3>2, <3>4, OtherHandled
    <3>6. /\ \A r \in Peds \ {p} : /\ occupied'[r] = occupied[r] /\ action'[r] = action[r]
                                   /\ client'[r] = client[r]
          /\ action'[p] = "ENTERING"
      BY <1>0, <2>0, <2>1 DEF StartEnter, SetOccupiedVehicle
    <3>7. Settles(p)' /\ Handling'
      BY <3>4, <3>5, <3>6 DEF Settles, Handling, Running, Top, Call
    <3>8. Handshakes'
      BY <1>0, <3>6, <3>7, HandshakesGoOn DEF Handshaking
    <3> QED BY <3>7, <3>8 DEF HandshakeInv
  <2>2. ASSUME CanJack(v), StartJack(p, v, occupants[<<v, 0>>]) PROVE HandshakeInv'
    <3> DEFINE other == occupants[<<v, 0>>]
    <3>1. other \in Peds
      BY <1>0, <1>o, <2>2 DEF CanJack
    <3>2. PICK c \in Calls : c = Call("startJack", p, v, 0, other, FALSE)
      BY <1>o, <3>1, CallType DEF Events
    <3>3. /\ UNCHANGED occupied
          /\ \A r \in Peds : action'[r] \in {action[r], "JACKING", "JACKED"}
          /\ \A r \in Peds \ {p} : client'[r] = client[r]
          /\ action'[p] \in {"JACKING", "JACKED"}
      BY <1>0, <2>0, <2>2, <3>1 DEF StartJack, seats
    <3>4. Handling'
      <4>1. calls' = <<c>>
        BY <1>p, <2>2, <3>2 DEF StartJack
      <4>2. Top' = c /\ (calls # <<>>)' /\ c.kind = "startJack" /\ c.ped = p
        BY <3>2, <4>1, OtherHandled DEF Call
      <4> QED BY <3>3, <4>2 DEF Handling, Running, Top, Handshaking
    <3>5. Handshakes'
      BY <1>0, <3>3, HandshakesGoOn DEF Handshaking
    <3> QED BY <3>4, <3>5 DEF HandshakeInv
  <2>3. ASSUME UNCHANGED <<seats, action, calls>> PROVE HandshakeInv'
    <3>1. \A r \in Peds \ {p} : client'[r] = client[r]
      BY <1>0, <2>0
    <3>2. Handshakes'
      BY <1>0, <2>0, <2>3, <3>1, HandshakesGoOn DEF Handshaking, seats
    <3> QED BY <1>c, <2>3, <3>2, NothingHandled DEF HandshakeInv
  <2> QED BY <1>1, <2>1, <2>2, <2>3 DEF RequestIn
<1>2. ASSUME NotifyIn(p) \/ NotifyInAbort(p) \/ NotifyOut(p) PROVE HandshakeInv'
  <2>1. CASE Handshaking(p)
    <3>1. Sits(p, occupied[p][1]) /\ Promised(p)
      BY <1>0, <2>1, SitsInside DEF Promised
    <3>2. /\ UNCHANGED calls
          /\ action' = [action EXCEPT ![p] = "NONE"]
          /\ client' = [client EXCEPT ![p] = Free]
          /\ UNCHANGED occupied \/ occupied' = [occupied EXCEPT ![p] = Out]
      BY <1>2, <2>1, <3>1 DEF NotifyIn, NotifyInAbort, NotifyOut, HasAnswer, Promised, Handshaking,
                              Owes, ClearSeat, seats
    <3>3. \A r \in Peds \ {p} : /\ occupied'[r] = occupied[r] /\ action'[r] = action[r]
                                /\ client'[r] = client[r]
      BY <1>0, <3>2
    <3>4. action'[p] = "NONE"
      BY <1>0, <3>2
    <3>5. Handshakes'
      BY <1>0, <3>3, <3>4, HandshakesGoOn DEF Handshaking
    <3> QED BY <1>c, <3>2, <3>5, NothingHandled DEF HandshakeInv
  <2>2. CASE ~Handshaking(p)
    <3>1. Ignored(p)
      BY <1>2, <2>2 DEF NotifyIn, NotifyInAbort, NotifyOut, Handshaking
    <3> QED BY <1>i, <2>2, <3>1
  <2> QED BY <2>1, <2>2
<1>4. ASSUME NEW v \in Vehicles, RequestOut(p, v) PROVE HandshakeInv'
  <2>1. ~Handshaking(p) /\ client' = [client EXCEPT ![p] = Free] /\ UNCHANGED <<seats, action>>
    BY <1>4, <1>a DEF RequestOut
  <2>2. \A r \in Peds \ {p} : client'[r] = client[r]
    BY <1>0, <2>1
  <2>3. Handshakes'
    BY <1>0, <2>1, <2>2, HandshakesGoOn DEF Handshaking, seats
  <2>4. PICK c \in Calls : c = Call("startExit", p, v, occupied[p][2], NoPed, FALSE)
    BY <1>o, CallType DEF Events
  <2>5. calls' = <<c>> \/ calls' = <<>>
    BY <1>4, <1>c, <1>p, <2>4 DEF RequestOut
  <2>6. Handling'
    BY <2>4, <2>5, NothingHandled, OtherHandled DEF Call
  <2> QED BY <2>3, <2>6 DEF HandshakeInv
<1>5. ASSUME NEW v \in Vehicles, NotifyFellOff(p, v) PROVE HandshakeInv'
  <2>1. UNCHANGED action /\ occupied' = [occupied EXCEPT ![p] = Out]
    BY <1>5 DEF NotifyFellOff, ClearSeat
  <2>2. \A r \in Peds \ {p} : client'[r] = client[r] /\ occupied'[r] = occupied[r]
    BY <1>0, <1>5, <2>1 DEF NotifyFellOff
  <2>3. PICK c \in Calls : c = Call("fellOff", p, v, occupied[p][2], NoPed, FALSE)
    BY <1>o, CallType DEF Events
  <2>4. Top' = c /\ (calls # <<>>)' /\ Handling' /\ c.kind = "fellOff" /\ c.ped = p
    <3>1. calls' = <<c>>
      BY <1>5, <1>p, <2>3 DEF NotifyFellOff
    <3> QED BY <2>3, <3>1, OtherHandled DEF Call
\* Whether he was getting out or not, the packet ends it when its handlers return.
  <2>5. Settles(p)'
    BY <2>4 DEF Settles
  <2>6. Handshakes'
    BY <1>0, <2>1, <2>2, <2>5, HandshakesGoOn DEF Handshaking
  <2> QED BY <2>4, <2>6 DEF HandshakeInv
<1>6. ASSUME NotifyJack(p) \/ \E started \in BOOLEAN : NotifyJackAbort(p, started) PROVE HandshakeInv'
  <2> DEFINE v == client[p].veh
             jacked == occupants[<<v, 0>>]
  <2>0. ~Handshaking(p)
    <3>1. client[p].task = "jack"
      BY <1>6 DEF NotifyJack, NotifyJackAbort, HasAnswer
    <3>2. Promised(p) => client[p].task \in {"in", "out"}
      BY DEF Promised, Owes
    <3> QED BY <1>0, <3>1, <3>2
  <2>1. CASE action[p] # "JACKING"
    <3>1. Ignored(p)
      BY <1>6, <2>1 DEF NotifyJack, NotifyJackAbort
    <3> QED BY <1>i, <2>0, <3>1
  <2>2. CASE action[p] = "JACKING" /\ NotifyJack(p)
    <3>1. /\ occupied' = [q \in Peds |-> IF q = p THEN <<v, 0>>
                                          ELSE IF q = jacked THEN Out ELSE occupied[q]]
          /\ action' = [q \in Peds |-> IF q \in {p, jacked} THEN "NONE" ELSE action[q]]
          /\ client' = [q \in Peds |-> IF q = p THEN Free
                                        ELSE IF q = jacked THEN Reset(client[q])
                                        ELSE client[q]]
          /\ UNCHANGED calls
      BY <2>2 DEF NotifyJack
    <3> HIDE DEF v, jacked
    <3>2. Handshakes'
      BY <1>0, <3>1, HandshakesGoOn DEF Handshaking
    <3> QED BY <1>c, <3>1, <3>2, NothingHandled DEF HandshakeInv
  <2>3. ASSUME action[p] = "JACKING", NEW started \in BOOLEAN, NotifyJackAbort(p, started)
        PROVE  HandshakeInv'
    <3> DEFINE thrown == started /\ jacked # NoPed
    <3>0. v \in Vehicles /\ jacked \in Peds \cup {NoPed}
      <4>1. client[p].task = "jack" /\ client[p] \in Clients
        BY <1>0, <2>3 DEF NotifyJackAbort, HasAnswer
      <4>2. v \in Vehicles
        BY <4>1 DEF Clients, Free
      <4> QED BY <1>0, <1>o, <4>2
    <3>1. /\ occupied' = [q \in Peds |-> IF q = p \/ (thrown /\ q = jacked) THEN Out
                                          ELSE occupied[q]]
          /\ action' = [q \in Peds |-> IF q = p \/ (~thrown /\ q = jacked) THEN "NONE"
                                        ELSE action[q]]
          /\ client' = [q \in Peds |-> IF q = p THEN Free
                                        ELSE IF thrown /\ q = jacked THEN Reset(client[q])
                                        ELSE client[q]]
          /\ calls' = IF thrown THEN Push(Call("jackAbort", jacked, v, 0, p, FALSE)) ELSE calls
      BY <2>3 DEF NotifyJackAbort
    <3>2. CASE thrown
      <4>1. PICK c \in Calls : c = Call("jackAbort", jacked, v, 0, p, FALSE)
        BY <1>o, <3>0, <3>2, CallType DEF Events
      <4>2. calls' = <<c>>
        BY <1>p, <3>1, <3>2, <4>1
      <4>3. c.kind = "jackAbort" /\ c.ped = jacked /\ Top' = c /\ (calls # <<>>)' /\ Handling'
        BY <4>1, <4>2, OtherHandled DEF Call
      <4>4. \A q \in Peds : Handshaking(q)' =>
               \/ q = jacked
               \/ /\ Handshaking(q)
                  /\ action'[q] = action[q] /\ occupied'[q] = occupied[q] /\ client'[q] = client[q]
        <5> HIDE DEF v, jacked, thrown
        <5> QED BY <1>0, <3>1, <3>2 DEF Handshaking
      <4>5. \A q \in Peds : q = jacked => Settles(q)'
        BY <4>3 DEF Settles
      <4>6. Handshakes'
        <5> HIDE DEF v, jacked, thrown
        <5> QED BY <1>0, <4>4, <4>5, HandshakesGoOn
      <4> QED BY <4>3, <4>6 DEF HandshakeInv
    <3>3. CASE ~thrown
      <4>1. calls' = <<>>
        BY <1>c, <3>1, <3>3
      <4> HIDE DEF v, jacked, thrown
      <4>2. Handshakes'
        BY <1>0, <3>1, <3>3, HandshakesGoOn DEF Handshaking
      <4> QED BY <4>1, <4>2, NothingHandled DEF HandshakeInv
    <3> QED BY <3>2, <3>3
  <2> QED BY <1>6, <2>1, <2>2, <2>3
<1>7. ASSUME Wasted(p) PROVE HandshakeInv'
  <2>1. /\ UNCHANGED <<client, calls>> /\ occupied' = [occupied EXCEPT ![p] = Out]
        /\ action' = [action EXCEPT ![p] = IF action[p] = "JACKING" THEN action[p] ELSE "NONE"]
    BY <1>7 DEF Wasted, Dies, LeaveVehicle
  <2>2. \A r \in Peds \ {p} : occupied'[r] = occupied[r] /\ action'[r] = action[r]
    BY <1>0, <2>1
  <2>3. action'[p] \in {"JACKING", "NONE"}
    BY <1>0, <2>1
  <2>4. Handshakes'
    BY <1>0, <2>1, <2>2, <2>3, HandshakesGoOn DEF Handshaking
  <2> QED BY <1>c, <2>1, <2>4, NothingHandled DEF HandshakeInv
<1> QED BY <1>1, <1>2, <1>4, <1>5, <1>6, <1>7 DEF Packet

\* A warp, and the handshakes: that of the ped is over, nobody else's changes.
LEMMA TakeSeatHandshakes ==
    ASSUME TypeOK, NEW p \in Peds, NEW v \in Vehicles, NEW s \in Seats,
           NEW was \in [Peds -> Places \cup {Out}],
           \A q \in Peds \ {p} : was[q] = occupied[q] /\ (Handshaking(q) => Promised(q)),
           TakeSeatFrom(was, p, v, s, <<>>)
    PROVE  HandshakeInv'
<1>1. PICK c \in Calls : c = Call("warped", p, v, s, NoPed, FALSE)
  BY CallType DEF Events
<1>2. calls' = <<c>> /\ c.kind = "warped"
  <2>1. calls' = <<c>> \o <<>>
    BY <1>1 DEF TakeSeatFrom
  <2> QED BY <1>1, <2>1 DEF Call
<1>3. Handling'
  BY <1>2, OtherHandled
<1>4. \A q \in Peds \ {p} : /\ occupied'[q] = occupied[q] /\ action'[q] = action[q]
                            /\ client'[q] = client[q]
  BY DEF TypeOK, TakeSeatFrom, ResetClients
<1>5. action'[p] = "NONE"
  BY DEF TypeOK, TakeSeatFrom
<1>6. Handshakes'
  BY <1>4, <1>5, HandshakesGoOn DEF Handshaking
<1> QED BY <1>3, <1>6 DEF HandshakeInv

\* WarpPedIntoVehicle, called by the outermost handler, and the handshakes.
LEMMA WarpHandshakes ==
    ASSUME TypeOK, NEW p \in Peds, NEW v \in Vehicles, NEW s \in Seats,
           \A q \in Peds : Handshaking(q) => Promised(q),
           WarpPedIntoVehicle(p, v, s, <<>>)
    PROVE  HandshakeInv'
<1> DEFINE previous == occupants[<<v, s>>]
<1>1. CASE previous # NoPed /\ InVehicle(previous)
  <2>1. previous \in Peds
    BY <1>1 DEF TypeOK, Places
  <2>2. Removing(previous) \in Calls /\ Call("seat", p, v, s, NoPed, FALSE) \in Calls
    BY <1>1, <2>1, PlaceParts, CallType DEF Removing, Events
  <2>3. PICK c \in Calls, d \in Calls : c = Removing(previous) /\ d = Call("seat", p, v, s, NoPed, FALSE)
    BY <2>2
  <2>4. calls' = <<c, d>> \o <<>> /\ UNCHANGED <<seats, action, client>>
    BY <1>1, <2>3 DEF WarpPedIntoVehicle
  <2>5. Running("removing")'
    <3>1. calls' = <<c, d>> /\ c.kind = "removing"
      BY <2>3, <2>4 DEF Removing, Call
    <3> QED BY <3>1 DEF Running
  <2>6. Handling'
    BY <2>5 DEF Handling, Running
  <2>7. Handshakes'
    BY <2>4, HandshakesGoOn DEF seats, Handshaking
  <2> QED BY <2>6, <2>7 DEF HandshakeInv
<1>2. CASE ~(previous # NoPed /\ InVehicle(previous))
  <2>1. TakeSeatFrom(occupied, p, v, s, <<>>)
    BY <1>2 DEF WarpPedIntoVehicle, TakeSeat
  <2> QED BY <2>1, TakeSeatHandshakes DEF TypeOK
<1> QED BY <1>1, <1>2

\* What scripts and the server do while no handler is suspended, and the handshakes.
LEMMA OperationHandshakes ==
    ASSUME TypeOK, OnlyCancels, SeatsInv, HandshakeInv, Operation
    PROVE  HandshakeInv'
<1>c. calls = <<>>
  BY DEF Operation, ScriptWarps, ScriptRemoves, ScriptKills, SpawnPlayer, SyncerChanges,
         PedIsDeleted, VehicleIsDeleted, Operates, OnlyCancels, Idle
<1>0. /\ occupied \in [Peds -> Places \cup {Out}]
      /\ occupants \in [Places -> Peds \cup {NoPed}]
      /\ action \in [Peds -> Actions]
      /\ client \in [Peds -> Clients]
      /\ SeatsAgree /\ JackersAreOut
      /\ \A q \in Peds : Handshaking(q) => Promised(q)
      /\ 0 \in Seats
  BY <1>c, IdlePromised, SeatsAssumption DEF TypeOK, SeatsInv, Seats
<1>p. ASSUME NEW c \in Calls PROVE Push(c) = <<c>>
  BY <1>c, PushWhenIdle DEF Idle
<1>1. ASSUME NEW p \in Peds, NEW v \in Vehicles, NEW s \in Seats, ScriptWarps(p, v, s)
      PROVE  HandshakeInv'
  BY <1>0, <1>1, <1>c, WarpHandshakes DEF ScriptWarps
<1>2. ASSUME NEW p \in Peds, ScriptRemoves(p) PROVE HandshakeInv'
  <2>1. InVehicle(p) /\ UNCHANGED <<seats, action, client>> /\ calls' = Push(Removing(p))
    BY <1>2 DEF ScriptRemoves
  <2>2. PICK c \in Calls : c = Removing(p)
    BY <2>1, PlaceParts, CallType DEF Removing, Events
  <2>3. calls' = <<c>> /\ c.kind = "removing"
    BY <1>p, <2>1, <2>2 DEF Removing, Call
  <2>4. Handshakes'
    BY <1>0, <2>1, HandshakesGoOn DEF Handshaking, seats
  <2> QED BY <2>3, <2>4, OtherHandled DEF HandshakeInv
<1>3. ASSUME NEW p \in Peds, ScriptKills(p) PROVE HandshakeInv'
  <2>1. /\ UNCHANGED <<client, calls>> /\ occupied' = [occupied EXCEPT ![p] = Out]
        /\ action' = [action EXCEPT ![p] = IF action[p] = "JACKING" THEN action[p] ELSE "NONE"]
    BY <1>3 DEF ScriptKills, Dies, LeaveVehicle
  <2>2. \A r \in Peds \ {p} : occupied'[r] = occupied[r] /\ action'[r] = action[r]
    BY <1>0, <2>1
  <2>3. action'[p] \in {"JACKING", "NONE"}
    BY <1>0, <2>1
  <2>4. Handshakes'
    BY <1>0, <2>1, <2>2, <2>3, HandshakesGoOn DEF Handshaking
  <2> QED BY <1>c, <2>1, <2>4, NothingHandled DEF HandshakeInv
<1>4. ASSUME NEW p \in Peds, SpawnPlayer(p) PROVE HandshakeInv'
  <2>1. /\ UNCHANGED calls /\ occupied' = [occupied EXCEPT ![p] = Out]
        /\ \E S : /\ p \in S
                  /\ action' = [q \in Peds |-> IF q \in S THEN "NONE" ELSE action[q]]
                  /\ client' = ResetClients(S)
    BY <1>4 DEF SpawnPlayer, LeaveVehicle
  <2>2. PICK S : /\ p \in S
                 /\ action' = [q \in Peds |-> IF q \in S THEN "NONE" ELSE action[q]]
                 /\ client' = ResetClients(S)
    BY <2>1
  <2>3. \A q \in Peds : /\ q \in S => action'[q] = "NONE"
                        /\ q \notin S => /\ occupied'[q] = occupied[q] /\ action'[q] = action[q]
                                         /\ client'[q] = client[q]
    BY <1>0, <2>1, <2>2 DEF ResetClients
  <2>4. Handshakes'
    BY <1>0, <2>3, HandshakesGoOn DEF Handshaking
  <2> QED BY <1>c, <2>1, <2>4, NothingHandled DEF HandshakeInv
<1>5. ASSUME NEW p \in Peds, SyncerChanges(p) PROVE HandshakeInv'
  <2>1. /\ UNCHANGED <<seats, action>> /\ client' = [client EXCEPT ![p] = Free]
        /\ calls' = Push(Call("syncer", p, NoVehicle, 0, NoPed, FALSE))
    BY <1>5 DEF SyncerChanges
  <2>2. PICK c \in Calls : c = Call("syncer", p, NoVehicle, 0, NoPed, FALSE)
    BY <1>0 DEF Call, Calls, CallsOf, SyncerCalls
  <2>3. calls' = <<c>> /\ c.kind = "syncer" /\ c.ped = p
    BY <1>p, <2>1, <2>2 DEF Call
  <2>4. Top' = c /\ (calls # <<>>)'
    BY <2>3, OtherHandled
  <2>5. Settles(p)'
    BY <2>3, <2>4 DEF Settles
  <2>6. \A q \in Peds \ {p} : client'[q] = client[q]
    BY <1>0, <2>1
  <2>7. Handshakes'
    BY <1>0, <2>1, <2>5, <2>6, HandshakesGoOn DEF Handshaking, seats
  <2>8. Handling'
    <3>1. Handshaking(p)' => InVehicle(p)'
      BY <1>0, <2>1 DEF Handshaking, Promised, InVehicle, seats
    <3> QED BY <2>3, <2>4, <3>1 DEF Handling, Running, Top
  <2> QED BY <2>7, <2>8 DEF HandshakeInv
<1>6. ASSUME NEW p \in Peds, PedIsDeleted(p) PROVE HandshakeInv'
  <2>1. PICK S : /\ p \in S /\ UNCHANGED calls
                 /\ occupied' = [q \in Peds |-> IF q \in S THEN Out ELSE occupied[q]]
                 /\ action' = [q \in Peds |-> IF q \in S THEN "NONE" ELSE action[q]]
                 /\ \A q \in Peds : q \notin S => client'[q] = client[q]
    <3> DEFINE victim == IF jackingVehicle[p] # NoVehicle /\ action[p] = "JACKING"
                         THEN occupants[<<jackingVehicle[p], 0>>] ELSE NoPed
    <3>1. /\ UNCHANGED calls
          /\ occupied' = [q \in Peds |-> IF q \in {p, victim} THEN Out ELSE occupied[q]]
          /\ action' = [q \in Peds |-> IF q \in {p, victim} THEN "NONE" ELSE action[q]]
          /\ client' = [q \in Peds |-> IF q = p THEN Free
                                       ELSE IF q = victim THEN Reset(client[q]) ELSE client[q]]
      BY <1>6 DEF PedIsDeleted
    <3> HIDE DEF victim
    <3>2. \A q \in Peds : q \notin {p, victim} => client'[q] = client[q]
      BY <3>1
    <3> QED BY <3>1, <3>2
  <2>2. Handshakes'
    BY <1>0, <2>1, HandshakesGoOn DEF Handshaking
  <2> QED BY <1>c, <2>1, <2>2, NothingHandled DEF HandshakeInv
<1>7. ASSUME NEW v \in Vehicles, VehicleIsDeleted(v) PROVE HandshakeInv'
  <2> DEFINE jacker == jackingPed[v]
             riders == {p \in Peds : \E s \in Seats : occupants[<<v, s>>] = p}
  <2>1. /\ UNCHANGED calls
        /\ occupied' = [p \in Peds |-> IF p \in riders THEN Out ELSE occupied[p]]
        /\ action' = [p \in Peds |-> IF p \in riders \/ (p = jacker /\ action[p] = "JACKING")
                                     THEN "NONE" ELSE action[p]]
        /\ client' = [p \in Peds |-> IF client[p].veh = v THEN Free ELSE client[p]]
    BY <1>7 DEF VehicleIsDeleted
  <2>2. \A q \in Peds : Handshaking(q) /\ client[q].veh = v => q \in riders
    <3> SUFFICES ASSUME NEW q \in Peds, Handshaking(q), client[q].veh = v PROVE q \in riders
      OBVIOUS
    <3>1. InVehicle(q) /\ occupied[q][1] = v
      BY <1>0 DEF Promised, Owes
    <3>2. occupied[q] \in Places /\ occupied[q] = <<v, occupied[q][2]>> /\ occupied[q][2] \in Seats
      BY <3>1, PlaceParts
    <3>3. occupants[<<v, occupied[q][2]>>] = q
      BY <1>0, <3>2 DEF SeatsAgree
    <3> QED BY <3>2, <3>3
  <2> HIDE DEF riders, jacker
  <2>3. Handshakes'
    BY <1>0, <2>1, <2>2, HandshakesGoOn DEF Handshaking
  <2> QED BY <1>c, <2>1, <2>3, NothingHandled DEF HandshakeInv
<1> QED BY <1>1, <1>2, <1>3, <1>4, <1>5, <1>6, <1>7 DEF Operation

\* Going on when an event has returned, and the handshakes.
LEMMA ReturnHandshakes ==
    ASSUME TypeOK, SeatsInv, HandshakeInv, Return
    PROVE  HandshakeInv'
<1>c. calls # <<>>
  BY DEF Return, SeatIsFreed, WarpedReturns, RemovingReturns, StartEnterReturns,
         OverrideSyncerReturns, StartEnterIsCancelled, StartJackReturns, StartJackIsCancelled,
         JackExitReturns, JackExitIsCancelled, StartExitReturns, StartExitIsCancelled,
         FellOffReturns, JackAbortReturns, SyncerRemoves, SyncerWarps, SyncerIsSet, Running
<1>0. /\ occupied \in [Peds -> Places \cup {Out}]
      /\ occupants \in [Places -> Peds \cup {NoPed}]
      /\ action \in [Peds -> Actions]
      /\ client \in [Peds -> Clients]
      /\ jackingVehicle \in [Peds -> Vehicles \cup {NoVehicle}]
      /\ SeatsAgree /\ JackersAreOut /\ CallsFit /\ 0 \in Seats
      /\ Handshakes /\ Handling
  BY SeatsAssumption DEF TypeOK, SeatsInv, Seats, HandshakeInv
<1>t. /\ Top \in Calls /\ Fits(Top)
      /\ \/ Tail(calls) = <<>>
         \/ \E d \in Calls : Tail(calls) = <<d>> /\ Continues(Top, d)
      /\ Top.kind # "removing" => Tail(calls) = <<>>
      /\ Top.ped \in Peds /\ Top.seat \in Seats
      /\ Top.kind \notin SyncerCalls => Top.veh \in Vehicles
  BY <1>0, <1>c, SuspendedCalls, CallParts, TopOfCalls
<1>o. /\ \A q \in Peds \ {Top.ped} : Handshaking(q) => Promised(q)
      /\ Top.kind \notin {"startEnter", "override", "removing", "syncer", "fellOff", "jackAbort"} =>
            \A q \in Peds : Handshaking(q) => Promised(q)
  BY <1>0 DEF Handshakes, Settles
\* The handshake of the ped the handler is about is over.
<1>e. ASSUME action'[Top.ped] = "NONE",
             \A q \in Peds \ {Top.ped} : /\ occupied'[q] = occupied[q] /\ action'[q] = action[q]
                                         /\ client'[q] = client[q]
      PROVE  Handshakes'
  BY <1>e, <1>o, HandshakesGoOn DEF Handshaking
\* The handler had nothing to do with a handshake.
<1>n. ASSUME Top.kind \notin {"startEnter", "override", "removing", "syncer", "fellOff", "jackAbort"},
             \A q \in Peds : Handshaking(q)' =>
                /\ occupied'[q] = occupied[q] /\ action'[q] = action[q] /\ client'[q] = client[q]
      PROVE  Handshakes'
  BY <1>n, <1>o, HandshakesGoOn DEF Handshaking
<1>1. ASSUME SeatIsFreed PROVE HandshakeInv'
  <2>1. /\ Top.kind = "seat" /\ Top.veh \in Vehicles
        /\ TakeSeatFrom(occupied, Top.ped, Top.veh, Top.seat, <<>>)
    BY <1>1, <1>t DEF SeatIsFreed, Running, Top, TakeSeat, SyncerCalls
  <2> QED BY <1>0, <1>o, <1>t, <2>1, TakeSeatHandshakes
<1>2. ASSUME RemovingReturns PROVE HandshakeInv'
  <2>1. /\ ClearSeat(Top.ped, Top.veh, Top.seat)
        /\ action' = [action EXCEPT ![Top.ped] = "NONE"]
        /\ client' = ResetClients({Top.ped})
        /\ calls' = Tail(calls)
    BY <1>2 DEF RemovingReturns
  <2>2. Handshakes'
    <3>1. action'[Top.ped] = "NONE"
      BY <1>0, <1>t, <2>1
    <3>2. \A q \in Peds \ {Top.ped} : /\ occupied'[q] = occupied[q] /\ action'[q] = action[q]
                                      /\ client'[q] = client[q]
      BY <1>0, <2>1 DEF ClearSeat, ResetClients
    <3> QED BY <1>e, <3>1, <3>2
  <2>3. Handling'
    BY <1>t, <2>1, NothingHandled, OtherHandled DEF Continues
  <2> QED BY <2>2, <2>3 DEF HandshakeInv
<1>3. ASSUME ConfirmEnter(Top.ped, Top.veh, Top.seat, Top.other, Top.warp, Tail(calls)),
             Top.kind \in {"startEnter", "override"}, action[Top.ped] = "ENTERING"
      PROVE  HandshakeInv'
  <2> DEFINE p == Top.ped
             v == Top.veh
             s == Top.seat
             w == Top.warp
             removed == IF s = 0 THEN p ELSE Top.other
  <2>0. /\ v \in Vehicles /\ p \in Peds /\ s \in Seats
        /\ occupied[p] = <<v, s>> /\ <<v, s>> \in Places
        /\ w => removed = p
        /\ Tail(calls) = <<>> /\ ConfirmEnter(p, v, s, Top.other, w, <<>>)
        /\ action[p] = "ENTERING"
    BY <1>3, <1>t DEF Fits, SyncerCalls, Places
  <2>a. occupants[<<v, s>>] = p
    BY <1>0, <2>0 DEF SeatsAgree
  <2>1. CASE ~w
    <3>1. calls' = <<>> /\ UNCHANGED <<seats, action>> /\ client' = [client EXCEPT ![p] = Owes("in", v)]
      BY <2>0, <2>1 DEF ConfirmEnter
    <3>2. occupied'[p] # Out /\ occupied'[p][1] = v /\ action'[p] = "ENTERING" /\ client'[p] = Owes("in", v)
      BY <1>0, <2>0, <3>1, NullAssumption DEF Out, seats
    <3>3. \A q \in Peds : q = p => Promised(q)'
      BY <3>2 DEF Promised, InVehicle
    <3>4. \A q \in Peds \ {p} : /\ occupied'[q] = occupied[q] /\ action'[q] = action[q]
                                /\ client'[q] = client[q]
      BY <1>0, <3>1 DEF seats
    <3>5. Handshakes'
      BY <1>o, <3>3, <3>4, HandshakesGoOn DEF Handshaking
    <3> QED BY <3>1, <3>5, NothingHandled DEF HandshakeInv
  <2>2. CASE w /\ ~occupantChanged[v] /\ p \notin dead
    <3>1. TakeSeatFrom([occupied EXCEPT ![removed] = Out], p, v, s, <<>>)
      BY <2>0, <2>2 DEF ConfirmEnter
    <3>2. TakeSeatFrom([occupied EXCEPT ![p] = Out], p, v, s, <<>>)
      BY <2>0, <2>2, <3>1
    <3>3. [occupied EXCEPT ![p] = Out] \in [Peds -> Places \cup {Out}]
      BY <1>0
    <3>4. \A q \in Peds \ {p} : [occupied EXCEPT ![p] = Out][q] = occupied[q]
      BY <1>0
    <3>5. \A q \in Peds \ {p} : Handshaking(q) => Promised(q)
      BY <1>o
    <3> HIDE DEF p, v, s
    <3> QED BY <2>0, <3>2, <3>3, <3>4, <3>5, TakeSeatHandshakes
  <2>3. CASE w /\ ~occupantChanged[v] /\ p \in dead
    <3>1. /\ ClearSeat(removed, v, s) /\ action' = [action EXCEPT ![p] = "NONE"]
          /\ calls' = <<>> /\ UNCHANGED client
      BY <2>0, <2>3 DEF ConfirmEnter
    <3>2. ClearSeat(p, v, s)
      BY <2>0, <2>3, <3>1
    <3>3. Handshakes'
      BY <1>0, <1>e, <2>0, <3>1, <3>2 DEF ClearSeat
    <3> QED BY <3>1, <3>3, NothingHandled DEF HandshakeInv
  <2>4. CASE w /\ occupantChanged[v]
    <3>1. ~CanWarp(p, v, s)
      BY <1>0, <2>0, <2>a, NullAssumption DEF CanWarp
    <3>2. /\ action' = [action EXCEPT ![p] = "NONE"] /\ calls' = <<>> /\ UNCHANGED <<seats, client>>
      BY <2>0, <2>4, <3>1 DEF ConfirmEnter
    <3>3. Handshakes'
      BY <1>0, <1>e, <2>0, <3>2 DEF seats
    <3> QED BY <3>2, <3>3, NothingHandled DEF HandshakeInv
  <2> QED BY <2>1, <2>2, <2>3, <2>4
<1>4. ASSUME StartEnterReturns \/ OverrideSyncerReturns PROVE HandshakeInv'
  <2>0. Top.kind \in {"startEnter", "override"} /\ action[Top.ped] = "ENTERING"
    BY <1>0, <1>4 DEF StartEnterReturns, OverrideSyncerReturns, Running, Top, Handling
  <2>1. CASE ConfirmEnter(Top.ped, Top.veh, Top.seat, Top.other, Top.warp, Tail(calls))
    BY <1>3, <2>0, <2>1
  <2>2. CASE /\ calls' = Become([Top EXCEPT !.kind = "override"])
             /\ UNCHANGED <<seats, action, client>> /\ Top.kind = "startEnter"
    <3>1. [Top EXCEPT !.kind = "override"] \in Calls
      BY <1>t, <2>2 DEF Calls, CallsOf, Events, SyncerCalls
    <3>2. PICK c \in Calls : c = [Top EXCEPT !.kind = "override"]
      BY <3>1
    <3>3. calls' = <<c>>
      <4>1. calls' = <<c>> \o Tail(calls)
        BY <2>2, <3>2 DEF Become
      <4>2. Tail(calls) = <<>>
        BY <1>t, <2>2
      <4>3. calls' = <<c>> \o <<>>
        BY ONLY <4>1, <4>2
      <4>4. <<c>> \o <<>> = <<c>>
        OBVIOUS
      <4> QED BY <4>3, <4>4
    <3>4. c.ped = Top.ped /\ c.kind = "override"
      BY <1>t, <3>2 DEF Calls, CallsOf
    <3>5. Top' = c /\ (calls # <<>>)'
      BY <3>3, OtherHandled
    <3>6. Handling'
      BY <2>0, <2>2, <3>4, <3>5 DEF Handling, Running, Top
    <3>7. \A q \in Peds : q = Top.ped => Settles(q)'
      BY <3>4, <3>5 DEF Settles
    <3>8. Handshakes'
      BY <1>o, <2>2, <3>7, HandshakesGoOn DEF Handshaking, seats
    <3> QED BY <3>6, <3>8 DEF HandshakeInv
  <2> QED BY <1>4, <2>0, <2>1, <2>2 DEF StartEnterReturns, OverrideSyncerReturns, Running, Top
<1>5. ASSUME StartEnterIsCancelled PROVE HandshakeInv'
  <2>1. /\ UNCHANGED seats \/ ClearSeat(Top.ped, Top.veh, Top.seat)
        /\ action' = [action EXCEPT ![Top.ped] = "NONE"] /\ UNCHANGED client
        /\ calls' = Tail(calls) /\ Top.kind = "startEnter"
    BY <1>5 DEF StartEnterIsCancelled, Running, Top
  <2>2. Handshakes'
    BY <1>0, <1>e, <1>t, <2>1 DEF ClearSeat, seats
  <2> QED BY <1>t, <2>1, <2>2, NothingHandled DEF HandshakeInv
<1>6. ASSUME StartJackReturns PROVE HandshakeInv'
  <2>1. Top.kind = "startJack" /\ UNCHANGED <<seats, action, client>>
    BY <1>6 DEF StartJackReturns, Running, Top
  <2>2. Handshakes'
    BY <1>n, <2>1 DEF seats
  <2>3. Handling'
    <3>1. [Top EXCEPT !.kind = "jackExit"] \in Calls
      BY <1>t, <2>1 DEF Calls, CallsOf, Events, SyncerCalls
    <3>2. PICK c \in Calls : c = [Top EXCEPT !.kind = "jackExit"]
      BY <3>1
    <3>3. Tail(calls) = <<>>
      BY <1>t, <2>1
    <3>4. calls' = <<c>> \o Tail(calls) \/ calls' = Tail(calls)
      BY <1>6, <3>2 DEF StartJackReturns, Become
    <3>5. calls' = <<c>> \o <<>> \/ calls' = <<>>
      BY ONLY <3>3, <3>4
    <3>6. <<c>> \o <<>> = <<c>>
      OBVIOUS
    <3>7. c.kind = "jackExit"
      BY <1>t, <3>2 DEF Calls, CallsOf
    <3>8. c.ped = Top.ped
      BY <1>t, <3>2 DEF Calls, CallsOf
    <3>9. ~Handshaking(Top.ped)
      BY <1>0, <1>c, <2>1 DEF Handling, Running, Top
    <3>10. CASE calls' = <<c>>
      <4>1. Top' = c /\ (calls # <<>>)'
        BY <3>10, OtherHandled
      <4>2. action'[c.ped] \notin {"ENTERING", "EXITING"}
        BY <2>1, <3>8, <3>9 DEF Handshaking
      <4> QED BY <3>7, <4>1, <4>2 DEF Handling, Running, Top, Handshaking
    <3> QED BY <3>5, <3>6, <3>10, NothingHandled
  <2> QED BY <2>2, <2>3 DEF HandshakeInv
<1>7. ASSUME FellOffReturns \/ JackAbortReturns PROVE HandshakeInv'
  <2>1. /\ action' = [action EXCEPT ![Top.ped] = "NONE"] /\ UNCHANGED <<seats, client>>
        /\ calls' = Tail(calls) /\ Top.kind # "removing"
    BY <1>7 DEF FellOffReturns, JackAbortReturns, Running, Top
  <2>2. Handshakes'
    BY <1>0, <1>e, <1>t, <2>1 DEF seats
  <2> QED BY <1>t, <2>1, <2>2, NothingHandled DEF HandshakeInv
<1>8. ASSUME WarpedReturns \/ StartJackIsCancelled \/ JackExitReturns \/ JackExitIsCancelled
             \/ StartExitReturns \/ StartExitIsCancelled
      PROVE  HandshakeInv'
  <2>1. /\ Top.kind \in {"warped", "startJack", "jackExit", "startExit"} /\ UNCHANGED seats
        /\ calls' = Tail(calls)
    BY <1>8 DEF WarpedReturns, StartJackIsCancelled, JackExitReturns, JackExitIsCancelled,
                StartExitReturns, StartExitIsCancelled, Running, Top
  <2>2. CASE ~StartExitReturns
    <3>1. \A q \in Peds : action'[q] \in {action[q], "NONE"}
      BY <1>0, <1>8, <2>2 DEF WarpedReturns, StartJackIsCancelled, JackExitReturns,
                              JackExitIsCancelled, StartExitIsCancelled
    <3>2. \A q \in Peds : client'[q] = client[q] \/ ~Handshaking(q)'
      <4>1. CASE ~JackExitReturns
        BY <1>8, <2>2, <4>1 DEF WarpedReturns, StartJackIsCancelled, JackExitIsCancelled,
                                StartExitIsCancelled
      <4>2. CASE JackExitReturns
        <5>1. Top.kind = "jackExit" /\ UNCHANGED action
              /\ \A q \in Peds \ {Top.ped} : client'[q] = client[q]
          BY <1>0, <4>2 DEF JackExitReturns, Running, Top
        <5>2. ~Handshaking(Top.ped)
          BY <1>0, <1>c, <5>1 DEF Handling, Running, Top
        <5> QED BY <5>1, <5>2 DEF Handshaking
      <4> QED BY <4>1, <4>2
    <3>3. Handshakes'
      BY <1>n, <2>1, <3>1, <3>2 DEF seats, Handshaking
    <3> QED BY <1>t, <2>1, <3>3, NothingHandled DEF HandshakeInv
  <2>3. CASE StartExitReturns
    <3>1. CASE occupied[Top.ped][1] = Top.veh
      <4>1. /\ action' = [action EXCEPT ![Top.ped] = "EXITING"]
            /\ client' = [client EXCEPT ![Top.ped] = Owes("out", Top.veh)]
        BY <2>3, <3>1 DEF StartExitReturns
      <4>2. Top.veh \in Vehicles
        BY <1>t, <2>1 DEF SyncerCalls
      <4>3. \A q \in Peds : q = Top.ped => Promised(q)'
        BY <1>0, <1>t, <2>1, <3>1, <4>1, <4>2, NullAssumption DEF Promised, InVehicle, Out, seats
      <4>4. \A q \in Peds \ {Top.ped} : /\ occupied'[q] = occupied[q] /\ action'[q] = action[q]
                                        /\ client'[q] = client[q]
        BY <1>0, <2>1, <4>1 DEF seats
      <4>5. Handshakes'
        BY <1>o, <4>3, <4>4, HandshakesGoOn DEF Handshaking
      <4> QED BY <1>t, <2>1, <4>5, NothingHandled DEF HandshakeInv
    <3>2. CASE occupied[Top.ped][1] # Top.veh
      <4>1. UNCHANGED <<action, client>>
        BY <2>3, <3>2 DEF StartExitReturns
      <4>2. Handshakes'
        BY <1>n, <2>1, <4>1 DEF seats
      <4> QED BY <1>t, <2>1, <4>2, NothingHandled DEF HandshakeInv
    <3> QED BY <3>1, <3>2
  <2> QED BY <2>2, <2>3
<1>9. ASSUME SyncerIsSet PROVE HandshakeInv'
  <2>1. /\ Top.kind = "syncer" /\ ~Handshaking(Top.ped) /\ calls' = Tail(calls)
        /\ UNCHANGED <<seats, action, client>>
    BY <1>9 DEF SyncerIsSet, Running, Top, Handshaking
  <2>2. Handshakes'
    BY <1>o, <2>1, HandshakesGoOn DEF Handshaking, seats
  <2> QED BY <1>t, <2>1, <2>2, NothingHandled DEF HandshakeInv
<1>10. ASSUME SyncerRemoves PROVE HandshakeInv'
  <2>1. /\ Top.kind = "syncer" /\ InVehicle(Top.ped) /\ UNCHANGED <<seats, action, client>>
        /\ calls' = <<Removing(Top.ped), [Top EXCEPT !.kind = "drag"]>> \o Tail(calls)
    BY <1>10 DEF SyncerRemoves, Running, Top
  <2>2. Removing(Top.ped) \in Calls
    BY <1>t, <2>1, PlaceParts, CallType DEF Removing, Events
  <2>3. [Top EXCEPT !.kind = "drag"] \in Calls
    BY <1>t, <2>1 DEF Calls, CallsOf, Events, SyncerCalls
  <2>4. PICK c \in Calls, d \in Calls : c = Removing(Top.ped) /\ d = [Top EXCEPT !.kind = "drag"]
    BY <2>2, <2>3
  <2>5. calls' = <<c, d>>
    <3>1. calls' = <<c, d>> \o Tail(calls)
      BY ONLY <2>1, <2>4
    <3>2. Tail(calls) = <<>>
      BY <1>t, <2>1
    <3>3. calls' = <<c, d>> \o <<>>
      BY ONLY <3>1, <3>2
    <3>4. <<c, d>> \o <<>> = <<c, d>>
      OBVIOUS
    <3> QED BY <3>3, <3>4
  <2>6. c.kind = "removing" /\ c.ped = Top.ped
    BY <2>4 DEF Removing, Call
  <2>7. Top' = c /\ (calls # <<>>)'
    BY <2>5 DEF Top
  <2>8. \A q \in Peds : q = Top.ped => Settles(q)'
    BY <2>6, <2>7 DEF Settles
  <2>9. Handshakes'
    BY <1>o, <2>1, <2>8, HandshakesGoOn DEF Handshaking, seats
  <2>10. Handling'
    BY <2>6, <2>7 DEF Handling, Running, Top
  <2> QED BY <2>9, <2>10 DEF HandshakeInv
<1>11. ASSUME SyncerWarps PROVE HandshakeInv'
  <2> DEFINE v == jackingVehicle[Top.ped]
  <2>0. Top.kind \in {"syncer", "drag"} /\ Tail(calls) = <<>>
    BY <1>11, <1>t DEF SyncerWarps, Running, Top
  <2>a. \A q \in Peds : Handshaking(q) => Promised(q)
    <3>1. CASE Top.kind = "drag"
      BY <1>o, <3>1
    <3>2. CASE Top.kind = "syncer"
      <4>1. ~Handshaking(Top.ped)
        <5>1. Handshaking(Top.ped) => InVehicle(Top.ped)
          BY <1>0, <1>c, <3>2 DEF Handling, Running, Top
        <5>2. InVehicle(Top.ped) => Sits(Top.ped, occupied[Top.ped][1])
          BY <1>0, <1>t, SitsInside
        <5> QED BY <1>11, <3>2, <5>1, <5>2 DEF SyncerWarps, Running, Top, Handshaking
      <4> QED BY <1>o, <4>1
    <3> QED BY <2>0, <3>1, <3>2
  <2>1. CASE v # NoVehicle /\ CanWarp(Top.ped, v, 0)
    <3>1. WarpPedIntoVehicle(Top.ped, v, 0, <<>>)
      BY <1>11, <2>0, <2>1 DEF SyncerWarps
    <3>2. v \in Vehicles
      BY <1>0, <1>t, <2>1
    <3> QED BY <1>0, <1>t, <2>a, <3>1, <3>2, WarpHandshakes
  <2>2. CASE ~(v # NoVehicle /\ CanWarp(Top.ped, v, 0))
    <3>1. calls' = <<>> /\ UNCHANGED <<seats, action, client>>
      BY <1>11, <2>0, <2>2 DEF SyncerWarps
    <3>2. Handshakes'
      BY <2>a, <3>1, HandshakesGoOn DEF Handshaking, seats
    <3> QED BY <3>1, <3>2, NothingHandled DEF HandshakeInv
  <2> QED BY <2>1, <2>2
<1> QED BY <1>1, <1>2, <1>4, <1>5, <1>6, <1>7, <1>8, <1>9, <1>10, <1>11 DEF Return

\* As long as handlers only cancel events, the server never waits for the end of
\* an animation that no client plays: whenever no handler is suspended, the client
\* of every ped that gets in or out of a vehicle has still to say how it ended.
THEOREM HandshakesAnswered ==
    ASSUME OnlyCancels
    PROVE  Spec => []HandshakeAnswered
<1>1. Init => HandshakeInv
  BY DEF Init, HandshakeInv, Handshakes, Handling, Handshaking, Running
<1>2. TypeOK /\ SeatsInv /\ HandshakeInv /\ [Next]_vars => HandshakeInv'
  <2> SUFFICES ASSUME TypeOK, SeatsInv, HandshakeInv, [Next]_vars PROVE HandshakeInv'
    OBVIOUS
  <2>1. CASE UNCHANGED vars
    BY <2>1 DEF vars, seats, HandshakeInv, Handshakes, Handling, Handshaking, Promised, Settles,
                InVehicle, Running, Top
  <2> QED BY <2>1, PacketHandshakes, OperationHandshakes, ReturnHandshakes DEF Next
<1>3. HandshakeInv => HandshakeAnswered
  BY IdlePromised DEF HandshakeAnswered, Idle, Handshaking, Promised
<1> QED BY <1>1, <1>2, <1>3, SeatsInvariant, TypeCorrect, PTL DEF Spec

-----------------------------------------------------------------------------
(* Seats are handed out as VehicleSeats promises.                          *)

\* The places and what exists, as VehicleSeats sees them.
LEMMA SeatingTypes ==
    /\ Seating!Places = Places /\ Seating!Out = Out
    /\ \A p \in Peds, x \in Places : Seating!MayTake(p, x) <=> Exists(p) /\ Exists(x[1])
BY DEF Seating!Places, Seating!Out, Seating!MayTake, Places, Out, Exists

\* A ped that gets a place nobody else has boards.
LEMMA BoardStep ==
    ASSUME NEW p \in Peds, NEW v \in Vehicles, NEW s \in Seats, Exists(p), Exists(v),
           \A q \in Peds \ {p} : occupied[q] # <<v, s>>,
           occupied' = [occupied EXCEPT ![p] = <<v, s>>], UNCHANGED gone
    PROVE  Seating!Next
<1>1. <<v, s>> \in Places
  BY DEF Places
<1>2. Seating!MayTake(p, <<v, s>>)
  BY <1>1, SeatingTypes
<1>3. Seating!Board(p, <<v, s>>)
  BY <1>2 DEF Seating!Board
<1> QED BY <1>1, <1>3, SeatingTypes DEF Seating!Next

\* Steps in which peds only lose their places.
LEMMA LeaveStep ==
    ASSUME TypeOK', UNCHANGED gone, \A q \in Peds : occupied'[q] \in {occupied[q], Out}
    PROVE  Seating!Next
<1>1. Seating!Leave
  BY SeatingTypes DEF Seating!Leave, Seating!OnlyLeave, TypeOK
<1> QED BY <1>1 DEF Seating!Next

\* A warp takes a free seat, or starts with the removal of its occupant.
LEMMA WarpBoards ==
    ASSUME TypeOK, SeatsAgree, NEW p \in Peds, NEW v \in Vehicles, NEW s \in Seats,
           Exists(p), Exists(v), UNCHANGED gone, NEW below, WarpPedIntoVehicle(p, v, s, below)
    PROVE  Seating!Next \/ UNCHANGED occupied
<1> DEFINE previous == occupants[<<v, s>>]
<1>0. <<v, s>> \in Places
  BY DEF Places
<1>1. CASE previous # NoPed
  <2>1. InVehicle(previous)
    BY <1>0, <1>1, OccupantsAreIn
  <2> QED BY <1>1, <2>1 DEF WarpPedIntoVehicle, seats
<1>2. CASE previous = NoPed
  <2>1. occupied' = [occupied EXCEPT ![p] = <<v, s>>]
    BY <1>2 DEF WarpPedIntoVehicle, TakeSeat, TakeSeatFrom
  <2>2. \A q \in Peds : occupied[q] # <<v, s>>
    BY <1>0, <1>2, NullAssumption DEF SeatsAgree
  <2> QED BY <2>1, <2>2, BoardStep
<1> QED BY <1>1, <1>2

\* Packets and the promise.
LEMMA PacketSeating ==
    ASSUME TypeOK, TypeOK', SeatsInv, AllExist, NEW p \in Peds, Packet(p)
    PROVE  Seating!Next \/ UNCHANGED <<occupied, gone>>
<1>0. /\ occupied \in [Peds -> Places \cup {Out}]
      /\ occupants \in [Places -> Peds \cup {NoPed}]
      /\ client \in [Peds -> Clients]
      /\ SeatsAgree /\ 0 \in Seats /\ ClientsExist
  BY SeatsAssumption DEF TypeOK, SeatsInv, Seats, AllExist
<1>1. ASSUME NEW v \in Vehicles, NEW s \in Seats, RequestIn(p, v, s)
      PROVE  Seating!Next \/ UNCHANGED <<occupied, gone>>
  <2>1. Exists(p) /\ Exists(v) /\ UNCHANGED gone
    BY <1>1 DEF RequestIn, Asks
  <2>2. ASSUME NEW t \in SeatFor(v, s), occupants[<<v, t>>] = NoPed, StartEnter(p, v, t)
        PROVE  Seating!Next
    <3>1. t \in Seats /\ <<v, t>> \in Places
      BY SeatsAssumption DEF SeatFor, FreePassengerSeat, Seats, Places
    <3>2. \A q \in Peds : occupied[q] # <<v, t>>
      BY <1>0, <2>2, <3>1, NullAssumption DEF SeatsAgree
    <3>3. occupied' = [occupied EXCEPT ![p] = <<v, t>>]
      BY <2>2 DEF StartEnter, SetOccupiedVehicle
    <3> QED BY <2>1, <3>1, <3>2, <3>3, BoardStep
  <2> QED BY <1>1, <2>1, <2>2 DEF RequestIn, StartJack, seats
<1>2. ASSUME \/ NotifyIn(p) \/ NotifyInAbort(p) \/ NotifyOut(p)
             \/ \E v \in Vehicles : RequestOut(p, v) \/ NotifyFellOff(p, v)
             \/ \E started \in BOOLEAN : NotifyJackAbort(p, started)
             \/ Wasted(p)
      PROVE  Seating!Next
  <2>1. UNCHANGED gone
    BY <1>2 DEF NotifyIn, NotifyInAbort, NotifyOut, RequestOut, NotifyFellOff, NotifyJackAbort,
                Wasted, Dies
  <2>2. \A q \in Peds : occupied'[q] \in {occupied[q], Out}
    BY <1>0, <1>2 DEF NotifyIn, NotifyInAbort, NotifyOut, RequestOut, NotifyFellOff,
                      NotifyJackAbort, Wasted, Dies, LeaveVehicle, ClearSeat, Ignored, seats
  <2> QED BY <2>1, <2>2, LeaveStep
<1>3. ASSUME NotifyJack(p) PROVE Seating!Next \/ UNCHANGED <<occupied, gone>>
  <2> DEFINE v == client[p].veh
             jacked == occupants[<<v, 0>>]
  <2>0. v \in Vehicles /\ Exists(p) /\ Exists(v) /\ UNCHANGED gone
    <3>1. client[p].task = "jack" /\ client[p] \in Clients
      BY <1>0, <1>3 DEF NotifyJack, HasAnswer
    <3>2. v \in Vehicles
      BY <3>1 DEF Clients, Free
    <3> QED BY <1>0, <1>3, <3>2 DEF NotifyJack, HasAnswer, ClientsExist
  <2>1. CASE action[p] = "JACKING"
    <3>1. occupied' = [q \in Peds |-> IF q = p THEN <<v, 0>>
                                      ELSE IF q = jacked THEN Out ELSE occupied[q]]
      BY <1>3, <2>1 DEF NotifyJack
    <3>2. <<v, 0>> \in Places
      BY <1>0, <2>0 DEF Places
    <3>3. \A q \in Peds : q = jacked <=> occupied[q] = <<v, 0>>
      BY <1>0, <3>2 DEF SeatsAgree
    <3> HIDE DEF v, jacked
    <3>4. occupied' = [q \in Peds |-> IF q = p THEN <<v, 0>>
                                      ELSE IF occupied[q] = <<v, 0>> THEN Out ELSE occupied[q]]
      BY <3>1, <3>3
    <3>5. Seating!MayTake(p, <<v, 0>>)
      BY <2>0, <3>2, SeatingTypes
    <3>6. Seating!Jack(p, v)
      BY <2>0, <3>4, <3>5, SeatingTypes DEF Seating!Jack
    <3> QED BY <2>0, <3>6 DEF Seating!Next
  <2>2. CASE action[p] # "JACKING"
    BY <1>3, <2>0, <2>2 DEF NotifyJack, Ignored, seats
  <2> QED BY <2>1, <2>2
<1> QED BY <1>1, <1>2, <1>3 DEF Packet

\* Scripts and the server, and the promise.
LEMMA OperationSeating ==
    ASSUME TypeOK, TypeOK', SeatsInv, Operation
    PROVE  Seating!Next \/ UNCHANGED <<occupied, gone>>
<1>0. /\ occupied \in [Peds -> Places \cup {Out}]
      /\ occupants \in [Places -> Peds \cup {NoPed}]
      /\ SeatsAgree /\ 0 \in Seats
  BY SeatsAssumption DEF TypeOK, SeatsInv, Seats
<1>1. ASSUME NEW p \in Peds, NEW v \in Vehicles, NEW s \in Seats, ScriptWarps(p, v, s)
      PROVE  Seating!Next \/ UNCHANGED <<occupied, gone>>
  BY <1>0, <1>1, WarpBoards DEF ScriptWarps
<1>2. ASSUME NEW p \in Peds, ScriptRemoves(p) \/ ScriptKills(p) \/ SpawnPlayer(p) \/ SyncerChanges(p)
      PROVE  Seating!Next
  <2>1. UNCHANGED gone
    BY <1>2 DEF ScriptRemoves, ScriptKills, Dies, SpawnPlayer, SyncerChanges
  <2>2. \A q \in Peds : occupied'[q] \in {occupied[q], Out}
    BY <1>0, <1>2 DEF ScriptRemoves, ScriptKills, Dies, SpawnPlayer, SyncerChanges, LeaveVehicle, seats
  <2> QED BY <2>1, <2>2, LeaveStep
<1>3. ASSUME NEW p \in Peds, PedIsDeleted(p) PROVE Seating!Next
  <2>1. /\ gone' = gone \cup {p}
        /\ occupied'[p] = Out
        /\ \A q \in Peds : occupied'[q] \in {occupied[q], Out}
    BY <1>0, <1>3 DEF PedIsDeleted
  <2>2. \A q \in Peds : occupied[q][1] # p
    BY <1>0, KindsAssumption DEF Places, Out
  <2>3. Seating!Destroy(p)
    BY <2>1, <2>2, SeatingTypes DEF Seating!Destroy, Seating!OnlyLeave, TypeOK
  <2> QED BY <2>3 DEF Seating!Next
<1>4. ASSUME NEW v \in Vehicles, VehicleIsDeleted(v) PROVE Seating!Next
  <2> DEFINE riders == {p \in Peds : \E s \in Seats : occupants[<<v, s>>] = p}
  <2>1. /\ gone' = gone \cup {v}
        /\ occupied' = [p \in Peds |-> IF p \in riders THEN Out ELSE occupied[p]]
    BY <1>4 DEF VehicleIsDeleted
  <2>2. v \notin Peds /\ v # NoVehicle
    BY KindsAssumption, NullAssumption
  <2>3. \A q \in Peds : occupied[q][1] = v => q \in riders
    <3> SUFFICES ASSUME NEW q \in Peds, occupied[q][1] = v PROVE q \in riders
      OBVIOUS
    <3>1. occupied[q] \in Places
      BY <1>0, <2>2 DEF Out
    <3>2. occupants[occupied[q]] = q
      BY <1>0, <3>1 DEF SeatsAgree
    <3> QED BY <3>1, <3>2 DEF Places
  <2> HIDE DEF riders
  <2>4. Seating!Destroy(v)
    BY <2>1, <2>2, <2>3, SeatingTypes DEF Seating!Destroy, Seating!OnlyLeave, TypeOK
  <2> QED BY <2>4 DEF Seating!Next
<1> QED BY <1>1, <1>2, <1>3, <1>4 DEF Operation

\* Going on when an event has returned, and the promise.
LEMMA ReturnSeating ==
    ASSUME TypeOK, TypeOK', SeatsInv, AllExist, Return
    PROVE  Seating!Next \/ UNCHANGED <<occupied, gone>>
<1>c. calls # <<>> /\ UNCHANGED gone
  BY DEF Return, SeatIsFreed, WarpedReturns, RemovingReturns, StartEnterReturns,
         OverrideSyncerReturns, StartEnterIsCancelled, StartJackReturns, StartJackIsCancelled,
         JackExitReturns, JackExitIsCancelled, StartExitReturns, StartExitIsCancelled,
         FellOffReturns, JackAbortReturns, SyncerRemoves, SyncerWarps, SyncerIsSet, Running
<1>0. /\ occupied \in [Peds -> Places \cup {Out}]
      /\ jackingVehicle \in [Peds -> Vehicles \cup {NoVehicle}]
      /\ SeatsAgree /\ CallsFit /\ 0 \in Seats /\ LinksExist /\ StackExists(calls)
  BY SeatsAssumption DEF TypeOK, SeatsInv, Seats, AllExist
<1>t. /\ Top \in Calls /\ Fits(Top) /\ Exists(Top.ped) /\ Exists(Top.veh)
      /\ Top.ped \in Peds /\ Top.seat \in Seats
      /\ Top.kind \notin SyncerCalls => Top.veh \in Vehicles
  BY <1>0, <1>c, SuspendedCalls, CallParts, TopOfCalls, TopExists DEF CallExists
<1>1. ASSUME SeatIsFreed PROVE Seating!Next
  <2>1. /\ Top.veh \in Vehicles /\ occupants[<<Top.veh, Top.seat>>] = NoPed
        /\ occupied' = [occupied EXCEPT ![Top.ped] = <<Top.veh, Top.seat>>]
    BY <1>1, <1>t DEF SeatIsFreed, Running, Top, TakeSeat, TakeSeatFrom, SyncerCalls, Fits
  <2>2. \A q \in Peds : occupied[q] # <<Top.veh, Top.seat>>
    BY <1>0, <1>t, <2>1, NullAssumption DEF SeatsAgree, Places
  <2> QED BY <1>c, <1>t, <2>1, <2>2, BoardStep
<1>2. ASSUME ConfirmEnter(Top.ped, Top.veh, Top.seat, Top.other, Top.warp, Tail(calls)),
             Top.kind \in {"startEnter", "override"}
      PROVE  Seating!Next \/ UNCHANGED <<occupied, gone>>
  <2> DEFINE p == Top.ped
             v == Top.veh
             s == Top.seat
             w == Top.warp
             removed == IF s = 0 THEN p ELSE Top.other
  <2>0. /\ v \in Vehicles /\ p \in Peds /\ s \in Seats /\ occupied[p] = <<v, s>>
        /\ w => removed = p
        /\ ConfirmEnter(p, v, s, Top.other, w, Tail(calls))
    BY <1>2, <1>t DEF Fits, SyncerCalls
  <2>1. CASE ~w
    BY <1>c, <2>0, <2>1 DEF ConfirmEnter, seats
  <2>2. CASE w /\ ~occupantChanged[v] /\ p \notin dead
    <3>1. occupied' = [[occupied EXCEPT ![removed] = Out] EXCEPT ![p] = <<v, s>>]
      BY <2>0, <2>2 DEF ConfirmEnter, TakeSeatFrom
    <3>2. removed = p
      BY <2>0, <2>2
    <3> HIDE DEF p, removed
    <3>3. occupied' = occupied
      BY <1>0, <2>0, <3>1, <3>2
    <3> QED BY <1>c, <3>3
  <2>3. CASE w /\ ~occupantChanged[v] /\ p \in dead
    <3>1. ClearSeat(removed, v, s)
      BY <2>0, <2>3 DEF ConfirmEnter
    <3>2. \A q \in Peds : occupied'[q] \in {occupied[q], Out}
      BY <1>0, <3>1 DEF ClearSeat
    <3> QED BY <1>c, <3>2, LeaveStep
  <2>4. CASE w /\ occupantChanged[v] /\ CanWarp(p, v, s)
    <3>1. WarpPedIntoVehicle(p, v, s, Tail(calls))
      BY <2>0, <2>4 DEF ConfirmEnter
    <3> QED BY <1>0, <1>c, <1>t, <2>0, <3>1, WarpBoards
  <2>5. CASE w /\ occupantChanged[v] /\ ~CanWarp(p, v, s)
    BY <1>c, <2>0, <2>5 DEF ConfirmEnter, seats
  <2> QED BY <2>1, <2>2, <2>3, <2>4, <2>5
<1>3. ASSUME StartEnterReturns \/ OverrideSyncerReturns
      PROVE  Seating!Next \/ UNCHANGED <<occupied, gone>>
  <2>1. Top.kind \in {"startEnter", "override"}
    BY <1>3 DEF StartEnterReturns, OverrideSyncerReturns, Running, Top
  <2>2. \/ ConfirmEnter(Top.ped, Top.veh, Top.seat, Top.other, Top.warp, Tail(calls))
        \/ UNCHANGED seats
    BY <1>3 DEF StartEnterReturns, OverrideSyncerReturns
  <2> QED BY <1>2, <1>c, <2>1, <2>2 DEF seats
<1>4. ASSUME RemovingReturns \/ StartEnterIsCancelled PROVE Seating!Next
  <2>1. UNCHANGED seats \/ ClearSeat(Top.ped, Top.veh, Top.seat)
    BY <1>4 DEF RemovingReturns, StartEnterIsCancelled
  <2>2. \A q \in Peds : occupied'[q] \in {occupied[q], Out}
    BY <1>0, <2>1 DEF ClearSeat, seats
  <2> QED BY <1>c, <2>2, LeaveStep
<1>5. ASSUME SyncerWarps PROVE Seating!Next \/ UNCHANGED <<occupied, gone>>
  <2> DEFINE v == jackingVehicle[Top.ped]
  <2>1. CASE v # NoVehicle /\ CanWarp(Top.ped, v, 0)
    <3>1. WarpPedIntoVehicle(Top.ped, v, 0, Tail(calls))
      BY <1>5, <2>1 DEF SyncerWarps
    <3>2. v \in Vehicles /\ Exists(v)
      BY <1>0, <1>t, <2>1 DEF LinksExist
    <3> QED BY <1>0, <1>c, <1>t, <3>1, <3>2, WarpBoards
  <2>2. CASE ~(v # NoVehicle /\ CanWarp(Top.ped, v, 0))
    BY <1>5, <1>c, <2>2 DEF SyncerWarps, seats
  <2> QED BY <2>1, <2>2
<1>6. ASSUME \/ WarpedReturns \/ StartJackReturns \/ StartJackIsCancelled \/ JackExitReturns
             \/ JackExitIsCancelled \/ StartExitReturns \/ StartExitIsCancelled
             \/ FellOffReturns \/ JackAbortReturns \/ SyncerRemoves \/ SyncerIsSet
      PROVE  UNCHANGED <<occupied, gone>>
  BY <1>6, <1>c DEF WarpedReturns, StartJackReturns, StartJackIsCancelled, JackExitReturns,
                    JackExitIsCancelled, StartExitReturns, StartExitIsCancelled,
                    FellOffReturns, JackAbortReturns, SyncerRemoves, SyncerIsSet, seats
<1> QED BY <1>1, <1>3, <1>4, <1>5, <1>6 DEF Return

\* As long as handlers only cancel events, VehicleInOut implements VehicleSeats: a
\* seat is given to one ped at a time, only while it is free or from a driver who
\* is thrown out in the same step, and never to or in what has been destroyed.
THEOREM KeepsPromise ==
    ASSUME OnlyCancels
    PROVE  Spec => ImplementsSeating
<1>1. Init => Seating!Init
  BY DEF Init, Seating!Init, Seating!Out, Out
<1>2. TypeOK /\ TypeOK' /\ SeatsInv /\ AllExist /\ [Next]_vars => [Seating!Next]_<<occupied, gone>>
  <2> SUFFICES ASSUME TypeOK, TypeOK', SeatsInv, AllExist, [Next]_vars
               PROVE  Seating!Next \/ UNCHANGED <<occupied, gone>>
    OBVIOUS
  <2>1. CASE UNCHANGED vars
    BY <2>1 DEF vars, seats
  <2> QED BY <2>1, PacketSeating, OperationSeating, ReturnSeating DEF Next
<1> QED BY <1>1, <1>2, TypeCorrect, SeatsInvariant, ExistsAlways, PTL
        DEF Spec, ImplementsSeating, Seating!Spec

=============================================================================
