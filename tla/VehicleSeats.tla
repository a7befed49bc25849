---------------------------- MODULE VehicleSeats ----------------------------
(***************************************************************************)
(* What the server promises about the seats of vehicles: every ped has at  *)
(* most one place, a place is taken only while it is free or from the ped  *)
(* who is thrown out of it in the same step, one ped at a time, and        *)
(* whatever is destroyed never has or gets a place again.                  *)
(***************************************************************************)
EXTENDS Naturals

CONSTANTS Peds, Vehicles, Seats, NoVehicle

VARIABLES place,  \* the vehicle and the seat of each ped
          gone    \* the peds and vehicles that have been destroyed

Places == Vehicles \X Seats
Out == <<NoVehicle, 0>>

Init == place = [p \in Peds |-> Out] /\ gone = {}

MayTake(p, x) == p \notin gone /\ x[1] \notin gone

Board(p, x) ==
    /\ MayTake(p, x)
    /\ \A q \in Peds \ {p} : place[q] # x
    /\ place' = [place EXCEPT ![p] = x]
    /\ UNCHANGED gone

\* Only the driver is ever pulled out of his seat.
Jack(p, v) ==
    /\ MayTake(p, <<v, 0>>)
    /\ place' = [q \in Peds |-> IF q = p THEN <<v, 0>>
                                ELSE IF place[q] = <<v, 0>> THEN Out ELSE place[q]]
    /\ UNCHANGED gone

\* Some are put out, nobody gets in.
OnlyLeave ==
    /\ place' \in [Peds -> Places \cup {Out}]
    /\ \A q \in Peds : place'[q] \in {place[q], Out}

Leave == OnlyLeave /\ UNCHANGED gone

\* Whoever is in it is out, and so may be a ped it is involved with.
Destroy(g) ==
    /\ gone' = gone \cup {g}
    /\ OnlyLeave
    /\ \A q \in Peds : q = g \/ place[q][1] = g => place'[q] = Out

Next ==
    \/ \E p \in Peds, x \in Places : Board(p, x)
    \/ \E p \in Peds, v \in Vehicles : Jack(p, v)
    \/ Leave
    \/ \E g \in Peds \cup Vehicles : Destroy(g)

Spec == Init /\ [][Next]_<<place, gone>>
=============================================================================
