--------------------------- MODULE MCVehicleInOut ---------------------------
(* Instances of VehicleInOut for TLC. *)
EXTENDS VehicleInOut, TLC

CONSTANTS p1, p2, n1, n2, v1, v2

AllCancels == {"startEnter", "startJack", "jackExit", "startExit"}
\* Who enters a floating vehicle from the water.  Only players do as passengers.
Swimmers == {<<p1, 0>>, <<p1, 1>>, <<n1, 0>>, <<n2, 0>>}
\* A player makes the ped he controls enter one as a passenger.
SwimmingPassengers == {<<n1, 1>>}
\* The peds that are not players behave alike.
Npcs == Permutations({n1, n2})
=============================================================================
