--------------------------- MODULE MCElementEvents ---------------------------
(* ElementEvents with a small tree and two resources, for TLC. *)
EXTENDS ElementEvents, TLC

CONSTANTS map, car, h1, h2, vm1, vm2

MCElements == {map, car}
MCMaps == {map}
MCHandlers == {h1, h2}
MCVMs == {vm1, vm2}
MCPool == (NoVM :> {map}) @@ (vm1 :> {car, h1}) @@ (vm2 :> {h2})
=============================================================================
