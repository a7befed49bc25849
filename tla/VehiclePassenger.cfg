SPECIFICATION Spec
CONSTANTS
  p1 = p1
  p2 = p2
  n1 = n1
  n2 = n2
  v1 = v1
  v2 = v2
  NoPed = NoPed
  NoVehicle = NoVehicle
  Peds = {p1, n1}
  Players = {p1}
  Vehicles = {v1}
  MaxPassengers = 1
  Ops = {}
  Cancels = {}
  WarpIns <- SwimmingPassengers
  Destroyable = {}
  Handlers = FALSE
  MaxCalls = 1
INVARIANTS
  SeatsAgree
