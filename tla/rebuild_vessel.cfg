\* A rebuild between the grant and the occupation.
CONSTANTS
  Berth = {b1}
  Small = {}
  Vessel = {v1}
  None = None
  CapacityKVA <- MCCapacityKVA
  Shore = 2
  Client = {c1, c2}
  Reconciler = Reconciler
  Demand = {1}
  Ops = {"occupy", "rebuild"}
  MaxRequests = 2
SPECIFICATION Spec
INVARIANT SettledHasVessel
CHECK_DEADLOCK FALSE
