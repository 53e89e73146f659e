\* A departure that loses its allocation on the way.
CONSTANTS
  Berth = {b1}
  Small = {}
  Vessel = {v1}
  None = None
  CapacityKVA <- MCCapacityKVA
  Shore = 2
  Client = {c1, c2}
  Reconciler = Reconciler
  Demand = {1}
  Ops = {"occupy", "depart", "reconcile"}
  MaxRequests = 3
SPECIFICATION FairSpec
PROPERTY DepartReclaims
