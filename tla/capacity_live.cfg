\* Without rebuild, with fairness: two request goroutines and the reconciler.
CONSTANTS
  Berth = {b1, b2}
  Small = {b2}
  Vessel = {v1}
  None = None
  CapacityKVA <- MCCapacityKVA
  Shore = 2
  Client = {c1, c2}
  Reconciler = Reconciler
  Demand = {1}
  Ops = {"occupy", "depart", "reconcile"}
  MaxRequests = 3
SPECIFICATION FairSpec
INVARIANTS
  SettledHasVessel
  DepartOwnsBerth
PROPERTIES
  LeakReclaimed
  DriftReported
