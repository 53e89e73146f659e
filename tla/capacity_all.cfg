\* Every operation, two request goroutines and the reconciler.
CONSTANTS
  Berth = {b1, b2}
  Small = {b2}
  Vessel = {v1}
  None = None
  CapacityKVA <- MCCapacityKVA
  Shore = 2
  Client = {c1, c2}
  Reconciler = Reconciler
  Demand = {1, 2}
  Ops = {"occupy", "depart", "rebuild", "reconcile"}
  MaxRequests = 3
SPECIFICATION Spec
SYMMETRY MCClients
INVARIANTS
  TypeOK
  CapacityBound
  BerthLimit
  BooksAgree
  LedgerExact
  CacheCoherent
  VesselOnlyWhenHeld
PROPERTY ImplementsPool
