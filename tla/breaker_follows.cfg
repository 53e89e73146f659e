\* A confirmation that overlaps a separation.
CONSTANTS
  Berth = {b1, b2}
  Vessel = {v1, v2}
  None = None
  CapacityKVA <- MCConnectKVA
  Shore = 2
  Client = {c1, c2}
  Reconciler = Reconciler
  Demand = {1}
  Ops = {"apply", "confirm", "separate"}
  MaxRequests = 5
  RequestId = {None}
  BreakerFaults = FALSE
SPECIFICATION ConnectSpec
SYMMETRY MCConnectClients
CHECK_DEADLOCK FALSE
INVARIANT BreakerFollowsGrid
