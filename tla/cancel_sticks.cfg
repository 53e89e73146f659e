\* A confirmation that overtakes a cancellation.
CONSTANTS
  Berth = {b1}
  Vessel = {v1}
  None = None
  CapacityKVA <- MCConnectKVA
  Shore = 1
  Client = {c1, c2}
  Reconciler = Reconciler
  Demand = {1}
  Ops = {"apply", "confirm", "cancel"}
  MaxRequests = 3
  RequestId = {None}
  BreakerFaults = FALSE
SPECIFICATION ConnectSpec
CHECK_DEADLOCK FALSE
PROPERTY CancelSticks
