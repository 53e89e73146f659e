\* Two berths, one vessel, one request id; sessions are confirmed by the
\* dispatch.  Fairness.
CONSTANTS
  Berth = {b1, b2}
  Vessel = {v1}
  None = None
  CapacityKVA <- MCSwitchingKVA
  Shore = 2
  Client = {c1, c2}
  Reconciler = Reconciler
  Demand = {1}
  Ops = {"apply", "cancel", "wait", "dispatch"}
  MaxRequests = 4
  RequestId = {r1}
  BreakerFaults = FALSE
SPECIFICATION SwitchFairSpec
CHECK_DEADLOCK FALSE
INVARIANTS
  ConnectedOnce
PROPERTIES
  WaitersWake
  TakenOnEnds
