\* Every handler, the reconciler and a breaker that may fail, on one berth.
CONSTANTS
  Berth = {b1}
  Vessel = {v1}
  None = None
  CapacityKVA <- MCSwitchingKVA
  Shore = 1
  Client = {c1, c2}
  Reconciler = Reconciler
  Demand = {1}
  Ops = {"apply", "confirm", "cancel", "wait", "separate", "occupy", "depart", "rebuild", "reconcile", "override", "dispatch", "switch"}
  MaxRequests = 3
  RequestId = {None}
  BreakerFaults = TRUE
SPECIFICATION SwitchSpec
SYMMETRY MCSwitchingClients
INVARIANTS
  SwitchTypeOK
  LatchIffOpen
  ChannelInOnePlace
  ServedByOne
  AllocatingOwned
  ExecutionsCover
  ModeFollowsOverride
PROPERTIES
  SequenceUndone
  ImplementsLife
