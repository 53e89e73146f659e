\* Two settling clients, the sampling loop, one restart, one fault.
CONSTANTS
  Garbage = Garbage
  None = None
  PeakStart = 8
  PeakEnd = 12
  ValleyStart = 22
  ValleyEnd = 6
  Vessel = {v1}
  Client = {c1, c2}
  Sampler = Sampler
  Hour = {5, 8}
  MaxSamples = 2
  MaxCalls = 2
  MaxTick = 1
  MaxLives = 1
  MaxFaults = 1
SPECIFICATION MeteringSpec
SYMMETRY MCMeteringClients
CHECK_DEADLOCK FALSE
INVARIANTS
  MeteringTypeOK
  SamplesInOrder
  BillsPriced
  LossBounded
  WrittenOnce
  BilledStops
PROPERTIES
  SettledFrozen
  ImplementsRunLog
