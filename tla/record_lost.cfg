\* A crash while a record is being written.
CONSTANTS
  Garbage = Garbage
  None = None
  PeakStart = 8
  PeakEnd = 12
  ValleyStart = 22
  ValleyEnd = 6
  Vessel = {v1}
  Client = {c1}
  Sampler = Sampler
  Hour = {5}
  MaxSamples = 1
  MaxCalls = 1
  MaxTick = 0
  MaxLives = 1
  MaxFaults = 0
SPECIFICATION MeteringSpec
CHECK_DEADLOCK FALSE
INVARIANT Durable
