SPECIFICATION Spec
CONSTANTS
  Requests = {r1, r2, r3}
  ThresholdNum = 1
  ThresholdDen = 2
  MinRequests = 2
  WindowMs = 2
  OpenMs = 2
  HalfOpenMaxConcurrency = 1
  MaxSamples = 4
INVARIANT IdleBreakerHasProbeSlot
