SPECIFICATION FairConsole
CONSTANTS
  Requests = {r1, r2, r3}
  ThresholdNum = 1
  ThresholdDen = 2
  MinRequests = 2
  WindowMs = 2
  OpenMs = 2
  HalfOpenMaxConcurrency = 1
  MaxSamples = 4
  Keys = {k1}
  Bodies = {b1, b2}
  Absent = Absent
  EmptyHash = EmptyHash
  InFlight = InFlight
  Events = {e1, e2, e3, e4}
  Drains = {d1, d2}
  NoEvent = NoEvent
  Limit = 2
  WindowSec = 3
  MaxHits = 5
INVARIANTS
  EventsReceivedInOrder QuotaHolds
PROPERTIES
  BreakerIsJustified KeysAreHonoured ConsoleSettles
CHECK_DEADLOCK FALSE
