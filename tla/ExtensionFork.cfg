SPECIFICATION Spec
CONSTANTS
  Messages = {m1, m2, m3, m4}
  KeyCalls = {i1}
  MaxInFlight = 2
  Genesis = Genesis
  NoKey = NoKey
  Cap = 2
  MaxStops = 0
INVARIANTS
  OnePerPosition
CHECK_DEADLOCK FALSE
