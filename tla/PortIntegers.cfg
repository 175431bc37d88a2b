SPECIFICATION Spec
CONSTANTS
  Price <- MCPrice
  Downshift <- MCDownshift
  LightOutput = 2
  LightInput = 2
  Cap = 6
  Planners <- MCPlanners
  Executors <- MCExecutors
  CacheRead <- MCCacheRead
  Premium = {"opus", "gpt-5"}
  CheaperAlt <- MCCheaper
  SmallInput = 2
  MinRuns = 2
  MinCalls = 2
  MinCacheCalls = 3
  Energy <- MCEnergy
  SpikeFactor = 3
  SpikeFloor = 40
  Unset = Unset
  Keys = {"k"}
  Genesis = Genesis
  Empty = Empty
  Absent = Absent
  NoHeight = NoHeight
  NoReceipt = NoReceipt
  NoIntegrity = NoIntegrity
  NoSignatures = NoSignatures
  NoPredecessor = NoPredecessor
  Malformed = Malformed
  Bits = 5
  Scale = 3
  ErrorLimit = 1
  FlagLimit = 0
  SampleSize = 1
  EvidenceSize = 2
  NotANumber = NotANumber
  Quantum = 4
  Inherited = {"constructor", "toString"}
INVARIANTS
  PythonVerifiesInTS
CHECK_DEADLOCK FALSE
