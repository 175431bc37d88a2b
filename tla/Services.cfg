SPECIFICATION FairServices
CONSTANTS
  Sinks = {1, 2}
  Hanging = {2}
  NumEvents = 3
  BatchSize = 2
  Retries = 1
  Calls = {c1, c2, c3}
  Builder = c1
  MaxSessions = 3
  MaxVersion = 3
  Kids = {k1, k2}
  Unparsed = Unparsed
  Nobody = Nobody
  Names = {ann, bot}
  Agents = {bot}
  Payloads = {p1}
  Anonymous = Anonymous
  NoExpiry = NoExpiry
  MaxTime = 1
  MaxVerdicts = 2
  Threshold = 2
  AllowConcerns = FALSE
  Clients = {1, 2, 3}
  PromptKeys = {q1, q2}
  TtlMs = 1
  MaxMs = 3
  MaxCalls = 4
  Submitters = {s1, s2}
  Publishers = {b1, b2}
  LogBatch = 4
  MaxHeads = 2
  Forged = Forged
  AiCalls = {a1, a2}
  Hooks = {"chat", "embeddings", "fetch", "langchain", "listener", "portkey",
           "proxy", "worker", "litellm", "agent"}
  UseCases = {"u"}
  Models = {"m"}
  UseCaseContents <- MCUseCases
  ModelContents <- MCModels
  NoVersion = NoVersion
  Unset = Unset
  MaxChanges = 3
INVARIANTS
  ReportIsHonest SoundUntilClosed ReportedKeyVerifies ClearedIsReviewed HitIsOwnAndFresh
  HeadsAreTrue ProofsAreExact CallsAreCaptured RegistriesAreExact
PROPERTIES
  CallersAreAnswered
CHECK_DEADLOCK FALSE
