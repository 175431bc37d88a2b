SPECIFICATION FairSpec
CONSTANTS
  Signers = {s1, s2}
  Tenants = {t1, t2}
  Backends = {"postgres", "memory"}
  Genesis = Genesis
  NoRow = NoRow
  NoSigner = NoSigner
  MaxRetries = 1
  MaxCalls = 2
INVARIANTS
  AuditIsExact WellLinked OneCommitPerCall OutcomeMatchesLedger
  DeliveredAreCommitted GiveUpNeedsContention IInv
PROPERTIES
  CallEnds ImplementsHashChain
