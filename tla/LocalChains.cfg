SPECIFICATION LocalSpec
CONSTANTS
  Tenants = {t1, t2}
  Tasks = {k1, k2, k3}
  Procs = {p1, p2}
  ProcOf <- MCProcOf
  k1 = k1
  k2 = k2
  k3 = k3
  p1 = p1
  p2 = p2
  NoFile = NoFile
  Torn = Torn
  LegacyId = LegacyId
  MaxRetries = 1
  MaxCalls = 1
  Messages = {m1, m2, m3}
  KeyCalls = {g1}
  MaxInFlight = 2
  NoKey = NoKey
  Cap = 2
  MaxStops = 1
  s1 = s1
  s2 = s2
  s3 = s3
  s4 = s4
  Signers = {s1, s2, s3, s4}
  LangOf <- MCLangOf
  PortTenants <- MCTenants
  AsciiLetters = {"a"}
  OtherLetters = {"e-acute"}
  NoChainFile = NoChainFile
  Vacant = Vacant
  Partial = Partial
  Throws = Throws
  MaxMishaps = 1
  Genesis = Genesis
  Empty = Empty
  Absent = Absent
  NoHeight = NoHeight
  NoReceipt = NoReceipt
  NoIntegrity = NoIntegrity
  NoSignatures = NoSignatures
  NoPredecessor = NoPredecessor
  Malformed = Malformed
  SignIns = {i1, i2}
  Policies <- MCPolicies
  Issuers = {"idp"}
  Users = {"ann", "bob"}
  NoPolicy = NoPolicy
  NoIssuer = NoIssuer
  NoIdentity = NoIdentity
  NoToken = NoToken
  Alias = Alias
  Ttl = 1
  Leeway = 0
  MaxNow = 1
  MaxKeys = 2
SYMMETRY MCSymmetry
INVARIANTS
  FileChainsHold  IdentityIsVouched
  ForkIsExplained ReturnedVerifies
PROPERTIES
  UnreadableIsExplained
CHECK_DEADLOCK FALSE
