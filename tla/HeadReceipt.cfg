SPECIFICATION Spec
CONSTANTS
  Signers = {s1, s2}
  Tenants = {t1}
  Backends = {"postgres"}
  Genesis = Genesis
  NoRow = NoRow
  NoSigner = NoSigner
  MaxRetries = 1
  MaxCalls = 1
INVARIANTS
  HeadReceiptIsHeld
SYMMETRY Symmetry
