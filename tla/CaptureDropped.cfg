SPECIFICATION Spec
CONSTANTS
  Calls = {a1, a2}
  Hooks = {"chat", "langchain", "portkey", "proxy"}
INVARIANTS
  SignedIsHandedOn
CHECK_DEADLOCK FALSE
