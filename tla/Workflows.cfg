SPECIFICATION FairWorkflows
CONSTANTS
  Callers = {c1, c2, c3}
  MaxHistory = 3
  Calls = {s1, s2, s3, s4}
  Approvers = {alice, bob, carol}
  Outsiders = {mallory}
  Threshold = 2
  Runs = {p1, p2}
  States = {"pending", "approved", "rejected", "expired", "done"}
  InitialState = "pending"
  Table <- ApprovalTable
  Options = {{"policy", "tsa", "store", "notify"}, {"tsa", "store"}, {"policy", "store"}, {"notify"}}
INVARIANTS
  HistoryIsPath VerdictIsSound OutcomeIsTruthful
PROPERTIES
  WorkflowsSettle
CHECK_DEADLOCK FALSE
