SPECIFICATION LiveSpec
CONSTANTS
  Approvals = {a1}
  Sessions = {s1, s2}
  Requests = {r1, r2}
  EnabledKinds <- WritesOnly
  None = None
  MaxFaults = 1
  MaxCrashes = 1
CHECK_DEADLOCK FALSE
INVARIANTS
  AtMostOnce
  OwnerOnly
  FailClosed
  DecisionReachesTask
  ExecutionIsAudited
PROPERTIES
  ImplementsOneTimeGrant
  DecisionsSettle
