SPECIFICATION Spec
CONSTANTS
  Approvals = {a1}
  Sessions = {s1}
  Requests = {r1, r2}
  EnabledKinds <- Nothing
  None = None
  MaxFaults = 0
  MaxCrashes = 0
CHECK_DEADLOCK FALSE
SYMMETRY Symmetry
INVARIANT
  DeniedTaskIsCancelled
