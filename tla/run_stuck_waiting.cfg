SPECIFICATION Spec
CONSTANTS
  Approvals = {a1, a2}
  Sessions = {s1, s2}
  Getters = {}
  Nothing = Nothing
INVARIANTS
  WaitingHasReason
CHECK_DEADLOCK FALSE
