SPECIFICATION Spec
CONSTANTS
  Proposed = proposed
  EmptyPayload = empty
  Edits = {edit}
  None = None
  Sessions = {s1, s2, s3}
  MaxPolls = 1
  Faults = {}
INVARIANTS
  ExecutedAtMostOnce
CHECK_DEADLOCK FALSE
