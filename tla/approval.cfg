SPECIFICATION FairSpec
CONSTANTS
  Proposed = proposed
  EmptyPayload = empty
  Edits = {edit, empty}
  None = None
  Sessions = {s1, s2, s3}
  MaxPolls = 1
  Faults = {"crash", "database", "audit", "tool", "redis"}
INVARIANTS
  TypeOK
  SerialExecution
  EffectsPermitted
  RowsAgree
PROPERTIES
  DecisionsStand
  ImplementsLifecycle
  RequestsAnswered
CHECK_DEADLOCK FALSE
