SPECIFICATION LockSpec
CONSTANTS
  Clients = {c1, c2, c3}
  NoClient = NoClient
  MaxPolls = 2
INVARIANTS
  LockTypeOK
  LeaseOwnsKey
  OverlapNeedsExpiry
PROPERTIES
  AcquireEnds
  KeyIsFreed
CHECK_DEADLOCK FALSE
