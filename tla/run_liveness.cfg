SPECIFICATION FairSpec
CONSTANTS
  Approvals = {a1, a2}
  Sessions = {s1}
  Getters = {g1}
  Nothing = Nothing
PROPERTIES
  LostRunGivenUp
CHECK_DEADLOCK FALSE
