SPECIFICATION FairSpec
CONSTANTS
  p1 = p1
  p2 = p2
  Pages = {p1}
  Transactions = {t1}
  MaxConnections <- Once
  Faults = {}
PROPERTIES
  PageCatchesUp
CHECK_DEADLOCK FALSE
