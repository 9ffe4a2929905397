SPECIFICATION FairSpec
CONSTANTS
  p1 = p1
  p2 = p2
  Pages = {p1, p2}
  Transactions = {t1}
  MaxConnections <- OneReconnects
  Faults = {"network", "crash", "redis", "rollback", "send"}
INVARIANTS
  TypeOK
  BroadcastReachesPages
PROPERTIES
  ReceivedIsShown
  PagesReconnect
CHECK_DEADLOCK FALSE
