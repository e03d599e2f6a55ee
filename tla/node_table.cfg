SPECIFICATION Spec
CONSTANTS
  Nodes = {0, 1, 2, 3}
  Self = 1
  Junk = 0
  Bootstrap = {1, 3}
  Saved <- MCSaved
  Keys = {1}
  Senders = {1, 2}
  PeerLists <- MCPeerLists
  Metric <- MCMetric
  Num = 1
  Lookups = {t1, t2}
  LookupTime = 1
  LockTime = 2
  SilentTime = 1
  MaxTimeouts = 1
  MaxNow = 2
  MaxRestarts = 2
INVARIANTS TypeOK NeverIsolated SelfUnknown ClosestReturned
PROPERTIES RespondersKept LookupEnds
CHECK_DEADLOCK FALSE
