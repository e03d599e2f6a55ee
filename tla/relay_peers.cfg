SPECIFICATION Spec
CONSTANTS
  Peers = {1, 2, 3}
  Self = 1
  Bootstrap = {1, 2}
  Saved <- MCSaved
  PeerLists <- MCPeerLists
  MinReachability = 18
  MaxReachability = 24
  CheckTime = 1
  IntervalLong = 2
  IntervalShort = 1
  SilentTime = 1
  MaxNow = 4
  MaxRestarts = 2
INVARIANTS TypeOK SamplesInRange
PROPERTIES ReachableByAnswer OutageNeutral StopReturns
CHECK_DEADLOCK FALSE
