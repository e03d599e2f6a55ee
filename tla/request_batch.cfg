SPECIFICATION FairSpec
CONSTANTS
  b1 = b1
  b2 = b2
  c1 = c1
  c2 = c2
  c3 = c3
  n1 = n1
  n2 = n2
  Null = Null
  Batches = {b1, b2}
  Cids = {c1, c2, c3}
  Packets <- MCPackets
  Need <- MCNeed
  Resends <- MCResends
  Node <- MCNode
  Accepted = {c1, c3}
  MaxSlots = 3
  Doublable = {c1}
  MaxDoubled = 1
INVARIANTS TypeOK CountedOnce GivesUpLate
PROPERTIES Returns
CHECK_DEADLOCK FALSE
