SPECIFICATION Spec
CONSTANTS
  None = None
  Torn = Torn
  Identities = {i1}
  Tasks = {"send"}
  Servers = {"smtp"}
  CustomPath = FALSE
  isDaemon = TRUE
  MaxStarts = 2
INVARIANTS TypeOK DestinationKept 
PROPERTY StopEnds
CHECK_DEADLOCK FALSE
