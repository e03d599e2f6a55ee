SPECIFICATION DispatchSpec
CONSTANTS
  Nodes = {n1, n2}
  Nobody = Nobody
  MaxSent = 1
  MaxForeign = 1
  MaxDups = 1
INVARIANT Understood
PROPERTY Quiet
CHECK_DEADLOCK FALSE
