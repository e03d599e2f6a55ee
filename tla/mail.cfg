SPECIFICATION Spec
CONSTANTS
  Mails = {m1}
  Parts <- MCParts
  MaxCrashes = 1
INVARIANTS TypeOK NoMailLost DeletedAfterReceived
PROPERTIES ImplementsChannel 
CHECK_DEADLOCK FALSE
