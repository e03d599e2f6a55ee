SPECIFICATION Spec
CONSTANTS
  Fds = {1, 2}
  MaxConns = 2
  Messages = {"a"}
  Empty = "empty"
  Mails = {"m1"}
  SaveResults = {TRUE}
  MAX_RCPT_USR = 1
  MaxRcpt = 2
  MaxCommands = 5
INVARIANT TypeOK
PROPERTIES RefusedNotSent RemovesOnlySeen ServedNext
CHECK_DEADLOCK FALSE
