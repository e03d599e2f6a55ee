SPECIFICATION Spec
CONSTANTS
  Fds = {1, 2}
  MaxConns = 2
  Messages = {"a", "b"}
  Empty = "empty"
  Mails = {"m1"}
  SaveResults = {TRUE}
  MAX_RCPT_USR = 1
  MaxRcpt = 2
  MaxCommands = 4
INVARIANT AcceptedSaved
CHECK_DEADLOCK FALSE
