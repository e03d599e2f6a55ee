CONSTANTS
  None = None
  PartSize = 2
  Mails <- MCMails
  Contacts <- MCContacts
  OwnFile <- MCOwnFile
  PeerFile <- MCPeerFile
  MaxStarts = 2
SPECIFICATION Spec
INVARIANT ContentRestored
INVARIANT ConfirmedDeleted
CHECK_DEADLOCK FALSE
