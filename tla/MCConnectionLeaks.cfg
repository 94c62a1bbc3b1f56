\* The extension is switched off while it connects.
SPECIFICATION FairSpec
CONSTANTS
  Sockets = {s1, s2, s3}
  NoSocket = NoSocket
  LateClose = FALSE
  MaxChanges = 3
CHECK_DEADLOCK FALSE
PROPERTIES
  OffIsDisconnected
