\* A close event that comes after a newer socket opened.
SPECIFICATION FairSpec
CONSTANTS
  Sockets = {s1, s2, s3}
  NoSocket = NoSocket
  LateClose = TRUE
  MaxChanges = 4
CHECK_DEADLOCK FALSE
PROPERTIES
  ConnectionMaintained
