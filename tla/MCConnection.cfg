\* Switching, dying workers and relays that end, hang and start; close events come
\* before a newer socket opens.
SPECIFICATION FairSpec
CONSTANTS
  Sockets = {s1, s2, s3}
  NoSocket = NoSocket
  LateClose = FALSE
  MaxChanges = 7
CHECK_DEADLOCK FALSE
INVARIANTS
  TypeOK
  OneLoopWhileActive
  AttemptCanEnd
  RefIsLive
  ConnectedIsTrue
  LiveSocketIsUsed
PROPERTIES
  ConnectionMaintained
