\* Commands and a probe over two connections of which one may be seen to close
\* before its close handler runs; the relay process is restarted once, while the
\* extension holds commands.
SPECIFICATION FairSpec
CONSTANTS
  Commands = {c1}
  Probes = {p1}
  Sockets = {s1, s2, s3}
  Subscribers = {e1}
  ClosingSockets = {s3}
  NoRequest = NoRequest
  NoSocket = NoSocket
  MaxId = 2
  MaxRestarts = 1
CHECK_DEADLOCK FALSE
INVARIANTS
  TypeOK
  TimerPerEntry
  WaitingIffPending
  NothingWaitsWithoutExtension
  InFlightOnCurrent
  OpenIsCurrent
  OnlyCurrentIsPinged
  SubscribersKnowStatus
  OwnOutcomePerProcess
  CommandsCorrelate
PROPERTIES
  ImplementsBridge
  EveryRequestAnswered
