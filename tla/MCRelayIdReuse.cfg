\* The ids start again at 1 when the relay process does.
SPECIFICATION Spec
CONSTANTS
  Commands = {c1, c2}
  Probes = {}
  Sockets = {s1, s2}
  Subscribers = {}
  NoRequest = NoRequest
  NoSocket = NoSocket
  MaxId = 2
  MaxRestarts = 1
  ClosingSockets = {}
CHECK_DEADLOCK FALSE
INVARIANTS
  OwnOutcome
