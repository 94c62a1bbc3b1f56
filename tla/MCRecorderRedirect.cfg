\* A request that is redirected while it is recorded.
SPECIFICATION Spec
CONSTANTS
  HttpIds = {q1}
  SocketIds = {}
  Unwanted = {}
  Posting = {}
  Signals = {"SIGINT"}
  NoRecord = NoRecord
  MaxHops = 2
  MaxEvents = 4
CHECK_DEADLOCK FALSE
INVARIANTS
  EveryRequestRecorded
