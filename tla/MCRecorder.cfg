\* Requests with redirects and websockets, wanted and unwanted, while the
\* stream breaks, commands fail, and signals and the timer stop the recorder.
SPECIFICATION FairSpec
CONSTANTS
  HttpIds = {q1, q2}
  SocketIds = {w1}
  Unwanted = {q2}
  Posting = {q1}
  Signals = {"SIGINT", "AUTO_STOP"}
  NoRecord = NoRecord
  MaxHops = 2
  MaxEvents = 4
CHECK_DEADLOCK FALSE
INVARIANTS
  TypeOK
  NothingAfterStop
  WrittenOnce
  AllWritten
  OneHopPerRecord
  DomainsReleased
PROPERTIES
  RecorderEnds
