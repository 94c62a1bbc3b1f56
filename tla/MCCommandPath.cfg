\* Every shape of a body and every outcome of its command.
SPECIFICATION Spec
CONSTANTS
  CdpMethods = {"Page.navigate"}
  OtherMethods = {"nonsense"}
CHECK_DEADLOCK FALSE
INVARIANTS
  TypeOK
  DocumentedIsTaken
  OkIffSuccess
  NothingDoneOn400
