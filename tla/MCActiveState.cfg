\* Clicks, port changes, polls, alarms, migrations and restarts of the worker overlap.
SPECIFICATION Spec
CONSTANTS
  Handlers = {h1, h2, h3}
  Ports = {p1, p2, p3}
  ValidPorts = {p1, p2}
  DefaultPort = p1
  NoPort = NoPort
  Absent = Absent
  MaxRestarts = 2
SYMMETRY Symmetry
CHECK_DEADLOCK FALSE
INVARIANTS
  TypeOK
  MaintainedAsStored
  LastSwitchWins
  LastPortWins
  PopupShowsStored
PROPERTIES
  MigrationKeepsState
