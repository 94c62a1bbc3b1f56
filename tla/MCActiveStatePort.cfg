\* A port change overlaps with switching the extension on.
SPECIFICATION Spec
CONSTANTS
  Handlers = {h1, h2}
  Ports = {p1, p2, p3}
  ValidPorts = {p1, p2}
  DefaultPort = p1
  NoPort = NoPort
  Absent = Absent
  MaxRestarts = 0
CHECK_DEADLOCK FALSE
PROPERTIES
  PortFixedWhileActive
