\* Commands, disconnections, tabs closed, debugging canceled and a restart of the
\* service worker.
SPECIFICATION FairSpec
CONSTANTS
  Tabs = {t1, t2}
  ForeignTabs = {}
  Requests = {r1, r2}
  NoTab = NoTab
  MaxChanges = 1
  MaxFaults = 1
  MaxRestarts = 1
INVARIANTS
  TypeOK
  RegisteredIsAttached
  AttachedIsRegistered
PROPERTIES
  EveryFiberEnds
