\* The service worker restarts while a tab is debugged.
SPECIFICATION Spec
CONSTANTS
  Tabs = {t1}
  ForeignTabs = {}
  Requests = {r1}
  NoTab = NoTab
  MaxChanges = 0
  MaxFaults = 0
  MaxRestarts = 1
INVARIANTS
  OnlyAttachedTracked
