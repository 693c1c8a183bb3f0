CONSTANTS
  c1 = c1
  c2 = c2
  c3 = c3
  a1 = a1
  Containers = {c1, c2, c3}
  Apps = {a1}
  AppOf <- MCAppOf
  MaxLive = 2
  MaxRequests = 2
  MaxFaults = 1
  MaxGenerations = 3
  Retain = 1
  None = None
SYMMETRY Symmetry
SPECIFICATION Spec
CHECK_DEADLOCK FALSE
INVARIANTS
  HistoryIsKept
  SyncedSavesArePublished
PROPERTIES
  HeadStaysRestorable
