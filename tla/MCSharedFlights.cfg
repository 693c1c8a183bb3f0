CONSTANTS
  Caller = {c1, c2, c3}
  Key = {k1}
  NoKey = NoKey
  MaxFlights = 3
SPECIFICATION FairSpec
CHECK_DEADLOCK FALSE
INVARIANTS
  WaitersShareOneRun
PROPERTIES
  AbandonedRunsEnd
