CONSTANTS
  Caller = {c1, c2, c3}
  Key = {k1, k2}
  NoKey = NoKey
  MaxFlights = 3
  CancelAbandoned = TRUE
SPECIFICATION FairSpec
CHECK_DEADLOCK FALSE
INVARIANTS
  OneRun
  GivenUpHasNoWaiter
PROPERTIES
  WaitersAreAnswered
