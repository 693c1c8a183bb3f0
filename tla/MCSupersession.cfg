CONSTANTS
  MaxRequests = 3
  MaxKeys = 2
  Limits = {1, 2}
SPECIFICATION FairSpec
CHECK_DEADLOCK FALSE
INVARIANTS
  OneWorkPerKey
  PermitsConserved
PROPERTIES
  NewestIsServed
  SupersededIsAnswered
  RequestsEnd
