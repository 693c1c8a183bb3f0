SPECIFICATION FairSpec

CONSTANTS
  MaxRequests = 3
  Kind = {"short", "patient", "growth"}
  Sizes = {2}
  Limits = {1, 4}

INVARIANTS
  InFlightWithinMemory
  ReservationIsOwned
  ShortHoldersNeverRefuse

PROPERTIES
  WaitsSettle
