CONSTANTS
  MaxJobs = 3
  Client = {c1}
  Slot = {s1}
  Identity = {i1, i2}
  NoClient = NoClient
  Fault = {"error"}
CHECK_DEADLOCK FALSE
SPECIFICATION FairSpec
INVARIANTS
  OneAdmissionPerSlot
  ReplacedEndsSuperseded
PROPERTIES
  CancelledNeverCompletes
  SnapshotsMoveForward
  RequestsAreAnswered
  ShutdownEnds
