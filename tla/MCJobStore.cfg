CONSTANTS
  Job = {j1}
  Thread = {t1, t2}
  Timer = {m1, m2}
  Handle = {h1}
  Resource = {r1}
  NoTimer = NoTimer
  NoResource = NoResource
  NoJob = NoJob
  Reasons = {"completed", "error"}
  TTL = 3
  HeavyTTL = 2
  LockWait = 0
  MaxTime = 0
SPECIFICATION FairSpec
INVARIANTS
  LeasedArtifactIntact
  HandleHasOneCustodian
  ResourceHasOneCustodian
PROPERTIES
  HeavyValuesAreShed
  DetachedIsReclaimed
