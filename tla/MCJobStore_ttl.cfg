CONSTANTS
  Job = {j1}
  Thread = {t1}
  Timer = {m1}
  Handle = {}
  Resource = {}
  NoTimer = NoTimer
  NoResource = NoResource
  NoJob = NoJob
  Reasons = {"completed"}
  TTL = 1
  HeavyTTL = 1
  LockWait = 0
  MaxTime = 3
SPECIFICATION Spec
PROPERTIES
  CompletedKeptForTTL
