\* No Start or Restart while the service waits in "Backoff".
SPECIFICATION FairPatientSpec
CONSTANTS
  Services = {web}
  Pids = {p1, p2}
  NoPid = none
  Configs <- MCConfigs
  DefaultDelay <- MCDefaultDelay
CHECK_DEADLOCK FALSE
INVARIANTS
  SingleProcess
  NothingBehindState
PROPERTIES
  RetriesEnd
  LifecycleSpec
