\* A service and a probe, two identifiers, orphans.
SPECIFICATION FairSpec
CONSTANTS
  probe = probe
  Pids = {p1, p2}
  Waiters = {probe, web}
  Probes <- MCProbes
  Free = Free
  Orphan = Orphan
  NoPid = NoPid
  NoStatus = NoStatus
  Error = Error
CHECK_DEADLOCK FALSE
INVARIANTS
  StatusesDelivered
PROPERTIES
  ZombiesCollected
