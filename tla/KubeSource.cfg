\* One pod of two containers, with one permit or no limit.
SPECIFICATION FairSpec
CONSTANTS
  web = web
  app = app
  sidecar = sidecar
  Pods = {web}
  ExcludedPods = {}
  Containers <- MCContainers
  Selector <- All
  DefaultKey = none
  Limits = {0, 1}
  Versions <- MCVersions
  TailLines = TRUE
  Slots = {1, 2, 3}
  NoSlot = 0
  NoPod = nopod
  MaxChanges = 2
  MaxGaps = 1
CHECK_DEADLOCK FALSE
INVARIANTS
  TasksTracked
  PodsFollowCluster
PROPERTIES
  TailOnce
  RunningPodsStreamed
