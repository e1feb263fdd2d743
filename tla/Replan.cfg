\* Two services and two layer files, and what clients and operators do to them.
SPECIFICATION FairSpec
CONSTANTS
  db = db
  web = web
  Names = {db, web}
  Files <- MCFiles
  whole = whole
  overlay = overlay
  documented = documented
  replacing = replacing
  Contents = {whole, overlay, documented, replacing}
  Text <- MCText
  Directories <- MCDirectories
  Missing = Missing
  Broken = Broken
  Actors = {a1, a2, a3}
  NoActor = NoActor
  NoName = NoName
  Unset = Unset
  MaxEdits = 1
  MaxRequests = 2
CHECK_DEADLOCK FALSE
INVARIANTS
  PlanIsMerge
  ActorsFollowPlan
  SnapshotOfTheActor
PROPERTIES
  RemovedServicesStop
