\* Client requests, failing checks and shutdowns, with an event channel that is
\* often full.
SPECIFICATION SupSpec
CONSTANTS
  db = db
  web = web
  Services = {db, web}
  Pids = {p1}
  NoPid = none
  NoService = nobody
  Configs <- OneShotOrShutdown
  DefaultDelay <- MCDefaultDelay
  Order <- InOrder2
  Plans <- SafetyPlans
  EventCap = 3
  MailboxCap = 2
  Inputs = {"Stop", "Autostart", "ForwardSignal", "DaemonStop", "CheckDown"}
  MaxRequests = 1
CHECK_DEADLOCK FALSE
INVARIANTS
  SnapshotFollows
  ExitAsksEveryProcess
