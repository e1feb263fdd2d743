\* Replaced, disabled and removed checks, two depths of the queue.
SPECIFICATION MonSpec
CONSTANTS
  alive = alive
  ready = ready
  Checks = {alive, ready}
  CheckOrder <- InOrder
  Plans <- SafetyPlans
  EventCap = 3
  MaxProbes = 3
  MaxReplans = 1
  MaxQueries = 0
  MaxActors = 3
  MaxJobs = 6
CHECK_DEADLOCK FALSE
INVARIANTS
  OneActorInCharge
  StatusIsVerdict
  StatusFollowsChecks
  OutagesActedUpon
  AlertsAlternate
  DeliveryAccounts
