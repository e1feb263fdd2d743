\* Two alerts that share a queue, endpoints that need not answer.
SPECIFICATION MonSpec
CONSTANTS
  alive = alive
  ready = ready
  Checks = {alive, ready}
  CheckOrder <- InOrder
  Plans <- LivePlans
  EventCap = 4
  MaxProbes = 2
  MaxReplans = 1
  MaxQueries = 1
  MaxActors = 1
  MaxJobs = 4
CHECK_DEADLOCK FALSE
PROPERTIES
  QueriesAnswered
  QueuesDrain
