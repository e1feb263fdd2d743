\* Three services at boot, and nobody asks for anything.  A service emits five
\* events at most, so the channel is never full.
SPECIFICATION SupFairSpec
CONSTANTS
  db = db
  web = web
  Services = {db, app, web}
  Pids = {p1}
  NoPid = none
  NoService = nobody
  Configs <- OneShot
  DefaultDelay <- MCDefaultDelay
  Order <- InOrder3
  Plans <- BootPlans
  EventCap = 15
  MailboxCap = 2
  Inputs = {}
  MaxRequests = 0
CHECK_DEADLOCK FALSE
PROPERTIES
  AutostartOrder
  AutostartProgress
