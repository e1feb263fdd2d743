\* Two services, one requiring the other, whose failures stop the daemon, and a
\* signal that does.  The channel is never full.
SPECIFICATION SupFairSpec
CONSTANTS
  db = db
  web = web
  Services = {db, web}
  Pids = {p1}
  NoPid = none
  NoService = nobody
  Configs <- FailureStops
  DefaultDelay <- MCDefaultDelay
  Order <- InOrder2
  Plans <- RequiresPlan
  EventCap = 20
  MailboxCap = 2
  Inputs = {"DaemonStop"}
  MaxRequests = 0
CHECK_DEADLOCK FALSE
PROPERTIES
  CommandsAnswered
  ShutdownEnds
  RequiresCascade
