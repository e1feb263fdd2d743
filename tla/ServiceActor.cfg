\* Any command at any time, one service, three process identifiers: the child,
\* one orphan, and one to spawn next.
SPECIFICATION FairSpec
CONSTANTS
  Services = {web}
  Pids = {p1, p2, p3}
  NoPid = none
  Configs <- MCConfigs
  DefaultDelay <- MCDefaultDelay
CHECK_DEADLOCK FALSE
INVARIANTS
  StoppingEscalates
  NoLeftovers
PROPERTIES
  KillOnlyAfterAsk
  StopCompletes
