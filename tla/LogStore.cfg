\* The two streams of one service, two lines each; a push task or a viewer.
SPECIFICATION LogSpec
CONSTANTS
  out = out
  err = err
  web = web
  db = db
  push1 = push1
  push2 = push2
  viewer1 = viewer1
  Readers = {out, err}
  Services = {web, db}
  ServiceOf <- MCServiceOf
  Lines <- MCLines
  BufferCapacity = 2
  BroadcastCapacity = 2
  PushTasks = {push1, push2}
  PushedService <- MCPushedService
  MaxConnects = 2
  Uses <- MCUses
  Viewer = viewer1
  ViewedService = web
  TailLines = 2
  NoLine = NoLine
CHECK_DEADLOCK FALSE
INVARIANTS
  KeepsLastLines
  FollowersInOrder
  FollowerAccounts
