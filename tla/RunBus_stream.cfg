SPECIFICATION Spec
CONSTANTS
  loop = loop  pool = pool  c1 = c1
  Threads = {loop, pool}
  Loop = loop
  Clients = {c1}
  MaxCalls = 3
  MaxSteers = 0
  MaxRestarts = 1
  MaxJoins = 2
  RingMax = 3
  ReplayMax = 2
  QueueMax = 2
  InboxMax = 1
INVARIANTS EveryEventOnce RingIsTail
CHECK_DEADLOCK FALSE
