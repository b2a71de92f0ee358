SPECIFICATION FairSpec
CONSTANTS
  loop = loop  pool = pool  c1 = c1
  Threads = {loop, pool}
  Loop = loop
  Clients = {c1}
  MaxCalls = 3
  MaxSteers = 2
  MaxRestarts = 0
  MaxJoins = 1
  RingMax = 12
  ReplayMax = 12
  QueueMax = 12
  InboxMax = 1

PROPERTY StreamEnds
INVARIANT SteersOnce
CHECK_DEADLOCK FALSE
