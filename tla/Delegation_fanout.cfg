\* Three tasks on one thread; a worker dies, answers late, is cancelled.
CONSTANTS
  t1 = t1
  t2 = t2
  t3 = t3
  Nodes = {t1, t2, t3}
  MaxWorkers = 1
  MaxDeaths = 1
SPECIFICATION FairSpec
INVARIANTS TypeOK WorkersBounded AtMostTwice
PROPERTY FanoutEnds
CHECK_DEADLOCK FALSE
