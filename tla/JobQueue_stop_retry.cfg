SPECIFICATION Spec
CONSTANTS
  a1 = a1  a2 = a2  b1 = b1  sa = sa  sb = sb  key = key
  NoJob = NoJob  NoSession = NoSession  NoKey = NoKey
  Jobs <- JobsAB
  Sessions = {sa, sb}
  Keys = {}
  SessionOf <- TwoSessions
  PriorityOf <- PlainAB
  KeyOf <- NoKeyAB
  MaxAttempts <- TwiceAB
  Timed = {a1}
  Coroutine = {}
  Aborting = {}
  Workers = 1
  MayCutDrain = FALSE
INVARIANT StopIsNotRetried
