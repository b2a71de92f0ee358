SPECIFICATION Spec
CONSTANTS
  a1 = a1  a2 = a2  b1 = b1  sa = sa  sb = sb  key = key
  NoJob = NoJob  NoSession = NoSession  NoKey = NoKey
  Jobs <- JobsAB
  Sessions = {sa, sb}
  Keys = {key}
  SessionOf <- TwoSessions
  PriorityOf <- MixedAB
  KeyOf <- SameAB
  MaxAttempts <- TwiceAB
  Timed = {a1, b1}
  Coroutine = {b1}
  Aborting = {a2}
  Workers = 1
  MayCutDrain = TRUE
INVARIANT DedupeExclusive
PROPERTY ImplementsLedger
