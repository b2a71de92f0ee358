\* Tables of two places in the orders, so that both overflow.
CONSTANTS
  key = key
  Keys <- OneKey
  NoKey = NoKey
  MaxSize = 2
  Batch = 1
  MaxRuns = 2
  MaxJobs = 5
  MaxLate = 1
SPECIFICATION Spec
INVARIANTS RunsTellJobs KeysLeadToJobs OnlyOldestForgotten
CHECK_DEADLOCK FALSE
