\* Two nodes and one job that is assigned, taken over, renewed, revived, taken
\* back by its first node, or forgotten by a restart and assigned again.
CONSTANTS
  n1 = n1
  n2 = n2
  Nodes = {n1, n2}
  j1 = j1
  Jobs = {j1}
  Timeout = 1
  MaxClock = 2
  MaxIssued = 3
  Callers = 1
  MaxJoins = 0
SPECIFICATION Spec
SYMMETRY Sym
CONSTRAINT Undecided
INVARIANTS TypeOK TicketsDiffer LeaseExclusive StopLimitsLateWork
CHECK_DEADLOCK FALSE
