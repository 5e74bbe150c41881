CONSTANTS
  t1 = t1
  t2 = t2
  w1 = w1
  w2 = w2
  r1 = r1
  r2 = r2
  None = None
  Workflows = {w1, w2}
  Tabs = {t1, t2}
  PageOf <- OwnPages
  Requests = {r1}
  MaxConcurrent = 2
  MaxSessions = 2
  Faults <- AllFaults
SPECIFICATION Spec
SYMMETRY SymmetryOfOwnPages
CHECK_DEADLOCK FALSE
INVARIANTS
  SerialLaunchesReplace
PROPERTIES
  LedgerRefined
