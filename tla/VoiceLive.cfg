CONSTANTS
  t1 = t1
  t2 = t2
  w1 = w1
  w2 = w2
  r1 = r1
  r2 = r2
  None = None
  Workflows = {w1}
  Tabs = {t1}
  PageOf <- SamePage
  Requests = {r1}
  MaxConcurrent = 1
  MaxSessions = 2
  Faults <- NoFaults
SPECIFICATION FairSpec
CHECK_DEADLOCK FALSE
PROPERTIES
  CallsAreRecorded
