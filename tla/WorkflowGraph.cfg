CONSTANTS
  Workflows = {w1}
  Agents = {a1, a2}
  Tools = {t1}
  Edges = {e1}
  Titles = {x}
  Names = {start, n}
  Start = start
  Spots = {o}
  Origin = o
  Requests = {r1, r2}
  None = none
  Operations <- AllOperations
SYMMETRY Symmetry
SPECIFICATION Spec
INVARIANTS TypeOK ReferencesInside AgentNamesDiffer
PROPERTIES OnlyLateChangesAbort GoneStaysGone StoreRefined
CHECK_DEADLOCK FALSE
