CONSTANTS
  Agents = {a1, a2}
  Initial = {a1}
  Start = a1
  Edges = {e1, e2}
  Requests = {r1, r2}
  None = none
SYMMETRY Symmetry
CONSTRAINT StrayedStaysSmall
SPECIFICATION Spec
INVARIANTS TypeOK PageShowsServer DrawnEdgesResolve
CHECK_DEADLOCK FALSE
