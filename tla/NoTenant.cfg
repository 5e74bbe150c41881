CONSTANTS
  Workflows = {w1}
  Agents = {a1, a2}
  Tools = {t1}
  Edges = {e1}
  Titles = {demo}
  Demo = demo
  Names = {start, n}
  Start = start
  Spots = {o}
  Origin = o
  Requests = {r1}
  None = none
  Operations <- ReadOperations
  Tenants = {x}
  Registrations = {g1}
  Bootstraps = {s1}
  Backfills = {b1}
  TenantKnown = FALSE
  Params = {city}
  Methods = {"GET"}
SYMMETRY Symmetry
SPECIFICATION MCSpec
INVARIANT StartsWithInitial
CHECK_DEADLOCK FALSE
