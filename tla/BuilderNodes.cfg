CONSTANTS
  Agents = {a1}
  Tools = {t1}
  Spots = {p0, p1}
  Origin = p0
  Texts = {x0, x1}
  Empty = x0
  None = none
  MaxWire = 2
  MaxEdits = 5
SPECIFICATION FairSpec
INVARIANTS TypeOK DragsAreStored SavedIsShown
PROPERTY PendingIsStored
CHECK_DEADLOCK FALSE
