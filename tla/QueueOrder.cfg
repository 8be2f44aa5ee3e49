CONSTANTS
  p1 = p1
  p2 = p2
  p3 = p3
  p4 = p4
  c1 = c1
  c2 = c2
  Players = {p1, p2, p3, p4}
  Classes = {c1}
  Eligible <- AllEligible
  BatchSize = 2
  TTL = 2
  Lead = 1
  NewsChannel = FALSE
  NoPlayer = NoPlayer
  NoClass = NoClass
  MaxEntries = 4
  MaxClock = 1
  MaxRevision = 1
  MaxLag = 1
  MaxSkipped = 1
SYMMETRY MCAlike
SPECIFICATION Spec
INVARIANTS RosterSound
PROPERTIES BoundedOvertaking
CHECK_DEADLOCK FALSE
