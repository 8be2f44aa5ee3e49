CONSTANTS
  p1 = p1
  p2 = p2
  p3 = p3
  p4 = p4
  c1 = c1
  c2 = c2
  Players = {p1, p2}
  Classes = {c1, c2}
  Eligible <- MCEligible
  BatchSize = 2
  TTL = 2
  Lead = 1
  NewsChannel = TRUE
  NoPlayer = NoPlayer
  NoClass = NoClass
  MaxEntries = 2
  MaxClock = 3
  MaxRevision = 2
  MaxLag = 1
  MaxSkipped = 1
SPECIFICATION FairSpec
INVARIANTS TypeOK AtMostOneWaiting ExpiryNoticeSound ReminderPerDeadline
PROPERTIES TerminalRowsFrozen OverdueRowsLeave ImplementsMembership
CHECK_DEADLOCK FALSE
