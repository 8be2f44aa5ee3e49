CONSTANTS
  Users = {u1}
  None = None
  TTL = 2
  Lead = 1
  ParentWindow = 3
  OpenDelay = 1
  ReportWindow = 2
  ApprovalWindow = 1
  Tables = {"row", "match"}
  MaxClock = 3
  MaxCommands = 1
  MaxFailures = 1
  MaxDowns = 1
SPECIFICATION FairSpec
INVARIANTS TimersInv CycleSweeps
PROPERTIES NothingForgotten
CHECK_DEADLOCK FALSE
