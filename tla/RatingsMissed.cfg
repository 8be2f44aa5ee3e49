CONSTANTS
  Roster <- Chain
  Results = {"TEAM_A_WIN", "VOID"}
  None = None
  MaxLate = 0
  MaxClock = 4
  MaxCorrections = 2
SPECIFICATION Spec
INVARIANTS RatingsAreReplay
CHECK_DEADLOCK FALSE
