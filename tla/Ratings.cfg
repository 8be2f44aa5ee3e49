CONSTANTS
  Roster <- Star
  Results = {"TEAM_A_WIN", "VOID"}
  None = None
  MaxLate = 0
  MaxClock = 4
  MaxCorrections = 2
SPECIFICATION Spec
INVARIANTS LedgerInv CirclesNeedCorrection
CHECK_DEADLOCK FALSE
