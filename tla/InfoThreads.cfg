CONSTANTS
  Users = {p1, a1}
  Admins = {a1}
  Kinds = {"player_info", "leaderboard_season"}
  Interactions = {i1, i2}
  LastPage = 2
  None = None
  MaxStarted = 3
  MaxPicks = 2
  MaxFailures = 1
  MaxRestarts = 1
SYMMETRY Symmetry
SPECIFICATION Spec
INVARIANTS ThreadsInv ResultsStayHome StraysHaveAReason
CHECK_DEADLOCK FALSE
