CONSTANTS
  TeamA = {a1, a2}
  TeamB = {b1, b2}
  None = None
SPECIFICATION BallotSpec
INVARIANTS MajorityWins NeitherTeamFavoured
