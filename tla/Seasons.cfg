CONSTANTS
  Players = {p1}
  None = None
  MatchSize = 1
  Length = 2
  MinGames = 1
  MaxClock = 4
  MaxLag = 1
  MaxSeasons = 4
  MaxMatches = 1
  MaxForced = 1
  MaxStarts = 1
SPECIFICATION FairSpec
INVARIANTS SeasonsInv CompletionSound
PROPERTIES CarryoverFinal SeasonsGoOn
CHECK_DEADLOCK FALSE
