CONSTANTS
  a1 = a1
  a2 = a2
  b1 = b1
  b2 = b2
  s1 = s1
  s2 = s2
  None = None
  TeamA = {a1}
  TeamB = {b1}
  Others = {s1, s2}
  Inputs = {"win", "lose", "draw", "void"}
  ManualTargets <- OnePenalty
  RoomSize = 3
  ParentWindow = 1
  OpenDelay = 1
  DeadlineDelay = 2
  ApprovalWindow = 1
  MaxClock = 4
  MaxLag = 1
  MaxManual = 1
SPECIFICATION FairSpec
INVARIANTS TypeOK PenaltiesAddUp SeatsRespected FinalizedOnce
PROPERTIES EventuallyFinalized DecidedOnce ImplementsLifecycle
CHECK_DEADLOCK FALSE
