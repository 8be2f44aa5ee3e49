CONSTANTS
  a1 = a1
  a2 = a2
  b1 = b1
  b2 = b2
  s1 = s1
  s2 = s2
  None = None
  TeamA = {a1, a2}
  TeamB = {b1, b2}
  Others = {}
  Inputs = {"win", "void"}
  ManualTargets <- NoPenalty
  RoomSize = 3
  ParentWindow = 1
  OpenDelay = 1
  DeadlineDelay = 2
  ApprovalWindow = 1
  MaxClock = 4
  MaxLag = 0
  MaxManual = 1
SPECIFICATION Spec
INVARIANTS ResultIsTheDecision WaitsForSomebody PenaltiesDeserved
CHECK_DEADLOCK FALSE
