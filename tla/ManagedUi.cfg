CONSTANTS
  Admins = {a1, a2}
  register_panel = register_panel
  info_channel = info_channel
  Required <- RegisterAndInfo
  OtherNames = {}
  None = None
  MaxChannels = 3
  MaxFailures = 1
  MaxByHand = 1
SPECIFICATION Spec
INVARIANTS UiInv SetupIsAllOrNothing ResetupConverges
SYMMETRY Symmetry
CHECK_DEADLOCK FALSE
