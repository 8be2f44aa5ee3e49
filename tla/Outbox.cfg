CONSTANTS
  LastEvent = 2
  Batches <- OneByOne
  BatchSize = 2
  MaxDelay = 1
  DelayOverflow = 3
  Refused <- First
  EarlyBy = 1
  MaxClock = 2
  MaxLag = 0
  MaxFailures = 1
  MaxMishaps = 1
SPECIFICATION FairSpec
INVARIANTS OutboxInv DuplicatesExplained
PROPERTIES EventuallySettled ImplementsChannel
CHECK_DEADLOCK FALSE
