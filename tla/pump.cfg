SPECIFICATION FairSpec
CONSTANTS
  NEvents = 5
  Time <- MCTime
  Container <- MCContainer
  Routine = {1, 2, 4}
  Excluded = {5}
  Retained = 2
  Lookback = 1
  PendingLimit = 2
  SeenLimit = 2
  MaxCrashes = 1
  MaxErrors = 1
  MaxTight = 1
CHECK_DEADLOCK FALSE
INVARIANTS TypeOK NothingLost DuplicatesNeedFailures
PROPERTIES ReconnectLeavesNoHole PendingFlushed
