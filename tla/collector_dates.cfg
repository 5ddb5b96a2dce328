SPECIFICATION FairSpec
CONSTANTS
  Day = 2
  Hour = 1
  Overlap = 1
  Skew = 1
  Backfill = 3
  MaxDelay = 1
  MaxBuild = 1
  Slots = 3
  MaxTime = 3
  MaxRecords = 0
  MaxFaults = 1
  MaxCrashes = 1
  MaxJumps = 2
INVARIANTS
  OncePerDate
PROPERTIES EveryDateDone
CHECK_DEADLOCK FALSE
