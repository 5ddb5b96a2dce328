SPECIFICATION Spec
CONSTANTS
  Day = 2
  Hour = 0
  Overlap = 1
  Skew = 1
  Backfill = 3
  MaxDelay = 1
  MaxBuild = 1
  Slots = 2
  MaxTime = 5
  MaxRecords = 2
  MaxFaults = 1
  MaxCrashes = 1
  MaxJumps = 0
INVARIANTS TypeOK NothingMissed
CHECK_DEADLOCK FALSE
