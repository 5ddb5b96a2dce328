SPECIFICATION Spec
CONSTANTS
  Bundles = {b1}
  NoBundle = NoBundle
  NParts = 1
  TextTransport = TRUE
  LocalDays = 1
  DriveDays = 1
  BadReceipts = {}
  LateCopies = FALSE
  MaxDay = 1
  MaxFaults = 0
  MaxCrashes = 0
  MaxOutside = 1
CHECK_DEADLOCK FALSE
PROPERTIES DeletedFilesUnchanged
