SPECIFICATION FairSpec
CONSTANTS
  Bundles = {b1}
  NoBundle = NoBundle
  NParts = 2
  TextTransport = TRUE
  LocalDays = 1
  DriveDays = 2
  BadReceipts = {"oversized", "malformed"}
  LateCopies = FALSE
  MaxDay = 2
  MaxFaults = 2
  MaxCrashes = 1
  MaxOutside = 0
CHECK_DEADLOCK FALSE
INVARIANTS TypeOK LocalMarkersHaveArchives DriveMarkersHaveArchives IndexComplete RetiredCompletely
PROPERTIES ImplementsLifecycle Delivered Retired
