SPECIFICATION Spec
CONSTANTS
  Bundles = {b1}
  NoBundle = NoBundle
  NParts = 1
  TextTransport = TRUE
  LocalDays = 1
  DriveDays = 1
  BadReceipts = {}
  LateCopies = FALSE
  MaxDay = 1
  MaxFaults = 1
  MaxCrashes = 0
  MaxOutside = 0
CHECK_DEADLOCK FALSE
PROPERTIES HealthOkMeansIndexed
