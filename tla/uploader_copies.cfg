SPECIFICATION Spec
CONSTANTS
  Bundles = {b1, b2}
  NoBundle = NoBundle
  NParts = 1
  TextTransport = TRUE
  LocalDays = 1
  DriveDays = 2
  BadReceipts = {"invalid"}
  LateCopies = TRUE
  MaxDay = 2
  MaxFaults = 1
  MaxCrashes = 1
  MaxOutside = 1
CHECK_DEADLOCK FALSE
SYMMETRY Symmetry
CONSTRAINT Calm
INVARIANTS CopyRemains SentOnce
PROPERTIES HealthCoversOutbox RemovalsAreReviewed ListingIsHeeded
