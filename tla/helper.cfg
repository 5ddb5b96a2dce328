\* Long absences, crashes, failures and a clock that is set back a little.
SPECIFICATION Spec
CONSTANTS
  Interval = 2
  Overlap = 1
  MaxBack = 4
  Day = 4
  MaxTime = 8
  MaxEntries = 1
  MaxFaults = 1
  MaxCrashes = 1
  MaxJumps = 1
INVARIANTS
  NoSilentHole
  DateMeansProbed
  OncePerDate
