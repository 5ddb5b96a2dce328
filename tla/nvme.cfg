\* Two drives that take turns behind a name, over a reboot, a midnight, a
\* fault and the end of the cache's age.
SPECIFICATION Spec
CONSTANTS
  Names = {n1}
  Coverage = coverage
  Devices = {1, 2}
  MaxAge = 0
  Day = 1
  MaxTime = 1
  MaxBoots = 2
  MaxFaults = 1
PROPERTIES
  SameDevice
  DailyWord
