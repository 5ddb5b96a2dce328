\* The main thread and two workers share three slots, one of which may be lost.
SPECIFICATION FairSpec
CONSTANTS
  Main = main
  Workers = {w1, w2}
  Callers = {main, w1, w2}
  Slots = 3
  MaxLost = 1
  Containers = {1, 2}
  MaxContainers = 2
  Repeat = 2
INVARIANTS
  SlotsAccounted
  OkMeansComplete
  StatesAreTold
PROPERTIES
  RefusalsHaveACause
  SlotsComeBack
  SampleEnds
