SPECIFICATION FairSpec
CONSTANTS
  RefreshTimes <- RefreshTimesOfTwo
  HubMin <- RefreshTime
  HubMax <- RefreshTimeAndAFifth
  Floor <- RefreshTime
  Ceiling <- RefreshTimeAndAFifth
  HardMin = 3
  Bootstrap = 3
  Count = 2
  MaxBackoff = 2
  PerSecond = 1
  MaxSleep = 9
  Day = 9
  LongAgo = 7
INVARIANTS
  AgentsSpaced
PROPERTIES
  GapWithinInterval
  RejectedOnlyWithCause
  CadenceLearnt
