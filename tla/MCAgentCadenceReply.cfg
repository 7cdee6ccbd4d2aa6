SPECIFICATION Spec
CONSTANTS
  RefreshTimes <- RefreshTimesOfOne
  HubMin <- RefreshTime
  HubMax <- RefreshTimeAndAThird
  Floor <- RefreshTime
  Ceiling <- RefreshTimeAndAThird
  HardMin = 6
  Bootstrap = 6
  Count = 1
  MaxBackoff = 2
  PerSecond = 1
  MaxSleep = 15
  Day = 42
  LongAgo = 10
INVARIANT
  NeverFalseTrips
