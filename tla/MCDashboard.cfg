SPECIFICATION MCSpec
CONSTANTS
  Platforms = {"win", "egs"}
  MaxVersion = 1
  PagePlatforms = {"win", "egs"}
  FirstReading <- MCFirstReading
  MaxStart = 2
  MaxReload = 1
  MaxAsked = 2
  Hooks = {"history", "activity"}
  r1 = r1
  r2 = r2
  r3 = r3
  Regions = {r1, r2, r3}
  RegionOrder <- MCRegionOrder
  Latencies = {50, 59, 110, 119}
  Concurrency = 2
  MarginMs = 12
  MarginRatio = 115
  MaxMounts = 2
  SitePlatforms = {"win", "egs"}
  DefaultPlatform = "win"
  MaxEntries = 2
  Tabs = {"t1", "t2"}
  Banners = {"registration"}
  Tags <- MCTags
  MaxChoices = 2
  CoveragePlatforms = {"win", "egs"}
  DefaultCoverage = "win"
CHECK_DEADLOCK FALSE
INVARIANTS
  BannerTellsTruth
  SettledIsCurrent
  LocatedBest
  LinkKeepsView
  CompleteHasFactor
PROPERTIES
  LiveCatchesUp
  PageComesToRest
  VisitorSignsIn
  BackShowsWhatWasLeft
  PageIsReached
  ChoiceComesBack
