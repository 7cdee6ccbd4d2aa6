SPECIFICATION MCSpec
CONSTANTS
  MaxBuild = 3
  Wordings <- SomeWordings
  RefreshTexts <- SomeRefreshTexts
INVARIANTS
  LoggedOffOnceStopped
  BoundMeansWhatItSays
PROPERTIES
  TriesBuildsOnce
  Recovers
  StopsOnSignal
  ServesAgain
