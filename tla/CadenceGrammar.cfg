SPECIFICATION MCSpec
CONSTANTS
  MaxBuild = 3
  Wordings <- SomeWordings
  RefreshTexts <- SomeRefreshTexts
INVARIANT RefusesGarbled
