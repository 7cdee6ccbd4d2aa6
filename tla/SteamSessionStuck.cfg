SPECIFICATION SteamFairSpec
CHECK_DEADLOCK FALSE
PROPERTY FailuresAreTransient
