SPECIFICATION MCSpec
CONSTANTS
  a1 = a1
  g1 = g1
  win = win
  q1 = q1
  q2 = q2
  v1 = v1
  v2 = v2
  Agents = {a1}
  NoAgent = nobody
  Groups = {g1}
  Platforms = {win}
  PlatformOf <- MCPlatformOf
  Values = {v1, v2}
  RefreshTimes = {7}
  RequestIds = {q1, q2}
  Reports <- MCReports
  MaxSkew = 1
  MaxAge = 1
  Retention = 1
  MaxTime = 2
  k1 = k1
  k2 = k2
  Keys = {k1, k2}
  PendingIds = {q1, q2}
  Gaps = {1, 3}
  MaxKeys = 1
  LastReportTTL = 2
  MaxClock = 4
SYMMETRY MCSymmetry
INVARIANTS
  QuietRestartInvisible
  NothingRecordedTwice
  AnnouncedWhenQuiet
PROPERTIES
  KeepsPromise
  ReportsSpaced
