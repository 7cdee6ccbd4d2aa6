SPECIFICATION Spec
CONSTANTS
  h1 = h1
  h2 = h2
  t1 = t1
  t2 = t2
  tf = tf
  tm = tm
  ra = ra
  rb = rb
  win = win
  c0 = c0
  c1 = c1
  p1 = p1
  None = None
  UnknownRegion = nowhere
  RequestIds = {h1, h2}
  Tokens = {t1, t2, tf, tm}
  Minted = {t1, t2}
  Regions = {ra, rb}
  Platforms = {win}
  Cadences = {c0, c1}
  NoOverride = c0
  Provisions = {p1}
  Patches <- MCDisable
  Files = {}
  Manifest <- MCNoManifest
  MaxAgents = 1
  MaxWrites = 3
INVARIANT RegistryFollowsTable
