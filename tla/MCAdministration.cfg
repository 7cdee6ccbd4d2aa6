SPECIFICATION MCSpec
CONSTANTS
  h1 = h1
  h2 = h2
  t1 = t1
  t2 = t2
  tf = tf
  tm = tm
  ra = ra
  rb = rb
  win = win
  c0 = c0
  c1 = c1
  p1 = p1
  None = None
  UnknownRegion = nowhere
  RequestIds = {h1, h2}
  Tokens = {t1, t2, tf, tm}
  Minted = {t1, t2}
  Regions = {ra, rb}
  Platforms = {win}
  Cadences = {c0, c1}
  NoOverride = c0
  Provisions = {p1}
  Patches <- MCPatches
  Files <- MCFiles
  Manifest <- MCManifest
  MaxAgents = 2
  MaxWrites = 4
  CallIds = {h1, h2}
  MaxUsers = 3
  Bodies <- MCBodies
  admin = admin
  MfaRoles = {admin}
  Buttons = {h1, h2}
  MaxChanges = 2
  MaxLoads = 2
  Tabs = {h1, h2}
  MaxSecrets = 2
  MaxPasskeys = 2
CHECK_DEADLOCK FALSE
SYMMETRY HandlerSymmetry
INVARIANTS
  StaleOnlyWithCause
  AdminRemainsUnlessRaced
  ListsShowOwnActions
  RolesAsClicked
  PhoneHasSecret
PROPERTIES
  RevokedWhenAnswered
  TokenStaysUntilRead
  LastFactorStays
