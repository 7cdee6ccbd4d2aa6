SPECIFICATION MCSpec
CONSTANTS
  c1 = c1
  c2 = c2
  c3 = c3
  w1 = w1
  w2 = w2
  g1 = g1
  g2 = g2
  g3 = g3
  p1 = p1
  p2 = p2
  Clients = {c1, c2, c3}
  Writers = {w1, w2}
  Groups = {g1, g2, g3}
  Platforms = {p1, p2}
  PlatformOf <- MCPlatformOf
  Watched <- MCWatched
  MaxStreams = 1
  MaxChanges = 2
INVARIANTS
  NoLostUpdate
  NothingLeftBehind
PROPERTIES
  StreamsMoveForward
  AnnouncedShown
  SilentChangeShown
  SlotComesBack
