CONSTANTS
  p = p
  q = q
  w1 = w1
  w2 = w2
  c1 = c1
  x = x
  y = y
  None = None
  Peers = {p, q}
  Aliases = {p}
  Plugins = {x, y}
  Watchers = {w1}
  Callers = {c1}
  Tracked = {c1}
  PeerCap = 1
  Flaky = TRUE
  MaxRounds = 2
  MaxCalls = 1
  MaxBoots = 1
  PluginOf <- MCPluginOf
  Watches <- MCWatches
SPECIFICATION Spec
INVARIANTS TypeOK FreshGuard AnnouncedVisible
PROPERTIES AtMostOnce
CHECK_DEADLOCK FALSE
