CONSTANTS
  p = p
  q = q
  w1 = w1
  w2 = w2
  c1 = c1
  x = x
  y = y
  None = None
  Peers = {p}
  Aliases = {p}
  Plugins = {x, y}
  Watchers = {w1}
  Callers = {c1}
  Tracked = {}
  PeerCap = 1
  Flaky = TRUE
  MaxRounds = 2
  MaxCalls = 1
  MaxBoots = 1
  PluginOf <- MCPluginOf
  Watches <- MCWatches
SPECIFICATION Spec
INVARIANTS FreshGuard
CHECK_DEADLOCK FALSE
