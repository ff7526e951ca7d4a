CONSTANTS
  p = p
  q = q
  w1 = w1
  w2 = w2
  c1 = c1
  x = x
  y = y
  None = None
  Peers = {p, q}
  Aliases = {p}
  Plugins = {x, y}
  Watchers = {w1}
  Callers = {}
  Tracked = {}
  PeerCap = 3
  Flaky = TRUE
  MaxRounds = 2
  MaxCalls = 0
  MaxBoots = 2
  PluginOf <- MCPluginOf
  Watches <- MCWatches
SPECIFICATION FairSpec
PROPERTIES NoticedBelowCap 
CHECK_DEADLOCK FALSE
