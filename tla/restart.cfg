CONSTANTS
  t1 = t1
  t2 = t2
  t3 = t3
  None = None
  Tasks = {t1, t2}
  Cancellable = {}
  Initial = "idle"
  States <- MCStates
  EventTypes <- MCEventTypes
  On <- OnEngine
  Shorthand <- NoShorthand
  Entry <- NoEntry
  Keys <- MCKeys
  InitContext <- MCContext
  Excluded = {"note"}
  Fallbacks <- NoFallbacks
  OnExhaust = FALSE
  MaxRetries = 2
  Peers = {"up", "down"}
  Unreachable = {"down"}
  Faults = {}
  PersistOutcomes = {"written"}
  MaxArrivals = 3
  MaxBoots = 2
  MaxFrames = 1
SPECIFICATION Spec
PROPERTIES RestoredOnStartup
CHECK_DEADLOCK FALSE
