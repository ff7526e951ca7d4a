CONSTANTS
  t1 = t1
  t2 = t2
  t3 = t3
  None = None
  Tasks = {t1, t2}
  Cancellable = {}
  Initial = "idle"
  States <- MCStates
  EventTypes <- MCEventTypes
  On <- OnSend
  Shorthand <- AsString
  Entry <- NoEntry
  Keys <- MCKeys
  InitContext <- MCContext
  Excluded = {"note"}
  Fallbacks <- NoFallbacks
  OnExhaust = TRUE
  MaxRetries = 2
  Peers = {"up", "down"}
  Unreachable = {"down"}
  Faults = {}
  PersistOutcomes = {"written"}
  MaxArrivals = 3
  MaxBoots = 1
  MaxFrames = 1
SPECIFICATION FairSpec
PROPERTIES EventsSettled
CHECK_DEADLOCK FALSE
