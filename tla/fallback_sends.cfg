CONSTANTS
  t1 = t1
  t2 = t2
  t3 = t3
  None = None
  Tasks = {t1, t2}
  Cancellable = {}
  Initial = "idle"
  States <- MCStates
  EventTypes <- MCEventTypes
  On <- OnSend
  Shorthand <- AsString
  Entry <- NoEntry
  Keys <- MCKeys
  InitContext <- MCContext
  Excluded = {"note"}
  Fallbacks <- SendingFallback
  OnExhaust = FALSE
  MaxRetries = 2
  Peers = {"up", "down"}
  Unreachable = {"down"}
  Faults = {}
  PersistOutcomes = {"written"}
  MaxArrivals = 3
  MaxBoots = 1
  MaxFrames = 3
SPECIFICATION Spec
INVARIANTS FallbackNotNested
CHECK_DEADLOCK FALSE
