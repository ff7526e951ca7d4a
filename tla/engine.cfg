CONSTANTS
  t1 = t1
  t2 = t2
  t3 = t3
  None = None
  Tasks = {t1, t2, t3}
  Cancellable = {t1}
  Initial = "idle"
  States <- MCStates
  EventTypes <- MCEventTypes
  On <- OnEngine
  Shorthand <- NoShorthand
  Entry <- SomeEntry
  Keys <- MCKeys
  InitContext <- MCContext
  Excluded = {"note"}
  Fallbacks <- NoFallbacks
  OnExhaust = FALSE
  MaxRetries = 2
  Peers = {"up", "down"}
  Unreachable = {"down"}
  Faults = {"ActionError", "TypeError", "OtherError"}
  PersistOutcomes = {"written", "os_error", "unserialisable"}
  MaxArrivals = 4
  MaxBoots = 2
  MaxFrames = 1
SPECIFICATION Spec
INVARIANTS TypeOK LockDiscipline
PROPERTIES LegalMove SerialSpec
CHECK_DEADLOCK FALSE
