CONSTANTS
  t1 = t1
  t2 = t2
  p = p
  None = None
  Torn = Torn
  Tasks = {t1, t2}
  Peers = {p}
  Ttl = 2
  FetchTimeout = 1
  DiskFaults = TRUE
  MaxCards = 3
  MaxTime = 5
  MaxBoots = 2
SPECIFICATION Spec
INVARIANTS TypeOK
PROPERTIES FreshAddress OnlyAnswersReplace
CHECK_DEADLOCK FALSE
