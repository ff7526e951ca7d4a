CONSTANTS
  x = x
  y = y
  z = z
  v = v
  c1 = c1
  c2 = c2
  h1 = h1
  h2 = h2
  h3 = h3
  r1 = r1
  r2 = r2
  a1 = a1
  None = None
  Plugins = {x, y, z, v}
  Unmet = {}
  Loops = {c1}
  Handlers = {h1, h2, h3}
  Bad = {h3}
  Requests = {r1, r2}
  Admins = {a1}
  Stuck = {x, z}
  Requires <- MCRequires
  Order <- MCOrder
  Id <- MCId
  Owner <- MCOwner
  Takes <- MCTakes
  Asks <- MCAsks
SPECIFICATION FairSpec
INVARIANTS TypeOK FanOut TornDown Quiet
PROPERTIES ShutdownCompletes Answered
CHECK_DEADLOCK FALSE
