CONSTANTS
  x = x
  y = y
  z = z
  v = v
  c1 = c1
  c2 = c2
  h1 = h1
  h2 = h2
  h3 = h3
  r1 = r1
  r2 = r2
  a1 = a1
  None = None
  Plugins = {x, y, z}
  Unmet = {}
  Loops = {c1, c2}
  Handlers = {h1, h2}
  Bad = {}
  Requests = {r1}
  Admins = {a1}
  Stuck = {}
  Requires <- MCRequires
  Order <- MCOrder
  Id <- MCId
  Owner <- MCOwner
  Takes <- MCTakes
  Asks <- MCAsks
SPECIFICATION Spec
PROPERTIES InFlightDrained
CHECK_DEADLOCK FALSE
