SPECIFICATION FairSpec
CONSTANTS
  Clients = {c1, c2, c3}
  Listeners = {l1, l2}
  MaxConn = 2
  MaxExtra = 1
  MaxFails = 1
  Home <- MCHome
  None = None
  c1 = c1
  c2 = c2
  c3 = c3
  l1 = l1
  l2 = l2
INVARIANT DrainIsHonest
PROPERTY WaitsOnlyAtCap
PROPERTY ShutdownMoves
CHECK_DEADLOCK FALSE
