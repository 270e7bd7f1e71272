SPECIFICATION FairSpec
CONSTANTS
  Requests = {p1, u1, t1}
  Streamed = {u1}
  Tunnels = {t1}
  Granted = 1
  MaxRequests = 2
  Chunks = 1
  BodyCap = 1
  OutCap = 1
  DownCap = 1
  MayClose = TRUE
  None = None
  p1 = p1
  u1 = u1
  t1 = t1
INVARIANT LedgersAgree
INVARIANT EndsOnce
PROPERTY EveryClaimEnds
CHECK_DEADLOCK FALSE
