SPECIFICATION FairSpec
CONSTANTS
  Requests = {u1, t1}
  Streamed = {u1}
  Tunnels = {t1}
  Granted = 2
  MaxRequests = 0
  Chunks = 2
  BodyCap = 1
  OutCap = 1
  DownCap = 1
  MayClose = TRUE
  None = None
  u1 = u1
  t1 = t1
PROPERTY HandlersFinish
CHECK_DEADLOCK FALSE
