SPECIFICATION FairSpec
CONSTANTS
  Requests = {p1, p2}
  Streamed = {}
  Tunnels = {}
  Granted = 1
  MaxRequests = 1
  Chunks = 1
  BodyCap = 1
  OutCap = 1
  DownCap = 1
  MayClose = FALSE
  None = None
  p1 = p1
  p2 = p2
PROPERTY DrainCompletes
CHECK_DEADLOCK FALSE
