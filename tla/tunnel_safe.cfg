SPECIFICATION TunnelSpec
CONSTANTS
  Requests = {t1, t2}
  Streamed = {}
  Tunnels = {t1, t2}
  Granted = 2
  MaxRequests = 0
  Chunks = 1
  BodyCap = 1
  OutCap = 1
  DownCap = 1
  MayClose = TRUE
  MaxMsgs = 2
  Batch = 1
  EventCap = 1
  None = None
  t1 = t1
  t2 = t2
SYMMETRY TunnelSymmetry
INVARIANT NothingLost
PROPERTY EchoSafety
CHECK_DEADLOCK FALSE
