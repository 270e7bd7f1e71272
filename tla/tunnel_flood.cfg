SPECIFICATION TunnelFairSpec
CONSTANTS
  Requests = {t1}
  Streamed = {}
  Tunnels = {t1}
  Granted = 1
  MaxRequests = 0
  Chunks = 1
  BodyCap = 1
  OutCap = 1
  DownCap = 1
  MayClose = FALSE
  MaxMsgs = 8
  Batch = 2
  EventCap = 1
  None = None
  t1 = t1
PROPERTY SilenceEnds
CHECK_DEADLOCK FALSE
