SPECIFICATION FairSpec
CONSTANTS
  Requests = {r1, r2}
  Garbled = {r2}
  MaxRequests = 2
  Limit = 2
  MaxPings = 1
  MayClose = TRUE
  Outputs <- MCOutputs
  None = None
  r1 = r1
  r2 = r2
INVARIANT BeliefsTrue
PROPERTY Implements
PROPERTY TasksEnd
PROPERTY ProbesAnswered
CHECK_DEADLOCK FALSE
