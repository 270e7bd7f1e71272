SPECIFICATION FairSpec
CONSTANTS
  Requests = {r1, r2}
  Workers = {w1}
  Faulty = {}
  Granted = 2
  QueueMax = 2
  EventCap = 1
  WorkCap = 1
  StreamCap = 1
  Absent = Absent
  Unclaimed = Unclaimed
  None = None
PROPERTY SlotFreed
CHECK_DEADLOCK FALSE
