SPECIFICATION Spec
CONSTANTS
  Requests = {r1}
  Workers = {w1}
  Faulty = {}
  Granted = 1
  QueueMax = 1
  EventCap = 1
  WorkCap = 1
  StreamCap = 1
  Absent = Absent
  Unclaimed = Unclaimed
  None = None
INVARIANTS LossIsReported
CHECK_DEADLOCK FALSE
