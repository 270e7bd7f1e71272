SPECIFICATION Spec
CONSTANTS
  Requests = {r1, r2}
  Workers = {w1, w2}
  Faulty = {w2}
  Granted = 1
  QueueMax = 1
  EventCap = 1
  WorkCap = 1
  StreamCap = 1
  Absent = Absent
  Unclaimed = Unclaimed
  None = None
INVARIANT SlotLedger
INVARIANT InFlightExact
INVARIANT GrantRespected
INVARIANT OneAnswerer
INVARIANT BoundedBacklog
INVARIANT NoUnjustKill
PROPERTY OwnerEndsTask
CHECK_DEADLOCK FALSE
SYMMETRY RequestSymmetry
