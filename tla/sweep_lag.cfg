SPECIFICATION Spec
CONSTANTS
  Tasks = {t1, t2}
  Workers = {w1}
  Blocking = FALSE
  Granted = 2
  Deaf = {}
  Faulty = {}
  Laggards = {w1}
  Uploads = FALSE
  DownCap = 2
  UpCap = 2
  t1 = t1
  t2 = t2
  w1 = w1
  None = None
PROPERTY IdleSpared
CHECK_DEADLOCK FALSE
