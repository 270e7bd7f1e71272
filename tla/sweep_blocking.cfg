SPECIFICATION FairSpec
CONSTANTS
  Tasks = {t1, t2}
  Workers = {w1, w2}
  Blocking = TRUE
  Granted = 1
  Deaf = {w1}
  Faulty = {}
  Laggards = {w2}
  Uploads = FALSE
  DownCap = 2
  UpCap = 2
  t1 = t1
  t2 = t2
  w1 = w1
  w2 = w2
  None = None
PROPERTY BudgetEnforced
CHECK_DEADLOCK FALSE
