SPECIFICATION FairSpec
CONSTANTS
  Tasks = {t1}
  Workers = {w1}
  Blocking = FALSE
  Granted = 1
  Deaf = {w1}
  Faulty = {}
  Laggards = {}
  Uploads = TRUE
  DownCap = 2
  UpCap = 2
  t1 = t1
  w1 = w1
  None = None
PROPERTY BudgetEnforced
CHECK_DEADLOCK FALSE
