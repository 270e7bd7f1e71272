SPECIFICATION Spec
CONSTANTS
  Tasks = {t1, t2}
  Workers = {w1, w2}
  Blocking = FALSE
  Granted = 2
  Deaf = {w1}
  Faulty = {w2}
  Laggards = {w1}
  Uploads = TRUE
  DownCap = 2
  UpCap = 2
  t1 = t1
  t2 = t2
  w1 = w1
  w2 = w2
  None = None
SYMMETRY TaskSymmetry
INVARIANT CooperativeSurvives
INVARIANT NoForgedReprieve
CHECK_DEADLOCK FALSE
