SPECIFICATION FairPoolSpec
CONSTANTS
  Submitters = {c1, c2}
  Slots = {s1, s2}
  Fixed = TRUE
  MaxWorkers = 2
  Spare = 2
  Conc = 1
  Healthy = 1
  Period = 1
  WorkCap = 1
  StreakCap = 1
  Crashing = {s1, s2}
  Retire = Retire
  c1 = c1
  c2 = c2
  s1 = s1
  s2 = s2
PROPERTY Served
