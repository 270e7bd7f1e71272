SPECIFICATION LongTasksSpec
CONSTANTS
  Submitters = {c1, c2}
  c2 = c2
  Slots = {s1, s2, s3}
  Fixed = FALSE
  MaxWorkers = 2
  Spare = 1
  Conc = 1
  Healthy = 1
  Period = 1
  WorkCap = 1
  StreakCap = 1
  Crashing = {}
  Retire = Retire
  c1 = c1
  s1 = s1
  s2 = s2
  s3 = s3
PROPERTY DemandMet
