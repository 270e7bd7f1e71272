SPECIFICATION PoolSpec
CONSTANTS
  Submitters = {c1, c2}
  Slots = {s1, s2, s3, s4}
  Fixed = FALSE
  MaxWorkers = 2
  Spare = 1
  Conc = 2
  Healthy = 1
  Period = 1
  WorkCap = 2
  StreakCap = 1
  Crashing = {s1, s2, s3, s4}
  Retire = Retire
  c1 = c1
  c2 = c2
  s1 = s1
  s2 = s2
  s3 = s3
  s4 = s4
SYMMETRY PoolSymmetry
INVARIANT ActiveIsSlots
INVARIANT FloorKept
