\* Two slots, room for a prototype and two workers beside one more process.
SPECIFICATION FairSpec
CONSTANTS
  Slots = {s1, s2}
  Pids = {p1, p2, p3, p4, p5}
  MaxToken = 6
  ControlCap = 2
  MaxFaults = 2
  Profiles <- MCProfiles
  ConcCap = 0
  DefaultCap = 3
  PidOne = FALSE
  None = None
  NoHello = NoHello
  BadHello = BadHello
  s1 = s1
  s2 = s2
  p1 = p1
  p2 = p2
  p3 = p3
  p4 = p4
  p5 = p5
CHECK_DEADLOCK FALSE
PROPERTY KillLands
