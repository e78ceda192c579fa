SPECIFICATION FairSpec
CONSTANTS
  f1 = f1  f2 = f2  s1 = s1  s2 = s2  None = None
  Fires = {f1}
  Subs = {s1}
  Edges = 2
  ChanCap = 3
  Modes = {"simulate"}
  Drops = {FALSE}
  Teardown = TRUE
CHECK_DEADLOCK FALSE
PROPERTY FiredProbeIsPainted
