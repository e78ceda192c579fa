SPECIFICATION Spec
CONSTANTS
  f1 = f1  f2 = f2  s1 = s1  s2 = s2  None = None
  Fires = {f1}
  Subs = {s1}
  Edges = 3
  ChanCap = 2
  Modes = {"simulate", "capture"}
  Drops = {TRUE, FALSE}
  Teardown = TRUE
CHECK_DEADLOCK FALSE
INVARIANT PaintInv
PROPERTY FinishedIsFinal
