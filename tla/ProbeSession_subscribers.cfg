SPECIFICATION FairSpec
CONSTANTS
  f1 = f1  f2 = f2  s1 = s1  s2 = s2  None = None
  Fires = {f1, f2}
  Subs = {s1}
  Edges = 1
  ChanCap = 1
  Modes = {"simulate"}
  Drops = {FALSE}
  Teardown = TRUE
CHECK_DEADLOCK FALSE
INVARIANT ChannelsOpen
PROPERTY SubscriberEnds
