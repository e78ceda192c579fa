SPECIFICATION FairSpec
CONSTANTS
  a1 = a1  a2 = a2  t1 = t1  c1 = c1  c2 = c2  r1 = r1  r2 = r2  None = None
  Sids = {a1, a2}
  Traces = {t1}
  Captures = {c1, c2}
  Requests = {r1, r2}
CHECK_DEADLOCK FALSE
CONSTRAINT SecondPosts
INVARIANTS TraceInv OneIngestPerEntry
PROPERTY StoppedCaptureEnds
