SPECIFICATION Spec
CONSTANTS
  p1 = p1  p2 = p2  w1 = w1  w2 = w2
  Pods = {p1, p2}
  Faults = {"upload", "complete", "abort"}
  Workers = {w1, w2}
  s3PartSize = 3
  maxFramesPerPod = 2
  MaxCaptureBytes = 4
  MaxChunks = 7
CHECK_DEADLOCK FALSE
INVARIANTS SinkInv TeardownSettlesUpload KeepsNewest
PROPERTY DoneMeansWholeObject
