SPECIFICATION FairSpec
CONSTANTS
  a = a  b = b  p1 = p1  p2 = p2  n1 = n1  n2 = n2  None = None
  Streams = {a, b}
  Ports = {p1, p2}
  Names = {n1, n2}
  Hashes <- AllHashes
  Faults = {"resolve", "create", "delete", "crash"}
  RefreshCap = 1
  MaxChanges <- ChangesOfA
CHECK_DEADLOCK FALSE
INVARIANTS EngineInv SensorHasStream MixOnlyWhileStopping
PROPERTIES SensorGoes ChangesAreTracked
