SPECIFICATION Spec
CONSTANTS
  c1 = c1  c2 = c2  a1 = a1  a2 = a2  NoAuth = NoAuth
  Captures = {c1, c2}
  Ingests = {c2}
  Auths = {a1, a2}
  MaxSessions = 1
CHECK_DEADLOCK FALSE
CONSTRAINTS OneEach OneLogout
INVARIANTS CaptureInv SlotsHaveHandlers SlotsWithinOverlap StoredDataIsOwned
 
