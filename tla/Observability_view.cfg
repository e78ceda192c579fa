SPECIFICATION Spec
CONSTANTS
  Tracked <- MCTracked
  Packets <- MCPackets
  Gap = 60
  MaxPackets = 4
  MaxEvents = 3
  MaxNodes = 3
  MaxEdges = 2
  MaxSteps = 2
INVARIANTS ViewIsClosed EdgesAccount LanesKeepTheirPackets HandshakesOrderFree
CHECK_DEADLOCK FALSE
