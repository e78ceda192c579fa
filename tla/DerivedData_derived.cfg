SPECIFICATION Spec
CONSTANTS
  Requests = {r1, r2, r3}
  NoRequest = NoRequest
  MaxFrames = 2
  Window = 1
CHECK_DEADLOCK FALSE
CONSTRAINTS TwoWriters TwoAtTeardown
SYMMETRY Symmetry
INVARIANTS LeftoversOverlapTeardown GraphInv ContextFirst RestoredAsMeant
