CONSTANTS
  Kinds = {"relay", "wiiload"}
  BufLen = 2
  Window = 1
  MaxIterations = 2
  MaxBytes = 2
  MaxConns = 2
SPECIFICATION Spec
INVARIANTS
  StreamIntact
PROPERTIES
  HalfCloseReaches
  StopEnds
CHECK_DEADLOCK FALSE
