CONSTANTS
  Callers = {c1}
  Pbufs = {p1, p2, p3}
  MboxSize = 2
  RecvMboxSize = 1
  Period = 2
  Timeout = 2
  Off = Off
SPECIFICATION Spec
INVARIANTS NothingLeaks
PROPERTIES TimersRun WaitEnds ShutdownStops
