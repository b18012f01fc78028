CONSTANTS
  Threads = {t1, t2}
  Fds = {f1, f2, f3, f4}
  NoFd = NoFd
  NSSL_RELAY_MAX = 2
  MaxSockets = 2
  Calls = {"destroy", "close", "closeall", "finish", "end"}
SPECIFICATION Spec
ACTION_CONSTRAINT Small
INVARIANT SlotServesOne
PROPERTIES
  NoneLost
  
CHECK_DEADLOCK FALSE
