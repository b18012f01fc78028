CONSTANTS
  Threads = {t1, t2}
  Fds = {f1, f2}
  LwFds = {l1, l2}
  NoFd = NoFd
  CallSets = {{"setopt", "accept", "select", "close", "bind", "bridge", "promote", "ftp", "title"},
    {"alone", "use", "close", "closeall", "bridge", "probe", "drain", "title"}}
  MaxSockets = 3
SPECIFICATION Spec
SYMMETRY Interchangeable
INVARIANTS
  BackingIsOwn
  CallReachesOwnSocket
  NoOrphanSocket
  HeldIsOpen
CHECK_DEADLOCK FALSE
