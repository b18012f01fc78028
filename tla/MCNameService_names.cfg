CONSTANTS
  Threads = {t1, t2}
  Addrs = {a1, a2, a3}
  Hosts = {h1, h2}
  Ports = {p1, p2}
  Ids = {i1, i2}
  NoThread = NoThread
  NoAddr = NoAddr
  NoHost = NoHost
  NoPort = NoPort
  NoId = NoId
  CallSets = {{}, {"getaddrinfo", "freeaddrinfo"}, {"gethostbyaddr"}, {"gethostbyname"}}
  AI_OWNED_MAX = 2
  DNS_MAX_SERVERS = 2
  MaxNodes = 2
  MaxAnswers = 2
  MaxTitles = 1
  LABELS = 3
  JUMPS = 1
  LABEL_MAX = 63
SPECIFICATION MCSpec
SYMMETRY Interchangeable
INVARIANTS FreedByItsHeap PtrAnswerIsOwn NamesAgree
