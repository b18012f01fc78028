SPECIFICATION FairSpec
CONSTANTS
  Threads = {t1, t2}
  t1 = t1
  t2 = t2
  Names = {n1, n2, n3}
  n1 = n1
  n2 = n2
  n3 = n3
  Numeric = {n3}
  NoName = NoName
  ASYNC_DNS_MAX = 2
  DNS_TABLE_SIZE = 2
  MaxTickets = 3
  MaxTitles = 1
CHECK_DEADLOCK FALSE
INVARIANT PendingIsAwaited
PROPERTY AnswerIsOwn
PROPERTY PendingEnds
