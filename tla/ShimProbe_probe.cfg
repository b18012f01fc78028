SPECIFICATION FairSpec
CONSTANTS
  WORKERS = 2
  TCP_WORKERS = 1
  ROUNDS = 2
  Sizes <- LongShort
  MaxDoubles = 1
CHECK_DEADLOCK FALSE
 
INVARIANT PassIsEarned
PROPERTY ProbeEnds
