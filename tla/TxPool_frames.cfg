SPECIFICATION FairSpec
CONSTANTS
  TX_SLOTS = 2
  Producers = {p1}
  Worker = worker
  NoThread = nobody
  Frames = {f1, f2}
  NoFrame = nothing
INVARIANTS
  SlotOwnership
  QueueNeverFull
PROPERTIES
  ImplementsFifo
  BufferComesBack
