SPECIFICATION FairSpec
CONSTANTS
  RX_ASYNC_SLOTS = 3
  Shapes <- MixedShapes
  Media = {1000}
  MaxWire = 3
  FailPoints = {"rearm"}
  MaxFails = 1
INVARIANT OneOwnerPerBuffer
INVARIANT NoLostWakeup
PROPERTY FramesArrive
PROPERTY ImplementsFifo
PROPERTY CompletionConsumed
