SPECIFICATION FairSpec
CONSTANTS
  NInBufs = 2
  PoolCapacity = 2
  MaxBatch = 2
  MaxFrames = 2
  MaxStarts = 2
  Faults = TRUE
  NoBuffer = NoBuffer
INVARIANTS
  TypeOK
  EachBufferInOnePlace
  PacketsConserved
  QueuedFramesAnnounced
PROPERTIES
  ImplementsFlow
  FramesLeaveDriver
CHECK_DEADLOCK FALSE
