SPECIFICATION FairSpec
CONSTANTS
  p1 = p1
  p2 = p2
  p3 = p3
  NoFrame = NoFrame
  NOutBufs = 2
  Packets <- MCPackets
  Oversize <- MCOversize
  MaxStarts = 2
  Faults = TRUE
INVARIANTS
  TypeOK
  FirstSessionKeepsFrames
  BuffersConserved
  NotStranded
PROPERTIES
  ImplementsPool
  FramesLeaveQueue
CHECK_DEADLOCK FALSE
