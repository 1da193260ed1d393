SPECIFICATION Spec
CONSTANTS
  WaitMaxTicks = 1
  MaxAttempts = 2
  PostNotifyAttempts = 1
  XidMod = 16
  MaxStarts = 1
  MaxNotes = 1
  StopOverlapsStart = FALSE
  ArmMayFail = FALSE
INVARIANTS
  ListeningWhileUp
CHECK_DEADLOCK FALSE
