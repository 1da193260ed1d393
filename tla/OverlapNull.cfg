SPECIFICATION Spec
CONSTANTS
  WaitMaxTicks = 1
  MaxAttempts = 2
  PostNotifyAttempts = 1
  XidMod = 16
  MaxStarts = 1
  MaxNotes = 1
  StopOverlapsStart = TRUE
  ArmMayFail = FALSE
INVARIANTS
  NoNullDereference
CHECK_DEADLOCK FALSE
