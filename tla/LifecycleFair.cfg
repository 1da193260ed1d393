SPECIFICATION FairSpec
CONSTANTS
  WaitMaxTicks = 1
  MaxAttempts = 2
  PostNotifyAttempts = 1
  XidMod = 4
  MaxStarts = 1
  MaxNotes = 1
  StopOverlapsStart = FALSE
  ArmMayFail = FALSE
PROPERTIES
  KeepsListening
  HandlersReturn
  NeverGoesBack
CHECK_DEADLOCK FALSE
