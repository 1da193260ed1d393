SPECIFICATION Spec
CONSTANTS
  WaitMaxTicks = 1
  MaxAttempts = 1
  PostNotifyAttempts = 1
  XidMod = 8
  MaxStarts = 2
  MaxNotes = 1
  StopOverlapsStart = FALSE
  ArmMayFail = TRUE
INVARIANTS
  TypeOK
  AnswerIsMine
  UpMeansConfigured
  DownMeansReleased
  OneInterruptRead
  IdsDistinguish
  LinkIsAnnounced
PROPERTIES
  OrderlyStopSilencesDevice
CHECK_DEADLOCK FALSE
