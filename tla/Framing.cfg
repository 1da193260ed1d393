SPECIFICATION Spec
CONSTANTS
  HdrLen = 2
  OfsBase = 1
  EthMax = 2
  OutBufSize = 7
  InBufSize = 6
  Mps = 3
  CmdBufSize = 6
  MinResponse = 1
  LenPos = 2
  OffsetPos = 3
  QueryOffset = 3
  MacLen = 2
  FieldMax = 7
INVARIANTS
  TypeOK
  SubmissionsFit
  OrdinaryFramesSent
  AddressFromAnswer
  PayloadsInside
  ParseIsBounded
CHECK_DEADLOCK FALSE
