SPECIFICATION FairSpec
CONSTANTS
  RingCap = 3
  ProcBufSize = 4
  HookCopies = 2
  Mtus = {0, 4, 5}
  MaxBytes = 4
  MaxLinks = 2
  MaxShortages = 1
CHECK_DEADLOCK FALSE
INVARIANTS
  TypeOK
  NoLostWakeup
  InOrderOnce
  CleanStream
  BytesAccounted
PROPERTIES
  RingEmpties
