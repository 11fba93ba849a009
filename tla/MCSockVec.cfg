CONSTANTS
  MAX_SGS = 2
  Lens = {2}
  NOps = 3
  SndBuf = 4
  SndLow = 1
  RcvTotal = 4
  MayFail = TRUE
SPECIFICATION Spec
INVARIANTS TypeOK ToldOnce RefsHeld NoLostWakeup
PROPERTY OperationsEnd
CHECK_DEADLOCK FALSE
