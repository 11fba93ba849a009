CONSTANTS
  MAX_OUTSTANDING_REQS = 4
  CHARBUF_SIZE = 6
  Kinds = {"get", "set"}
  ReqLen <- MemReqLen
  Bodies <- MemBodies
  HdrLen = 2
  BodyLenEnd = 1
  LowBytes <- Bits
  NReqs = 3
  SndBuf = 3
  SndLow = 1
  MayFail = FALSE
SPECIFICATION FairSpec
INVARIANTS NothingStranded Framing
PROPERTY EveryRequestSettled
CHECK_DEADLOCK FALSE
