CONSTANTS
  MAX_OUTSTANDING_REQS = 3
  CHARBUF_SIZE = 12
  Kinds = {"synthetic"}
  ReqLen <- SynReqLen
  Bodies <- SynBodies
  HdrLen = 2
  BodyLenEnd = 2
  LowBytes <- Bits
  NReqs = 3
  SndBuf = 3
  SndLow = 1
  MayFail = FALSE
SPECIFICATION FairSpec
PROPERTY EveryRequestSettled
CHECK_DEADLOCK FALSE
