CONSTANTS
  MAX_OUTSTANDING_REQS = 4
  CHARBUF_SIZE = 7
  Kinds = {"get"}
  ReqLen <- MemReqLen
  Bodies <- MemBodies
  HdrLen = 3
  BodyLenEnd = 2
  LowBytes <- Bits
  NReqs = 3
  SndBuf = 3
  SndLow = 1
  MayFail = FALSE
SPECIFICATION Spec
INVARIANT Framing
CHECK_DEADLOCK FALSE
