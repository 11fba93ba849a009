CONSTANTS
  MAX_OUTSTANDING_REQS = 4
  CHARBUF_SIZE = 5
  Kinds = {"synthetic"}
  ReqLen <- SynReqLen
  Bodies <- SynBodies
  HdrLen = 2
  BodyLenEnd = 2
  LowBytes <- Bits
  NReqs = 5
  SndBuf = 3
  SndLow = 1
  MayFail = TRUE
SPECIFICATION Spec
INVARIANTS TypeOK SentOnTime NoInternalError NoLostWakeup
PROPERTY ImplementsPipe
CHECK_DEADLOCK FALSE
