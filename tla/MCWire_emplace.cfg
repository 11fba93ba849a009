CONSTANTS
  BUFSZ = 11
  Kinds = {"get"}
  PKT = 3
  HDR = 3
  EXTRAS = 2
  keysize = 2
  valsize = 2
  KEYLEN_MOD = 4
  BODYLEN_MOD = 12
  NReqs = 4
SPECIFICATION Spec
INVARIANT EmplacedIntact
CHECK_DEADLOCK FALSE
