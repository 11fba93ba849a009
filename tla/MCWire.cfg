CONSTANTS
  BUFSZ = 13
  Kinds = {"synthetic", "get", "set", "load"}
  PKT = 3
  HDR = 3
  EXTRAS = 2
  keysize = 5
  valsize = 2
  KEYLEN_MOD = 4
  BODYLEN_MOD = 14
  NReqs = 4
SPECIFICATION Spec
INVARIANTS TypeOK DamageConfined FramesAddUp
CHECK_DEADLOCK FALSE
