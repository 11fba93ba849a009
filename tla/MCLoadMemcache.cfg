CONSTANTS
  ToLoad = 14
  StartId = 3
  Batch = 7
  NotifyArg = 3
  WORD = 32
SPECIFICATION FairSpec
INVARIANTS
  TypeOK
  WindowKept
  NeverStalls
  DoneMeansServed
PROPERTY Finishes
CHECK_DEADLOCK FALSE
