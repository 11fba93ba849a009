CONSTANTS
  Configs <- MainConfigs
  Gaps = {1}
  MAX_OUTSTANDING_REQS = 3
  MaxTime = 4
SPECIFICATION FairSpec
INVARIANTS
  TypeOK
  RefsAccounted
  NoUseAfterFree
  NothingDiscarded
  CancelsPendingOnly
  WindowCovers
  TimerPending
PROPERTIES
  ImplementsExperiment
  ExperimentEnds
CHECK_DEADLOCK FALSE
