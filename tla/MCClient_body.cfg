CONSTANTS
  Configs <- BodyConfigs
  Gaps = {1}
  MAX_OUTSTANDING_REQS = 3
  MaxTime = 4
SPECIFICATION Spec
INVARIANT CancelsPendingOnly
CHECK_DEADLOCK FALSE
