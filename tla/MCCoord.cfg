CONSTANTS
  Cfgs <- MainCfgs
  WarmupCfg <- Warmup
  DEFAULT_SAMPLE_S = 2
  Latencies <- MainLatencies
  MayFail = TRUE
SPECIFICATION Spec
INVARIANTS TypeOK ResultComplete PercentilesBracketed FailsForAReason
PROPERTY CoordinatorEnds
CHECK_DEADLOCK FALSE
