CONSTANTS
  NReplicas = 2
  Requests = {q1}
  FailureThreshold = 2
  RecoveryThreshold = 2
  Period = 2
  MaxStops = 2
  MaxMishaps = 1
SPECIFICATION PoolFairSpec
PROPERTIES Hysteresis RequestEnds PoolRecovers
