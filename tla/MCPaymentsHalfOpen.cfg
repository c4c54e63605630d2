SPECIFICATION Spec
CONSTANTS
  k1 = k1
  k2 = k2
  Workers = {w1}
  PSPs <- MCPSPs
  Supported <- MCSupported
  Routing <- MCRouting
  Payments <- OneCard
  MaxRetries = 3
  MaxCalls = 6
  Threshold = 5
  Window = 2
  Cooldown = 1
PROPERTY FailedTestReopens
CHECK_DEADLOCK FALSE
