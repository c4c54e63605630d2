SPECIFICATION Spec
CONSTANTS
  k1 = k1
  k2 = k2
  Workers = {w1, w2}
  PSPs <- MCPSPs
  Supported <- MCSupported
  Routing <- MCRouting
  Payments <- CardAndWire
  MaxRetries = 2
  MaxCalls = 3
  Threshold = 2
  Window = 1
  Cooldown = 1
INVARIANTS TypeOK SuccessWasExecuted ChargesFollowRouting ClosedIsBelowThreshold
PROPERTIES OpenCircuitRests CallsReturn
CHECK_DEADLOCK FALSE
