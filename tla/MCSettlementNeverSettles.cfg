SPECIFICATION Spec
CONSTANTS
  Runs = {r1, r2}
  Transfers = {t1, t2}
  Days = 2
  MaxPolls = 2
  Faults = FALSE
  AcceptsDoubleSet = FALSE
PROPERTY AcknowledgedIsSettled
CHECK_DEADLOCK FALSE
