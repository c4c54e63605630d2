SPECIFICATION Spec
CONSTANTS
  u1 = u1
  e1 = e1
  p1 = p1
  Users <- MCUsers
  Employers <- MCEmployers
  PSPs <- MCPSPs
  Bootstrap <- MCBootstrap
  Keys = {k1, k2}
  Amounts = {20}
  Fees = {13}
  ManualEntries <- MCManualEntries
  MaxHolds = 0
  HoldTTL = 0
INVARIANT SystemBalance
CHECK_DEADLOCK FALSE
