SPECIFICATION ApiSpec
CONSTANTS
  u1 = u1
  e1 = e1
  Users <- MCUsers
  Employers <- MCEmployers
  PSPs <- MCPSPs
  Bootstrap <- MCBootstrap
  Keys = {k0, k1, k2}
  OpsKeys = {k0}
  Amounts <- MCAmounts
  Fees <- MCFees
  RequestAmounts <- MCRequestAmounts
  ManualEntries = {}
  MaxHolds = 0
  HoldTTL = 0
  Histories <- MCHistories
  MaxDecisions = 2
  MaxEvents = 1
INVARIANT EntryHasHold
CHECK_DEADLOCK FALSE
