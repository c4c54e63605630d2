SPECIFICATION TransferSpec
CONSTANTS
  u1 = u1
  p1 = p1
  topUpKey = k0
  Users <- MCUsers
  Employers = {}
  PSPs <- MCPSPs
  Bootstrap <- MCBootstrap
  Keys = {k0, k1, k2}
  Amounts = {20}
  Fees = {}
  ManualEntries <- TopUps
  MaxHolds = 2
  HoldTTL = 1
INVARIANT OneHoldPerTransfer
CHECK_DEADLOCK FALSE
