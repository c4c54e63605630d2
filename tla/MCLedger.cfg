SPECIFICATION Spec
CONSTANTS
  u1 = u1
  e1 = e1
  p1 = p1
  Users <- MCUsers
  Employers <- MCEmployers
  PSPs <- MCPSPs
  Bootstrap <- MCBootstrap
  Keys = {k1, k2}
  Amounts = {20}
  Fees = {13, 30}
  ManualEntries <- MCManualEntries
  MaxHolds = 2
  HoldTTL = 1
INVARIANTS TypeOK ImbalanceIsManual AccountingEquation IdempotencyIndex HoldsBacked
PROPERTIES JournalAppendOnly HoldFinality HoldsResolve ImplementsBook
CHECK_DEADLOCK FALSE
