SPECIFICATION MCSpec
CONSTANTS
  LedgerLists <- MCLedgerLists
  PspLists <- MCPspLists
  BankLists <- MCBankLists
  Runs = {r1, r2}
  Nights <- MCNights
  Deposits <- MCDeposits
  Faults = TRUE
INVARIANTS PairedOnce CountsAddUp ExactIsBest ReportsAreComplete FetchedAccountedFor
PROPERTIES JobRunsEnd
CHECK_DEADLOCK FALSE
