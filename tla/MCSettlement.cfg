SPECIFICATION MCSpec
CONSTANTS
  Lists = {l1, l2}
  Transactions <- MCTransactions
  MaxTransactions = 3
  MaxBatches = 2
  Runs = {r1, r2}
  Transfers = {t1, t2}
  Days = 2
  MaxPolls = 2
  Faults = TRUE
  AcceptsDoubleSet = TRUE
INVARIANTS TypeOK PaidOnce OneOwner FilesAccountedFor SettledWasAcknowledged MoneyConserved OwnMoneyOnly 
PROPERTIES BatchesAreDecided RunsEnd BatchesProgress
CHECK_DEADLOCK FALSE
