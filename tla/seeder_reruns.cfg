SPECIFICATION Spec
CONSTANTS
  Instances = 2
  Accounts <- MCAccounts
  Numbers = {n1, n2, n3}
  CleanSettings = {TRUE, FALSE}
  MaxRuns = 4
  MaxTxns = 2
INVARIANTS
  TypeOK
  SeededOnce
  CompletedWhole
PROPERTIES
  ImplementsSeeding
CHECK_DEADLOCK FALSE
