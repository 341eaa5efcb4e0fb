SPECIFICATION Spec
CONSTANTS
  w1 = w1
  w2 = w2
  Workers <- MCWorkers
  Emails = {e1}
  Names = {n1}
  Numbers = {a1, a2}
  Amounts = {2, 5}
  Null = Null
  Principals = {TRUE}
  Quota <- TransferQuota
SYMMETRY Symmetry
INVARIANTS
  EntriesBacked
  AnswersHold
  DoubleEntry
PROPERTIES
  ImplementsJournal
  ImplementsBalanceSheet
  ImplementsFeed
