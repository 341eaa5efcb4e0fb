SPECIFICATION Spec
CONSTANTS
  w1 = w1
  w2 = w2
  Workers <- MCWorkers
  Emails = {e1}
  Names = {n1}
  Numbers = {a1}
  Amounts = {5}
  Null = Null
  Principals = {TRUE}
  Quota <- EmailQuota
SYMMETRY Symmetry
INVARIANTS
  EmailsUnique
