SPECIFICATION FairSpec
CONSTANTS
  w1 = w1
  w2 = w2
  Workers <- MCWorkers
  Emails = {e1}
  Names = {n1, n2}
  Numbers = {a1}
  Amounts = {5}
  Null = Null
  Principals = {TRUE, FALSE}
  Quota <- EachQuota
PROPERTIES
  Answered
