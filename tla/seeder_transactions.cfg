SPECIFICATION FairSpec
CONSTANTS
  chk = chk
  card = card
  Null = Null
  External = External
  FirstDay <- MCFirstDay
  Start = 3
  End = 24
  SampleBound = 2
  Half = 64
  Profiles <- MCProfiles
INVARIANTS
  TypeOK
  BalancesFollowLedger
  AmountsFit
  SettledInFull
  InDateOrder
  OneTimeOnce
  InstallmentsKept
  RefundsBacked
  RulesInSeason
  PartsFallShort
PROPERTIES
  Terminates
  StepsForward
CHECK_DEADLOCK FALSE
