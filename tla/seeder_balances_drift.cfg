SPECIFICATION Spec
CONSTANTS
  chk = chk
  card = card
  Null = Null
  External = External
  FirstDay <- MCFirstDay
  Start = 3
  End = 24
  SampleBound = 2
  Half = 64
  Profiles <- MCProfiles
INVARIANTS
  BalancesTrackLedger
CHECK_DEADLOCK FALSE
