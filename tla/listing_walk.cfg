SPECIFICATION Spec
CONSTANTS
  w1 = w1
  w2 = w2
  i1 = i1
  i2 = i2
  i3 = i3
  a = a
  b = b
  Null = Null
  Writers <- MCWorkers
  Ids <- MCIds
  Details <- MCDetails
  Filters <- MCFilters
  Sizes = {0, 1, 2}
  LastInstant = 3
SYMMETRY Symmetry
INVARIANTS
  TypeOK
  WalkComplete
  RepeatsBounded
  TotalCurrent
  ListedAsAsked
