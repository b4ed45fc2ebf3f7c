CONSTANTS
  m1 = m1
  m2 = m2
  r1 = r1
  r2 = r2
  i1 = i1
  i2 = i2
  i3 = i3
  i4 = i4
  Machines = {m1, m2}
  Requests = {r1, r2}
  Ids = {i1, i2, i3, i4}
  Unwanted = {i1}
  MaxUses = 2
  MaxFaults = 2
  MayExpire = TRUE
  NoMachine = NoMachine
  NoId = NoId
  Torn = Torn
SPECIFICATION FairSpec
INVARIANTS
  OverrunBounded
  IdentityIsOwn
  RowsPaidFor
PROPERTIES
  ComesBackUnlessTorn
CHECK_DEADLOCK FALSE
