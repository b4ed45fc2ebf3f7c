CONSTANTS
  b1 = b1
  k1 = k1
  k2 = k2
  Browsers = {b1}
  Calls = {k1, k2}
  LockAt = 2
  MaxFaults = 1
  NoBrowser = NoBrowser
SPECIFICATION FairSpec
INVARIANTS
  LockedForCause
  TriedWhileLocked
  SignedInWithTokens
PROPERTIES
  NotThrownOut
  CallsEnd
