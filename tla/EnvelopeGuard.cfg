CONSTANTS
  e1 = e1
  e2 = e2
  c1 = c1
  c2 = c2
  c3 = c3
  Envelopes = {e1, e2}
  Whole = {e2}
  Orphans = {}
  Copies = {c1, c2, c3}
  Window = 2
  Lag = 1
  Lead = 1
  MaxStall = 1
  MaxTime = 8
  MaxFaults = 1
  NoEnvelope = NoEnvelope
SPECIFICATION Spec
SYMMETRY Symmetry
INVARIANTS
  AcceptedOnce
  HeardAtLeastOnce
CHECK_DEADLOCK FALSE
