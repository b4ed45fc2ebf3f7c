CONSTANTS
  j1 = j1
  j2 = j2
  a1 = a1
  c1 = c1
  c2 = c2
  c3 = c3
  Jobs = {j1, j2}
  Agents = {a1}
  Target <- OneAgent
  WakeJobs = {j2}
  Conns = {c1, c2}
  Lanes <- AnyLane
  MaxFaults = 1
  NoJob = NoJob
  NoAgent = NoAgent
SPECIFICATION Spec
SYMMETRY ConnSymmetry
INVARIANTS
  HandedOutOnce
  ResultOfItsRun
  PendingIsUntouched
  NothingLost
  TrailIsComplete
  NewsIsTrue
PROPERTIES
  StatusMovesForward
  KeepsContract
