CONSTANTS
  j1 = j1
  j2 = j2
  a1 = a1
  c1 = c1
  c2 = c2
  c3 = c3
  Jobs = {j1, j2}
  Agents = {a1}
  Target <- OneAgent
  WakeJobs = {}
  Conns = {c1, c2, c3}
  Lanes <- OwnLanes
  MaxFaults = 0
  NoJob = NoJob
  NoAgent = NoAgent
SPECIFICATION FairSpec
PROPERTY EveryJobFinishes
