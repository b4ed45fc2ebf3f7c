CONSTANTS
  a1 = a1
  b1 = b1
  b2 = b2
  s1 = s1
  s2 = s2
  Agents = {a1}
  Beats = {b1, b2}
  Sweeps = {s1, s2}
  MaxBeats = 3
  MaxFaults = 2
  NoAgent = NoAgent
SPECIFICATION FairSpec
INVARIANTS
  OfflineMeansSilent
  OfflineToldOnce
  NoPhantomReturn
PROPERTY SilentGoesOffline
