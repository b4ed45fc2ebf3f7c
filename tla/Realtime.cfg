CONSTANTS
  s1 = s1
  s2 = s2
  o1 = o1
  o2 = o2
  a1 = a1
  a2 = a2
  Sockets = {s1, s2}
  Orgs = {o1, o2}
  Agents = {a1, a2}
  MaxAttempts = 2
  MaxWire = 2
  MaxFaults = 1
  NoSocket = NoSocket
  NoOrg = NoOrg
  NoAgent = NoAgent
SPECIFICATION FairSpec
INVARIANTS
  TypeOK
  NoOtherSession
  NoGhostSubscription
  GaugeExact
PROPERTIES
  ConnectsUnlessGivenUp
