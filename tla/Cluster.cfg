SPECIFICATION FairSpec
CONSTANTS
  Client = {c1}
  ServerList <- TwoServers
  MaxFaults = 1
  s1 = s1
  s2 = s2
  Signalled = {s1}
  None = None
INVARIANTS
  StoppedIsUnlisted
PROPERTIES
  LeastLoaded
  CountCatchesUp
  StopEnds
