SPECIFICATION FairSpec
CONSTANTS
  alice = alice
  bob = bob
  carol = carol
  r1 = r1
  r2 = r2
  r3 = r3
  User = {alice, bob}
  Server = {s1, s2}
  Request = {r1, r2}
  Kind <- AcceptAndApply
  PageSize = 1
  ApplyLimit = 2
  PoolSize = 1
  MaxLogins <- OneLogin
  FaultKinds = {"sql", "redis", "rpc"}
  MaxFaults = 1
  OldApplies <- OneApplied
  Nil = Nil
INVARIANTS
  StatusMatchesFriendship
PROPERTIES
  RequestAnswered
CHECK_DEADLOCK FALSE
