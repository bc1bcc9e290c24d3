SPECIFICATION Spec
CONSTANTS
  alice = alice
  bob = bob
  carol = carol
  r1 = r1
  r2 = r2
  r3 = r3
  User = {alice, bob, carol}
  Server = {s1, s2}
  Request = {r1, r2, r3}
  Kind <- AcceptAndWrite
  PageSize = 1
  ApplyLimit = 2
  PoolSize = 1
  MaxLogins <- OneLogin
  FaultKinds = {}
  MaxFaults = 0
  OldApplies <- MutualPending
  Nil = Nil
INVARIANTS
  ShownIsStored
  TextFromFriend
  NoticeReaches
PROPERTIES
  ImplementsFriendship
SYMMETRY ServerSymmetry
CHECK_DEADLOCK FALSE
