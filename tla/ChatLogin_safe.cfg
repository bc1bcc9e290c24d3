SPECIFICATION Spec
CONSTANTS
  Server = {s1, s2}
  User = {u1}
  Session = {x1, x2}
  FaultKinds = {"ttl", "timeout", "redis", "rpc", "crash"}
  MaxFaults = 1
  MaxErrors <- OneBreaks
  Nil = Nil
  Orphan = Orphan
SYMMETRY Symmetry
VIEW LoginView
INVARIANTS
  MutualExclusion
  SingleLogin
  RedisPairAgrees
  LiveLoginIsRoutable
PROPERTIES
  RemovalUnbinds
