SPECIFICATION PoolFairSpec
CONSTANTS
  Proc = {p1, p2}
  Local = {p1}
  User = {u1, u2}
  Conn = {c1, c2, c3}
  MaxConn = 2
  LockTime = 3
  AcquireTime = 2
  Nil = Nil
INVARIANTS
  ExclusiveWithinTtl
PROPERTIES
  ImplementsLease
  AcquireReturns
  RestedIsReplaced
