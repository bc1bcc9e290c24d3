SPECIFICATION FairSpec
CONSTANTS
  Server = {s1}
  User = {u1}
  Session = {x1, x2}
  FaultKinds = {"crash"}
  MaxFaults = 1
  MaxErrors <- OneBreaks
  Nil = Nil
  Orphan = Orphan
PROPERTIES
  LoginAnswered
  ClosedSessionLeaves
