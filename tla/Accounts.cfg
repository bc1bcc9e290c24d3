SPECIFICATION FairSpec
CONSTANTS
  r1 = r1
  r2 = r2
  m1 = m1
  m2 = m2
  n1 = n1
  n2 = n2
  p1 = p1
  p2 = p2
  Request = {r1, r2}
  Posts <- TwoClients
  Mail = {m1, m2}
  Name = {n1, n2}
  Pwd = {p1, p2}
  Code = {c1}
  Spelt <- SecondIsOne
  MaxFaults = 1
  None = None
INVARIANTS
  AnswerTrue
  LoginByPassword
PROPERTIES
  OnlyWithMailedCode
  RequestEnds
