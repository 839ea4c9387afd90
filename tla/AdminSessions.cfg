SPECIFICATION AdminSpec
CONSTANTS
  User = {u1}
  Req = {r1, r2}
  Sid = {s1, s2}
  None = None
  Anon = Anon
  MaxAge = 3
  Idle = 2
SYMMETRY AdminSymmetry
INVARIANTS AbsoluteLifetime UsableIndexed SessionsEndedBeforeCommit
PROPERTIES DeadStaysDead ImplementsBook
