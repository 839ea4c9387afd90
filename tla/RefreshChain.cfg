SPECIFICATION Spec
CONSTANTS
  User = {u1}
  Req = {r1, r2}
  Fam = {f1}
  Jti = {j1, j2, j3}
  None = None
  TTL = 2
  Leeway = 1
  MaxPw = 1
  Kinds = {"deactivate","activate"}
  Bcrypt = {u1}
SYMMETRY Symmetry
INVARIANTS OneHolder AtMostOneLateToken
PROPERTIES MintsFollowTheRow
