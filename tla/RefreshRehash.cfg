SPECIFICATION Spec
CONSTANTS
  User = {u1}
  Req = {r1, r2}
  Fam = {f1, f2}
  Jti = {j1, j2}
  None = None
  TTL = 2
  Leeway = 0
  MaxPw = 1
  Kinds = {"activate", "deactivate", "promote", "demote", "password", "delete", "remove"}
  Bcrypt = {u1}
SYMMETRY Symmetry
PROPERTIES PasswordChangeSticks
