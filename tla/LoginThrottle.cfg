SPECIFICATION ThrottleSpec
CONSTANTS
  proxy1 = proxy1
  proxy2 = proxy2
  Client = {addr1}
  Forged = {addr2, junk}
  Junk = {junk}
  Proxies <- MCProxies
  Name = {n1, n2}
  Req = {r1, r2}
  None = None
  LoginWindow = 2
  RegisterWindow = 3
  UserLimit = 1
  IpLimit = 2
  RegisterLimit = 1
INVARIANTS RetryAfterHolds AttemptsBounded
PROPERTIES CountersEnd
