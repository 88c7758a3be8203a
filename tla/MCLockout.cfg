\* Two failed logins, the number that locks the account.
SPECIFICATION Spec
CONSTANTS
  p1 = p1
  p2 = p2
  s1 = s1
  s2 = s2
  a1 = a1
  k1 = k1
  k2 = k2
  v1 = v1
  r1 = r1
  r2 = r2
  None = None
  Account = Account
  Passwords = {p1, p2}
  FirstPassword = p1
  FirstHash = "current"
  Sessions = {s1, s2}
  OpenSessions = {s1}
  ApiTokens = {}
  OpenApiTokens = {}
  OpenTokens = {k1, v1}
  ResetTokens = {k1, k2}
  VerifyTokens = {v1}
  Requests = {r1, r2}
  MaxFailed = 2
  MaxChanges = 2
  MaxMisses = 2
INVARIANT LockoutTrips
CHECK_DEADLOCK FALSE
