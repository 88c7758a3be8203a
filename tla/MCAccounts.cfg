\* Two requests, an open session and one to come, an API token to come; a
\* reset mail is out and a verification mail may follow.
SPECIFICATION Spec
CONSTANTS
  p1 = p1
  p2 = p2
  s1 = s1
  s2 = s2
  a1 = a1
  k1 = k1
  k2 = k2
  v1 = v1
  r1 = r1
  r2 = r2
  None = None
  Account = Account
  Passwords = {p1, p2}
  FirstPassword = p1
  FirstHash = "current"
  Sessions = {s1, s2}
  OpenSessions = {s1}
  ApiTokens = {a1}
  OpenApiTokens = {}
  OpenTokens = {k1}
  ResetTokens = {k1}
  VerifyTokens = {v1}
  Requests = {r1, r2}
  MaxFailed = 2
  MaxChanges = 2
  MaxMisses = 0
INVARIANTS TypeOK ChangeRevokesSessions DeadlocksNeedATouch
PROPERTY DeadIsFinal
SYMMETRY Symmetry
CHECK_DEADLOCK FALSE
