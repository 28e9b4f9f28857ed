CONSTANTS
  Slots = {q1, q2}
  MaxTokens = 1
  MaxResets = 2
  Passwords = {p1, p2}
  Ops <- PasswordOps
  Codes = {}
  BatchSize = 1
  None = None
  MaxFailed = 2
  Lockout = 1
  SessionTtl = 1
  ChallengeTtl = 0
  ResetTtl = 1
  LoginMax = 2
  LoginWindow = 2
  Horizon = 2
SPECIFICATION FairSpec
INVARIANTS TypeOK LockoutExact OneOpenReset Throttled
PROPERTIES PasswordChanges RequestsEnd
ACTION_CONSTRAINT LateLogins
CHECK_DEADLOCK FALSE
