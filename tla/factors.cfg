CONSTANTS
  Slots = {q1, q2}
  MaxTokens = 3
  MaxResets = 0
  Passwords = {p1}
  Ops <- FactorOps
  Codes = {c1, c2}
  BatchSize = 1
  None = None
  MaxFailed = 2
  Lockout = 1
  SessionTtl = 2
  ChallengeTtl = 0
  ResetTtl = 1
  LoginMax = 2
  LoginWindow = 1
  Horizon = 0
SPECIFICATION Spec
INVARIANTS RecoveryOnce
PROPERTIES FactorFirst
SYMMETRY Symmetric
CHECK_DEADLOCK FALSE
