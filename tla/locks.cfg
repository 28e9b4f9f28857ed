SPECIFICATION Spec
CONSTANTS
  Switches = {s1, s2}
  Linked = {s1, s2}
  Owner = u1
  Delegates = {}
  TotpUsers = {u1}
  Clients = {c1, c2}
  Kinds = {"manual", "token", "link", "bulk", "cancel", "arm", "disarm", "delete", "issue", "duplicate", "grant", "vote", "test", "release", "remind", "deliver", "recover", "promote"}
  TimeSteps = 2
  LogBound = 1
  None = None
SYMMETRY Symmetry
INVARIANTS AuditLinear CirclesKnown
PROPERTIES SpentOnce ResetsLive
