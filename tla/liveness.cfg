SPECIFICATION FairSpec
CONSTANTS
  Switches = {s1}
  Recipients = {r1}
  Workers = {w1}
  Slots = {q1}
  Ops = {"check-in", "remove-recipient"}
  Faults = {"throw"}
  None = None
  Horizon = 5
  Interval = 1
  Grace = 1
  FireLag = 2
  Lease = 0
  CancelWindow = 9
  Backoffs = {1}
  OutageGap = 1
  SkewBudget = 0
  MaxAttempts = 2
  DeliveryBatch = 2
  ClaimBound = 3
PROPERTIES OverdueReleased
