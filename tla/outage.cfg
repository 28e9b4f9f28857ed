SPECIFICATION Spec
CONSTANTS
  Switches = {s1}
  Recipients = {r1}
  Workers = {w1}
  Slots = {q1, q2}
  Ops = {"check-in", "delete", "dry-run"}
  Faults = {}
  None = None
  Horizon = 5
  Interval = 2
  Grace = 2
  FireLag = 3
  Lease = 0
  CancelWindow = 9
  Backoffs = {1}
  OutageGap = 1
  SkewBudget = 1
  MaxAttempts = 2
  DeliveryBatch = 2
  ClaimBound = 3
SYMMETRY Symmetry
INVARIANTS NeverEarly NoOrphans
PROPERTIES WaitHolds
