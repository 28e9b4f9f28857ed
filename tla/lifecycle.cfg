SPECIFICATION Spec
CONSTANTS
  Switches = {s1}
  Recipients = {r1}
  Workers = {w1}
  Slots = {q1}
  Ops = {"disarm", "arm", "panic", "fixed-date"}
  Faults = {}
  None = None
  Horizon = 3
  Interval = 1
  Grace = 1
  FireLag = 1
  Lease = 0
  CancelWindow = 9
  Backoffs = {1}
  OutageGap = 9
  SkewBudget = 0
  MaxAttempts = 2
  DeliveryBatch = 2
  ClaimBound = 3
SYMMETRY Symmetry
INVARIANTS NeverEarly
