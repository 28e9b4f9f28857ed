SPECIFICATION Spec
CONSTANTS
  Switches = {s1}
  Recipients = {r1, r2}
  Workers = {w1, w2}
  Slots = {q1}
  Ops = {"accept", "cancel", "delete"}
  Faults = {"throw", "crash"}
  None = None
  Horizon = 3
  Interval = 1
  Grace = 1
  FireLag = 1
  Lease = 0
  CancelWindow = 1
  Backoffs = {0}
  OutageGap = 9
  SkewBudget = 0
  MaxAttempts = 2
  DeliveryBatch = 1
  ClaimBound = 3
SYMMETRY Symmetry
INVARIANTS TypeOK LeasesKept LeaseProtects DeadLetterExact WindowHonoured
PROPERTIES FinalStays QueueRefined
