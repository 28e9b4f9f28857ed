SPECIFICATION Spec
SYMMETRY Symmetry
CONSTANTS
  None = None
  Gone = Gone
  Slots = {q1, q2}
  Switches = {s1, s2}
  Recipients = {r1, r2}
  Owners = {o1}
  Titles = {t1, t2}
  Policies = {p1}
  Thresholds = {2}
INVARIANTS TypeOK Deliverable QuorumExact CopyIsSnapshot
