SPECIFICATION FairSpec
CONSTANTS
  Switches = {s1}
  Workers = {w1, w2}
  None = None
  Interval = 1
  WarningLag = 1
  MaxDelay = 1
  MaxTries = 2
  SkewBudget = 0
  Horizon = 2
  Failures = 2
INVARIANTS OnlyOfMissed OneSenderOnce SettledHonestly
PROPERTIES SettledStays OwnerHears
