CONSTANTS
  m1 = m1
  m2 = m2
  Machine = {m1, m2}
  File = {f1}
  Directions <- BothWays
  UserOps = {"push"}
  Automatic = {}
  MaxAncestors = 1
  MaxRev = 3
  MaxEdits = 1
  MaxFaults = 0
  MaxRetries = 1
  MaxCrashes = 0
SPECIFICATION Spec
INVARIANTS
  HeadIsInHistory
CHECK_DEADLOCK FALSE
