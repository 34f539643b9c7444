CONSTANTS
  m1 = m1
  m2 = m2
  Machine = {m1}
  File = {f1}
  Directions <- BothWays
  UserOps = {"push", "restore"}
  Automatic = {}
  MaxAncestors = 1
  MaxRev = 5
  MaxEdits = 2
  MaxFaults = 0
  MaxRetries = 0
  MaxCrashes = 0
SPECIFICATION PushingSpec
PROPERTIES
  RestoredBecomesHead
CHECK_DEADLOCK FALSE
