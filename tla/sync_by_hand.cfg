CONSTANTS
  m1 = m1
  m2 = m2
  Machine = {m1, m2}
  File = {f1, f2}
  Directions <- BothWays
  UserOps = {"push", "force", "pull", "accept", "restore", "now"}
  Automatic = {}
  MaxAncestors = 1
  MaxRev = 3
  MaxEdits = 2
  MaxFaults = 0
  MaxRetries = 1
  MaxCrashes = 0
SPECIFICATION Spec
INVARIANTS
  TypeOK
  NothingLost
PROPERTIES
  HeadsFollow
SYMMETRY Symmetric
CHECK_DEADLOCK FALSE
