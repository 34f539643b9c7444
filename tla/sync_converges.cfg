CONSTANTS
  m1 = m1
  m2 = m2
  Machine = {m1, m2}
  File = {f1, f2}
  Directions <- Setups
  UserOps = {}
  Automatic = {m1, m2}
  MaxAncestors = 1
  MaxRev = 7
  MaxEdits = 2
  MaxFaults = 1
  MaxRetries = 0
  MaxCrashes = 1
SPECIFICATION AutoSpec
INVARIANTS
  OnlyOwnEdits
  ContentsAreKept
PROPERTIES
  Converges
CHECK_DEADLOCK FALSE
