CONSTANTS
  Proc = {p1}
  File <- MCFile
  Dir <- MCDir
  Parent <- MCParent
  Root = "root"
  Present = {"a", "b"}
  Requests <- RecoveryRequests
  Editable = {"a", "k"}
  RetainedRecords = 0
  MaxId = 3
  MaxFaults = 1
  MaxCrashes = 1
  MaxEdits = 1
  MaxNotes = 0
SPECIFICATION FairSpec
PROPERTIES
  AllOrNothing
  LockReleased
  PendingSettles
