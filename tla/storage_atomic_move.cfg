CONSTANTS
  Proc = {p1}
  File <- MCFile
  Dir <- MCDir
  Parent <- MCParent
  Root = "root"
  Present = {"a", "b", "d"}
  Requests <- AtomicMoveRequests
  Editable = {"a"}
  RetainedRecords = 1
  MaxId = 1
  MaxFaults = 0
  MaxCrashes = 1
  MaxEdits = 0
  MaxNotes = 0
SPECIFICATION FairSpec
INVARIANTS
  Recoverable
