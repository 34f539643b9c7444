CONSTANTS
  Proc = {p1, p2}
  File <- MCFile
  Dir <- MCDir
  Parent <- MCParent
  Root = "root"
  Present = {"a", "b"}
  Requests <- AllRequests
  Editable = {"a"}
  RetainedRecords = 1
  MaxId = 2
  MaxFaults = 1
  MaxCrashes = 2
  MaxEdits = 0
  MaxNotes = 1
SPECIFICATION Spec
INVARIANTS
  TypeOK
  OnePending
  ReplacesWhatWasRead
  ProgressIsReconstructible
  Recoverable
  BackupsOutliveThePending
  HistoryStands
  NoOrphanTemps
  PublishedIsFinal
PROPERTIES
  SettledTruthfully
SYMMETRY ProcSymmetry
