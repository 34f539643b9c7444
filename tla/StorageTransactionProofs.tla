---------------------- MODULE StorageTransactionProofs ----------------------
(***************************************************************************)
(* The inductive invariant of StorageTransaction, proved for any workspace *)
(* and any set of requests: types, the exclusion the mutation lock gives,  *)
(* the bounds of the recorded progress, and OnePending, which every commit *)
(* and every recovery relies on.                                           *)
(*                                                                         *)
(* Then what a transaction leaves behind, for any number of faults,        *)
(* crashes and edits.  PhaseInv ties what a process knows at each step to  *)
(* the record in the journal, the record in history, the backups and the   *)
(* staged siblings.  AgeInv says that no file is newer than the next       *)
(* transaction.  What the files themselves tell is in StorageFilesProofs.  *)
(***************************************************************************)
EXTENDS StorageTransaction, FiniteSetTheorems, WellFoundedInduction, TLAPS

\* A record never claims more progress than it has entries: commitStaged and
\* rollbackEntry index the entries with it.
Sound(rec) == rec \in Record /\ rec.committed <= Len(rec.entries)

FilesOK ==
  /\ files \in [File -> Content] /\ dirs \in SUBSET Dir
  /\ temps \in SUBSET (Id \X File) /\ backups \in SUBSET (Id \X File)

RecordsOK ==
  /\ journal \in [Id -> Record \cup {NoRecord}]
  /\ \A t \in Id : journal[t] # NoRecord => Sound(journal[t])
  /\ history \in [Id -> Record \cup {NoRecord}]

\* A process is at work exactly while it holds the lock.
ControlOK ==
  /\ lock \in Proc \cup {NoProc}
  /\ pc \in [Proc -> Label]
  /\ run \in [Proc -> Run \cup {NoRun}]
  /\ \A p \in Proc : pc[p] # "idle" =>
       /\ lock = p
       /\ run[p] \in Run
       /\ Sound(run[p].rec)
       /\ run[p].undo <= Len(run[p].rec.entries)
  /\ lock # NoProc => pc[lock] # "idle"

CountersOK ==
  /\ seen \in [Proc -> [File -> Content]]
  /\ nextId \in 1 .. (MaxId + 1)
  /\ published \in SUBSET Id
  /\ faults \in 0 .. MaxFaults /\ crashes \in 0 .. MaxCrashes
  /\ edits \in 0 .. MaxEdits /\ notes \in 0 .. MaxNotes

IndInv == FilesOK /\ RecordsOK /\ ControlOK /\ CountersOK /\ OnePending

-----------------------------------------------------------------------------
(* Helpers *)

LEMMA RecordFields ==
  ASSUME NEW rec, Sound(rec)
  PROVE  /\ rec.status \in Status /\ rec.atomic \in BOOLEAN /\ rec.discard \in BOOLEAN
         /\ rec.entries \in Seq(Entry) /\ rec.committed \in Nat
         /\ rec.temps \in SUBSET File /\ rec.backups \in SUBSET File
         /\ rec.committed <= Len(rec.entries) /\ Len(rec.entries) \in Nat
         /\ \A i \in 1 .. Len(rec.entries) : rec.entries[i] \in Entry
  BY DEF Sound, Record

LEMMA EntryFields ==
  ASSUME NEW e \in Entry
  PROVE  /\ e.old \in Content /\ e.new \in Content
         /\ e.action \in FileAction => e.path \in File /\ e.target \in File
         /\ e.action \in DirAction => e.path \in Dir
         /\ e.action \in FileAction \cup DirAction
  BY DEF Entry, FileAction, DirAction

\* Updating one field keeps a record sound.
LEMMA SoundUpdates ==
  ASSUME NEW rec, Sound(rec)
  PROVE  /\ \A s \in Status : Sound([rec EXCEPT !.status = s])
         /\ \A n \in 0 .. Len(rec.entries) : Sound([rec EXCEPT !.committed = n])
         /\ \A F \in SUBSET File : Sound([rec EXCEPT !.temps = F])
         /\ \A F \in SUBSET File : Sound([rec EXCEPT !.backups = F])
  BY RecordFields DEF Sound, Record

\* p alone moves, and stays on its transaction.
Moves(p) == /\ ControlOK'
            /\ \A q \in Proc \ {p} : pc'[q] = pc[q]
            /\ pc'[p] # "idle" => run'[p].txn = run[p].txn

\* Goto, Release, OnError and StartUndo keep the control state sound.
LEMMA GotoControl ==
  ASSUME IndInv, NEW p \in Proc, pc[p] # "idle", NEW label \in Label \ {"idle"},
         NEW rec, Sound(rec), rec.entries = Rec(p).entries, Goto(p, label, rec)
  PROVE  Moves(p)
  <1>1. ControlOK'
    BY ConstantsAssumption DEF IndInv, ControlOK, Goto, Run, Sound, Rec
  <1> QED BY <1>1 DEF IndInv, ControlOK, Goto, Moves, Run

LEMMA ReleaseControl ==
  ASSUME IndInv, NEW p \in Proc, pc[p] # "idle" \/ lock = NoProc, Release(p)
  PROVE  Moves(p)
  BY ConstantsAssumption DEF IndInv, ControlOK, Release, Label, Moves

LEMMA StartUndoControl ==
  ASSUME IndInv, NEW p \in Proc, pc[p] # "idle",
         NEW rec, Sound(rec), rec.entries = Rec(p).entries, StartUndo(p, rec)
  PROVE  Moves(p)
  <1> DEFINE started == [run[p] EXCEPT !.rec = rec, !.goal = "rolled_back",
                                       !.own = FALSE, !.undo = rec.committed]
  <1>1. rec \in Record /\ rec.committed \in Nat /\ rec.committed <= Len(rec.entries)
    BY RecordFields DEF Sound
  <1>2. run[p] \in Run /\ lock = p
    BY DEF IndInv, ControlOK
  <1>3. /\ started \in Run /\ started.txn = run[p].txn
        /\ started.rec = rec /\ started.undo = rec.committed
    BY <1>1, <1>2 DEF Run
  <1>4. run' = [run EXCEPT ![p] = started]
    BY DEF StartUndo
  <1> HIDE DEF started
  <1> QED
    BY <1>1, <1>2, <1>3, <1>4, ConstantsAssumption DEF IndInv, ControlOK, StartUndo, Label, Moves

LEMMA OnErrorControl ==
  ASSUME IndInv, NEW p \in Proc, pc[p] # "idle",
         NEW rec, Sound(rec), rec.entries = Rec(p).entries, OnError(p, rec)
  PROVE  Moves(p)
  <1>1. CASE Release(p)
    BY <1>1, ReleaseControl
  <1>2. CASE Goto(p, "failWrite",
               [rec EXCEPT !.status = IF rec.status = "staging" THEN "staging" ELSE "staged"])
    <2> DEFINE failed ==
          [rec EXCEPT !.status = IF rec.status = "staging" THEN "staging" ELSE "staged"]
    <2>1. Sound(failed)
      BY SoundUpdates DEF Status
    <2>2. failed.entries = Rec(p).entries
      BY RecordFields DEF Sound, Record
    <2> QED BY <1>2, <2>1, <2>2, GotoControl DEF Label
  <1>3. CASE Goto(p, "failTemps", rec) \/ Goto(p, "failWrite", rec)
    BY <1>3, GotoControl DEF Label
  <1> QED BY <1>1, <1>2, <1>3 DEF OnError

\* What the others hold is left alone, and only p's own record can appear: OnePending
\* survives.
LEMMA OnePendingKept ==
  ASSUME IndInv, NEW p \in Proc, pc[p] # "idle", Moves(p),
         \A t \in Id : journal'[t] # NoRecord => journal[t] # NoRecord \/ t = run[p].txn
  PROVE  OnePending'
  <1>1. \A t \in Pending' : t = run[p].txn
    BY DEF IndInv, OnePending, Pending
  <1>2. \A q \in Proc : pc'[q] # "idle" => q = p
    BY DEF Moves, IndInv, ControlOK
  <1> QED BY <1>1, <1>2 DEF OnePending, Moves

-----------------------------------------------------------------------------
(* Planning and reconciling give sound records *)

LEMMA LeastElement ==
  ASSUME NEW U \in SUBSET Nat, U # {}
  PROVE  \E i \in U : \A j \in U : i <= j
  <1>1. OpToRel(<, Nat) = {pair \in Nat \X Nat : pair[1] < pair[2]}
    BY Zenon DEF OpToRel
  <1>2. PICK less : /\ less = {pair \in Nat \X Nat : pair[1] < pair[2]}
                    /\ IsWellFoundedOn(less, Nat)
    BY <1>1, NatLessThanWellFounded, Zenon
  <1>3. PICK i \in U : \A j \in U : <<j, i>> \notin less
    BY <1>2, WFMin, Zenon
  <1>4. \A j \in Nat : j < i => <<j, i>> \in less
    <2>1. less = {pair \in Nat \X Nat : pair[1] < pair[2]}
      BY <1>2
    <2> QED BY <2>1
  <1>5. \A j \in U : ~(j < i)
    BY <1>3, <1>4
  <1> QED BY <1>5

\* There is an applied prefix: reconcileRecord always finds where to resume.
LEMMA BoundaryExists ==
  ASSUME NEW rec, Sound(rec)
  PROVE  LET n == Boundary(rec) IN
         /\ n \in 0 .. Len(rec.entries)
         /\ \A i \in Shows(rec, "unapplied") : n < i
         /\ n = Len(rec.entries) \/ (n + 1) \in Shows(rec, "unapplied")
  <1> DEFINE n == Len(rec.entries)
             U == Shows(rec, "unapplied")
             Good(k) == (\A i \in U : k < i) /\ (k = n \/ (k + 1) \in U)
  <1>1. n \in Nat /\ U \subseteq 1 .. n
    BY RecordFields DEF Shows, Indices
  <1>2. \E k \in 0 .. n : Good(k)
    <2>1. CASE U = {}
      BY <1>1, <2>1
    <2>2. CASE U # {}
      <3>1. U \subseteq Nat
        BY <1>1
      <3>3. PICK i \in U : \A j \in U : i <= j
        BY <2>2, <3>1, LeastElement
      <3>4. i - 1 \in 0 .. n /\ (i - 1) + 1 = i /\ \A j \in U : i - 1 < j
        BY <1>1, <3>1, <3>3
      <3>5. Good(i - 1)
        BY <3>4
      <3> QED BY <3>4, <3>5
    <2> QED BY <2>1, <2>2
  <1> QED BY <1>2 DEF Boundary

LEMMA ReconciledSound ==
  ASSUME NEW rec, Sound(rec)
  PROVE  Sound(Reconciled(rec)) /\ Reconciled(rec).entries = rec.entries
  <1> DEFINE status == IF rec.status = "applied" THEN "staged" ELSE rec.status
             moved  == [rec EXCEPT !.status = status]
             known  == [rec EXCEPT !.status = status, !.committed = Boundary(rec)]
  <1>1. Sound(moved) /\ moved.entries = rec.entries
    BY RecordFields, SoundUpdates DEF Status, Sound, Record
  <1>2. Boundary(rec) \in 0 .. Len(moved.entries)
    BY <1>1, BoundaryExists
  <1>3. known = [moved EXCEPT !.committed = Boundary(rec)]
    OBVIOUS
  <1>4. Sound(known) /\ known.entries = rec.entries
    <2> HIDE DEF moved
    <2>1. Sound([moved EXCEPT !.committed = Boundary(rec)])
      BY <1>1, <1>2, SoundUpdates
    <2>2. [moved EXCEPT !.committed = Boundary(rec)].entries = moved.entries
      BY <1>1 DEF Sound, Record
    <2> QED BY <1>1, <1>3, <2>1, <2>2
  <1> QED BY <1>4 DEF Reconciled

LEMMA PlannedIsEntry ==
  ASSUME FilesOK, NEW m \in Item, NEW t \in Id
  PROVE  Planned(m, t) \in Entry
  <1>1. Absent \in Content /\ t \in Content
    BY ConstantsAssumption DEF Absent, Content, Id
  <1>2. CASE m.action \in FileAction
    <2>1. m.path \in File /\ m.target \in File /\ m.keep \in BOOLEAN /\ files[m.path] \in Content
      BY <1>2 DEF Item, FileAction, DirAction, FilesOK
    <2> QED BY <1>1, <1>2, <2>1 DEF Planned, Entry
  <1>3. CASE m.action \in DirAction
    <2>1. m.path \in Dir /\ m.target \in Dir /\ m.keep \in BOOLEAN /\ m.path \notin File
      BY <1>3, ConstantsAssumption DEF Item, FileAction, DirAction
    <2> QED BY <1>1, <1>3, <2>1 DEF Planned, Entry, DirAction
  <1> QED BY <1>2, <1>3 DEF Item

LEMMA PlanSound ==
  ASSUME FilesOK, NEW q \in Requests, NEW order \in Orders(q), NEW t \in Id
  PROVE  Sound(PlanOf(q, order, t))
  <1>1. q.items \in Seq(Item) /\ q.mode \in {"plain", "atomic", "discard"}
    BY ConstantsAssumption DEF Request
  <1>2. Wanted(q) \subseteq 1 .. Len(q.items) /\ Len(q.items) \in Nat
    BY <1>1 DEF Wanted
  <1>3. Cardinality(Wanted(q)) \in Nat
    <2>1. IsFiniteSet(1 .. Len(q.items))
      BY <1>2, FS_Interval
    <2>2. IsFiniteSet(Wanted(q))
      BY <1>2, <2>1, FS_Subset, Zenon
    <2> QED BY <2>2, FS_CardinalityType, Zenon
  <1>4. /\ DOMAIN order = 1 .. Cardinality(Wanted(q))
        /\ \A i \in DOMAIN order : q.items[order[i]] \in Item
    BY <1>1, <1>2 DEF Orders
  <1>5. \A i \in DOMAIN order : Planned(q.items[order[i]], t) \in Entry
    BY <1>4, PlannedIsEntry
  <1>6. [i \in DOMAIN order |-> Planned(q.items[order[i]], t)] \in Seq(Entry)
    BY <1>3, <1>4, <1>5
  <1> QED BY <1>1, <1>6 DEF PlanOf, Sound, Record, Status

-----------------------------------------------------------------------------
(* One lemma per action *)

LEMMA AtWork ==
  ASSUME IndInv, NEW p \in Proc, pc[p] # "idle"
  PROVE  /\ run[p] \in Run /\ Txn(p) \in Id /\ Txn(p) = run[p].txn
         /\ Sound(Rec(p)) /\ run[p].undo \in 0 .. Len(Rec(p).entries)
         /\ run[p].goal \in Status
  BY RecordFields DEF IndInv, ControlOK, Run, Rec, Txn, Status

LEMMA CountersKept ==
  ASSUME IndInv, Succeed \/ Fault, UNCHANGED <<seen, nextId, published, bounds>>
  PROVE  CountersOK'
  BY ConstantsAssumption DEF IndInv, CountersOK, Succeed, Fault, bounds

\* Writing a record, or failing to, keeps the journal well formed.
LEMMA RecordWritten ==
  ASSUME IndInv, NEW t \in Id, NEW rec, Sound(rec),
         Written(t, rec) \/ PerhapsWritten(t, rec), UNCHANGED history
  PROVE  /\ RecordsOK'
         /\ \A u \in Id : journal'[u] # NoRecord => journal[u] # NoRecord \/ u = t
  BY DEF IndInv, RecordsOK, Written, PerhapsWritten, Sound

\* The work of p that leaves the journal as it is.
LEMMA JournalUntouched ==
  ASSUME IndInv, NEW p \in Proc, pc[p] # "idle", Moves(p), FilesOK', CountersOK',
         UNCHANGED journal, history' \in [Id -> Record \cup {NoRecord}]
  PROVE  IndInv'
  BY OnePendingKept DEF IndInv, RecordsOK, Moves

\* The work of p that rewrites its record.
LEMMA JournalWritten ==
  ASSUME IndInv, NEW p \in Proc, pc[p] # "idle", Moves(p), FilesOK', CountersOK',
         NEW rec, Sound(rec), Written(Txn(p), rec) \/ PerhapsWritten(Txn(p), rec),
         UNCHANGED history
  PROVE  IndInv'
  BY OnePendingKept, RecordWritten, AtWork DEF IndInv, Moves

LEMMA BeginStep ==
  ASSUME IndInv, NEW p \in Proc, Begin(p)
  PROVE  IndInv' /\ Moves(p)
  <1>1. pc[p] # "idle" /\ Sound(Rec(p))
    BY AtWork DEF Begin
  <1>2. Moves(p)
    BY <1>1, GotoControl, ReleaseControl DEF Begin, Label
  <1>3. FilesOK' /\ CountersOK'
    BY CountersKept DEF Begin, IndInv, FilesOK
  <1> QED BY <1>1, <1>2, <1>3, JournalWritten DEF Begin

LEMMA MakeDirectoryStep ==
  ASSUME IndInv, NEW p \in Proc, MakeDirectory(p)
  PROVE  IndInv' /\ Moves(p)
  <1> DEFINE rec == Rec(p)
  <1>1. pc[p] # "idle" /\ Sound(rec)
    BY AtWork DEF MakeDirectory
  <1>2. PICK i \in Indices(rec) :
          /\ FirstOf(i, DirsToMake(rec))
          /\ \/ /\ dirs' = dirs \cup {rec.entries[i].path}
                /\ Goto(p, "prepare", [rec EXCEPT !.committed = i])
             \/ UNCHANGED dirs /\ OnError(p, rec)
    BY DEF MakeDirectory
  <1>3. /\ Sound([rec EXCEPT !.committed = i])
        /\ [rec EXCEPT !.committed = i].entries = rec.entries
        /\ rec.entries[i].path \in Dir
    BY <1>1, <1>2, RecordFields, SoundUpdates, EntryFields
       DEF Indices, FirstOf, DirsToMake, DirAction, Sound, Record
  <1>4. Moves(p)
    BY <1>1, <1>2, <1>3, GotoControl, OnErrorControl DEF Label
  <1>5. FilesOK' /\ CountersOK'
    BY <1>2, <1>3, CountersKept DEF MakeDirectory, IndInv, FilesOK
  <1> QED BY <1>1, <1>4, <1>5, JournalUntouched DEF MakeDirectory, IndInv, RecordsOK

LEMMA WriteBackupStep ==
  ASSUME IndInv, NEW p \in Proc, WriteBackup(p)
  PROVE  IndInv' /\ Moves(p)
  <1> DEFINE rec == Rec(p)
  <1>1. pc[p] # "idle" /\ Sound(rec) /\ Txn(p) \in Id
    BY AtWork DEF WriteBackup
  <1>2. PICK i \in Indices(rec) :
          /\ FirstOf(i, BackupsToWrite(rec))
          /\ backups' \in {backups, backups \cup {<<Txn(p), rec.entries[i].path>>}}
          /\ \/ Goto(p, "prepare", [rec EXCEPT !.backups = @ \cup {rec.entries[i].path}])
             \/ OnError(p, rec)
    BY DEF WriteBackup
  <1> DEFINE kept == rec.backups \cup {rec.entries[i].path}
  <1>3. rec.entries[i].path \in File
    BY <1>1, <1>2, RecordFields, EntryFields
       DEF Indices, FirstOf, BackupsToWrite, ExpectsBackup, FileAction
  <1>4. Sound([rec EXCEPT !.backups = kept]) /\ [rec EXCEPT !.backups = kept].entries = rec.entries
    BY <1>1, <1>3, RecordFields, SoundUpdates DEF Sound, Record
  <1>5. Moves(p)
    BY <1>1, <1>2, <1>4, GotoControl, OnErrorControl DEF Label
  <1>6. FilesOK' /\ CountersOK'
    BY <1>1, <1>2, <1>3, CountersKept DEF WriteBackup, IndInv, FilesOK
  <1> QED BY <1>1, <1>5, <1>6, JournalUntouched DEF WriteBackup, IndInv, RecordsOK

LEMMA StageWriteStep ==
  ASSUME IndInv, NEW p \in Proc, StageWrite(p)
  PROVE  IndInv' /\ Moves(p)
  <1> DEFINE rec == Rec(p)
  <1>1. pc[p] # "idle" /\ Sound(rec) /\ Txn(p) \in Id
    BY AtWork DEF StageWrite
  <1>2. PICK i \in Indices(rec) :
          /\ FirstOf(i, WritesToStage(rec))
          /\ temps' \in {temps, temps \cup {<<Txn(p), rec.entries[i].path>>}}
          /\ \/ Goto(p, "prepare", [rec EXCEPT !.temps = @ \cup {rec.entries[i].path}])
             \/ OnError(p, rec)
    BY DEF StageWrite
  <1> DEFINE named == rec.temps \cup {rec.entries[i].path}
  <1>3. rec.entries[i].path \in File
    BY <1>1, <1>2, RecordFields, EntryFields
       DEF Indices, FirstOf, WritesToStage, FileAction
  <1>4. Sound([rec EXCEPT !.temps = named]) /\ [rec EXCEPT !.temps = named].entries = rec.entries
    BY <1>1, <1>3, RecordFields, SoundUpdates DEF Sound, Record
  <1>5. Moves(p)
    BY <1>1, <1>2, <1>4, GotoControl, OnErrorControl DEF Label
  <1>6. FilesOK' /\ CountersOK'
    BY <1>1, <1>2, <1>3, CountersKept DEF StageWrite, IndInv, FilesOK
  <1> QED BY <1>1, <1>5, <1>6, JournalUntouched DEF StageWrite, IndInv, RecordsOK

\* A new status keeps a record sound and its entries what they were.
LEMMA StatusChanged ==
  ASSUME NEW rec, Sound(rec), NEW s \in Status
  PROVE  Sound([rec EXCEPT !.status = s]) /\ [rec EXCEPT !.status = s].entries = rec.entries
  BY SoundUpdates DEF Sound, Record

LEMMA MarkStagedStep ==
  ASSUME IndInv, NEW p \in Proc, MarkStaged(p)
  PROVE  IndInv' /\ Moves(p)
  <1> DEFINE staged == [Rec(p) EXCEPT !.status = "staged"]
  <1>1. pc[p] # "idle" /\ Sound(Rec(p))
    BY AtWork DEF MarkStaged
  <1>2. Sound(staged) /\ staged.entries = Rec(p).entries
    BY <1>1, StatusChanged DEF Status
  <1>3. \/ Written(Txn(p), staged) /\ Goto(p, "apply", staged)
        \/ PerhapsWritten(Txn(p), staged) /\ (OnError(p, staged) \/ OnError(p, Rec(p)))
    BY DEF MarkStaged
  <1>4. FilesOK' /\ CountersOK' /\ UNCHANGED history
    BY CountersKept DEF MarkStaged, IndInv, FilesOK
  <1> HIDE DEF staged
  <1>5. Moves(p)
    BY <1>1, <1>2, <1>3, GotoControl, OnErrorControl DEF Label
  <1> QED BY <1>1, <1>2, <1>3, <1>4, <1>5, JournalWritten

\* What applying or undoing an entry makes of the tree.
LEMMA TreeTypes ==
  ASSUME IndInv, NEW e \in Entry, NEW rec, Sound(rec)
  PROVE  /\ AppliedFiles(e) \in [File -> Content] /\ AppliedDirs(e) \in SUBSET Dir
         /\ UndoneFiles(rec, e) \in [File -> Content] /\ UndoneDirs(e) \in SUBSET Dir
  <1>1. Absent \in Content
    BY ConstantsAssumption DEF Absent, Content
  <1>2. /\ files \in [File -> Content] /\ dirs \in SUBSET Dir
    BY DEF IndInv, FilesOK
  <1>3. AppliedFiles(e) \in [File -> Content] /\ UndoneFiles(rec, e) \in [File -> Content]
    BY <1>1, <1>2, EntryFields DEF AppliedFiles, UndoneFiles, FileAction
  <1>4. AppliedDirs(e) \in SUBSET Dir /\ UndoneDirs(e) \in SUBSET Dir
    BY <1>2, EntryFields DEF AppliedDirs, UndoneDirs, DirAction
  <1> QED BY <1>3, <1>4

LEMMA AdvancedSound ==
  ASSUME NEW rec, Sound(rec), NEW i \in 1 .. Len(rec.entries)
  PROVE  Sound(Advanced(rec, i)) /\ Advanced(rec, i).entries = rec.entries
  <1> DEFINE left == IF rec.entries[i].action = "write" THEN rec.temps \ {rec.entries[i].path}
                                                       ELSE rec.temps
             counted == [rec EXCEPT !.committed = i]
  <1>1. Sound(counted) /\ counted.entries = rec.entries /\ counted.temps = rec.temps
    BY RecordFields, SoundUpdates DEF Sound, Record
  <1>2. left \in SUBSET File
    BY RecordFields
  <1>3. Advanced(rec, i) = [counted EXCEPT !.temps = left]
    BY DEF Advanced
  <1> HIDE DEF counted, left
  <1> QED BY <1>1, <1>2, <1>3, SoundUpdates DEF Sound, Record

LEMMA ApplyEntryStep ==
  ASSUME IndInv, NEW p \in Proc, ApplyEntry(p)
  PROVE  IndInv' /\ Moves(p)
  <1> DEFINE rec == Rec(p)
             i   == rec.committed + 1
             e   == rec.entries[i]
  <1>1. pc[p] # "idle" /\ Sound(rec) /\ Txn(p) \in Id
    BY AtWork DEF ApplyEntry
  <1>2. i \in 1 .. Len(rec.entries) /\ e \in Entry
    BY <1>1, RecordFields DEF ApplyEntry
  <1>3. /\ \/ /\ files' = AppliedFiles(e) /\ dirs' = AppliedDirs(e)
              /\ temps' = IF e.action = "write" THEN temps \ {<<Txn(p), e.path>>} ELSE temps
           \/ UNCHANGED <<files, dirs, temps>>
        /\ \/ Goto(p, "apply", Advanced(rec, i))
           \/ OnError(p, Advanced(rec, i))
           \/ OnError(p, rec)
        /\ Succeed \/ Fault
        /\ UNCHANGED <<backups, journal, history, seen, nextId, published, bounds>>
    BY DEF ApplyEntry
  <1>4. Sound(Advanced(rec, i)) /\ Advanced(rec, i).entries = rec.entries
    BY <1>1, <1>2, AdvancedSound
  <1>5. Moves(p)
    BY <1>1, <1>3, <1>4, GotoControl, OnErrorControl DEF Label
  <1>6. FilesOK' /\ CountersOK'
    BY <1>1, <1>2, <1>3, TreeTypes, CountersKept DEF IndInv, FilesOK
  <1> QED BY <1>1, <1>3, <1>5, <1>6, JournalUntouched DEF IndInv, RecordsOK

LEMMA AppliedStep ==
  ASSUME IndInv, NEW p \in Proc, Applied(p)
  PROVE  IndInv' /\ Moves(p)
  <1>1. pc[p] # "idle" /\ Sound(Rec(p))
    BY AtWork DEF Applied
  <1>2. Moves(p)
    BY <1>1, GotoControl DEF Applied, AfterApply, Label
  <1>3. FilesOK' /\ CountersOK'
    BY DEF Applied, disk, bounds, IndInv, FilesOK, CountersOK
  <1> QED BY <1>1, <1>2, <1>3, JournalUntouched DEF Applied, disk, IndInv, RecordsOK

LEMMA MarkAppliedStep ==
  ASSUME IndInv, NEW p \in Proc, MarkApplied(p)
  PROVE  IndInv' /\ Moves(p)
  <1> DEFINE marked == [Rec(p) EXCEPT !.status = "applied"]
             moved  == [run[p] EXCEPT !.rec = marked, !.own = FALSE]
  <1>1. pc[p] # "idle" /\ Sound(Rec(p)) /\ run[p] \in Run /\ Txn(p) \in Id
    BY AtWork DEF MarkApplied
  <1>2. Sound(marked) /\ marked.entries = Rec(p).entries
    BY <1>1, StatusChanged DEF Status
  <1>3. \/ /\ Written(Txn(p), marked)
           /\ published' = published \cup {Txn(p)}
           /\ pc' = [pc EXCEPT ![p] = "temps"]
           /\ run' = [run EXCEPT ![p] = moved]
           /\ UNCHANGED lock /\ Succeed
        \/ /\ PerhapsWritten(Txn(p), marked) /\ OnError(p, marked) /\ Fault
           /\ UNCHANGED published
    BY DEF MarkApplied
  <1>4. UNCHANGED <<files, dirs, temps, backups, history, seen, nextId, bounds>>
    BY DEF MarkApplied
  <1> HIDE DEF marked
  <1>5. /\ moved \in Run /\ moved.txn = run[p].txn
        /\ moved.rec = marked /\ moved.undo = run[p].undo
    BY <1>1, <1>2 DEF Run, Sound
  <1> HIDE DEF moved
  <1>6. Moves(p)
    <2>1. CASE OnError(p, marked)
      BY <1>1, <1>2, <2>1, OnErrorControl
    <2>2. CASE pc' = [pc EXCEPT ![p] = "temps"] /\ run' = [run EXCEPT ![p] = moved]
               /\ UNCHANGED lock
      BY <1>1, <1>2, <1>5, <2>2, ConstantsAssumption DEF IndInv, ControlOK, Moves, Label, Rec
    <2> QED BY <1>3, <2>1, <2>2
  <1>7. FilesOK' /\ CountersOK'
    BY <1>1, <1>3, <1>4, ConstantsAssumption
       DEF IndInv, FilesOK, CountersOK, Succeed, Fault, bounds
  <1> QED BY <1>1, <1>2, <1>3, <1>4, <1>6, <1>7, JournalWritten

LEMMA RemoveTempStep ==
  ASSUME IndInv, NEW p \in Proc, RemoveTemp(p)
  PROVE  IndInv' /\ Moves(p)
  <1>1. pc[p] # "idle" /\ Sound(Rec(p))
    BY AtWork DEF RemoveTemp
  <1>2. PICK s \in LeftTemps(p) :
          /\ temps' \in {temps, temps \ {s}}
          /\ Goto(p, "temps", [Rec(p) EXCEPT !.temps = @ \ {s[2]}]) \/ OnError(p, Rec(p))
    BY DEF RemoveTemp
  <1> DEFINE left == Rec(p).temps \ {s[2]}
  <1>3. Sound([Rec(p) EXCEPT !.temps = left]) /\ [Rec(p) EXCEPT !.temps = left].entries = Rec(p).entries
    BY <1>1, RecordFields, SoundUpdates DEF Sound, Record
  <1>4. Moves(p)
    BY <1>1, <1>2, <1>3, GotoControl, OnErrorControl DEF Label
  <1>5. FilesOK' /\ CountersOK'
    BY <1>2, CountersKept DEF RemoveTemp, IndInv, FilesOK
  <1> QED BY <1>1, <1>4, <1>5, JournalUntouched DEF RemoveTemp, IndInv, RecordsOK

LEMMA TempsRemovedStep ==
  ASSUME IndInv, NEW p \in Proc, TempsRemoved(p)
  PROVE  IndInv' /\ Moves(p)
  <1> DEFINE cleared == [Rec(p) EXCEPT !.temps = {}]
  <1>1. pc[p] # "idle" /\ Sound(Rec(p))
    BY AtWork DEF TempsRemoved
  <1>2. Sound(cleared) /\ cleared.entries = Rec(p).entries
    BY <1>1, SoundUpdates DEF Sound, Record
  <1>3. Goto(p, "discard", cleared) \/ Goto(p, "history", cleared)
    BY DEF TempsRemoved
  <1>4. Moves(p)
    BY <1>1, <1>2, <1>3, GotoControl DEF Label
  <1>5. FilesOK' /\ CountersOK'
    BY DEF TempsRemoved, disk, bounds, IndInv, FilesOK, CountersOK
  <1> QED BY <1>1, <1>4, <1>5, JournalUntouched DEF TempsRemoved, disk, IndInv, RecordsOK

LEMMA DiscardBackupStep ==
  ASSUME IndInv, NEW p \in Proc, DiscardBackup(p)
  PROVE  IndInv' /\ Moves(p)
  <1>1. pc[p] # "idle" /\ Sound(Rec(p))
    BY AtWork DEF DiscardBackup
  <1>2. PICK f \in Rec(p).backups :
          /\ backups' \in {backups, backups \ {<<Txn(p), f>>}}
          /\ Goto(p, "discard", [Rec(p) EXCEPT !.backups = @ \ {f}]) \/ OnError(p, Rec(p))
    BY DEF DiscardBackup
  <1> DEFINE left == Rec(p).backups \ {f}
  <1>3. /\ Sound([Rec(p) EXCEPT !.backups = left])
        /\ [Rec(p) EXCEPT !.backups = left].entries = Rec(p).entries
    BY <1>1, RecordFields, SoundUpdates DEF Sound, Record
  <1>4. Moves(p)
    BY <1>1, <1>2, <1>3, GotoControl, OnErrorControl DEF Label
  <1>5. FilesOK' /\ CountersOK'
    BY <1>2, CountersKept DEF DiscardBackup, IndInv, FilesOK
  <1> QED BY <1>1, <1>4, <1>5, JournalUntouched DEF DiscardBackup, IndInv, RecordsOK

LEMMA BackupsDiscardedStep ==
  ASSUME IndInv, NEW p \in Proc, BackupsDiscarded(p)
  PROVE  IndInv' /\ Moves(p)
  <1>1. pc[p] # "idle" /\ Sound(Rec(p))
    BY AtWork DEF BackupsDiscarded
  <1>2. Moves(p)
    BY <1>1, GotoControl DEF BackupsDiscarded, Label
  <1>3. FilesOK' /\ CountersOK'
    BY DEF BackupsDiscarded, disk, bounds, IndInv, FilesOK, CountersOK
  <1> QED BY <1>1, <1>2, <1>3, JournalUntouched DEF BackupsDiscarded, disk, IndInv, RecordsOK

LEMMA WriteHistoryStep ==
  ASSUME IndInv, NEW p \in Proc, WriteHistory(p)
  PROVE  IndInv' /\ Moves(p)
  <1> DEFINE filed == [Rec(p) EXCEPT !.status = run[p].goal]
  <1>1. pc[p] # "idle" /\ Sound(Rec(p)) /\ Txn(p) \in Id /\ run[p].goal \in Status
    BY AtWork DEF WriteHistory
  <1>2. Sound(filed) /\ filed.entries = Rec(p).entries
    BY <1>1, StatusChanged
  <1>3. /\ history' \in {history, [history EXCEPT ![Txn(p)] = filed]}
        /\ Goto(p, "journal", filed) \/ OnError(p, filed)
    BY DEF WriteHistory
  <1> HIDE DEF filed
  <1>4. Moves(p)
    BY <1>1, <1>2, <1>3, GotoControl, OnErrorControl DEF Label
  <1>5. FilesOK' /\ CountersOK'
    BY CountersKept DEF WriteHistory, IndInv, FilesOK
  <1>6. history' \in [Id -> Record \cup {NoRecord}]
    BY <1>1, <1>2, <1>3 DEF IndInv, RecordsOK, Sound
  <1> QED BY <1>1, <1>4, <1>5, <1>6, JournalUntouched DEF WriteHistory

LEMMA RemoveJournalStep ==
  ASSUME IndInv, NEW p \in Proc, RemoveJournal(p)
  PROVE  IndInv' /\ Moves(p)
  <1>1. pc[p] # "idle" /\ Sound(Rec(p)) /\ Txn(p) \in Id
    BY AtWork DEF RemoveJournal
  <1>2. /\ journal' \in {journal, [journal EXCEPT ![Txn(p)] = NoRecord]}
        /\ Goto(p, "prune", Rec(p)) \/ OnError(p, Rec(p))
    BY DEF RemoveJournal
  <1>3. Moves(p)
    BY <1>1, <1>2, GotoControl, OnErrorControl DEF Label
  <1>4. FilesOK' /\ CountersOK'
    BY CountersKept DEF RemoveJournal, IndInv, FilesOK
  <1>5. RecordsOK' /\ \A t \in Id : journal'[t] # NoRecord => journal[t] # NoRecord
    BY <1>1, <1>2 DEF RemoveJournal, IndInv, RecordsOK
  <1> QED BY <1>1, <1>3, <1>4, <1>5, OnePendingKept DEF IndInv, Moves

\* Retention removes records and backups, and touches nothing else.
LEMMA PruneTypes ==
  ASSUME IndInv, NEW S, PruneHistory(S)
  PROVE  /\ history' \in [Id -> Record \cup {NoRecord}]
         /\ backups' \in SUBSET (Id \X File)
         /\ Succeed \/ Fault
  <1>1. PICK records, trees :
          /\ history' = [t \in Id |-> IF t \in records THEN NoRecord ELSE history[t]]
          /\ backups' = {b \in backups : b[1] \notin trees}
          /\ Succeed \/ Fault
    BY DEF PruneHistory
  <1> QED BY <1>1 DEF IndInv, RecordsOK, FilesOK

LEMMA PruneStep ==
  ASSUME IndInv, NEW p \in Proc, Prune(p)
  PROVE  IndInv' /\ Moves(p)
  <1>1. pc[p] # "idle"
    BY DEF Prune
  <1>2. Moves(p)
    BY <1>1, ReleaseControl DEF Prune
  <1>3. FilesOK' /\ CountersOK' /\ history' \in [Id -> Record \cup {NoRecord}]
    BY PruneTypes, CountersKept DEF Prune, IndInv, FilesOK
  <1> QED BY <1>1, <1>2, <1>3, JournalUntouched DEF Prune

LEMMA PruneAtStartStep ==
  ASSUME IndInv, NEW p \in Proc, PruneAtStart(p)
  PROVE  IndInv'
  <1>1. FilesOK' /\ CountersOK' /\ history' \in [Id -> Record \cup {NoRecord}]
    BY PruneTypes, CountersKept DEF PruneAtStart, IndInv, FilesOK
  <1>2. ControlOK' /\ OnePending'
    BY DEF PruneAtStart, memory, IndInv, ControlOK, OnePending, Pending
  <1> QED BY <1>1, <1>2 DEF PruneAtStart, IndInv, RecordsOK

LEMMA FailTempsStep ==
  ASSUME IndInv, NEW p \in Proc, FailTemps(p)
  PROVE  IndInv' /\ Moves(p)
  <1>1. pc[p] # "idle" /\ Sound(Rec(p))
    BY AtWork DEF FailTemps
  <1>2. Moves(p)
    <2>1. CASE Release(p)
      BY <1>1, <2>1, ReleaseControl
    <2>2. CASE \E f \in Rec(p).temps : Goto(p, "failTemps", [Rec(p) EXCEPT !.temps = @ \ {f}])
      <3>1. PICK f \in Rec(p).temps : Goto(p, "failTemps", [Rec(p) EXCEPT !.temps = @ \ {f}])
        BY <2>2
      <3> DEFINE left == Rec(p).temps \ {f}
      <3>2. /\ Sound([Rec(p) EXCEPT !.temps = left])
            /\ [Rec(p) EXCEPT !.temps = left].entries = Rec(p).entries
        BY <1>1, RecordFields, SoundUpdates DEF Sound, Record
      <3> QED BY <1>1, <3>1, <3>2, GotoControl DEF Label
    <2> QED BY <2>1, <2>2 DEF FailTemps
  <1>3. FilesOK' /\ CountersOK'
    BY CountersKept DEF FailTemps, IndInv, FilesOK
  <1> QED BY <1>1, <1>2, <1>3, JournalUntouched DEF FailTemps, IndInv, RecordsOK

LEMMA FailWriteStep ==
  ASSUME IndInv, NEW p \in Proc, FailWrite(p)
  PROVE  IndInv' /\ Moves(p)
  <1>1. pc[p] # "idle" /\ Sound(Rec(p))
    BY AtWork DEF FailWrite
  <1>2. Moves(p)
    BY <1>1, StartUndoControl, ReleaseControl DEF FailWrite
  <1>3. FilesOK' /\ CountersOK'
    BY CountersKept DEF FailWrite, IndInv, FilesOK
  <1> QED BY <1>1, <1>2, <1>3, JournalWritten DEF FailWrite

LEMMA UndoEntryStep ==
  ASSUME IndInv, NEW p \in Proc, UndoEntry(p)
  PROVE  IndInv' /\ Moves(p)
  <1> DEFINE rec  == Rec(p)
             e    == rec.entries[run[p].undo]
             less == [run[p] EXCEPT !.undo = @ - 1]
  <1>1. /\ pc[p] # "idle" /\ Sound(rec) /\ run[p] \in Run /\ lock = p
        /\ run[p].undo \in 1 .. Len(rec.entries)
    BY AtWork DEF UndoEntry, IndInv, ControlOK
  <1>2. e \in Entry
    BY <1>1, RecordFields
  <1>3. /\ \/ files' = UndoneFiles(rec, e) /\ dirs' = UndoneDirs(e)
           \/ UNCHANGED <<files, dirs>>
        /\ \/ run' = [run EXCEPT ![p].undo = @ - 1] /\ UNCHANGED <<pc, lock>>
           \/ Release(p)
        /\ Succeed \/ Fault
        /\ UNCHANGED <<temps, backups, journal, history, seen, nextId, published, bounds>>
    BY DEF UndoEntry
  <1>4. Moves(p)
    <2>1. CASE Release(p)
      BY <1>1, <2>1, ReleaseControl
    <2>2. CASE run' = [run EXCEPT ![p].undo = @ - 1] /\ UNCHANGED <<pc, lock>>
      <3>1. less \in Run /\ less.txn = run[p].txn /\ less.rec = rec /\ less.undo = run[p].undo - 1
        BY <1>1, RecordFields DEF Run, Rec
      <3>2. run' = [run EXCEPT ![p] = less]
        BY <2>2
      <3> HIDE DEF less
      <3> QED BY <1>1, <2>2, <3>1, <3>2, RecordFields DEF IndInv, ControlOK, Moves, Rec
    <2> QED BY <1>3, <2>1, <2>2
  <1>5. FilesOK' /\ CountersOK'
    BY <1>1, <1>2, <1>3, TreeTypes, CountersKept DEF IndInv, FilesOK
  <1> QED BY <1>1, <1>3, <1>4, <1>5, JournalUntouched DEF IndInv, RecordsOK

LEMMA UndoneStep ==
  ASSUME IndInv, NEW p \in Proc, Undone(p)
  PROVE  IndInv' /\ Moves(p)
  <1> DEFINE cleared == [Rec(p) EXCEPT !.committed = 0]
  <1>1. pc[p] # "idle" /\ Sound(Rec(p))
    BY AtWork DEF Undone
  <1>2. Sound(cleared) /\ cleared.entries = Rec(p).entries
    BY <1>1, RecordFields, SoundUpdates DEF Sound, Record
  <1>3. Moves(p)
    BY <1>1, <1>2, GotoControl DEF Undone, Label
  <1>4. FilesOK' /\ CountersOK'
    BY DEF Undone, disk, bounds, IndInv, FilesOK, CountersOK
  <1> QED BY <1>1, <1>3, <1>4, JournalUntouched DEF Undone, disk, IndInv, RecordsOK

LEMMA LoadedStep ==
  ASSUME IndInv, NEW p \in Proc, Complete(p) \/ Rollback(p) \/ Refuse(p)
  PROVE  IndInv' /\ Moves(p)
  <1>1. pc[p] # "idle" /\ Sound(Rec(p))
    BY AtWork DEF Complete, Rollback, Refuse
  <1>2. Moves(p)
    BY <1>1, GotoControl, StartUndoControl, ReleaseControl
       DEF Complete, Rollback, Refuse, Label
  <1>3. FilesOK' /\ CountersOK' /\ UNCHANGED <<journal, history>>
    BY DEF Complete, Rollback, Refuse, disk, bounds, IndInv, FilesOK, CountersOK
  <1> QED BY <1>1, <1>2, <1>3, JournalUntouched DEF IndInv, RecordsOK

LEMMA CrashStep ==
  ASSUME IndInv, NEW p \in Proc, Crash(p)
  PROVE  IndInv' /\ Moves(p)
  <1>1. pc[p] # "idle" /\ Moves(p)
    BY ReleaseControl DEF Crash
  <1>2. FilesOK' /\ CountersOK' /\ UNCHANGED <<journal, history>>
    BY ConstantsAssumption DEF Crash, disk, IndInv, FilesOK, CountersOK
  <1> QED BY <1>1, <1>2, JournalUntouched DEF IndInv, RecordsOK

\* A process that takes the lock finds everybody else idle.
LEMMA StartControl ==
  ASSUME IndInv, NEW p \in Proc, lock = NoProc, lock' = p,
         NEW label \in Label \ {"idle"}, pc' = [pc EXCEPT ![p] = label],
         NEW started \in Run, run' = [run EXCEPT ![p] = started],
         Sound(started.rec), started.undo = 0
  PROVE  ControlOK' /\ \A q \in Proc : pc'[q] # "idle" => q = p
  <1>1. \A q \in Proc : pc[q] = "idle"
    BY ConstantsAssumption DEF IndInv, ControlOK
  <1>2. Len(started.rec.entries) \in Nat
    BY RecordFields
  <1> QED BY <1>1, <1>2, ConstantsAssumption DEF IndInv, ControlOK

LEMMA LoadPendingStep ==
  ASSUME IndInv, NEW p \in Proc, NEW t \in Id, NEW goal \in {"completed", "rolled_back"},
         LoadPending(p, t, goal)
  PROVE  IndInv'
  <1> DEFINE known   == Reconciled(journal[t])
             started == [txn |-> t, rec |-> known, goal |-> goal, own |-> FALSE, undo |-> 0]
  <1>1. lock = NoProc /\ t \in Pending /\ Sound(journal[t]) /\ Sound(known)
    BY ReconciledSound DEF LoadPending, Pending, IndInv, RecordsOK
  <1>2. started \in Run /\ started.rec = known /\ started.undo = 0 /\ started.txn = t
    BY <1>1 DEF Run, Sound
  <1>3. /\ \/ /\ Written(t, known)
              /\ lock' = p /\ pc' = [pc EXCEPT ![p] = "loaded"]
              /\ run' = [run EXCEPT ![p] = started]
           \/ PerhapsWritten(t, known) /\ UNCHANGED memory
        /\ Succeed \/ Fault
        /\ UNCHANGED <<files, dirs, temps, backups, history, seen, nextId, published, bounds>>
    BY DEF LoadPending
  <1> HIDE DEF known, started
  <1>4. FilesOK' /\ CountersOK'
    BY <1>3, CountersKept DEF IndInv, FilesOK
  <1>5. RecordsOK' /\ \A u \in Pending' : u = t
    <2>1. /\ RecordsOK'
          /\ \A u \in Id : journal'[u] # NoRecord => journal[u] # NoRecord \/ u = t
      BY <1>1, <1>3, RecordWritten
    <2> QED BY <1>1, <2>1 DEF Pending, IndInv, OnePending
  <1>6. ControlOK' /\ \A q \in Proc : pc'[q] # "idle" => run'[q].txn = t
    <2>1. CASE lock' = p /\ pc' = [pc EXCEPT ![p] = "loaded"] /\ run' = [run EXCEPT ![p] = started]
      <3>1. ControlOK' /\ \A q \in Proc : pc'[q] # "idle" => q = p
        BY <1>1, <1>2, <2>1, StartControl DEF Label
      <3>2. run'[p].txn = t
        BY <1>2, <2>1 DEF IndInv, ControlOK
      <3> QED BY <3>1, <3>2
    <2>2. CASE UNCHANGED memory
      BY <1>1, <2>2, ConstantsAssumption DEF memory, IndInv, ControlOK
    <2> QED BY <1>3, <2>1, <2>2
  <1> QED BY <1>4, <1>5, <1>6 DEF IndInv, OnePending

LEMMA StartCommitStep ==
  ASSUME IndInv, NEW p \in Proc, NEW q \in Requests, StartCommit(p, q)
  PROVE  IndInv'
  <1>1. PICK order \in Orders(q) :
          run' = [run EXCEPT ![p] = [txn |-> nextId, rec |-> PlanOf(q, order, nextId),
                                     goal |-> "completed", own |-> TRUE, undo |-> 0]]
    BY DEF StartCommit
  <1> DEFINE plan    == PlanOf(q, order, nextId)
             started == [txn |-> nextId, rec |-> plan, goal |-> "completed",
                         own |-> TRUE, undo |-> 0]
  <1>2. nextId \in Id /\ nextId' \in 1 .. (MaxId + 1)
    BY ConstantsAssumption DEF StartCommit, IndInv, CountersOK, Id
  <1>3. Sound(plan)
    BY <1>2, PlanSound DEF IndInv
  <1> HIDE DEF plan
  <1>4. started \in Run /\ started.rec = plan /\ started.undo = 0
    BY <1>2, <1>3 DEF Run, Sound
  <1>5. run' = [run EXCEPT ![p] = started]
    BY <1>1 DEF plan
  <1> HIDE DEF started
  <1>6. ControlOK'
    BY <1>3, <1>4, <1>5, StartControl DEF StartCommit, Label
  <1>7. FilesOK' /\ RecordsOK' /\ CountersOK'
    BY <1>2 DEF StartCommit, disk, bounds, IndInv, FilesOK, RecordsOK, CountersOK
  <1>8. Pending' = {}
    BY DEF StartCommit, NoPending, Pending, disk
  <1> QED BY <1>6, <1>7, <1>8 DEF IndInv, OnePending

LEMMA NoteStep ==
  ASSUME IndInv, NEW p \in Proc, NEW f \in File, Note(p, f)
  PROVE  IndInv'
  <1> DEFINE entry == [action |-> "note", path |-> f, target |-> f, keep |-> TRUE,
                       had |-> FALSE, old |-> Absent, new |-> Absent]
             rec   == [status |-> "completed", atomic |-> FALSE, discard |-> FALSE,
                       entries |-> <<entry>>, committed |-> 1, temps |-> {}, backups |-> {}]
  <1>1. entry \in Entry
    BY ConstantsAssumption DEF Entry, FileAction, Absent, Content
  <1>2. <<entry>> \in Seq(Entry)
    <2> HIDE DEF entry
    <2> QED BY <1>1
  <1>3. rec \in Record
    <2> HIDE DEF entry
    <2> QED BY <1>2 DEF Record, Status
  <1>4. history' = [history EXCEPT ![nextId] = rec]
    BY DEF Note
  <1> HIDE DEF rec
  <1>5. RecordsOK'
    BY <1>3, <1>4 DEF Note, IndInv, RecordsOK
  <1>6. FilesOK' /\ CountersOK'
    BY ConstantsAssumption DEF Note, IndInv, FilesOK, CountersOK
  <1>7. ControlOK' /\ OnePending'
    BY DEF Note, memory, IndInv, ControlOK, OnePending, Pending
  <1> QED BY <1>5, <1>6, <1>7 DEF IndInv

LEMMA ReadStep ==
  ASSUME IndInv, NEW p \in Proc, Read(p)
  PROVE  IndInv'
  BY DEF Read, disk, memory, bounds, IndInv, FilesOK, RecordsOK, ControlOK, CountersOK,
         OnePending, Pending

LEMMA EditStep ==
  ASSUME IndInv, NEW f \in File, Edit(f)
  PROVE  IndInv'
  <1>1. nextId \in Content /\ nextId' \in 1 .. (MaxId + 1)
    BY ConstantsAssumption DEF Edit, IndInv, CountersOK, Content, Absent
  <1>2. FilesOK' /\ CountersOK'
    BY <1>1, ConstantsAssumption DEF Edit, IndInv, FilesOK, CountersOK
  <1>3. RecordsOK' /\ ControlOK' /\ OnePending'
    BY DEF Edit, memory, IndInv, RecordsOK, ControlOK, OnePending, Pending
  <1> QED BY <1>2, <1>3 DEF IndInv

-----------------------------------------------------------------------------
(* The theorems *)

LEMMA InitIndInv == Init => IndInv
  <1> SUFFICES ASSUME Init PROVE IndInv
    OBVIOUS
  <1>1. Absent \in Content /\ 0 \in Content
    BY ConstantsAssumption DEF Absent, Content
  <1>2. FilesOK /\ RecordsOK
    BY <1>1 DEF Init, FilesOK, RecordsOK
  <1>3. ControlOK
    BY DEF Init, ControlOK, Label
  <1>4. CountersOK
    BY <1>1, ConstantsAssumption DEF Init, CountersOK
  <1> QED BY <1>2, <1>3, <1>4 DEF Init, IndInv, OnePending, Pending

LEMMA NextIndInv == IndInv /\ [Next]_vars => IndInv'
  <1> SUFFICES ASSUME IndInv, [Next]_vars PROVE IndInv'
    OBVIOUS
  <1>1. ASSUME NEW p \in Proc, Step(p) PROVE IndInv'
    BY <1>1, BeginStep, MakeDirectoryStep, WriteBackupStep, StageWriteStep, MarkStagedStep,
       ApplyEntryStep, AppliedStep, MarkAppliedStep, RemoveTempStep, TempsRemovedStep,
       DiscardBackupStep, BackupsDiscardedStep, WriteHistoryStep, RemoveJournalStep,
       PruneStep, FailTempsStep, FailWriteStep, UndoEntryStep, UndoneStep, LoadedStep
       DEF Step
  <1>2. ASSUME NEW p \in Proc, Read(p) \/ PruneAtStart(p) \/ Crash(p) PROVE IndInv'
    BY <1>2, ReadStep, PruneAtStartStep, CrashStep
  <1>3. ASSUME NEW p \in Proc, NEW q \in Requests, StartCommit(p, q) PROVE IndInv'
    BY <1>3, StartCommitStep
  <1>4. ASSUME NEW p \in Proc, NEW t \in Id, NEW goal \in {"completed", "rolled_back"},
               LoadPending(p, t, goal)
        PROVE  IndInv'
    BY <1>4, LoadPendingStep
  <1>5. ASSUME NEW p \in Proc, NEW f \in File, Note(p, f) PROVE IndInv'
    BY <1>5, NoteStep
  <1>6. ASSUME NEW f \in File, Edit(f) PROVE IndInv'
    BY <1>6, EditStep
  <1>7. CASE UNCHANGED vars
    BY <1>7 DEF vars, disk, memory, bounds, IndInv, FilesOK, RecordsOK, ControlOK, CountersOK,
            OnePending, Pending
  <1> QED BY <1>1, <1>2, <1>3, <1>4, <1>5, <1>6, <1>7 DEF Next

LEMMA SpecIndInv == Spec => []IndInv
  BY InitIndInv, NextIndInv, PTL DEF Spec

\* Every file, record and run keeps its type, whatever fails or crashes: in particular
\* no index of a commit, an undo or a recovery leaves the entries of its record.
THEOREM TypeCorrect == Spec => []TypeOK
  <1>1. IndInv => TypeOK
    BY DEF IndInv, FilesOK, RecordsOK, ControlOK, CountersOK, TypeOK
  <1> QED BY <1>1, SpecIndInv, PTL

\* The mutation lock and ensureNoPendingTransaction together allow one interrupted change
\* at a time, and nobody works on another one meanwhile.
THEOREM OnePendingHolds == Spec => []OnePending
  <1>1. IndInv => OnePending
    BY DEF IndInv
  <1> QED BY <1>1, SpecIndInv, PTL

\* Two processes are never between lockMutation and its release at the same time.
Exclusive == \A p, q \in Proc : pc[p] # "idle" /\ pc[q] # "idle" => p = q

\* Engine and CLI never change the workspace at the same time.
THEOREM MutualExclusion == Spec => []Exclusive
  <1>1. IndInv => Exclusive
    BY DEF IndInv, ControlOK, Exclusive
  <1> QED BY <1>1, SpecIndInv, PTL

-----------------------------------------------------------------------------
(* What the callers promise, and what has not happened, where a property depends on it *)

\* The atomic requests make only directories and write files: the others cannot be read
\* back (storage_atomic_move).
AtomicOnlyWrites ==
  \A q \in Requests : q.mode # "plain" =>
    \A i \in 1 .. Len(q.items) : q.items[i].action \in {"write", "mkdir"}

\* No request makes two directories: the undo of the second keeps it while a staged sibling
\* is in it, and what an interruption then leaves cannot be read back.
OneDirectory ==
  \A q \in Requests : \A i, j \in 1 .. Len(q.items) :
    q.items[i].action = "mkdir" /\ q.items[j].action = "mkdir" => i = j

\* A document sealed again is never what it was: each sealing takes fresh random bytes.
FreshRekey ==
  \A q \in Requests : q.mode = "discard" => \A i \in 1 .. Len(q.items) : ~q.items[i].same

\* No folder removal with nothing else to do has found its folder gone: its record has no
\* entries, and cannot be read back.
RecordsHaveEntries ==
  \A t \in Id : \A rec \in {journal[t], history[t]} : rec # NoRecord => rec.entries # << >>

\* No other program writes a file that a request may rewrite with what it holds: recovery
\* cannot see such an edit, and Complete replaces it.
SameIsOurs ==
  \A q \in Requests : \A i \in 1 .. Len(q.items) :
    q.items[i].action = "write" /\ q.items[i].same => q.items[i].path \notin Editable

-----------------------------------------------------------------------------
(* What planning makes of a request *)

\* Applying or undoing such an entry loses nothing.
Harmless(e) == e.action = "mkdir" \/ NoOpWrite(e)

EntryOK(t, rec, e) ==
  /\ e.action # "note" /\ e.old < t
  /\ e.action = "write" => (e.had <=> e.old # Absent) /\ (e.new = t \/ NoOpWrite(e))
  /\ e.action = "move" => e.old # Absent /\ e.new = e.old /\ e.path # e.target
  /\ e.action = "remove" => e.had /\ e.old # Absent /\ e.new = Absent
  /\ rec.atomic /\ e.action \in {"write", "remove"} => e.keep
  /\ rec.discard => e.action = "write"
  /\ AtomicOnlyWrites /\ rec.atomic => e.action \in {"write", "mkdir"}
  /\ FreshRekey /\ rec.discard => ~NoOpWrite(e)
  /\ SameIsOurs /\ NoOpWrite(e) => e.path \notin Editable

PlanOK(t, rec) ==
  /\ \A i \in Indices(rec) : EntryOK(t, rec, rec.entries[i])
  /\ \A i, j \in Indices(rec) : i # j =>
       /\ rec.entries[i].path # rec.entries[j].path
       /\ \A f \in File : ~(Touches(rec.entries[i], f) /\ Touches(rec.entries[j], f))
  /\ \A i, j \in Indices(rec) :
       i < j /\ rec.entries[j].action = "mkdir" => rec.entries[i].action = "mkdir"
  /\ OneDirectory => \A i \in Indices(rec) : rec.entries[i].action = "mkdir" => i = 1
  /\ rec.discard => rec.atomic

SamePlan(rec, other) ==
  /\ rec.entries = other.entries /\ rec.atomic = other.atomic /\ rec.discard = other.discard

-----------------------------------------------------------------------------
(* The records on disk *)

MadeOnly(rec, n) == \A i \in Indices(rec) : i <= n => rec.entries[i].action = "mkdir"
HarmlessTo(rec, n) == \A i \in Indices(rec) : i <= n => Harmless(rec.entries[i])
ReversibleTo(rec, n) == \A i \in Indices(rec) : i <= n => Reversible(rec.entries[i])

\* Every backup that the record should name, it names; every one it names is there.
Kept(rec) == \A i \in Indices(rec) :
               ExpectsBackup(rec.entries[i]) => rec.entries[i].path \in rec.backups
OnDisk(t, rec, held) == \A f \in rec.backups : <<t, f>> \in held

\* A record in the journal.
PendingOK(t, rec, held) ==
  /\ PlanOK(t, rec)
  /\ rec.status \in {"staging", "staged", "applied"}
  /\ rec.status = "applied" => rec.discard /\ rec.committed = Len(rec.entries)
  /\ rec.status = "staging" /\ ~rec.atomic => rec.committed = 0
  /\ rec.status # "staging" => Kept(rec)
  /\ ~rec.discard => OnDisk(t, rec, held)

\* A record in history.
FiledOK(t, rec, held) ==
  /\ OnDisk(t, rec, held)
  /\ AtomicOnlyWrites /\ rec.entries # << >> => ReadableHistory(rec)

-----------------------------------------------------------------------------
(* What a process holds in memory: label l, run r, its records j and h on disk *)

Cleaning  == {"discard", "history", "journal", "prune"}
Finishing == {"temps"} \cup Cleaning

Intent(l, r) ==
  /\ l \in {"begin", "prepare", "failTemps", "failWrite", "markApplied"} => r.own
  /\ r.own => r.goal = "completed"
  /\ l = "apply" => r.goal = "completed" /\ (r.own \/ ~r.rec.atomic)
  /\ l = "undo" => r.goal = "rolled_back"
  /\ l \in {"undo", "loaded"} => ~r.own
  /\ l \in Finishing /\ r.goal = "completed" /\ r.rec.discard => ~r.own

Progress(l, r) ==
  LET rec == r.rec IN
  /\ l = "begin" => /\ rec.status = "staging" /\ rec.committed = 0
                    /\ rec.temps = {} /\ rec.backups = {}
  /\ l \in {"prepare", "failTemps"} => rec.status = "staging" /\ MadeOnly(rec, rec.committed)
  /\ l = "apply" => rec.status = "staged"
  /\ l = "markApplied" => rec.status = "staged" /\ rec.discard /\ rec.committed = Len(rec.entries)
  /\ l = "failTemps" => ~rec.atomic
  /\ l = "failWrite" => rec.status = "staged" \/ (rec.status = "staging" /\ rec.atomic)
  /\ l = "undo" => rec.status \in {"staging", "staged"} /\ ReversibleTo(rec, rec.committed)
  /\ l \in Finishing => rec.committed = IF r.goal = "completed" THEN Len(rec.entries) ELSE 0
  /\ l \in {"temps", "discard", "history"} =>
       rec.status \in IF r.goal = "completed" THEN {"staged", "applied"} ELSE {"staging", "staged"}
  /\ l \in Cleaning => rec.temps = {}
  /\ l = "discard" => rec.discard
  /\ l \in {"history", "journal", "prune"} /\ rec.discard => rec.backups = {}
  /\ l \in {"journal", "prune"} => rec.status = r.goal
  /\ rec.status \in {"staged", "applied", "completed"} /\ ~(rec.discard /\ l \in Cleaning) => Kept(rec)
  /\ r.own /\ rec.status = "staging" => HarmlessTo(rec, rec.committed)

Recorded(l, r, j, h) ==
  /\ j # NoRecord => SamePlan(j, r.rec)
  /\ l = "begin" => j = NoRecord
  /\ r.own /\ l \in {"begin", "prepare", "apply", "markApplied"} => h = NoRecord
  /\ l \in {"prepare", "apply", "markApplied", "failTemps", "loaded"} => j # NoRecord
  /\ r.own /\ l \notin {"begin", "failWrite", "prune"} => j # NoRecord
  /\ l = "prepare" => j.status = "staging"
  /\ l = "apply" => j.status = "staged"
  /\ l = "loaded" => j = r.rec
  /\ l \in Finishing /\ r.goal = "completed" /\ j # NoRecord =>
       (r.rec.discard => j.status = "applied") /\ (~r.rec.atomic => j.status = "staged")
  /\ l \in {"journal", "prune"} => h = r.rec
  /\ l = "prune" => j = NoRecord

RunOK(l, r, j, h, held) ==
  /\ PlanOK(r.txn, r.rec)
  /\ Intent(l, r) /\ Progress(l, r) /\ Recorded(l, r, j, h)
  /\ r.own \/ ~r.rec.discard => OnDisk(r.txn, r.rec, held)

\* What the caller read is what the plan replaces.
Believes(r, read) ==
  r.own => \A i \in Indices(r.rec) : LET e == r.rec.entries[i] IN
             e.path \in File => e.old = read[e.path]

Phase(p) ==
  /\ RunOK(pc[p], run[p], journal[run[p].txn], history[run[p].txn], backups)
  /\ Believes(run[p], seen[p])
  /\ run[p].txn < nextId

RunsOK == \A p \in Proc : pc[p] # "idle" => Phase(p)

JournalOK == \A t \in Id : journal[t] # NoRecord =>
               PendingOK(t, journal[t], backups) /\ t < nextId

HistoryOK == \A t \in Id : history[t] # NoRecord =>
               FiledOK(t, history[t], backups) /\ t < nextId

\* A change whose backups are to be discarded is not filed with any.
DiscardedOK == \A t \in Id : (history[t] # NoRecord /\ history[t].backups # {}) =>
                 /\ journal[t] # NoRecord => ~journal[t].discard
                 /\ \A p \in Proc : (pc[p] # "idle" /\ run[p].txn = t) => ~run[p].rec.discard

TempsOK == /\ \A s \in temps : journal[s[1]] # NoRecord
           /\ \A p \in Proc : pc[p] \in Cleaning => \A s \in temps : s[1] # run[p].txn

PhaseInv == RunsOK /\ JournalOK /\ HistoryOK /\ DiscardedOK /\ TempsOK

-----------------------------------------------------------------------------
(* Helpers *)

\* Replacing one field leaves the others alone.
LEMMA StatusField ==
  ASSUME NEW rec, Sound(rec), NEW s
  PROVE  LET u == [rec EXCEPT !.status = s] IN
         /\ u.status = s /\ SamePlan(u, rec)
         /\ u.committed = rec.committed /\ u.temps = rec.temps /\ u.backups = rec.backups
  BY DEF Sound, Record, SamePlan

LEMMA CommittedField ==
  ASSUME NEW rec, Sound(rec), NEW n
  PROVE  LET u == [rec EXCEPT !.committed = n] IN
         /\ u.committed = n /\ SamePlan(u, rec)
         /\ u.status = rec.status /\ u.temps = rec.temps /\ u.backups = rec.backups
  BY DEF Sound, Record, SamePlan

LEMMA TempsField ==
  ASSUME NEW rec, Sound(rec), NEW F
  PROVE  LET u == [rec EXCEPT !.temps = F] IN
         /\ u.temps = F /\ SamePlan(u, rec)
         /\ u.status = rec.status /\ u.committed = rec.committed /\ u.backups = rec.backups
  BY DEF Sound, Record, SamePlan

LEMMA BackupsField ==
  ASSUME NEW rec, Sound(rec), NEW F
  PROVE  LET u == [rec EXCEPT !.backups = F] IN
         /\ u.backups = F /\ SamePlan(u, rec)
         /\ u.status = rec.status /\ u.committed = rec.committed /\ u.temps = rec.temps
  BY DEF Sound, Record, SamePlan

\* What depends on the plan alone survives a change of the other fields.
LEMMA PlanKept ==
  ASSUME NEW rec, NEW other, SamePlan(other, rec)
  PROVE  /\ \A t : PlanOK(t, rec) => PlanOK(t, other)
         /\ \A n : MadeOnly(rec, n) => MadeOnly(other, n)
         /\ \A n : HarmlessTo(rec, n) => HarmlessTo(other, n)
         /\ \A n : ReversibleTo(rec, n) => ReversibleTo(other, n)
         /\ rec.backups \subseteq other.backups /\ Kept(rec) => Kept(other)
  <1>1. Indices(other) = Indices(rec)
    BY DEF Indices, SamePlan
  <1>2. ASSUME NEW t, PlanOK(t, rec) PROVE PlanOK(t, other)
    <2>1. \A e : EntryOK(t, rec, e) => EntryOK(t, other, e)
      BY DEF EntryOK, SamePlan
    <2> QED BY <1>1, <1>2, <2>1 DEF PlanOK, SamePlan
  <1>3. /\ \A n : MadeOnly(rec, n) => MadeOnly(other, n)
        /\ \A n : HarmlessTo(rec, n) => HarmlessTo(other, n)
        /\ \A n : ReversibleTo(rec, n) => ReversibleTo(other, n)
    BY <1>1 DEF MadeOnly, HarmlessTo, ReversibleTo, SamePlan
  <1>4. rec.backups \subseteq other.backups /\ Kept(rec) => Kept(other)
    BY <1>1 DEF Kept, SamePlan
  <1> QED BY <1>2, <1>3, <1>4

LEMMA SoundIsRecord ==
  ASSUME NEW rec, Sound(rec)
  PROVE  /\ rec # NoRecord /\ rec.status \in Status
         /\ rec.atomic \in BOOLEAN /\ rec.discard \in BOOLEAN
         /\ SamePlan(rec, rec)
  <1>1. rec.status # "none"
    BY RecordFields DEF Status
  <1> QED BY <1>1, RecordFields DEF NoRecord, SamePlan

\* Where p is after Goto and after Release.
LEMMA GotoRun ==
  ASSUME IndInv, NEW p \in Proc, pc[p] # "idle", NEW label, NEW rec, Goto(p, label, rec)
  PROVE  /\ pc'[p] = label /\ run'[p].rec = rec /\ run'[p].txn = run[p].txn
         /\ run'[p].own = run[p].own /\ run'[p].goal = run[p].goal /\ run'[p].undo = run[p].undo
  <1>1. run[p] \in Run /\ p \in DOMAIN run /\ p \in DOMAIN pc
    BY DEF IndInv, ControlOK
  <1>2. run'[p] = [run[p] EXCEPT !.rec = rec]
    BY <1>1 DEF Goto
  <1> QED BY <1>1, <1>2 DEF Goto, Run

LEMMA ReleaseRun ==
  ASSUME IndInv, NEW p \in Proc, Release(p)
  PROVE  pc'[p] = "idle"
  BY DEF IndInv, ControlOK, Release

LEMMA AtPhase ==
  ASSUME IndInv, PhaseInv, NEW p \in Proc, pc[p] # "idle"
  PROVE  /\ RunOK(pc[p], run[p], journal[Txn(p)], history[Txn(p)], backups)
         /\ PlanOK(Txn(p), Rec(p)) /\ Intent(pc[p], run[p]) /\ Progress(pc[p], run[p])
         /\ Recorded(pc[p], run[p], journal[Txn(p)], history[Txn(p)])
         /\ run[p].own \/ ~Rec(p).discard => OnDisk(Txn(p), Rec(p), backups)
         /\ Believes(run[p], seen[p]) /\ Txn(p) < nextId
         /\ Sound(Rec(p)) /\ Txn(p) \in Id /\ Rec(p) # NoRecord /\ Rec(p).status \in Status
         /\ Rec(p).atomic \in BOOLEAN /\ Rec(p).discard \in BOOLEAN /\ SamePlan(Rec(p), Rec(p))
         /\ run[p].own \in BOOLEAN /\ run[p].goal \in {"completed", "rolled_back"}
         /\ run[p].txn = Txn(p) /\ run[p].rec = Rec(p)
  <1>1. run[p].own \in BOOLEAN /\ run[p].goal \in {"completed", "rolled_back"}
    BY DEF IndInv, ControlOK, Run
  <1> QED BY <1>1, AtWork, SoundIsRecord DEF PhaseInv, RunsOK, Phase, RunOK, Txn, Rec

\* The run of p after a step, for the records j and h that the step leaves on disk.
Follows(p, j, h, held) ==
  pc'[p] # "idle" =>
    /\ RunOK(pc'[p], run'[p], j, h, held)
    /\ run'[p].own => run[p].own
    /\ SamePlan(run'[p].rec, Rec(p))

\* Wherever commitRun.fail leads, the run it leaves is consistent with the disk.
LEMMA ErrorRun ==
  ASSUME IndInv, PhaseInv, NEW p \in Proc, pc[p] # "idle",
         NEW rec, Sound(rec), SamePlan(rec, Rec(p)), OnError(p, rec),
         NEW j, j # NoRecord => SamePlan(j, rec), NEW h, NEW held,
         run[p].own => OnDisk(Txn(p), rec, held),
         run[p].own /\ rec.status = "staging" =>
           /\ HarmlessTo(rec, rec.committed)
           /\ ~rec.atomic => MadeOnly(rec, rec.committed) /\ j # NoRecord,
         run[p].own /\ rec.status # "staging" => Kept(rec)
  PROVE  Follows(p, j, h, held)
  <1>1. PlanOK(Txn(p), rec) /\ run[p].txn = Txn(p)
    BY AtPhase, PlanKept DEF Txn
  <1>2. run[p].own => run[p].goal = "completed"
    BY AtPhase DEF Intent
  <1>3. CASE Release(p)
    BY <1>3, ReleaseRun DEF Follows
  <1>4. CASE /\ run[p].own /\ rec.atomic
             /\ Goto(p, "failWrite",
                  [rec EXCEPT !.status = IF rec.status = "staging" THEN "staging" ELSE "staged"])
    <2> DEFINE status == IF rec.status = "staging" THEN "staging" ELSE "staged"
               failed == [rec EXCEPT !.status = status]
    <2>1. /\ failed.status = status /\ SamePlan(failed, rec)
          /\ failed.committed = rec.committed /\ failed.backups = rec.backups
      BY StatusField
    <2>2. /\ pc'[p] = "failWrite" /\ run'[p].rec = failed /\ run'[p].txn = run[p].txn
          /\ run'[p].own /\ run'[p].goal = "completed"
      BY <1>2, <1>4, GotoRun
    <2>3. PlanOK(Txn(p), failed) /\ OnDisk(Txn(p), failed, held)
      BY <1>1, <1>4, <2>1, PlanKept DEF OnDisk
    <2>4. /\ status = "staging" => HarmlessTo(failed, failed.committed)
          /\ status = "staged" => Kept(failed)
      BY <1>4, <2>1, PlanKept
    <2>5. j # NoRecord => SamePlan(j, failed)
      BY <2>1 DEF SamePlan
    <2> HIDE DEF failed
    <2>6. Intent("failWrite", run'[p]) /\ Progress("failWrite", run'[p])
      BY <1>4, <2>1, <2>2, <2>4 DEF Intent, Progress, Finishing, Cleaning, SamePlan
    <2>7. Recorded("failWrite", run'[p], j, h)
      BY <2>2, <2>5 DEF Recorded, Finishing, Cleaning
    <2> QED BY <1>1, <1>2, <1>4, <2>1, <2>2, <2>3, <2>6, <2>7 DEF Follows, RunOK, SamePlan
  <1>5. CASE /\ run[p].own /\ ~rec.atomic
             /\ \/ rec.status = "staging" /\ Goto(p, "failTemps", rec)
                \/ rec.status = "staged" /\ Goto(p, "failWrite", rec)
    <2>1. /\ run'[p].rec = rec /\ run'[p].txn = run[p].txn
          /\ run'[p].own /\ run'[p].goal = "completed"
          /\ \/ rec.status = "staging" /\ pc'[p] = "failTemps"
             \/ rec.status = "staged" /\ pc'[p] = "failWrite"
      BY <1>2, <1>5, GotoRun
    <2>2. Intent(pc'[p], run'[p]) /\ Progress(pc'[p], run'[p])
      BY <1>5, <2>1 DEF Intent, Progress, Finishing, Cleaning
    <2>3. Recorded(pc'[p], run'[p], j, h)
      BY <1>5, <2>1 DEF Recorded, Finishing, Cleaning
    <2> QED BY <1>1, <1>2, <1>5, <2>1, <2>2, <2>3 DEF Follows, RunOK
  <1> QED BY <1>3, <1>4, <1>5 DEF OnError

LEMMA ErrorLabel ==
  ASSUME IndInv, NEW p \in Proc, pc[p] # "idle", NEW rec, OnError(p, rec)
  PROVE  pc'[p] \in {"idle", "failTemps", "failWrite"}
  BY GotoRun, ReleaseRun DEF OnError

\* Records that stand still, backups that only grow.
LEMMA JournalFrame ==
  ASSUME PhaseInv, UNCHANGED <<journal, nextId>>, backups \subseteq backups'
  PROVE  JournalOK'
  BY DEF PhaseInv, JournalOK, PendingOK, OnDisk

LEMMA HistoryFrame ==
  ASSUME PhaseInv, UNCHANGED <<history, nextId>>, backups \subseteq backups'
  PROVE  HistoryOK'
  BY DEF PhaseInv, HistoryOK, FiledOK, OnDisk

LEMMA JournalRewritten ==
  ASSUME IndInv, PhaseInv, UNCHANGED nextId, backups \subseteq backups',
         NEW t \in Id, t < nextId, NEW rec, Written(t, rec) \/ PerhapsWritten(t, rec),
         PendingOK(t, rec, backups')
  PROVE  JournalOK'
  <1>1. \A u \in Id : journal'[u] = journal[u] \/ (u = t /\ journal'[u] = rec)
    BY DEF Written, PerhapsWritten, IndInv, RecordsOK
  <1> QED BY <1>1 DEF PhaseInv, JournalOK, PendingOK, OnDisk

\* A step of p that rewrites no record but its own.
LEMMA DiscardedFrame ==
  ASSUME IndInv, PhaseInv, NEW p \in Proc, pc[p] # "idle", Moves(p), UNCHANGED history,
         pc'[p] # "idle" => SamePlan(run'[p].rec, Rec(p)),
         \A t \in Id : journal'[t] \in {journal[t], NoRecord}
                        \/ (t = Txn(p) /\ SamePlan(journal'[t], Rec(p)))
  PROVE  DiscardedOK'
  <1> SUFFICES ASSUME NEW t \in Id, history[t] # NoRecord, history[t].backups # {}
               PROVE  /\ journal'[t] # NoRecord => ~journal'[t].discard
                      /\ \A q \in Proc : (pc'[q] # "idle" /\ run'[q].txn = t) =>
                                           ~run'[q].rec.discard
    BY DEF DiscardedOK
  <1>1. \A q \in Proc \ {p} : pc'[q] = "idle"
    BY DEF Moves, IndInv, ControlOK
  <1>2. /\ journal[t] # NoRecord => ~journal[t].discard
        /\ Txn(p) = t => ~Rec(p).discard
    BY DEF PhaseInv, DiscardedOK, Txn, Rec
  <1> QED BY <1>1, <1>2 DEF Moves, SamePlan, Txn

\* No staged sibling appears, and those of p are gone when p starts to clean up.
LEMMA TempsFrame ==
  ASSUME IndInv, PhaseInv, NEW p \in Proc, pc[p] # "idle", Moves(p), temps' \subseteq temps,
         \A t \in Id : journal[t] # NoRecord => journal'[t] # NoRecord,
         pc'[p] \in Cleaning => \A s \in temps' : s[1] # Txn(p)
  PROVE  TempsOK'
  <1>1. \A s \in temps' : journal'[s[1]] # NoRecord
    BY DEF PhaseInv, TempsOK, IndInv, FilesOK
  <1>2. \A q \in Proc \ {p} : pc'[q] = "idle"
    BY DEF Moves, IndInv, ControlOK
  <1>3. pc'[p] \in Cleaning => run'[p].txn = Txn(p)
    BY DEF Moves, Cleaning, Txn
  <1> QED BY <1>1, <1>2, <1>3 DEF TempsOK, Cleaning

\* A step of p keeps the invariant if it keeps its parts.
LEMMA PhaseKept ==
  ASSUME IndInv, PhaseInv, NEW p \in Proc, pc[p] # "idle", Moves(p),
         UNCHANGED <<seen, nextId>>,
         Follows(p, journal'[Txn(p)], history'[Txn(p)], backups'),
         JournalOK', HistoryOK', DiscardedOK', TempsOK'
  PROVE  PhaseInv'
  <1>1. \A q \in Proc \ {p} : pc'[q] = "idle"
    BY DEF Moves, IndInv, ControlOK
  <1>2. pc'[p] # "idle" => Phase(p)'
    <2> SUFFICES ASSUME pc'[p] # "idle" PROVE Phase(p)'
      OBVIOUS
    <2>1. run'[p].txn = Txn(p) /\ Txn(p) < nextId
      BY AtPhase DEF Moves, Txn
    <2>2. Believes(run[p], seen[p])
      BY AtPhase
    <2>3. Believes(run'[p], seen[p])
      BY <2>2 DEF Follows, Believes, Indices, Rec, SamePlan
    <2> QED BY <2>1, <2>3 DEF Follows, Phase
  <1>3. RunsOK'
    BY <1>1, <1>2 DEF RunsOK
  <1> QED BY <1>3 DEF PhaseInv

\* The same for a step that touches neither the records nor the backups of others.
LEMMA PhaseOfMemory ==
  ASSUME IndInv, PhaseInv, NEW p \in Proc, pc[p] # "idle", Moves(p),
         UNCHANGED <<journal, history, seen, nextId>>,
         backups \subseteq backups', temps' \subseteq temps,
         Follows(p, journal[Txn(p)], history[Txn(p)], backups'),
         pc'[p] \in Cleaning => \A s \in temps' : s[1] # Txn(p)
  PROVE  PhaseInv'
  <1>1. DiscardedOK'
    BY DiscardedFrame DEF Follows
  <1> QED BY <1>1, JournalFrame, HistoryFrame, TempsFrame, PhaseKept

-----------------------------------------------------------------------------
(* PhaseInv, action by action *)

\* Every step of p that stays at work is described by the label and record it goes to.
LEMMA GotoFollows ==
  ASSUME IndInv, PhaseInv, NEW p \in Proc, pc[p] # "idle",
         NEW label, NEW rec, Goto(p, label, rec), SamePlan(rec, Rec(p)),
         NEW j, j # NoRecord => SamePlan(j, rec), NEW h, NEW held,
         Intent(label, run'[p]), Progress(label, run'[p]), Recorded(label, run'[p], j, h),
         run[p].own \/ ~rec.discard => OnDisk(Txn(p), rec, held)
  PROVE  Follows(p, j, h, held)
  <1>1. /\ pc'[p] = label /\ run'[p].rec = rec /\ run'[p].txn = Txn(p)
        /\ run'[p].own = run[p].own
    BY GotoRun DEF Txn
  <1>2. PlanOK(Txn(p), rec)
    BY AtPhase, PlanKept
  <1> QED BY <1>1, <1>2 DEF Follows, RunOK, SamePlan

LEMMA BeginPhase ==
  ASSUME IndInv, PhaseInv, NEW p \in Proc, Begin(p), Moves(p)
  PROVE  PhaseInv'
  <1> DEFINE rec == Rec(p)
             t   == Txn(p)
  <1>1. /\ pc[p] = "begin" /\ pc[p] # "idle"
        /\ \/ Written(t, rec) /\ Goto(p, "prepare", rec)
           \/ PerhapsWritten(t, rec) /\ Release(p)
        /\ UNCHANGED <<temps, backups, history, seen, nextId>>
    BY DEF Begin
  <1>2. /\ Intent("begin", run[p]) /\ Progress("begin", run[p])
        /\ Recorded("begin", run[p], journal[t], history[t]) /\ PlanOK(t, rec) /\ t < nextId
        /\ Sound(rec) /\ t \in Id /\ rec # NoRecord /\ run[p].rec = rec
        /\ rec.atomic \in BOOLEAN /\ rec.discard \in BOOLEAN /\ SamePlan(rec, rec)
    BY <1>1, AtPhase
  <1>3. /\ rec.status = "staging" /\ rec.committed = 0
        /\ run[p].own /\ run[p].goal = "completed"
    BY <1>2 DEF Progress, Intent
  <1>4. OnDisk(t, rec, backups)
    BY <1>1, <1>3, AtPhase
  <1>5. JournalOK'
    <2>1. PendingOK(t, rec, backups')
      BY <1>1, <1>2, <1>3, <1>4 DEF PendingOK
    <2> QED BY <1>1, <1>2, <1>4, <2>1, JournalRewritten
  <1>6. Follows(p, journal'[t], history'[t], backups')
    <2>1. CASE Written(t, rec) /\ Goto(p, "prepare", rec)
      <3>1. journal'[t] = rec
        BY <1>2, <2>1 DEF Written, IndInv, RecordsOK
      <3>2. /\ pc'[p] = "prepare" /\ run'[p].rec = rec /\ run'[p].own = run[p].own
            /\ run'[p].goal = run[p].goal
        BY <1>1, <2>1, GotoRun
      <3>3. Intent("prepare", run'[p])
        BY <1>3, <3>2 DEF Intent, Finishing, Cleaning
      <3>4. Progress("prepare", run'[p])
        <4>1. MadeOnly(rec, rec.committed) /\ HarmlessTo(rec, rec.committed)
          BY <1>3 DEF MadeOnly, HarmlessTo, Indices
        <4> QED BY <1>3, <3>2, <4>1 DEF Progress, Finishing, Cleaning
      <3>5. Recorded("prepare", run'[p], rec, history'[t])
        BY <1>1, <1>2, <1>3, <3>1, <3>2 DEF Recorded, Finishing, Cleaning
      <3> HIDE DEF rec, t
      <3>6. Follows(p, rec, history'[t], backups')
        BY <1>1, <1>2, <1>4, <2>1, <3>3, <3>4, <3>5, GotoFollows DEF rec, t
      <3> QED BY <3>1, <3>6
    <2>2. CASE Release(p)
      BY <2>2, ReleaseRun DEF Follows
    <2> QED BY <1>1, <2>1, <2>2
  <1>7. TempsOK'
    <2>1. \A u \in Id : journal[u] # NoRecord => journal'[u] # NoRecord
      BY <1>1, <1>2 DEF Written, PerhapsWritten, IndInv, RecordsOK
    <2>2. pc'[p] \notin Cleaning
      BY <1>1, GotoRun, ReleaseRun DEF Cleaning
    <2> QED BY <1>1, <2>1, <2>2, TempsFrame
  <1>8. HistoryOK' /\ DiscardedOK'
    <2>1. \A u \in Id : journal'[u] = journal[u] \/ (u = t /\ journal'[u] = rec)
      BY <1>1 DEF Written, PerhapsWritten, IndInv, RecordsOK
    <2> QED BY <1>1, <1>2, <1>6, <2>1, HistoryFrame, DiscardedFrame DEF Follows
  <1> QED BY <1>1, <1>5, <1>6, <1>7, <1>8, PhaseKept

\* A step that rewrites the record of p in the journal.
LEMMA PhaseOfRecord ==
  ASSUME IndInv, PhaseInv, NEW p \in Proc, pc[p] # "idle", Moves(p),
         UNCHANGED <<backups, history, seen, nextId>>, temps' \subseteq temps,
         NEW rec, Sound(rec), SamePlan(rec, Rec(p)),
         Written(Txn(p), rec) \/ PerhapsWritten(Txn(p), rec),
         PendingOK(Txn(p), rec, backups),
         Follows(p, journal'[Txn(p)], history[Txn(p)], backups),
         pc'[p] \notin Cleaning
  PROVE  PhaseInv'
  <1>1. Txn(p) \in Id /\ Txn(p) < nextId /\ rec # NoRecord
    BY AtPhase, SoundIsRecord
  <1>2. JournalOK'
    <2>1. PendingOK(Txn(p), rec, backups')
      OBVIOUS
    <2> QED BY <1>1, <2>1, JournalRewritten
  <1>3. \A u \in Id : journal[u] # NoRecord => journal'[u] # NoRecord
    BY <1>1 DEF Written, PerhapsWritten, IndInv, RecordsOK
  <1>4. HistoryOK' /\ TempsOK'
    BY <1>3, HistoryFrame, TempsFrame
  <1>5. DiscardedOK'
    <2>1. \A u \in Id : journal'[u] = journal[u] \/ (u = Txn(p) /\ journal'[u] = rec)
      BY <1>1 DEF Written, PerhapsWritten, IndInv, RecordsOK
    <2> QED BY <2>1, DiscardedFrame DEF Follows
  <1> QED BY <1>2, <1>4, <1>5, PhaseKept

\* What p knows while it prepares its change.
LEMMA Preparing ==
  ASSUME IndInv, PhaseInv, NEW p \in Proc, pc[p] \in {"prepare", "failTemps"}
  PROVE  /\ run[p].own /\ run[p].goal = "completed"
         /\ Rec(p).status = "staging" /\ MadeOnly(Rec(p), Rec(p).committed)
         /\ HarmlessTo(Rec(p), Rec(p).committed) /\ OnDisk(Txn(p), Rec(p), backups)
         /\ journal[Txn(p)] # NoRecord /\ SamePlan(journal[Txn(p)], Rec(p))
         /\ pc[p] = "prepare" => journal[Txn(p)].status = "staging"
         /\ pc[p] = "failTemps" => ~Rec(p).atomic
         /\ pc[p] = "prepare" => history[Txn(p)] = NoRecord
  <1>1. pc[p] # "idle"
    OBVIOUS
  <1>2. /\ Intent(pc[p], run[p]) /\ Progress(pc[p], run[p]) /\ run[p].rec = Rec(p)
        /\ Recorded(pc[p], run[p], journal[Txn(p)], history[Txn(p)])
        /\ run[p].own => OnDisk(Txn(p), Rec(p), backups)
    BY <1>1, AtPhase
  <1> QED BY <1>2 DEF Intent, Progress, Recorded

\* While it prepares, p may change the fields of its record other than the status.
LEMMA PrepareRun ==
  ASSUME IndInv, PhaseInv, NEW p \in Proc, pc[p] \in {"prepare", "failTemps"},
         NEW rec, Goto(p, pc[p], rec), SamePlan(rec, Rec(p)), rec.status = "staging",
         MadeOnly(rec, rec.committed), NEW held, OnDisk(Txn(p), rec, held)
  PROVE  Follows(p, journal[Txn(p)], history[Txn(p)], held)
  <1>1. /\ run[p].own /\ run[p].goal = "completed"
        /\ pc[p] = "prepare" => history[Txn(p)] = NoRecord
        /\ journal[Txn(p)] # NoRecord /\ SamePlan(journal[Txn(p)], Rec(p))
        /\ pc[p] = "prepare" => journal[Txn(p)].status = "staging"
        /\ pc[p] = "failTemps" => ~Rec(p).atomic
    BY Preparing
  <1>2. pc[p] # "idle" /\ run'[p].rec = rec /\ run'[p].own /\ run'[p].goal = "completed"
    BY <1>1, GotoRun
  <1>3. Intent(pc[p], run'[p])
    BY <1>1, <1>2 DEF Intent, Finishing, Cleaning
  <1>4. Progress(pc[p], run'[p])
    <2>1. HarmlessTo(rec, rec.committed)
      BY DEF MadeOnly, HarmlessTo, Harmless
    <2> QED BY <1>1, <1>2, <2>1 DEF Progress, Finishing, Cleaning, SamePlan
  <1>5. SamePlan(journal[Txn(p)], rec)
    BY <1>1 DEF SamePlan
  <1>6. Recorded(pc[p], run'[p], journal[Txn(p)], history[Txn(p)])
    BY <1>1, <1>2, <1>5 DEF Recorded, Finishing, Cleaning
  <1> QED BY <1>1, <1>2, <1>3, <1>4, <1>5, <1>6, GotoFollows

\* While it prepares, p may fail.
LEMMA PrepareError ==
  ASSUME IndInv, PhaseInv, NEW p \in Proc, pc[p] = "prepare", OnError(p, Rec(p)),
         NEW held, backups \subseteq held
  PROVE  Follows(p, journal[Txn(p)], history[Txn(p)], held)
  <1>1. /\ Rec(p).status = "staging" /\ MadeOnly(Rec(p), Rec(p).committed)
        /\ HarmlessTo(Rec(p), Rec(p).committed) /\ OnDisk(Txn(p), Rec(p), backups)
        /\ journal[Txn(p)] # NoRecord /\ SamePlan(journal[Txn(p)], Rec(p))
    BY Preparing
  <1>2. Sound(Rec(p)) /\ SamePlan(Rec(p), Rec(p)) /\ pc[p] # "idle"
    BY AtPhase
  <1>3. OnDisk(Txn(p), Rec(p), held)
    BY <1>1 DEF OnDisk
  <1> QED BY <1>1, <1>2, <1>3, ErrorRun

LEMMA MakeDirectoryPhase ==
  ASSUME IndInv, PhaseInv, NEW p \in Proc, MakeDirectory(p), Moves(p)
  PROVE  PhaseInv'
  <1> DEFINE rec == Rec(p)
  <1>1. /\ pc[p] = "prepare" /\ pc[p] # "idle"
        /\ UNCHANGED <<temps, backups, journal, history, seen, nextId>>
    BY DEF MakeDirectory
  <1>2. PICK i \in Indices(rec) :
          /\ FirstOf(i, DirsToMake(rec))
          /\ Goto(p, "prepare", [rec EXCEPT !.committed = i]) \/ OnError(p, rec)
    BY DEF MakeDirectory
  <1>3. Sound(rec) /\ PlanOK(Txn(p), rec)
    BY <1>1, AtPhase
  <1>4. Follows(p, journal[Txn(p)], history[Txn(p)], backups)
    <2>1. CASE Goto(p, "prepare", [rec EXCEPT !.committed = i])
      <3> DEFINE made == [rec EXCEPT !.committed = i]
      <3>1. /\ SamePlan(made, rec) /\ made.committed = i
            /\ made.status = rec.status /\ made.backups = rec.backups
        BY <1>3, CommittedField
      <3>2. rec.entries[i].action = "mkdir"
        BY <1>2 DEF FirstOf, DirsToMake
      <3>3. MadeOnly(made, i)
        BY <1>3, <3>1, <3>2, RecordFields DEF MadeOnly, PlanOK, Indices, SamePlan
      <3>4. rec.status = "staging" /\ OnDisk(Txn(p), rec, backups)
        BY <1>1, Preparing
      <3>5. OnDisk(Txn(p), made, backups)
        BY <3>1, <3>4 DEF OnDisk
      <3> HIDE DEF made
      <3> QED BY <1>1, <2>1, <3>1, <3>3, <3>4, <3>5, PrepareRun DEF made
    <2>2. CASE OnError(p, rec)
      BY <1>1, <2>2, PrepareError
    <2> QED BY <1>2, <2>1, <2>2
  <1>5. pc'[p] \notin Cleaning
    BY <1>1, <1>2, GotoRun, ErrorLabel DEF Cleaning
  <1> QED BY <1>1, <1>4, <1>5, PhaseOfMemory

LEMMA WriteBackupPhase ==
  ASSUME IndInv, PhaseInv, NEW p \in Proc, WriteBackup(p), Moves(p)
  PROVE  PhaseInv'
  <1> DEFINE rec == Rec(p)
  <1>1. /\ pc[p] = "prepare" /\ pc[p] # "idle"
        /\ UNCHANGED <<temps, journal, history, seen, nextId>>
    BY DEF WriteBackup
  <1>2. PICK i \in Indices(rec) :
          \/ /\ backups' = backups \cup {<<Txn(p), rec.entries[i].path>>}
             /\ Goto(p, "prepare", [rec EXCEPT !.backups = @ \cup {rec.entries[i].path}])
          \/ /\ backups' \in {backups, backups \cup {<<Txn(p), rec.entries[i].path>>}}
             /\ OnError(p, rec)
    BY DEF WriteBackup
  <1>3. Sound(rec) /\ backups \subseteq backups'
    BY <1>1, <1>2, AtPhase
  <1>4. Follows(p, journal[Txn(p)], history[Txn(p)], backups')
    <2>1. CASE /\ backups' = backups \cup {<<Txn(p), rec.entries[i].path>>}
               /\ Goto(p, "prepare", [rec EXCEPT !.backups = @ \cup {rec.entries[i].path}])
      <3> DEFINE kept == [rec EXCEPT !.backups = @ \cup {rec.entries[i].path}]
      <3>1. /\ SamePlan(kept, rec) /\ kept.backups = rec.backups \cup {rec.entries[i].path}
            /\ kept.status = rec.status /\ kept.committed = rec.committed
        BY <1>3, BackupsField
      <3>2. /\ rec.status = "staging" /\ OnDisk(Txn(p), rec, backups)
            /\ MadeOnly(rec, rec.committed)
        BY <1>1, Preparing
      <3>3. MadeOnly(kept, kept.committed)
        BY <3>1, <3>2, PlanKept
      <3>4. OnDisk(Txn(p), kept, backups')
        BY <2>1, <3>1, <3>2 DEF OnDisk
      <3> HIDE DEF kept
      <3> QED BY <1>1, <2>1, <3>1, <3>2, <3>3, <3>4, PrepareRun DEF kept
    <2>2. CASE OnError(p, rec)
      BY <1>1, <1>3, <2>2, PrepareError
    <2> QED BY <1>2, <2>1, <2>2
  <1>5. pc'[p] \notin Cleaning
    BY <1>1, <1>2, GotoRun, ErrorLabel DEF Cleaning
  <1> QED BY <1>1, <1>3, <1>4, <1>5, PhaseOfMemory

LEMMA StageWritePhase ==
  ASSUME IndInv, PhaseInv, NEW p \in Proc, StageWrite(p), Moves(p)
  PROVE  PhaseInv'
  <1> DEFINE rec == Rec(p)
             t   == Txn(p)
  <1>1. /\ pc[p] = "prepare" /\ pc[p] # "idle"
        /\ UNCHANGED <<backups, journal, history, seen, nextId>>
    BY DEF StageWrite
  <1>2. PICK i \in Indices(rec) :
          \/ /\ temps' = temps \cup {<<t, rec.entries[i].path>>}
             /\ Goto(p, "prepare", [rec EXCEPT !.temps = @ \cup {rec.entries[i].path}])
          \/ UNCHANGED temps /\ OnError(p, rec)
    BY DEF StageWrite
  <1>3. Sound(rec) /\ run[p].txn = t /\ t \in Id
    BY <1>1, AtPhase
  <1>4. Follows(p, journal[t], history[t], backups)
    <2>1. CASE Goto(p, "prepare", [rec EXCEPT !.temps = @ \cup {rec.entries[i].path}])
      <3> DEFINE staged == [rec EXCEPT !.temps = @ \cup {rec.entries[i].path}]
      <3>1. /\ SamePlan(staged, rec) /\ staged.backups = rec.backups
            /\ staged.status = rec.status /\ staged.committed = rec.committed
        BY <1>3, TempsField
      <3>2. /\ rec.status = "staging" /\ OnDisk(t, rec, backups)
            /\ MadeOnly(rec, rec.committed)
        BY <1>1, Preparing
      <3>3. MadeOnly(staged, staged.committed)
        BY <3>1, <3>2, PlanKept
      <3>4. OnDisk(t, staged, backups)
        BY <3>1, <3>2 DEF OnDisk
      <3> HIDE DEF staged
      <3> QED BY <1>1, <2>1, <3>1, <3>2, <3>3, <3>4, PrepareRun DEF staged
    <2>2. CASE OnError(p, rec)
      BY <1>1, <2>2, PrepareError
    <2> QED BY <1>2, <2>1, <2>2
  <1>5. pc'[p] \notin Cleaning
    BY <1>1, <1>2, GotoRun, ErrorLabel DEF Cleaning
  <1>6. TempsOK'
    <2>1. journal[t] # NoRecord
      BY <1>1, Preparing
    <2>2. \A s \in temps' : journal'[s[1]] # NoRecord
      BY <1>1, <1>2, <2>1 DEF PhaseInv, TempsOK
    <2>3. \A q \in Proc : pc'[q] \notin Cleaning
      BY <1>1, <1>5 DEF Moves, IndInv, ControlOK, Cleaning
    <2> QED BY <2>2, <2>3 DEF TempsOK
  <1>7. JournalOK' /\ HistoryOK' /\ DiscardedOK'
    BY <1>1, <1>4, JournalFrame, HistoryFrame, DiscardedFrame DEF Follows
  <1> QED BY <1>1, <1>4, <1>6, <1>7, PhaseKept

LEMMA MarkStagedPhase ==
  ASSUME IndInv, PhaseInv, NEW p \in Proc, MarkStaged(p), Moves(p)
  PROVE  PhaseInv'
  <1> DEFINE rec    == Rec(p)
             t      == Txn(p)
             staged == [rec EXCEPT !.status = "staged"]
  <1>1. /\ pc[p] = "prepare" /\ pc[p] # "idle" /\ BackupsToWrite(rec) = {}
        /\ \/ Written(t, staged) /\ Goto(p, "apply", staged)
           \/ PerhapsWritten(t, staged) /\ OnError(p, IF staged.atomic THEN staged ELSE rec)
        /\ UNCHANGED <<temps, backups, history, seen, nextId>>
    BY DEF MarkStaged
  <1>2. /\ Sound(rec) /\ t \in Id /\ run[p].rec = rec
        /\ rec.atomic \in BOOLEAN /\ rec.discard \in BOOLEAN /\ PlanOK(t, rec)
        /\ SamePlan(rec, rec)
    BY <1>1, AtPhase
  <1>3. /\ run[p].own /\ run[p].goal = "completed" /\ rec.status = "staging"
        /\ MadeOnly(rec, rec.committed) /\ HarmlessTo(rec, rec.committed)
        /\ OnDisk(t, rec, backups) /\ history[t] = NoRecord
        /\ journal[t] # NoRecord /\ SamePlan(journal[t], rec)
    BY <1>1, Preparing
  <1>4. /\ staged.status = "staged" /\ SamePlan(staged, rec) /\ Sound(staged)
        /\ staged.committed = rec.committed /\ staged.backups = rec.backups
    BY <1>2, StatusField, SoundUpdates DEF Status
  <1>5. staged # NoRecord /\ PlanOK(t, staged) /\ SamePlan(staged, staged)
    BY <1>2, <1>4, SoundIsRecord, PlanKept
  <1>6. Kept(staged)
    <2>1. Kept(rec)
      BY <1>1 DEF Kept, BackupsToWrite
    <2> QED BY <1>4, <2>1, PlanKept
  <1>7. OnDisk(t, staged, backups)
    BY <1>3, <1>4 DEF OnDisk
  <1> HIDE DEF staged
  <1>8. PendingOK(t, staged, backups)
    BY <1>4, <1>5, <1>6, <1>7 DEF PendingOK
  <1>9. Follows(p, journal'[t], history[t], backups)
    <2>1. CASE Written(t, staged) /\ Goto(p, "apply", staged)
      <3>1. journal'[t] = staged
        BY <1>2, <2>1 DEF Written, IndInv, RecordsOK
      <3>2. /\ pc'[p] = "apply" /\ run'[p].rec = staged
            /\ run'[p].own /\ run'[p].goal = "completed"
        BY <1>1, <1>3, <2>1, GotoRun
      <3>3. Intent("apply", run'[p])
        BY <3>2 DEF Intent, Finishing, Cleaning
      <3>4. Progress("apply", run'[p])
        BY <1>4, <1>6, <3>2 DEF Progress, Finishing, Cleaning
      <3>5. Recorded("apply", run'[p], staged, history[t])
        BY <1>3, <1>4, <1>5, <3>2 DEF Recorded, Finishing, Cleaning
      <3>6. Follows(p, staged, history[t], backups)
        BY <1>1, <1>3, <1>4, <1>5, <1>7, <2>1, <3>3, <3>4, <3>5, GotoFollows
      <3> QED BY <3>1, <3>6
    <2>2. CASE PerhapsWritten(t, staged) /\ OnError(p, IF staged.atomic THEN staged ELSE rec)
      <3>1. journal'[t] = journal[t] \/ journal'[t] = staged
        BY <1>2, <2>2 DEF PerhapsWritten, IndInv, RecordsOK
      <3>2. journal'[t] # NoRecord /\ SamePlan(journal'[t], rec) /\ SamePlan(journal'[t], staged)
        BY <1>3, <1>4, <1>5, <3>1 DEF SamePlan
      <3>3. CASE staged.atomic
        BY <1>1, <1>4, <1>6, <1>7, <2>2, <3>2, <3>3, ErrorRun
      <3>4. CASE ~staged.atomic
        BY <1>1, <1>2, <1>3, <2>2, <3>2, <3>4, ErrorRun
      <3> QED BY <3>3, <3>4
    <2> QED BY <1>1, <2>1, <2>2
  <1>10. pc'[p] \notin Cleaning
    BY <1>1, GotoRun, ErrorLabel DEF Cleaning
  <1> QED BY <1>1, <1>3, <1>4, <1>8, <1>9, <1>10, PhaseOfRecord

\* What p knows while it applies the entries.
LEMMA Applying ==
  ASSUME IndInv, PhaseInv, NEW p \in Proc, pc[p] = "apply"
  PROVE  /\ run[p].goal = "completed" /\ (run[p].own \/ ~Rec(p).atomic)
         /\ Rec(p).status = "staged" /\ Kept(Rec(p))
         /\ journal[Txn(p)] # NoRecord /\ journal[Txn(p)].status = "staged"
         /\ SamePlan(journal[Txn(p)], Rec(p))
         /\ run[p].own => history[Txn(p)] = NoRecord
         /\ run[p].own \/ ~Rec(p).discard => OnDisk(Txn(p), Rec(p), backups)
  <1>1. pc[p] # "idle" /\ pc[p] \notin Cleaning
    BY DEF Cleaning
  <1>2. /\ Intent("apply", run[p]) /\ Progress("apply", run[p]) /\ run[p].rec = Rec(p)
        /\ Recorded("apply", run[p], journal[Txn(p)], history[Txn(p)])
        /\ run[p].own \/ ~Rec(p).discard => OnDisk(Txn(p), Rec(p), backups)
    BY <1>1, AtPhase
  <1> QED BY <1>1, <1>2 DEF Intent, Progress, Recorded

LEMMA AdvancedField ==
  ASSUME NEW rec, Sound(rec), NEW i
  PROVE  /\ Advanced(rec, i).committed = i /\ SamePlan(Advanced(rec, i), rec)
         /\ Advanced(rec, i).status = rec.status /\ Advanced(rec, i).backups = rec.backups
         /\ Advanced(rec, i).temps \subseteq rec.temps
  BY DEF Advanced, Sound, Record, SamePlan

LEMMA ApplyEntryPhase ==
  ASSUME IndInv, PhaseInv, NEW p \in Proc, ApplyEntry(p), Moves(p)
  PROVE  PhaseInv'
  <1> DEFINE rec  == Rec(p)
             t    == Txn(p)
             next == Advanced(rec, rec.committed + 1)
  <1>1. /\ pc[p] = "apply" /\ pc[p] # "idle" /\ rec.committed + 1 <= Len(rec.entries)
        /\ Goto(p, "apply", next) \/ OnError(p, next) \/ OnError(p, rec)
        /\ temps' \subseteq temps
        /\ UNCHANGED <<backups, journal, history, seen, nextId>>
    BY DEF ApplyEntry
  <1>2. /\ Sound(rec) /\ run[p].rec = rec /\ SamePlan(rec, rec)
        /\ rec.atomic \in BOOLEAN /\ rec.discard \in BOOLEAN /\ run[p].own \in BOOLEAN
    BY <1>1, AtPhase
  <1>3. /\ run[p].goal = "completed" /\ (run[p].own \/ ~rec.atomic)
        /\ rec.status = "staged" /\ Kept(rec)
        /\ journal[t] # NoRecord /\ journal[t].status = "staged" /\ SamePlan(journal[t], rec)
        /\ run[p].own => history[t] = NoRecord
        /\ run[p].own \/ ~rec.discard => OnDisk(t, rec, backups)
    BY <1>1, Applying
  <1>4. Sound(next)
    BY <1>1, <1>2, RecordFields, AdvancedSound
  <1>5. /\ SamePlan(next, rec) /\ next.status = "staged" /\ next.backups = rec.backups
    BY <1>2, <1>3, AdvancedField
  <1> HIDE DEF next
  <1>6. Kept(next) /\ (run[p].own \/ ~next.discard => OnDisk(t, next, backups))
    BY <1>3, <1>5, PlanKept DEF OnDisk, SamePlan
  <1>7. SamePlan(journal[t], next)
    BY <1>3, <1>5 DEF SamePlan
  <1>8. Follows(p, journal[t], history[t], backups)
    <2>1. CASE Goto(p, "apply", next)
      <3>1. run'[p].rec = next /\ (run'[p].own <=> run[p].own) /\ run'[p].goal = run[p].goal
        BY <1>1, <2>1, GotoRun
      <3>2. Intent("apply", run'[p]) /\ Progress("apply", run'[p])
        BY <1>2, <1>3, <1>5, <1>6, <3>1 DEF Intent, Progress, Finishing, Cleaning, SamePlan
      <3>3. Recorded("apply", run'[p], journal[t], history[t])
        BY <1>3, <1>5, <1>7, <3>1 DEF Recorded, Finishing, Cleaning
      <3> QED BY <1>1, <1>5, <1>6, <1>7, <2>1, <3>2, <3>3, GotoFollows
    <2>2. CASE OnError(p, next)
      BY <1>1, <1>4, <1>5, <1>6, <1>7, <2>2, ErrorRun
    <2>3. CASE OnError(p, rec)
      BY <1>1, <1>2, <1>3, <2>3, ErrorRun
    <2> QED BY <1>1, <2>1, <2>2, <2>3
  <1>9. pc'[p] \notin Cleaning
    BY <1>1, GotoRun, ErrorLabel DEF Cleaning
  <1> QED BY <1>1, <1>8, <1>9, PhaseOfMemory

LEMMA AppliedPhase ==
  ASSUME IndInv, PhaseInv, NEW p \in Proc, Applied(p), Moves(p)
  PROVE  PhaseInv'
  <1> DEFINE rec  == Rec(p)
             t    == Txn(p)
  <1>1. /\ pc[p] = "apply" /\ pc[p] # "idle" /\ rec.committed = Len(rec.entries)
        /\ Goto(p, AfterApply(rec), rec)
        /\ UNCHANGED <<temps, backups, journal, history, seen, nextId>>
    BY DEF Applied, disk
  <1>2. /\ Sound(rec) /\ run[p].rec = rec /\ SamePlan(rec, rec)
        /\ rec.atomic \in BOOLEAN /\ rec.discard \in BOOLEAN /\ run[p].own \in BOOLEAN
        /\ rec.discard => rec.atomic
    BY <1>1, AtPhase DEF PlanOK
  <1>3. /\ run[p].goal = "completed" /\ (run[p].own \/ ~rec.atomic)
        /\ rec.status = "staged" /\ Kept(rec)
        /\ journal[t] # NoRecord /\ journal[t].status = "staged" /\ SamePlan(journal[t], rec)
        /\ run[p].own => history[t] = NoRecord
        /\ run[p].own \/ ~rec.discard => OnDisk(t, rec, backups)
    BY <1>1, Applying
  <1>4. /\ pc'[p] = AfterApply(rec) /\ run'[p].rec = rec /\ (run'[p].own <=> run[p].own)
        /\ run'[p].goal = run[p].goal
    BY <1>1, GotoRun
  <1>5. Follows(p, journal[t], history[t], backups)
    <2>1. CASE rec.discard
      <3>1. AfterApply(rec) = "markApplied" /\ run[p].own
        BY <1>2, <1>3, <2>1 DEF AfterApply
      <3>2. Intent("markApplied", run'[p]) /\ Progress("markApplied", run'[p])
        BY <1>1, <1>2, <1>3, <1>4, <2>1, <3>1 DEF Intent, Progress, Finishing, Cleaning
      <3>3. Recorded("markApplied", run'[p], journal[t], history[t])
        BY <1>3, <1>4, <3>1 DEF Recorded, Finishing, Cleaning
      <3> QED BY <1>1, <1>2, <1>3, <3>1, <3>2, <3>3, GotoFollows
    <2>2. CASE ~rec.discard
      <3>1. AfterApply(rec) = "temps"
        BY <2>2 DEF AfterApply
      <3>2. Intent("temps", run'[p])
        BY <1>2, <1>3, <1>4, <2>2 DEF Intent, Finishing, Cleaning
      <3>4. Progress("temps", run'[p])
        BY <1>1, <1>3, <1>4 DEF Progress, Finishing, Cleaning
      <3>3. Recorded("temps", run'[p], journal[t], history[t])
        BY <1>3, <1>4, <2>2 DEF Recorded, Finishing, Cleaning
      <3> QED BY <1>1, <1>2, <1>3, <3>1, <3>2, <3>3, <3>4, GotoFollows
    <2> QED BY <2>1, <2>2
  <1>6. pc'[p] \notin Cleaning
    BY <1>4 DEF Cleaning, AfterApply
  <1> QED BY <1>1, <1>5, <1>6, PhaseOfMemory

LEMMA MarkAppliedPhase ==
  ASSUME IndInv, PhaseInv, NEW p \in Proc, MarkApplied(p), Moves(p)
  PROVE  PhaseInv'
  <1> DEFINE rec    == Rec(p)
             t      == Txn(p)
             marked == [rec EXCEPT !.status = "applied"]
             moved  == [run[p] EXCEPT !.rec = marked, !.own = FALSE]
  <1>1. /\ pc[p] = "markApplied" /\ pc[p] # "idle"
        /\ \/ Written(t, marked) /\ pc' = [pc EXCEPT ![p] = "temps"]
              /\ run' = [run EXCEPT ![p] = moved]
           \/ PerhapsWritten(t, marked) /\ OnError(p, marked)
        /\ UNCHANGED <<temps, backups, history, seen, nextId>>
    BY DEF MarkApplied
  <1>2. /\ Sound(rec) /\ t \in Id /\ run[p].rec = rec /\ run[p] \in Run /\ run[p].txn = t
        /\ rec.atomic \in BOOLEAN /\ rec.discard \in BOOLEAN /\ PlanOK(t, rec)
        /\ SamePlan(rec, rec)
    BY <1>1, AtPhase, AtWork
  <1>3. /\ run[p].own /\ run[p].goal = "completed" /\ rec.status = "staged"
        /\ rec.discard /\ rec.committed = Len(rec.entries) /\ Kept(rec) /\ rec.atomic
        /\ journal[t] # NoRecord /\ SamePlan(journal[t], rec)
        /\ OnDisk(t, rec, backups)
    <2>1. /\ Intent("markApplied", run[p]) /\ Progress("markApplied", run[p])
          /\ Recorded("markApplied", run[p], journal[t], history[t])
          /\ run[p].own => OnDisk(t, rec, backups)
      BY <1>1, AtPhase
    <2> QED BY <1>2, <2>1 DEF Intent, Progress, Recorded, Cleaning, PlanOK
  <1>4. /\ marked.status = "applied" /\ SamePlan(marked, rec) /\ Sound(marked)
        /\ marked.committed = rec.committed /\ marked.backups = rec.backups
    BY <1>2, StatusField, SoundUpdates DEF Status
  <1> HIDE DEF marked
  <1>5. /\ marked # NoRecord /\ PlanOK(t, marked) /\ Kept(marked) /\ OnDisk(t, marked, backups)
        /\ marked.discard /\ marked.atomic /\ marked.committed = Len(marked.entries)
        /\ SamePlan(marked, marked)
    BY <1>2, <1>3, <1>4, SoundIsRecord, PlanKept DEF OnDisk, SamePlan
  <1>6. PendingOK(t, marked, backups)
    BY <1>4, <1>5 DEF PendingOK
  <1>7. Follows(p, journal'[t], history[t], backups)
    <2>1. CASE Written(t, marked) /\ pc' = [pc EXCEPT ![p] = "temps"]
               /\ run' = [run EXCEPT ![p] = moved]
      <3>1. journal'[t] = marked /\ pc'[p] = "temps" /\ run'[p] = moved
        BY <1>2, <2>1 DEF Written, IndInv, RecordsOK, ControlOK
      <3>2. /\ run'[p].rec = marked /\ run'[p].own = FALSE /\ run'[p].goal = "completed"
            /\ run'[p].txn = t
        BY <1>2, <1>3, <3>1 DEF Run
      <3>3. Intent("temps", run'[p]) /\ Progress("temps", run'[p])
        BY <1>3, <1>4, <1>5, <3>2 DEF Intent, Progress, Finishing, Cleaning
      <3>4. Recorded("temps", run'[p], marked, history[t])
        BY <1>4, <1>5, <3>2 DEF Recorded, Finishing, Cleaning
      <3> QED BY <1>4, <1>5, <3>1, <3>2, <3>3, <3>4 DEF Follows, RunOK
    <2>2. CASE PerhapsWritten(t, marked) /\ OnError(p, marked)
      <3>1. journal'[t] = journal[t] \/ journal'[t] = marked
        BY <1>2, <2>2 DEF PerhapsWritten, IndInv, RecordsOK
      <3>2. SamePlan(journal'[t], marked)
        BY <1>3, <1>4, <3>1 DEF SamePlan
      <3> QED BY <1>1, <1>4, <1>5, <2>2, <3>2, ErrorRun
    <2> QED BY <1>1, <2>1, <2>2
  <1>8. pc'[p] \notin Cleaning
    BY <1>1, ErrorLabel DEF Cleaning, IndInv, ControlOK
  <1> QED BY <1>1, <1>4, <1>6, <1>7, <1>8, PhaseOfRecord

\* What p knows while it finishes a change, completed or rolled back.
LEMMA Finishes ==
  ASSUME IndInv, PhaseInv, NEW p \in Proc, pc[p] \in Finishing
  PROVE  /\ pc[p] # "idle" /\ Sound(Rec(p)) /\ SamePlan(Rec(p), Rec(p)) /\ Txn(p) \in Id
         /\ Rec(p).atomic \in BOOLEAN /\ Rec(p).discard \in BOOLEAN /\ run[p].own \in BOOLEAN
         /\ run[p].goal \in {"completed", "rolled_back"}
         /\ Intent(pc[p], run[p]) /\ Progress(pc[p], run[p])
         /\ Recorded(pc[p], run[p], journal[Txn(p)], history[Txn(p)])
         /\ run[p].own \/ ~Rec(p).discard => OnDisk(Txn(p), Rec(p), backups)
         /\ run[p].rec = Rec(p)
  <1>1. pc[p] # "idle"
    BY DEF Finishing, Cleaning
  <1> QED BY <1>1, AtPhase

\* While it finishes, p may fail: only a commit of its own does more than return.
LEMMA FinishError ==
  ASSUME IndInv, PhaseInv, NEW p \in Proc, pc[p] \in {"temps", "discard", "history", "journal"},
         NEW rec, Sound(rec), SamePlan(rec, Rec(p)), rec.backups = Rec(p).backups,
         rec.status \in {Rec(p).status, run[p].goal}, OnError(p, rec),
         NEW j, j # NoRecord => SamePlan(j, Rec(p)), NEW h, NEW held,
         run[p].own => OnDisk(Txn(p), Rec(p), held)
  PROVE  Follows(p, j, h, held)
  <1>1. pc[p] \in Finishing /\ pc[p] # "idle"
    BY DEF Finishing, Cleaning
  <1>2. CASE run[p].own
    <2>1. /\ run[p].goal = "completed" /\ ~Rec(p).discard
          /\ Rec(p).status \in {"staged", "applied", "completed"} /\ Kept(Rec(p))
      BY <1>1, <1>2, Finishes DEF Intent, Progress
    <2>2. Kept(rec) /\ rec.status # "staging"
      BY <2>1, PlanKept
    <2>3. OnDisk(Txn(p), rec, held) /\ (j # NoRecord => SamePlan(j, rec))
      BY <1>2 DEF OnDisk, SamePlan
    <2> QED BY <1>1, <2>2, <2>3, ErrorRun
  <1>3. CASE ~run[p].own
    BY <1>3, ReleaseRun DEF OnError, Follows
  <1> QED BY <1>2, <1>3

LEMMA RemoveTempPhase ==
  ASSUME IndInv, PhaseInv, NEW p \in Proc, RemoveTemp(p), Moves(p)
  PROVE  PhaseInv'
  <1> DEFINE rec == Rec(p)
             t   == Txn(p)
  <1>1. /\ pc[p] = "temps" /\ pc[p] \in Finishing
        /\ temps' \subseteq temps
        /\ UNCHANGED <<backups, journal, history, seen, nextId>>
    BY DEF RemoveTemp, Finishing
  <1>2. PICK F : Goto(p, "temps", [rec EXCEPT !.temps = F]) \/ OnError(p, rec)
    BY DEF RemoveTemp
  <1>3. /\ pc[p] # "idle" /\ Sound(rec) /\ SamePlan(rec, rec)
        /\ Intent("temps", run[p]) /\ Progress("temps", run[p])
        /\ Recorded("temps", run[p], journal[t], history[t])
        /\ run[p].own \/ ~rec.discard => OnDisk(t, rec, backups)
        /\ run[p].rec = rec
    BY <1>1, Finishes
  <1>4. Follows(p, journal[t], history[t], backups)
    <2>1. CASE Goto(p, "temps", [rec EXCEPT !.temps = F])
      <3> DEFINE left == [rec EXCEPT !.temps = F]
      <3>1. /\ SamePlan(left, rec) /\ left.backups = rec.backups
            /\ left.status = rec.status /\ left.committed = rec.committed
        BY <1>3, TempsField
      <3> HIDE DEF left
      <3>2. /\ run'[p].rec = left /\ run'[p].own = run[p].own /\ run'[p].goal = run[p].goal
        BY <1>3, <2>1, GotoRun DEF left
      <3>3. Intent("temps", run'[p])
        BY <1>3, <3>1, <3>2 DEF Intent, SamePlan
      <3>4. Progress("temps", run'[p])
        <4>1. /\ Kept(rec) => Kept(left)
              /\ HarmlessTo(rec, rec.committed) => HarmlessTo(left, left.committed)
          BY <3>1, PlanKept
        <4> QED BY <1>3, <3>1, <3>2, <4>1 DEF Progress, SamePlan, Cleaning
      <3>5. Recorded("temps", run'[p], journal[t], history[t])
        BY <1>3, <3>1, <3>2 DEF Recorded, SamePlan
      <3>6. run[p].own \/ ~left.discard => OnDisk(t, left, backups)
        BY <1>3, <3>1 DEF OnDisk, SamePlan
      <3>7. journal[t] # NoRecord => SamePlan(journal[t], left)
        BY <1>3, <3>1 DEF Recorded, SamePlan
      <3> QED BY <1>3, <2>1, <3>1, <3>3, <3>4, <3>5, <3>6, <3>7, GotoFollows DEF left
    <2>2. CASE OnError(p, rec)
      <3>1. /\ journal[t] # NoRecord => SamePlan(journal[t], rec)
            /\ run[p].own => OnDisk(t, rec, backups)
        BY <1>3 DEF Recorded
      <3> QED BY <1>1, <1>3, <2>2, <3>1, FinishError
    <2> QED BY <1>2, <2>1, <2>2
  <1>5. pc'[p] \notin Cleaning
    BY <1>2, <1>3, GotoRun, ErrorLabel DEF Cleaning
  <1> QED BY <1>1, <1>3, <1>4, <1>5, PhaseOfMemory

LEMMA TempsRemovedPhase ==
  ASSUME IndInv, PhaseInv, NEW p \in Proc, TempsRemoved(p), Moves(p)
  PROVE  PhaseInv'
  <1> DEFINE rec  == Rec(p)
             t    == Txn(p)
             left == [rec EXCEPT !.temps = {}]
             label == IF rec.discard THEN "discard" ELSE "history"
  <1>1. /\ pc[p] = "temps" /\ pc[p] \in Finishing /\ LeftTemps(p) = {}
        /\ Goto(p, label, left)
        /\ UNCHANGED <<temps, backups, journal, history, seen, nextId>>
    BY DEF TempsRemoved, Finishing, disk
  <1>2. /\ pc[p] # "idle" /\ Sound(rec) /\ SamePlan(rec, rec)
        /\ Intent("temps", run[p]) /\ Progress("temps", run[p])
        /\ Recorded("temps", run[p], journal[t], history[t])
        /\ run[p].own \/ ~rec.discard => OnDisk(t, rec, backups)
        /\ run[p].rec = rec
    BY <1>1, Finishes
  <1>3. /\ SamePlan(left, rec) /\ left.backups = rec.backups /\ left.temps = {}
        /\ left.status = rec.status /\ left.committed = rec.committed
    BY <1>2, TempsField
  <1> HIDE DEF left
  <1>4. /\ run'[p].rec = left /\ run'[p].own = run[p].own /\ run'[p].goal = run[p].goal
    BY <1>1, <1>2, GotoRun
  <1>5. Intent(label, run'[p])
    BY <1>2, <1>3, <1>4 DEF Intent, SamePlan, Finishing, Cleaning
  <1>6. Progress(label, run'[p])
    <2>1. /\ Kept(rec) => Kept(left)
          /\ HarmlessTo(rec, rec.committed) => HarmlessTo(left, left.committed)
      BY <1>3, PlanKept
    <2> QED BY <1>2, <1>3, <1>4, <2>1 DEF Progress, SamePlan, Finishing, Cleaning
  <1>7. Recorded(label, run'[p], journal[t], history[t])
    BY <1>2, <1>3, <1>4 DEF Recorded, SamePlan, Finishing, Cleaning
  <1>8. run[p].own \/ ~left.discard => OnDisk(t, left, backups)
    BY <1>2, <1>3 DEF OnDisk, SamePlan
  <1>9. journal[t] # NoRecord => SamePlan(journal[t], left)
    BY <1>2, <1>3 DEF Recorded, SamePlan
  <1>10. Follows(p, journal[t], history[t], backups)
    BY <1>1, <1>2, <1>3, <1>5, <1>6, <1>7, <1>8, <1>9, GotoFollows
  <1>11. \A s \in temps' : s[1] # t
    BY <1>1 DEF LeftTemps
  <1> QED BY <1>1, <1>2, <1>10, <1>11, PhaseOfMemory

LEMMA BackupsDiscardedPhase ==
  ASSUME IndInv, PhaseInv, NEW p \in Proc, BackupsDiscarded(p), Moves(p)
  PROVE  PhaseInv'
  <1> DEFINE rec  == Rec(p)
             t    == Txn(p)
  <1>1. /\ pc[p] = "discard" /\ pc[p] \in Finishing /\ rec.backups = {}
        /\ Goto(p, "history", rec)
        /\ UNCHANGED <<temps, backups, journal, history, seen, nextId>>
    BY DEF BackupsDiscarded, Finishing, Cleaning, disk
  <1>2. /\ pc[p] # "idle" /\ Sound(rec) /\ SamePlan(rec, rec) /\ run[p].own \in BOOLEAN
        /\ Intent("discard", run[p]) /\ Progress("discard", run[p])
        /\ Recorded("discard", run[p], journal[t], history[t])
        /\ run[p].own \/ ~rec.discard => OnDisk(t, rec, backups)
        /\ run[p].rec = rec
    BY <1>1, Finishes
  <1>3. /\ run'[p].rec = rec /\ run'[p].own = run[p].own /\ run'[p].goal = run[p].goal
    BY <1>1, <1>2, GotoRun
  <1>4. Intent("history", run'[p])
    BY <1>2, <1>3 DEF Intent, Finishing, Cleaning
  <1>5. Progress("history", run'[p])
    BY <1>1, <1>2, <1>3 DEF Progress, Finishing, Cleaning
  <1>6. Recorded("history", run'[p], journal[t], history[t])
    BY <1>2, <1>3 DEF Recorded, Finishing, Cleaning
  <1>7. journal[t] # NoRecord => SamePlan(journal[t], rec)
    BY <1>2 DEF Recorded
  <1>8. Follows(p, journal[t], history[t], backups)
    BY <1>1, <1>2, <1>4, <1>5, <1>6, <1>7, GotoFollows
  <1>9. \A s \in temps' : s[1] # t
    BY <1>1 DEF PhaseInv, TempsOK, Txn, Cleaning
  <1> QED BY <1>1, <1>2, <1>8, <1>9, PhaseOfMemory

LEMMA DiscardBackupPhase ==
  ASSUME IndInv, PhaseInv, NEW p \in Proc, DiscardBackup(p), Moves(p)
  PROVE  PhaseInv'
  <1> DEFINE rec  == Rec(p)
             t    == Txn(p)
  <1>1. /\ pc[p] = "discard" /\ pc[p] \in Finishing /\ pc[p] \in Cleaning
        /\ UNCHANGED <<temps, journal, history, seen, nextId>>
    BY DEF DiscardBackup, Finishing, Cleaning
  <1>2. PICK f \in rec.backups :
          /\ backups' \in {backups, backups \ {<<t, f>>}}
          /\ Goto(p, "discard", [rec EXCEPT !.backups = @ \ {f}]) \/ OnError(p, rec)
    BY DEF DiscardBackup
  <1>3. /\ pc[p] # "idle" /\ Sound(rec) /\ SamePlan(rec, rec) /\ run[p].own \in BOOLEAN
        /\ run[p].goal \in {"completed", "rolled_back"} /\ rec.discard \in BOOLEAN
        /\ Intent("discard", run[p]) /\ Progress("discard", run[p])
        /\ Recorded("discard", run[p], journal[t], history[t])
        /\ run[p].rec = rec /\ run[p].txn = t
    BY <1>1, Finishes, AtPhase
  <1>4. rec.discard /\ ~run[p].own
    BY <1>3 DEF Intent, Progress, Finishing, Cleaning
  <1>5. \A b \in backups : b[1] # t => b \in backups'
    BY <1>2
  <1>6. JournalOK'
    <2>1. \A u \in Id : journal[u] # NoRecord => u = t /\ journal[u].discard
      BY <1>3, <1>4 DEF IndInv, OnePending, Pending, Recorded, SamePlan
    <2> QED BY <1>1, <2>1 DEF PhaseInv, JournalOK, PendingOK
  <1>7. HistoryOK'
    <2>1. \A u \in Id : history[u] # NoRecord /\ u = t => history[u].backups = {}
      BY <1>3, <1>4 DEF PhaseInv, DiscardedOK
    <2>2. \A u \in Id : history[u] # NoRecord => OnDisk(u, history[u], backups')
      BY <1>5, <2>1 DEF PhaseInv, HistoryOK, FiledOK, OnDisk
    <2> QED BY <1>1, <2>2 DEF PhaseInv, HistoryOK, FiledOK
  <1>8. Follows(p, journal[t], history[t], backups')
    <2>1. CASE Goto(p, "discard", [rec EXCEPT !.backups = @ \ {f}])
      <3> DEFINE left == [rec EXCEPT !.backups = @ \ {f}]
      <3>1. /\ SamePlan(left, rec) /\ left.temps = rec.temps
            /\ left.status = rec.status /\ left.committed = rec.committed
        BY <1>3, BackupsField
      <3> HIDE DEF left
      <3>2. /\ run'[p].rec = left /\ run'[p].own = run[p].own /\ run'[p].goal = run[p].goal
        BY <1>3, <2>1, GotoRun DEF left
      <3>3. Intent("discard", run'[p])
        BY <1>3, <3>1, <3>2 DEF Intent, SamePlan
      <3>4. Progress("discard", run'[p])
        <4>1. HarmlessTo(rec, rec.committed) => HarmlessTo(left, left.committed)
          BY <3>1, PlanKept
        <4> QED BY <1>1, <1>3, <1>4, <3>1, <3>2, <4>1 DEF Progress, SamePlan
      <3>5. Recorded("discard", run'[p], journal[t], history[t])
        BY <1>3, <3>1, <3>2 DEF Recorded, SamePlan
      <3>6. ~run[p].own /\ left.discard
        BY <1>4, <3>1 DEF SamePlan
      <3>7. journal[t] # NoRecord => SamePlan(journal[t], left)
        BY <1>3, <3>1 DEF Recorded, SamePlan
      <3> QED BY <1>3, <2>1, <3>1, <3>3, <3>4, <3>5, <3>6, <3>7, GotoFollows DEF left
    <2>2. CASE OnError(p, rec)
      BY <1>4, <2>2, ReleaseRun DEF OnError, Follows
    <2> QED BY <1>2, <2>1, <2>2
  <1>9. \A s \in temps' : s[1] # t
    BY <1>1 DEF PhaseInv, TempsOK, Txn
  <1>10. DiscardedOK' /\ TempsOK'
    BY <1>1, <1>3, <1>8, <1>9, DiscardedFrame, TempsFrame DEF Follows
  <1> QED BY <1>1, <1>3, <1>6, <1>7, <1>8, <1>10, PhaseKept

\* What is filed can be read back.
LEMMA FiledIsReadable ==
  ASSUME NEW t, NEW rec, Sound(rec), PlanOK(t, rec), AtomicOnlyWrites, rec.entries # << >>,
         rec.status \in {"completed", "rolled_back"},
         rec.status = "completed" =>
           /\ rec.committed = Len(rec.entries) /\ rec.temps = {}
           /\ rec.discard \/ Kept(rec),
         rec.status = "rolled_back" => rec.committed = 0
  PROVE  ReadableHistory(rec)
  <1>1. rec.atomic \in BOOLEAN /\ rec.discard \in BOOLEAN
    BY RecordFields
  <1>2. ASSUME NEW i \in Indices(rec)
        PROVE  /\ rec.atomic => /\ rec.entries[i].action \notin {"move", "remove", "rmdir"}
                                /\ rec.entries[i].action = "write" => rec.entries[i].keep
               /\ (ExpectsBackup(rec.entries[i]) /\ rec.entries[i].path \notin rec.backups) =>
                    \/ rec.status \in {"staging", "rolled_back"}
                    \/ rec.discard /\ rec.status \in {"applied", "completed"}
    <2>1. EntryOK(t, rec, rec.entries[i])
      BY DEF PlanOK
    <2>2. rec.atomic => /\ rec.entries[i].action \notin {"move", "remove", "rmdir"}
                        /\ rec.entries[i].action = "write" => rec.entries[i].keep
      BY <2>1 DEF EntryOK
    <2>3. Kept(rec) /\ ExpectsBackup(rec.entries[i]) => rec.entries[i].path \in rec.backups
      BY DEF Kept
    <2> QED BY <1>1, <2>2, <2>3
  <1>3. ReadableEntries(rec)
    BY <1>2 DEF ReadableEntries
  <1> QED BY <1>3 DEF ReadableHistory

LEMMA WriteHistoryPhase ==
  ASSUME IndInv, PhaseInv, NEW p \in Proc, WriteHistory(p), Moves(p)
  PROVE  PhaseInv'
  <1> DEFINE rec   == Rec(p)
             t     == Txn(p)
             filed == [rec EXCEPT !.status = run[p].goal]
  <1>1. /\ pc[p] = "history" /\ pc[p] \in Finishing /\ pc[p] \in Cleaning
        /\ \/ history' = [history EXCEPT ![t] = filed] /\ Goto(p, "journal", filed)
           \/ history' \in {history, [history EXCEPT ![t] = filed]} /\ OnError(p, filed)
        /\ UNCHANGED <<temps, backups, journal, seen, nextId>>
    BY DEF WriteHistory, Finishing, Cleaning
  <1>2. /\ pc[p] # "idle" /\ Sound(rec) /\ SamePlan(rec, rec) /\ run[p].own \in BOOLEAN
        /\ run[p].goal \in {"completed", "rolled_back"} /\ rec.discard \in BOOLEAN
        /\ Intent("history", run[p]) /\ Progress("history", run[p])
        /\ Recorded("history", run[p], journal[t], history[t])
        /\ run[p].own \/ ~rec.discard => OnDisk(t, rec, backups)
        /\ run[p].rec = rec /\ run[p].txn = t /\ t \in Id /\ PlanOK(t, rec) /\ t < nextId
    BY <1>1, Finishes, AtPhase
  <1>3. /\ filed.status = run[p].goal /\ SamePlan(filed, rec) /\ Sound(filed)
        /\ filed.committed = rec.committed /\ filed.backups = rec.backups
        /\ filed.temps = rec.temps
    BY <1>2, StatusField, SoundUpdates DEF Status
  <1> HIDE DEF filed
  <1>4. /\ filed # NoRecord /\ PlanOK(t, filed) /\ SamePlan(filed, filed)
        /\ filed.discard = rec.discard /\ filed.entries = rec.entries
        /\ Kept(rec) => Kept(filed)
    BY <1>2, <1>3, SoundIsRecord, PlanKept DEF SamePlan
  <1>5. /\ rec.committed = IF run[p].goal = "completed" THEN Len(rec.entries) ELSE 0
        /\ rec.status \in IF run[p].goal = "completed" THEN {"staged", "applied"}
                                                        ELSE {"staging", "staged"}
        /\ rec.temps = {} /\ (rec.discard => rec.backups = {})
        /\ rec.status \in {"staged", "applied"} /\ ~rec.discard => Kept(rec)
    BY <1>1, <1>2 DEF Progress, Finishing, Cleaning
  <1>6. OnDisk(t, filed, backups)
    BY <1>2, <1>3, <1>5 DEF OnDisk
  <1>7. AtomicOnlyWrites /\ filed.entries # << >> => ReadableHistory(filed)
    <2>1. filed.status = "completed" =>
           /\ filed.committed = Len(filed.entries) /\ filed.temps = {}
           /\ filed.discard \/ Kept(filed)
      BY <1>2, <1>3, <1>4, <1>5
    <2>2. filed.status = "rolled_back" => filed.committed = 0
      BY <1>3, <1>5
    <2>3. filed.status \in {"completed", "rolled_back"}
      BY <1>2, <1>3
    <2> QED BY <1>3, <1>4, <2>1, <2>2, <2>3, FiledIsReadable
  <1>8. \A u \in Id : history'[u] = history[u] \/ (u = t /\ history'[u] = filed)
    BY <1>1 DEF IndInv, RecordsOK
  <1>9. HistoryOK'
    BY <1>1, <1>2, <1>6, <1>7, <1>8 DEF PhaseInv, HistoryOK, FiledOK
  <1>10. JournalOK'
    BY <1>1, JournalFrame
  <1>11. \A s \in temps' : s[1] # t
    BY <1>1 DEF PhaseInv, TempsOK, Txn
  <1>12. TempsOK'
    BY <1>1, <1>2, <1>11, TempsFrame
  <1>13. journal[t] # NoRecord => SamePlan(journal[t], rec) /\ SamePlan(journal[t], filed)
    BY <1>2, <1>3 DEF Recorded, SamePlan
  <1>14. Follows(p, journal[t], history'[t], backups)
    <2>1. CASE history' = [history EXCEPT ![t] = filed] /\ Goto(p, "journal", filed)
      <3>1. history'[t] = filed
        BY <1>2, <2>1 DEF IndInv, RecordsOK
      <3>2. /\ run'[p].rec = filed /\ run'[p].own = run[p].own /\ run'[p].goal = run[p].goal
        BY <1>2, <2>1, GotoRun
      <3>3. Intent("journal", run'[p])
        BY <1>2, <1>4, <3>2 DEF Intent, Finishing, Cleaning
      <3>4. Progress("journal", run'[p])
        BY <1>2, <1>3, <1>4, <1>5, <3>2 DEF Progress, Finishing, Cleaning
      <3>5. Recorded("journal", run'[p], journal[t], filed)
        BY <1>2, <1>3, <1>4, <1>13, <3>2 DEF Recorded, SamePlan, Finishing, Cleaning
      <3>6. run[p].own \/ ~filed.discard => OnDisk(t, filed, backups)
        BY <1>6
      <3> QED BY <1>2, <1>3, <1>13, <2>1, <3>1, <3>3, <3>4, <3>5, <3>6, GotoFollows
    <2>2. CASE OnError(p, filed)
      <3>1. run[p].own => OnDisk(t, rec, backups)
        BY <1>2
      <3> QED BY <1>1, <1>2, <1>3, <1>13, <2>2, <3>1, FinishError
    <2> QED BY <1>1, <2>1, <2>2
  <1>15. DiscardedOK'
    <2>1. \A q \in Proc \ {p} : pc'[q] = "idle"
      BY <1>2 DEF Moves, IndInv, ControlOK
    <2>2. \A u \in Id : history'[u] # NoRecord /\ history'[u].backups # {} =>
            /\ journal[u] # NoRecord => ~journal[u].discard
            /\ u = t => ~rec.discard
      <3>1. rec.discard => filed.backups = {}
        BY <1>3, <1>5
      <3>2. \A u \in Id : history[u] # NoRecord /\ history[u].backups # {} =>
              /\ journal[u] # NoRecord => ~journal[u].discard
              /\ u = t => ~rec.discard
        BY <1>2 DEF PhaseInv, DiscardedOK
      <3>3. journal[t] # NoRecord => journal[t].discard = rec.discard
        BY <1>13 DEF SamePlan
      <3> QED BY <1>8, <3>1, <3>2, <3>3
    <2>3. pc'[p] # "idle" => run'[p].rec.discard = rec.discard /\ run'[p].txn = t
      BY <1>2, <1>14 DEF Follows, SamePlan, Moves
    <2> QED BY <1>1, <2>1, <2>2, <2>3 DEF DiscardedOK
  <1> QED BY <1>1, <1>2, <1>9, <1>10, <1>12, <1>14, <1>15, PhaseKept

LEMMA RemoveJournalPhase ==
  ASSUME IndInv, PhaseInv, NEW p \in Proc, RemoveJournal(p), Moves(p)
  PROVE  PhaseInv'
  <1> DEFINE rec   == Rec(p)
             t     == Txn(p)
  <1>1. /\ pc[p] = "journal" /\ pc[p] \in Finishing /\ pc[p] \in Cleaning
        /\ \/ journal' = [journal EXCEPT ![t] = NoRecord] /\ Goto(p, "prune", rec)
           \/ journal' \in {journal, [journal EXCEPT ![t] = NoRecord]} /\ OnError(p, rec)
        /\ UNCHANGED <<temps, backups, history, seen, nextId>>
    BY DEF RemoveJournal, Finishing, Cleaning
  <1>2. /\ pc[p] # "idle" /\ Sound(rec) /\ SamePlan(rec, rec) /\ run[p].own \in BOOLEAN
        /\ run[p].goal \in {"completed", "rolled_back"} /\ rec.discard \in BOOLEAN
        /\ Intent("journal", run[p]) /\ Progress("journal", run[p])
        /\ Recorded("journal", run[p], journal[t], history[t])
        /\ run[p].own \/ ~rec.discard => OnDisk(t, rec, backups)
        /\ run[p].rec = rec /\ run[p].txn = t /\ t \in Id
    BY <1>1, Finishes, AtPhase
  <1>3. \A u \in Id : journal'[u] = journal[u] \/ (u = t /\ journal'[u] = NoRecord)
    BY <1>1 DEF IndInv, RecordsOK
  <1>4. JournalOK' /\ HistoryOK'
    BY <1>1, <1>3, HistoryFrame DEF PhaseInv, JournalOK
  <1>5. \A s \in temps' : s[1] # t
    BY <1>1 DEF PhaseInv, TempsOK, Txn
  <1>6. TempsOK'
    <2>1. \A s \in temps' : journal'[s[1]] # NoRecord
      BY <1>1, <1>3, <1>5 DEF PhaseInv, TempsOK, IndInv, FilesOK
    <2>2. \A q \in Proc \ {p} : pc'[q] = "idle"
      BY <1>2 DEF Moves, IndInv, ControlOK
    <2>3. pc'[p] \in Cleaning => run'[p].txn = t
      BY <1>2 DEF Moves, Cleaning
    <2> QED BY <1>5, <2>1, <2>2, <2>3 DEF TempsOK, Cleaning
  <1>7. Follows(p, journal'[t], history[t], backups)
    <2>1. CASE journal' = [journal EXCEPT ![t] = NoRecord] /\ Goto(p, "prune", rec)
      <3>1. journal'[t] = NoRecord
        BY <1>2, <2>1 DEF IndInv, RecordsOK
      <3>2. /\ run'[p].rec = rec /\ run'[p].own = run[p].own /\ run'[p].goal = run[p].goal
        BY <1>2, <2>1, GotoRun
      <3>3. Intent("prune", run'[p])
        BY <1>2, <3>2 DEF Intent, Finishing, Cleaning
      <3>4. Progress("prune", run'[p])
        BY <1>2, <3>2 DEF Progress, Finishing, Cleaning
      <3>5. Recorded("prune", run'[p], NoRecord, history[t])
        BY <1>2, <3>2 DEF Recorded, Finishing, Cleaning
      <3> QED BY <1>2, <2>1, <3>1, <3>3, <3>4, <3>5, GotoFollows
    <2>2. CASE journal' \in {journal, [journal EXCEPT ![t] = NoRecord]} /\ OnError(p, rec)
      <3>1. /\ journal'[t] # NoRecord => SamePlan(journal'[t], rec)
            /\ run[p].own => OnDisk(t, rec, backups)
        BY <1>2, <1>3 DEF Recorded
      <3> QED BY <1>1, <1>2, <2>2, <3>1, FinishError
    <2> QED BY <1>1, <2>1, <2>2
  <1>8. DiscardedOK'
    BY <1>1, <1>2, <1>3, <1>7, DiscardedFrame DEF Follows
  <1> QED BY <1>1, <1>2, <1>4, <1>6, <1>7, <1>8, PhaseKept

\* Retention spares what is interrupted, and no record outlives its backups.
LEMMA PruneRecords ==
  ASSUME PhaseInv, NEW S, PruneHistory(S), UNCHANGED <<journal, nextId>>
  PROVE  /\ JournalOK' /\ HistoryOK'
         /\ \A t \in Id : history'[t] \in {history[t], NoRecord}
  <1>1. PICK records, trees :
          /\ records \subseteq Finished /\ trees \subseteq records
          /\ history' = [t \in Id |-> IF t \in records THEN NoRecord ELSE history[t]]
          /\ backups' = {b \in backups : b[1] \notin trees}
    BY DEF PruneHistory, Removed
  <1>2. \A t \in Id : \A f : t \notin records /\ <<t, f>> \in backups => <<t, f>> \in backups'
    BY <1>1
  <1>3. \A t \in Id : journal[t] # NoRecord => t \notin records
    BY <1>1 DEF Finished, Pending
  <1>4. JournalOK'
    BY <1>2, <1>3 DEF PhaseInv, JournalOK, PendingOK, OnDisk
  <1>5. HistoryOK'
    BY <1>1, <1>2 DEF PhaseInv, HistoryOK, FiledOK, OnDisk
  <1> QED BY <1>1, <1>4, <1>5

LEMMA PrunePhase ==
  ASSUME IndInv, PhaseInv, NEW p \in Proc, Prune(p), Moves(p)
  PROVE  PhaseInv'
  <1>1. /\ pc[p] = "prune" /\ pc[p] # "idle" /\ PruneHistory({Txn(p)})
        /\ Release(p) /\ UNCHANGED <<temps, journal, seen, nextId>>
    BY DEF Prune
  <1>2. \A q \in Proc : pc'[q] = "idle"
    BY <1>1, ReleaseRun DEF Moves, IndInv, ControlOK
  <1>3. JournalOK' /\ HistoryOK' /\ \A t \in Id : history'[t] \in {history[t], NoRecord}
    BY <1>1, PruneRecords
  <1>4. DiscardedOK'
    BY <1>1, <1>2, <1>3 DEF PhaseInv, DiscardedOK
  <1>5. TempsOK'
    BY <1>1, <1>2 DEF PhaseInv, TempsOK, Cleaning
  <1> QED BY <1>2, <1>3, <1>4, <1>5 DEF PhaseInv, RunsOK

LEMMA PruneAtStartPhase ==
  ASSUME IndInv, PhaseInv, NEW p \in Proc, PruneAtStart(p)
  PROVE  PhaseInv'
  <1>1. /\ PruneHistory({}) /\ UNCHANGED <<temps, journal, seen, nextId, pc>>
        /\ lock = NoProc
    BY DEF PruneAtStart, memory
  <1>2. \A q \in Proc : pc'[q] = "idle"
    BY <1>1, ConstantsAssumption DEF IndInv, ControlOK
  <1>3. JournalOK' /\ HistoryOK' /\ \A t \in Id : history'[t] \in {history[t], NoRecord}
    BY <1>1, PruneRecords
  <1>4. DiscardedOK'
    BY <1>1, <1>2, <1>3 DEF PhaseInv, DiscardedOK
  <1>5. TempsOK'
    BY <1>1, <1>2 DEF PhaseInv, TempsOK, Cleaning
  <1> QED BY <1>2, <1>3, <1>4, <1>5 DEF PhaseInv, RunsOK

LEMMA FailTempsPhase ==
  ASSUME IndInv, PhaseInv, NEW p \in Proc, FailTemps(p), Moves(p)
  PROVE  PhaseInv'
  <1> DEFINE rec == Rec(p)
  <1>1. /\ pc[p] = "failTemps" /\ pc[p] # "idle" /\ temps' \subseteq temps
        /\ UNCHANGED <<backups, journal, history, seen, nextId>>
    BY DEF FailTemps
  <1>2. PICK F : Goto(p, "failTemps", [rec EXCEPT !.temps = F]) \/ Release(p)
    BY DEF FailTemps
  <1>3. Sound(rec)
    BY <1>1, AtPhase
  <1>4. Follows(p, journal[Txn(p)], history[Txn(p)], backups)
    <2>1. CASE Goto(p, "failTemps", [rec EXCEPT !.temps = F])
      <3> DEFINE left == [rec EXCEPT !.temps = F]
      <3>1. /\ SamePlan(left, rec) /\ left.backups = rec.backups
            /\ left.status = rec.status /\ left.committed = rec.committed
        BY <1>3, TempsField
      <3>2. /\ rec.status = "staging" /\ OnDisk(Txn(p), rec, backups)
            /\ MadeOnly(rec, rec.committed)
        BY <1>1, Preparing
      <3>3. MadeOnly(left, left.committed)
        BY <3>1, <3>2, PlanKept
      <3>4. OnDisk(Txn(p), left, backups)
        BY <3>1, <3>2 DEF OnDisk
      <3> HIDE DEF left
      <3> QED BY <1>1, <2>1, <3>1, <3>2, <3>3, <3>4, PrepareRun DEF left
    <2>2. CASE Release(p)
      BY <2>2, ReleaseRun DEF Follows
    <2> QED BY <1>2, <2>1, <2>2
  <1>5. pc'[p] \notin Cleaning
    BY <1>1, <1>2, GotoRun, ReleaseRun DEF Cleaning
  <1> QED BY <1>1, <1>4, <1>5, PhaseOfMemory

\* rollbackRecord starts from a record that can be undone.
LEMMA StartUndoRun ==
  ASSUME IndInv, NEW p \in Proc, pc[p] # "idle", NEW rec, StartUndo(p, rec)
  PROVE  /\ pc'[p] = "undo" /\ run'[p].rec = rec /\ run'[p].txn = run[p].txn
         /\ run'[p].own = FALSE /\ run'[p].goal = "rolled_back"
         /\ run'[p].undo = rec.committed
  <1> DEFINE started == [run[p] EXCEPT !.rec = rec, !.goal = "rolled_back",
                                       !.own = FALSE, !.undo = rec.committed]
  <1>1. run[p] \in Run /\ p \in DOMAIN run /\ p \in DOMAIN pc
    BY DEF IndInv, ControlOK
  <1>2. run'[p] = started /\ pc'[p] = "undo"
    BY <1>1 DEF StartUndo
  <1> QED BY <1>1, <1>2 DEF Run

LEMMA UndoRun ==
  ASSUME IndInv, PhaseInv, NEW p \in Proc, pc[p] # "idle", StartUndo(p, Rec(p)),
         Rec(p).status \in {"staging", "staged"}, CanRollback(Rec(p)),
         NEW j, j # NoRecord => SamePlan(j, Rec(p)), NEW h,
         ~Rec(p).discard => OnDisk(Txn(p), Rec(p), backups),
         Rec(p).status = "staged" => Kept(Rec(p))
  PROVE  Follows(p, j, h, backups)
  <1>1. /\ pc'[p] = "undo" /\ run'[p].rec = Rec(p) /\ run'[p].txn = Txn(p)
        /\ run'[p].own = FALSE /\ run'[p].goal = "rolled_back"
    BY StartUndoRun DEF Txn
  <1>2. PlanOK(Txn(p), Rec(p)) /\ SamePlan(Rec(p), Rec(p))
    BY AtPhase
  <1>3. Intent("undo", run'[p])
    BY <1>1 DEF Intent, Finishing, Cleaning
  <1>4. Progress("undo", run'[p])
    <2>1. ReversibleTo(Rec(p), Rec(p).committed)
      BY DEF CanRollback, ReversibleTo
    <2> QED BY <1>1, <2>1 DEF Progress, Finishing, Cleaning
  <1>5. Recorded("undo", run'[p], j, h)
    BY <1>1 DEF Recorded, Finishing, Cleaning
  <1> QED BY <1>1, <1>2, <1>3, <1>4, <1>5 DEF Follows, RunOK

LEMMA FailWritePhase ==
  ASSUME IndInv, PhaseInv, NEW p \in Proc, FailWrite(p), Moves(p)
  PROVE  PhaseInv'
  <1> DEFINE rec == Rec(p)
             t   == Txn(p)
  <1>1. /\ pc[p] = "failWrite" /\ pc[p] # "idle"
        /\ Written(t, rec) \/ PerhapsWritten(t, rec)
        /\ (CanRollback(rec) /\ StartUndo(p, rec)) \/ Release(p)
        /\ UNCHANGED <<temps, backups, history, seen, nextId>>
    BY DEF FailWrite
  <1>2. /\ Sound(rec) /\ t \in Id /\ run[p].rec = rec /\ run[p].own \in BOOLEAN
        /\ rec.atomic \in BOOLEAN /\ rec.discard \in BOOLEAN /\ PlanOK(t, rec)
        /\ SamePlan(rec, rec) /\ rec # NoRecord
        /\ Intent("failWrite", run[p]) /\ Progress("failWrite", run[p])
        /\ Recorded("failWrite", run[p], journal[t], history[t])
        /\ run[p].own => OnDisk(t, rec, backups)
    BY <1>1, AtPhase
  <1>3. /\ run[p].own /\ (rec.status = "staged" \/ (rec.status = "staging" /\ rec.atomic))
        /\ rec.status = "staged" => Kept(rec)
        /\ rec.status = "staging" => HarmlessTo(rec, rec.committed)
        /\ OnDisk(t, rec, backups)
    BY <1>2 DEF Intent, Progress, Cleaning
  <1>4. PendingOK(t, rec, backups)
    BY <1>2, <1>3 DEF PendingOK
  <1>5. Follows(p, journal'[t], history[t], backups)
    <2>1. CASE CanRollback(rec) /\ StartUndo(p, rec)
      <3>1. journal'[t] = journal[t] \/ journal'[t] = rec
        BY <1>1, <1>2 DEF Written, PerhapsWritten, IndInv, RecordsOK
      <3>2. journal'[t] # NoRecord => SamePlan(journal'[t], rec)
        BY <1>2, <3>1 DEF Recorded
      <3> QED BY <1>1, <1>2, <1>3, <2>1, <3>2, UndoRun
    <2>2. CASE Release(p)
      BY <2>2, ReleaseRun DEF Follows
    <2> QED BY <1>1, <2>1, <2>2
  <1>6. pc'[p] \notin Cleaning
    BY <1>1, StartUndoRun, ReleaseRun DEF Cleaning
  <1> QED BY <1>1, <1>2, <1>4, <1>5, <1>6, PhaseOfRecord

LEMMA UndoEntryPhase ==
  ASSUME IndInv, PhaseInv, NEW p \in Proc, UndoEntry(p), Moves(p)
  PROVE  PhaseInv'
  <1> DEFINE t == Txn(p)
  <1>1. /\ pc[p] = "undo" /\ pc[p] # "idle"
        /\ \/ run' = [run EXCEPT ![p].undo = @ - 1] /\ UNCHANGED pc
           \/ Release(p)
        /\ UNCHANGED <<temps, backups, journal, history, seen, nextId>>
    BY DEF UndoEntry
  <1>2. /\ RunOK("undo", run[p], journal[t], history[t], backups)
        /\ SamePlan(Rec(p), Rec(p)) /\ run[p].rec = Rec(p) /\ run[p].own \in BOOLEAN
    BY <1>1, AtPhase
  <1>3. Follows(p, journal[t], history[t], backups)
    <2>1. CASE run' = [run EXCEPT ![p].undo = @ - 1] /\ UNCHANGED pc
      <3> DEFINE less == [run[p] EXCEPT !.undo = @ - 1]
      <3>1. run[p] \in Run /\ run'[p] = less
        BY <1>1, <2>1, AtWork DEF IndInv, ControlOK
      <3>2. /\ run'[p].rec = run[p].rec /\ run'[p].txn = run[p].txn
            /\ run'[p].own = run[p].own /\ run'[p].goal = run[p].goal
        BY <3>1 DEF Run
      <3>3. RunOK("undo", run'[p], journal[t], history[t], backups)
        BY <1>2, <3>2 DEF RunOK, Intent, Progress, Recorded
      <3> QED BY <1>1, <1>2, <2>1, <3>2, <3>3 DEF Follows
    <2>2. CASE Release(p)
      BY <2>2, ReleaseRun DEF Follows
    <2> QED BY <1>1, <2>1, <2>2
  <1>4. pc'[p] \notin Cleaning
    BY <1>1, ReleaseRun DEF Cleaning
  <1> QED BY <1>1, <1>3, <1>4, PhaseOfMemory

LEMMA UndonePhase ==
  ASSUME IndInv, PhaseInv, NEW p \in Proc, Undone(p), Moves(p)
  PROVE  PhaseInv'
  <1> DEFINE rec    == Rec(p)
             t      == Txn(p)
             undone == [rec EXCEPT !.committed = 0]
  <1>1. /\ pc[p] = "undo" /\ pc[p] # "idle" /\ Goto(p, "temps", undone)
        /\ UNCHANGED <<temps, backups, journal, history, seen, nextId>>
    BY DEF Undone, disk
  <1>2. /\ Sound(rec) /\ SamePlan(rec, rec) /\ run[p].own \in BOOLEAN
        /\ Intent("undo", run[p]) /\ Progress("undo", run[p])
        /\ Recorded("undo", run[p], journal[t], history[t])
        /\ run[p].own \/ ~rec.discard => OnDisk(t, rec, backups)
        /\ run[p].rec = rec
    BY <1>1, AtPhase
  <1>3. /\ SamePlan(undone, rec) /\ undone.committed = 0
        /\ undone.status = rec.status /\ undone.backups = rec.backups
    BY <1>2, CommittedField
  <1>4. HarmlessTo(undone, 0) /\ (Kept(rec) => Kept(undone))
    <2>1. HarmlessTo(undone, 0)
      BY DEF HarmlessTo, Indices
    <2>2. Kept(rec) => Kept(undone)
      BY <1>3, PlanKept
    <2> QED BY <2>1, <2>2
  <1> HIDE DEF undone
  <1>5. /\ run'[p].rec = undone /\ run'[p].own = run[p].own /\ run'[p].goal = run[p].goal
    BY <1>1, GotoRun
  <1>6. Intent("temps", run'[p])
    BY <1>2, <1>5 DEF Intent, Finishing, Cleaning
  <1>7. Progress("temps", run'[p])
    BY <1>2, <1>3, <1>4, <1>5 DEF Intent, Progress, Finishing, Cleaning
  <1>8. Recorded("temps", run'[p], journal[t], history[t])
    BY <1>2, <1>3, <1>5 DEF Intent, Recorded, SamePlan, Finishing, Cleaning
  <1>9. run[p].own \/ ~undone.discard => OnDisk(t, undone, backups)
    BY <1>2, <1>3 DEF OnDisk, SamePlan
  <1>10. journal[t] # NoRecord => SamePlan(journal[t], undone)
    BY <1>2, <1>3 DEF Recorded, SamePlan
  <1>11. Follows(p, journal[t], history[t], backups)
    BY <1>1, <1>3, <1>6, <1>7, <1>8, <1>9, <1>10, GotoFollows
  <1>12. pc'[p] \notin Cleaning
    BY <1>1, GotoRun DEF Cleaning
  <1> QED BY <1>1, <1>11, <1>12, PhaseOfMemory

\* What p knows of the change it has picked up.
LEMMA Loaded ==
  ASSUME IndInv, PhaseInv, NEW p \in Proc, pc[p] = "loaded"
  PROVE  /\ ~run[p].own /\ journal[Txn(p)] = Rec(p) /\ Rec(p) # NoRecord
         /\ PendingOK(Txn(p), Rec(p), backups)
  <1>1. pc[p] # "idle"
    OBVIOUS
  <1>2. /\ Intent("loaded", run[p]) /\ Progress("loaded", run[p]) /\ run[p].rec = Rec(p)
        /\ Recorded("loaded", run[p], journal[Txn(p)], history[Txn(p)]) /\ Txn(p) \in Id
    BY <1>1, AtPhase
  <1>3. journal[Txn(p)] = Rec(p) /\ journal[Txn(p)] # NoRecord
    BY <1>2 DEF Recorded
  <1>4. PendingOK(Txn(p), Rec(p), backups)
    BY <1>2, <1>3 DEF PhaseInv, JournalOK
  <1> QED BY <1>2, <1>3, <1>4 DEF Intent, Progress

LEMMA CompletePhase ==
  ASSUME IndInv, PhaseInv, NEW p \in Proc, Complete(p), Moves(p)
  PROVE  PhaseInv'
  <1> DEFINE rec == Rec(p)
             t   == Txn(p)
             label == IF rec.status = "applied" THEN "temps" ELSE "apply"
  <1>1. /\ pc[p] = "loaded" /\ pc[p] # "idle" /\ run[p].goal = "completed"
        /\ CanComplete(t, rec) /\ Goto(p, label, rec)
        /\ UNCHANGED <<temps, backups, journal, history, seen, nextId>>
    BY DEF Complete, disk
  <1>2. /\ Sound(rec) /\ SamePlan(rec, rec) /\ run[p].own \in BOOLEAN /\ run[p].rec = rec
        /\ rec.atomic \in BOOLEAN /\ rec.discard \in BOOLEAN
    BY <1>1, AtPhase
  <1>3. /\ ~run[p].own /\ journal[t] = rec /\ rec # NoRecord
        /\ PendingOK(t, rec, backups)
    BY <1>1, Loaded
  <1>4. /\ \/ rec.status = "applied" /\ rec.discard
           \/ rec.status = "staged" /\ ~rec.atomic
        /\ rec.status = "applied" => rec.committed = Len(rec.entries)
        /\ Kept(rec) /\ (rec.discard => rec.atomic)
        /\ ~rec.discard => OnDisk(t, rec, backups)
    BY <1>1, <1>3 DEF CanComplete, PendingOK, PlanOK
  <1>5. /\ run'[p].rec = rec /\ run'[p].own = run[p].own /\ run'[p].goal = run[p].goal
    BY <1>1, GotoRun
  <1>6. Intent(label, run'[p])
    BY <1>1, <1>2, <1>3, <1>4, <1>5 DEF Intent, Finishing, Cleaning
  <1>7. Progress(label, run'[p])
    BY <1>1, <1>2, <1>4, <1>5 DEF Progress, Finishing, Cleaning
  <1>8. Recorded(label, run'[p], journal[t], history[t])
    BY <1>1, <1>2, <1>3, <1>4, <1>5 DEF Recorded, Finishing, Cleaning
  <1>9. run[p].own \/ ~rec.discard => OnDisk(t, rec, backups)
    BY <1>3, <1>4
  <1>10. Follows(p, journal[t], history[t], backups)
    BY <1>1, <1>2, <1>3, <1>6, <1>7, <1>8, <1>9, GotoFollows
  <1>11. pc'[p] \notin Cleaning
    BY <1>1, GotoRun DEF Cleaning
  <1> QED BY <1>1, <1>10, <1>11, PhaseOfMemory

LEMMA RollbackPhase ==
  ASSUME IndInv, PhaseInv, NEW p \in Proc, Rollback(p), Moves(p)
  PROVE  PhaseInv'
  <1> DEFINE rec == Rec(p)
             t   == Txn(p)
  <1>1. /\ pc[p] = "loaded" /\ pc[p] # "idle" /\ CanRollback(rec) /\ StartUndo(p, rec)
        /\ UNCHANGED <<temps, backups, journal, history, seen, nextId>>
    BY DEF Rollback, disk
  <1>2. /\ journal[t] = rec /\ PendingOK(t, rec, backups)
    BY <1>1, Loaded
  <1>3. /\ rec.status \in {"staging", "staged"}
        /\ rec.status = "staged" => Kept(rec)
        /\ ~rec.discard => OnDisk(t, rec, backups)
    BY <1>1, <1>2 DEF PendingOK, CanRollback
  <1>4. SamePlan(journal[t], rec)
    BY <1>1, <1>2, AtPhase
  <1>5. Follows(p, journal[t], history[t], backups)
    BY <1>1, <1>2, <1>3, <1>4, UndoRun
  <1>6. pc'[p] \notin Cleaning
    BY <1>1, StartUndoRun DEF Cleaning
  <1> QED BY <1>1, <1>5, <1>6, PhaseOfMemory

LEMMA LeavePhase ==
  ASSUME IndInv, PhaseInv, NEW p \in Proc, Refuse(p) \/ Crash(p), Moves(p)
  PROVE  PhaseInv'
  <1>1. /\ pc[p] # "idle" /\ Release(p)
        /\ UNCHANGED <<temps, backups, journal, history, seen, nextId>>
    BY DEF Refuse, Crash, disk
  <1>2. pc'[p] = "idle"
    BY <1>1, ReleaseRun
  <1>3. Follows(p, journal[Txn(p)], history[Txn(p)], backups) /\ pc'[p] \notin Cleaning
    BY <1>2 DEF Follows, Cleaning
  <1> QED BY <1>1, <1>3, PhaseOfMemory

\* reconcileRecord leaves a record that can be picked up.
LEMMA ReconciledPending ==
  ASSUME NEW t, NEW rec, NEW held, Sound(rec), PendingOK(t, rec, held)
  PROVE  /\ PendingOK(t, Reconciled(rec), held) /\ SamePlan(Reconciled(rec), rec)
         /\ Reconciled(rec).backups = rec.backups
         /\ Reconciled(rec).temps = rec.temps
         /\ Sound(Reconciled(rec)) /\ Reconciled(rec) # NoRecord
  <1>1. Sound(Reconciled(rec)) /\ Reconciled(rec) # NoRecord
    BY ReconciledSound, SoundIsRecord
  <1>2. CASE NotReconciled(rec)
    BY <1>1, <1>2, SoundIsRecord DEF Reconciled
  <1>3. CASE ~NotReconciled(rec)
    <2> DEFINE status == IF rec.status = "applied" THEN "staged" ELSE rec.status
               moved  == [rec EXCEPT !.status = status]
               known  == [rec EXCEPT !.status = status, !.committed = Boundary(rec)]
    <2>1. Sound(moved)
      BY StatusChanged, RecordFields DEF Status
    <2>2. /\ moved.status = status /\ SamePlan(moved, rec)
          /\ moved.temps = rec.temps /\ moved.backups = rec.backups
      BY StatusField
    <2>3. known = [moved EXCEPT !.committed = Boundary(rec)]
      OBVIOUS
    <2>4. /\ known.status = status /\ SamePlan(known, moved)
          /\ known.temps = moved.temps /\ known.backups = moved.backups
      <3> HIDE DEF moved, known
      <3> QED BY <2>1, <2>2, <2>3, CommittedField
    <2>5. Reconciled(rec) = known
      BY <1>3 DEF Reconciled
    <2> HIDE DEF known, moved
    <2>6. /\ SamePlan(known, rec) /\ known.backups = rec.backups /\ known.temps = rec.temps
      BY <2>2, <2>4 DEF SamePlan
    <2>7. PlanOK(t, rec) => PlanOK(t, known)
      BY <2>6, PlanKept
    <2>8. Kept(rec) => Kept(known)
      BY <2>6, PlanKept
    <2>9. rec.status = "staging" => rec.atomic
      BY <1>3 DEF NotReconciled
    <2>10. rec.status \in {"staging", "staged", "applied"} /\ known.status \in {"staging", "staged"}
      BY <2>4 DEF PendingOK
    <2>11. known.status = "staging" <=> rec.status = "staging"
      BY <2>4
    <2>12. rec.atomic \in BOOLEAN /\ rec.discard \in BOOLEAN
      BY RecordFields
    <2>13. PendingOK(t, known, held)
      BY <2>6, <2>7, <2>8, <2>9, <2>10, <2>11, <2>12 DEF PendingOK, OnDisk, SamePlan
    <2> QED BY <1>1, <2>5, <2>6, <2>13
  <1> QED BY <1>2, <1>3

LEMMA LoadPendingPhase ==
  ASSUME IndInv, PhaseInv, NEW p \in Proc, NEW t \in Id, NEW goal \in {"completed", "rolled_back"},
         LoadPending(p, t, goal)
  PROVE  PhaseInv'
  <1> DEFINE rec     == journal[t]
             known   == Reconciled(rec)
             started == [txn |-> t, rec |-> known, goal |-> goal, own |-> FALSE, undo |-> 0]
  <1>1. /\ lock = NoProc /\ rec # NoRecord
        /\ \/ /\ Written(t, known)
              /\ pc' = [pc EXCEPT ![p] = "loaded"] /\ run' = [run EXCEPT ![p] = started]
           \/ PerhapsWritten(t, known) /\ UNCHANGED memory
        /\ UNCHANGED <<temps, backups, history, seen, nextId>>
    BY DEF LoadPending
  <1>2. Sound(rec) /\ PendingOK(t, rec, backups) /\ t < nextId
    BY <1>1 DEF IndInv, RecordsOK, PhaseInv, JournalOK
  <1>3. /\ PendingOK(t, known, backups) /\ SamePlan(known, rec) /\ Sound(known)
        /\ known # NoRecord
    BY <1>2, ReconciledPending
  <1>4. /\ known.atomic \in BOOLEAN /\ known.discard \in BOOLEAN /\ SamePlan(known, known)
    BY <1>3, SoundIsRecord
  <1>5. \A q \in Proc : pc[q] = "idle"
    BY <1>1, ConstantsAssumption DEF IndInv, ControlOK
  <1> HIDE DEF known, rec
  <1>6. JournalOK' /\ HistoryOK'
    BY <1>1, <1>2, <1>3, JournalRewritten, HistoryFrame
  <1>7. \A u \in Id : journal'[u] = journal[u] \/ (u = t /\ journal'[u] = known)
    BY <1>1 DEF Written, PerhapsWritten, IndInv, RecordsOK
  <1>8. \A q \in Proc : pc'[q] # "idle" =>
          q = p /\ pc'[q] = "loaded" /\ run'[q] = started /\ journal'[t] = known
    BY <1>1, <1>5 DEF memory, Written, IndInv, RecordsOK, ControlOK
  <1>9. TempsOK'
    <2>1. \A s \in temps : journal'[s[1]] # NoRecord
      BY <1>3, <1>7 DEF PhaseInv, TempsOK, IndInv, FilesOK
    <2>2. \A q \in Proc : pc'[q] \notin Cleaning
      BY <1>8 DEF Cleaning
    <2> QED BY <1>1, <2>1, <2>2 DEF TempsOK
  <1>10. DiscardedOK'
    <2>1. \A u \in Id : (history[u] # NoRecord /\ history[u].backups # {}) =>
            (journal[u] # NoRecord => ~journal[u].discard)
      BY DEF PhaseInv, DiscardedOK
    <2>2. history[t] # NoRecord /\ history[t].backups # {} => ~known.discard
      BY <1>1, <1>3, <2>1 DEF SamePlan, rec
    <2> QED BY <1>1, <1>7, <1>8, <2>1, <2>2 DEF DiscardedOK
  <1>11. RunsOK'
    <2> SUFFICES ASSUME NEW q \in Proc, pc'[q] # "idle" PROVE Phase(q)'
      BY DEF RunsOK
    <2>1. pc'[q] = "loaded" /\ run'[q] = started /\ journal'[t] = known
      BY <1>8
    <2>2. /\ run'[q].txn = t /\ run'[q].rec = known /\ run'[q].own = FALSE
          /\ run'[q].goal = goal
      BY <2>1
    <2> HIDE DEF started
    <2>3. Intent("loaded", run'[q])
      BY <2>2 DEF Intent, Finishing, Cleaning
    <2>4. Progress("loaded", run'[q])
      <3>1. known.status # "staging" => Kept(known)
        BY <1>3 DEF PendingOK
      <3> QED BY <2>2, <3>1 DEF Progress, Finishing, Cleaning
    <2>5. Recorded("loaded", run'[q], known, history'[t])
      BY <1>3, <1>4, <2>2 DEF Recorded, Finishing, Cleaning
    <2>6. RunOK("loaded", run'[q], known, history'[t], backups)
      BY <1>3, <1>4, <2>2, <2>3, <2>4, <2>5 DEF RunOK, PendingOK
    <2> QED BY <1>1, <1>2, <2>1, <2>2, <2>6 DEF Phase, Believes
  <1> QED BY <1>6, <1>9, <1>10, <1>11 DEF PhaseInv

-----------------------------------------------------------------------------
(* Planning *)

\* No file is newer than the last transaction or edit.
AgeInv == \A f \in File : files[f] < nextId

\* The entry that stands for item m of request q, of which the caller read had.
LEMMA PlannedEntry ==
  ASSUME FilesOK, AgeInv, nextId \in Id, NEW q \in Requests, NEW m \in Item,
         NEW k \in 1 .. Len(q.items), m = q.items[k],
         EachPathOnce(q), Admissible(q), NEW had, Acceptable(q, m, had),
         NEW rec, rec.atomic = (q.mode # "plain"), rec.discard = (q.mode = "discard")
  PROVE  LET e == Planned(m, nextId) IN
         /\ EntryOK(nextId, rec, e)
         /\ e.path = m.path /\ e.action = m.action
         /\ \A f \in File : Touches(e, f) => f \in ClaimedBy(m)
         /\ e.path \in File => e.old = had[e.path]
  <1> DEFINE e == Planned(m, nextId)
  <1>1. /\ m \in Range(q.items) /\ nextId \in Nat
        /\ q.items \in Seq(Item) /\ Absent < nextId
    BY ConstantsAssumption DEF Request, Range, Absent, Id
  <1>2. /\ e.action = m.action /\ e.path = m.path /\ e.target = m.target /\ e.keep = m.keep
        /\ e.old = IF m.path \in File THEN files[m.path] ELSE Absent
        /\ e.had = IF m.path \in File THEN e.old # Absent ELSE m.path \in dirs
        /\ e.new = CASE m.action = "write" -> IF m.same /\ e.had THEN e.old ELSE nextId
                     [] m.action = "move" -> e.old
                     [] OTHER -> Absent
    BY DEF Planned
  <1> HIDE DEF e
  <1>3. /\ m.action \in FileAction \ {"note"} => m.path \in File /\ m.target \in File
        /\ m.action \in DirAction => m.path \in Dir /\ m.path \notin File
        /\ m.action \in (FileAction \ {"note"}) \cup DirAction
    BY ConstantsAssumption DEF Item, FileAction, DirAction
  <1>4. m.path \in File => files[m.path] \in Int /\ files[m.path] < nextId
    BY ConstantsAssumption DEF FilesOK, AgeInv, Content, Absent
  <1>5. e.old \in Int /\ e.old < nextId /\ (m.path \in File => e.old = files[m.path])
    BY <1>1, <1>2, <1>4 DEF Absent
  <1>6. /\ e.action = "write" => (e.had <=> e.old # Absent) /\ (e.new = nextId \/ NoOpWrite(e))
        /\ e.action = "write" /\ ~m.same => ~NoOpWrite(e)
    <2>1. m.path \in File => (e.had <=> e.old # Absent)
      BY <1>2
    <2>2. /\ e.action = "write" /\ (m.same /\ e.had) => e.new = e.old
          /\ e.action = "write" /\ ~(m.same /\ e.had) => e.new = nextId
      BY <1>2
    <2>3. e.action = "write" => m.path \in File
      BY <1>2, <1>3 DEF FileAction
    <2>4. e.old # nextId
      BY <1>1, <1>5
    <2> QED BY <2>1, <2>2, <2>3, <2>4 DEF NoOpWrite
  <1>7. e.action = "move" => e.old # Absent /\ e.new = e.old /\ e.path # e.target
    BY <1>1, <1>2, <1>3, <1>5 DEF Acceptable, EachPathOnce, FileAction
  <1>8. e.action = "remove" => e.had /\ e.old # Absent /\ e.new = Absent
    BY <1>1, <1>2, <1>3, <1>5 DEF Acceptable, FileAction
  <1>9. /\ rec.atomic /\ e.action \in {"write", "remove"} => e.keep
        /\ rec.discard => e.action = "write"
    BY <1>1, <1>2 DEF Admissible
  <1>10. AtomicOnlyWrites /\ rec.atomic => e.action \in {"write", "mkdir"}
    BY <1>2 DEF AtomicOnlyWrites
  <1>11. FreshRekey /\ rec.discard => ~NoOpWrite(e)
    BY <1>2, <1>6, <1>9 DEF FreshRekey
  <1>12. SameIsOurs /\ NoOpWrite(e) => e.path \notin Editable
    BY <1>2, <1>6 DEF SameIsOurs, NoOpWrite
  <1>13. EntryOK(nextId, rec, e)
    BY <1>2, <1>3, <1>5, <1>6, <1>7, <1>8, <1>9, <1>10, <1>11, <1>12
       DEF EntryOK, FileAction, DirAction
  <1>14. \A f \in File : Touches(e, f) => f \in ClaimedBy(m)
    BY <1>2 DEF Touches, ClaimedBy
  <1>15. e.path \in File => e.old = had[e.path]
    BY <1>2, <1>3, <1>5 DEF Acceptable, FileAction, DirAction
  <1> QED BY <1>2, <1>13, <1>14, <1>15 DEF e

LEMMA PlanIsOK ==
  ASSUME FilesOK, AgeInv, nextId \in Id, NEW q \in Requests, NEW had,
         Admissible(q), \A m \in Range(q.items) : Acceptable(q, m, had),
         NEW order \in Orders(q)
  PROVE  LET rec == PlanOf(q, order, nextId) IN
         /\ PlanOK(nextId, rec)
         /\ \A i \in Indices(rec) : rec.entries[i].path \in File =>
              rec.entries[i].old = had[rec.entries[i].path]
  <1> DEFINE rec   == PlanOf(q, order, nextId)
             items == q.items
             N     == Cardinality(Wanted(q))
  <1>1. /\ items \in Seq(Item) /\ EachPathOnce(q)
        /\ \A i, j \in 1 .. Len(items) :
             i < j /\ items[j].action = "mkdir" => items[i].action = "mkdir"
    BY ConstantsAssumption DEF Request, Admissible
  <1>2. Len(items) \in Nat /\ Wanted(q) \subseteq 1 .. Len(items)
    BY <1>1 DEF Wanted
  <1>3. N \in Nat
    <2>1. IsFiniteSet(1 .. Len(items))
      BY <1>2, FS_Interval
    <2>2. IsFiniteSet(Wanted(q))
      BY <1>2, <2>1, FS_Subset, Zenon
    <2> QED BY <2>2, FS_CardinalityType, Zenon
  <1>4. /\ order \in [1 .. N -> 1 .. Len(items)]
        /\ \A i, j \in 1 .. N : i < j => order[i] < order[j]
    BY <1>2 DEF Orders
  <1>5. \A i \in 1 .. N : items[order[i]] \in Item /\ items[order[i]] \in Range(items)
    BY <1>1, <1>4 DEF Range
  <1>6. /\ Len(rec.entries) = N /\ Indices(rec) = 1 .. N
        /\ \A i \in 1 .. N : rec.entries[i] = Planned(items[order[i]], nextId)
        /\ rec.atomic = (q.mode # "plain") /\ rec.discard = (q.mode = "discard")
    BY <1>3, <1>4 DEF PlanOf, Indices
  <1> HIDE DEF rec, N
  <1>7. ASSUME NEW i \in 1 .. N
        PROVE  /\ EntryOK(nextId, rec, rec.entries[i])
               /\ rec.entries[i].path = items[order[i]].path
               /\ rec.entries[i].action = items[order[i]].action
               /\ \A f \in File : Touches(rec.entries[i], f) => f \in ClaimedBy(items[order[i]])
               /\ rec.entries[i].path \in File => rec.entries[i].old = had[rec.entries[i].path]
    <2>1. order[i] \in 1 .. Len(items)
      BY <1>4
    <2> QED BY <1>1, <1>5, <1>6, <2>1, PlannedEntry
  <1>8. \A i, j \in 1 .. N : i # j => order[i] # order[j]
    BY <1>2, <1>3, <1>4
  <1>9. ASSUME NEW i \in 1 .. N, NEW j \in 1 .. N, i # j
        PROVE  /\ rec.entries[i].path # rec.entries[j].path
               /\ \A f \in File : ~(Touches(rec.entries[i], f) /\ Touches(rec.entries[j], f))
    <2>1. ClaimedBy(items[order[i]]) \cap ClaimedBy(items[order[j]]) = {}
      BY <1>1, <1>4, <1>8, <1>9 DEF EachPathOnce
    <2>2. \A k \in {i, j} : items[order[k]].path \in ClaimedBy(items[order[k]])
      BY DEF ClaimedBy
    <2> QED BY <1>7, <2>1, <2>2
  <1>10. ASSUME NEW i \in 1 .. N, NEW j \in 1 .. N, i < j, rec.entries[j].action = "mkdir"
         PROVE  rec.entries[i].action = "mkdir"
    BY <1>1, <1>4, <1>7, <1>10
  <1>11. ASSUME OneDirectory, NEW i \in 1 .. N, rec.entries[i].action = "mkdir"
         PROVE  i = 1
    <2> SUFFICES ASSUME i # 1 PROVE FALSE
      OBVIOUS
    <2>1. 1 \in 1 .. N /\ 1 < i
      BY <1>3
    <2>2. rec.entries[1].action = "mkdir"
      BY <1>10, <1>11, <2>1
    <2>3. items[order[1]].action = "mkdir" /\ items[order[i]].action = "mkdir"
      BY <1>7, <1>11, <2>1, <2>2
    <2> QED BY <1>4, <1>8, <1>11, <2>1, <2>3 DEF OneDirectory
  <1>12. PlanOK(nextId, rec)
    BY <1>6, <1>7, <1>9, <1>10, <1>11 DEF PlanOK
  <1> QED BY <1>6, <1>7, <1>12 DEF rec

LEMMA StartCommitPhase ==
  ASSUME IndInv, PhaseInv, AgeInv, NEW p \in Proc, NEW q \in Requests, StartCommit(p, q)
  PROVE  PhaseInv'
  <1>1. PICK order \in Orders(q) :
          run' = [run EXCEPT ![p] = [txn |-> nextId, rec |-> PlanOf(q, order, nextId),
                                     goal |-> "completed", own |-> TRUE, undo |-> 0]]
    BY DEF StartCommit
  <1> DEFINE plan    == PlanOf(q, order, nextId)
             started == [txn |-> nextId, rec |-> plan, goal |-> "completed",
                         own |-> TRUE, undo |-> 0]
  <1>2. /\ nextId \in Id /\ nextId \in Nat /\ nextId' = nextId + 1
        /\ UNCHANGED <<temps, backups, journal, history, seen>>
        /\ lock = NoProc /\ pc' = [pc EXCEPT ![p] = "begin"]
        /\ Admissible(q) /\ \A m \in Range(q.items) : Acceptable(q, m, seen[p])
    BY ConstantsAssumption DEF StartCommit, IndInv, CountersOK, Id, disk
  <1>3. /\ PlanOK(nextId, plan)
        /\ \A i \in Indices(plan) : plan.entries[i].path \in File =>
             plan.entries[i].old = seen[p][plan.entries[i].path]
    BY <1>2, PlanIsOK DEF IndInv
  <1>4. /\ plan.status = "staging" /\ plan.committed = 0
        /\ plan.temps = {} /\ plan.backups = {}
    BY DEF PlanOf
  <1>5. plan.atomic \in BOOLEAN /\ plan.discard \in BOOLEAN
    BY DEF PlanOf
  <1> HIDE DEF plan
  <1>6. /\ started.txn = nextId /\ started.rec = plan /\ started.goal = "completed"
        /\ started.own = TRUE /\ run' = [run EXCEPT ![p] = started]
    BY <1>1 DEF plan
  <1> HIDE DEF started
  <1>7. \A t \in Id : journal[t] = NoRecord
    BY DEF StartCommit, NoPending, Pending
  <1>8. /\ history[nextId] = NoRecord
        /\ \A t \in Id : history[t] # NoRecord => t # nextId /\ t < nextId'
    BY <1>2 DEF PhaseInv, HistoryOK, Id
  <1>9. \A u \in Proc : pc'[u] # "idle" => u = p /\ pc'[u] = "begin" /\ run'[u] = started
    BY <1>2, <1>6, ConstantsAssumption DEF IndInv, ControlOK
  <1>10. RunsOK'
    <2>1. Intent("begin", started)
      BY <1>6 DEF Intent, Finishing, Cleaning
    <2>2. HarmlessTo(plan, plan.committed)
      BY <1>4 DEF HarmlessTo, Indices
    <2>3. Progress("begin", started)
      BY <1>4, <1>5, <1>6, <2>2 DEF Progress, Finishing, Cleaning
    <2>4. Recorded("begin", started, NoRecord, NoRecord)
      BY <1>6 DEF Recorded, Finishing, Cleaning
    <2>5. OnDisk(nextId, plan, backups)
      BY <1>4 DEF OnDisk
    <2>6. RunOK("begin", started, NoRecord, NoRecord, backups)
      BY <1>3, <1>6, <2>1, <2>3, <2>4, <2>5 DEF RunOK
    <2>7. Believes(started, seen[p])
      BY <1>3, <1>6 DEF Believes
    <2> QED BY <1>2, <1>6, <1>7, <1>8, <1>9, <2>6, <2>7 DEF RunsOK, Phase
  <1>11. HistoryOK'
    BY <1>2, <1>8 DEF PhaseInv, HistoryOK
  <1>12. JournalOK' /\ DiscardedOK' /\ TempsOK'
    <2>1. JournalOK'
      BY <1>2, <1>7 DEF JournalOK
    <2>2. DiscardedOK'
      BY <1>2, <1>6, <1>7, <1>8, <1>9 DEF DiscardedOK
    <2>3. TempsOK'
      BY <1>2, <1>9 DEF PhaseInv, TempsOK, Cleaning
    <2> QED BY <2>1, <2>2, <2>3
  <1> QED BY <1>10, <1>11, <1>12 DEF PhaseInv

LEMMA NotePhase ==
  ASSUME IndInv, PhaseInv, NEW p \in Proc, NEW f \in File, Note(p, f)
  PROVE  PhaseInv'
  <1> DEFINE entry == [action |-> "note", path |-> f, target |-> f, keep |-> TRUE,
                       had |-> FALSE, old |-> Absent, new |-> Absent]
             rec   == [status |-> "completed", atomic |-> FALSE, discard |-> FALSE,
                       entries |-> <<entry>>, committed |-> 1, temps |-> {}, backups |-> {}]
  <1>1. /\ nextId \in Id /\ nextId \in Nat /\ nextId' = nextId + 1 /\ lock = NoProc
        /\ history' = [history EXCEPT ![nextId] = rec]
        /\ UNCHANGED <<temps, backups, journal, pc, run, seen>>
    BY ConstantsAssumption DEF Note, IndInv, CountersOK, Id, memory
  <1>2. FiledOK(nextId, rec, backups)
    <2>1. /\ Len(rec.entries) = 1 /\ rec.entries[1] = entry /\ rec.atomic = FALSE
          /\ rec.status = "completed" /\ rec.committed = 1 /\ rec.temps = {} /\ rec.backups = {}
      OBVIOUS
    <2>2. ~ExpectsBackup(entry)
      BY DEF ExpectsBackup
    <2>3. rec.entries # << >>
      BY <2>1
    <2> HIDE DEF rec, entry
    <2>4. ReadableEntries(rec)
      BY <2>1, <2>2 DEF ReadableEntries, Indices
    <2> QED BY <2>1, <2>3, <2>4 DEF ReadableHistory, FiledOK, OnDisk
  <1>3. rec.backups = {}
    OBVIOUS
  <1> HIDE DEF rec
  <1>4. \A t \in Id : history'[t] = history[t] \/ (t = nextId /\ history'[t] = rec)
    BY <1>1 DEF IndInv, RecordsOK
  <1>5. HistoryOK'
    BY <1>1, <1>2, <1>4 DEF PhaseInv, HistoryOK, Id
  <1>6. JournalOK' /\ DiscardedOK' /\ TempsOK'
    <2>1. JournalOK'
      BY <1>1 DEF PhaseInv, JournalOK, Id
    <2>2. DiscardedOK'
      BY <1>1, <1>3, <1>4 DEF PhaseInv, DiscardedOK
    <2>3. TempsOK'
      BY <1>1 DEF PhaseInv, TempsOK
    <2> QED BY <2>1, <2>2, <2>3
  <1>7. RunsOK'
    BY <1>1, ConstantsAssumption DEF RunsOK, IndInv, ControlOK
  <1> QED BY <1>5, <1>6, <1>7 DEF PhaseInv

LEMMA ReadPhase ==
  ASSUME IndInv, PhaseInv, NEW p \in Proc, Read(p)
  PROVE  PhaseInv'
  <1>1. /\ pc[p] = "idle"
        /\ UNCHANGED <<temps, backups, journal, history, pc, run, nextId>>
        /\ \A q \in Proc : pc[q] # "idle" => seen'[q] = seen[q]
    BY DEF Read, disk, memory, IndInv, CountersOK
  <1>2. RunsOK'
    BY <1>1 DEF PhaseInv, RunsOK, Phase
  <1> QED BY <1>1, <1>2 DEF PhaseInv, JournalOK, HistoryOK, DiscardedOK, TempsOK

LEMMA EditPhase ==
  ASSUME IndInv, PhaseInv, NEW f \in File, Edit(f)
  PROVE  PhaseInv'
  <1>1. /\ lock = NoProc /\ nextId \in Nat /\ nextId' = nextId + 1
        /\ UNCHANGED <<temps, backups, journal, history, pc, run, seen>>
    BY ConstantsAssumption DEF Edit, memory, IndInv, CountersOK
  <1>2. RunsOK'
    BY <1>1, ConstantsAssumption DEF RunsOK, IndInv, ControlOK
  <1>3. JournalOK' /\ HistoryOK'
    BY <1>1 DEF PhaseInv, JournalOK, HistoryOK, Id
  <1> QED BY <1>1, <1>2, <1>3 DEF PhaseInv, DiscardedOK, TempsOK

LEMMA StepPhase ==
  ASSUME IndInv, PhaseInv, NEW p \in Proc, Step(p)
  PROVE  PhaseInv'
  <1>1. ASSUME Begin(p) \/ MakeDirectory(p) \/ WriteBackup(p) \/ StageWrite(p) \/ MarkStaged(p)
        PROVE  PhaseInv'
    BY <1>1, BeginStep, MakeDirectoryStep, WriteBackupStep, StageWriteStep, MarkStagedStep,
       BeginPhase, MakeDirectoryPhase, WriteBackupPhase, StageWritePhase, MarkStagedPhase
  <1>2. ASSUME ApplyEntry(p) \/ Applied(p) \/ MarkApplied(p)
        PROVE  PhaseInv'
    BY <1>2, ApplyEntryStep, AppliedStep, MarkAppliedStep,
       ApplyEntryPhase, AppliedPhase, MarkAppliedPhase
  <1>3. ASSUME \/ RemoveTemp(p) \/ TempsRemoved(p) \/ DiscardBackup(p) \/ BackupsDiscarded(p)
               \/ WriteHistory(p) \/ RemoveJournal(p) \/ Prune(p)
        PROVE  PhaseInv'
    BY <1>3, RemoveTempStep, TempsRemovedStep, DiscardBackupStep, BackupsDiscardedStep,
       WriteHistoryStep, RemoveJournalStep, PruneStep, RemoveTempPhase, TempsRemovedPhase,
       DiscardBackupPhase, BackupsDiscardedPhase, WriteHistoryPhase, RemoveJournalPhase,
       PrunePhase
  <1>4. ASSUME FailTemps(p) \/ FailWrite(p) \/ UndoEntry(p) \/ Undone(p)
        PROVE  PhaseInv'
    BY <1>4, FailTempsStep, FailWriteStep, UndoEntryStep, UndoneStep,
       FailTempsPhase, FailWritePhase, UndoEntryPhase, UndonePhase
  <1>5. ASSUME Complete(p) \/ Rollback(p) \/ Refuse(p)
        PROVE  PhaseInv'
    BY <1>5, LoadedStep, CompletePhase, RollbackPhase, LeavePhase
  <1> QED BY <1>1, <1>2, <1>3, <1>4, <1>5 DEF Step

LEMMA NextPhase ==
  ASSUME IndInv, PhaseInv, AgeInv, [Next]_vars
  PROVE  PhaseInv'
  <1>1. ASSUME NEW p \in Proc, Read(p) \/ PruneAtStart(p) \/ Crash(p) PROVE PhaseInv'
    BY <1>1, ReadPhase, PruneAtStartPhase, CrashStep, LeavePhase
  <1>2. ASSUME NEW p \in Proc, NEW q \in Requests, StartCommit(p, q) PROVE PhaseInv'
    BY <1>2, StartCommitPhase
  <1>3. ASSUME NEW p \in Proc, NEW t \in Id, NEW goal \in {"completed", "rolled_back"},
               LoadPending(p, t, goal)
        PROVE  PhaseInv'
    BY <1>3, LoadPendingPhase
  <1>4. ASSUME NEW p \in Proc, NEW f \in File, Note(p, f) PROVE PhaseInv'
    BY <1>4, NotePhase
  <1>5. ASSUME NEW f \in File, Edit(f) PROVE PhaseInv'
    BY <1>5, EditPhase
  <1>6. CASE UNCHANGED vars
    BY <1>6 DEF vars, disk, memory, PhaseInv, RunsOK, Phase, JournalOK, HistoryOK,
            DiscardedOK, TempsOK
  <1> QED BY <1>1, <1>2, <1>3, <1>4, <1>5, <1>6, StepPhase DEF Next

-----------------------------------------------------------------------------
(* Nothing on disk is newer than the newest transaction or edit *)

LEMMA ApplyAges ==
  ASSUME IndInv, PhaseInv, AgeInv, NEW p \in Proc, ApplyEntry(p)
  PROVE  AgeInv'
  <1> DEFINE rec == Rec(p)
             i   == rec.committed + 1
             e   == rec.entries[i]
  <1>1. /\ pc[p] # "idle" /\ i <= Len(rec.entries) /\ UNCHANGED nextId
        /\ files' \in {files, AppliedFiles(e)}
    BY DEF ApplyEntry
  <1>2. Sound(rec) /\ PlanOK(Txn(p), rec) /\ Txn(p) < nextId /\ Txn(p) \in Id
    BY <1>1, AtPhase
  <1>3. i \in Indices(rec) /\ e \in Entry
    BY <1>1, <1>2, RecordFields DEF Indices
  <1>4. EntryOK(Txn(p), rec, e)
    BY <1>2, <1>3 DEF PlanOK
  <1>5. Absent < nextId /\ nextId \in Nat
    BY DEF Absent, IndInv, CountersOK
  <1>6. e.action = "write" => e.new < nextId
    BY <1>2, <1>3, <1>4, <1>5, EntryFields, ConstantsAssumption
       DEF EntryOK, NoOpWrite, Content, Absent, Id
  <1>7. e.action = "move" => e.path \in File
    BY <1>3, EntryFields DEF FileAction
  <1> HIDE DEF e
  <1> QED BY <1>1, <1>5, <1>6, <1>7 DEF AppliedFiles, AgeInv, IndInv, FilesOK

LEMMA UndoAges ==
  ASSUME IndInv, PhaseInv, AgeInv, NEW p \in Proc, UndoEntry(p)
  PROVE  AgeInv'
  <1> DEFINE rec == Rec(p)
             i   == run[p].undo
             e   == rec.entries[i]
  <1>1. /\ pc[p] # "idle" /\ i > 0 /\ UNCHANGED nextId
        /\ files' \in {files, UndoneFiles(rec, e)}
    BY DEF UndoEntry
  <1>2. Sound(rec) /\ PlanOK(Txn(p), rec) /\ Txn(p) < nextId /\ Txn(p) \in Id
    BY <1>1, AtPhase
  <1>3. i \in Indices(rec)
    BY <1>1, <1>2, AtWork, RecordFields DEF Indices
  <1>4. e \in Entry /\ EntryOK(Txn(p), rec, e)
    BY <1>2, <1>3, RecordFields DEF PlanOK, Indices
  <1>5. Absent < nextId /\ nextId \in Nat
    BY DEF Absent, IndInv, CountersOK
  <1>6. e.old < nextId
    BY <1>2, <1>4, <1>5, EntryFields, ConstantsAssumption DEF EntryOK, Content, Absent, Id
  <1>7. e.action = "move" => e.target \in File
    BY <1>4, EntryFields DEF FileAction
  <1> HIDE DEF e
  <1> QED BY <1>1, <1>5, <1>6, <1>7 DEF UndoneFiles, AgeInv, IndInv, FilesOK

LEMMA NextAge ==
  ASSUME IndInv, PhaseInv, AgeInv, [Next]_vars
  PROVE  AgeInv'
  <1>1. files \in [File -> Content] /\ nextId \in Nat
    BY DEF IndInv, FilesOK, CountersOK
  <1>2. CASE UNCHANGED files /\ nextId' \in {nextId, nextId + 1}
    BY <1>1, <1>2, ConstantsAssumption DEF AgeInv, Content, Absent
  <1>3. CASE \E p \in Proc : Step(p)
    <2> PICK p \in Proc : Step(p)
      BY <1>3
    <2>1. CASE ApplyEntry(p) \/ UndoEntry(p)
      BY <2>1, ApplyAges, UndoAges
    <2>2. CASE ~ApplyEntry(p) /\ ~UndoEntry(p)
      BY <1>2, <2>2
         DEF Step, Begin, MakeDirectory, WriteBackup, StageWrite, MarkStaged, Applied,
             MarkApplied, RemoveTemp, TempsRemoved, DiscardBackup, BackupsDiscarded,
             WriteHistory, RemoveJournal, Prune, FailTemps, FailWrite, Undone, Complete,
             Rollback, Refuse, disk
    <2> QED BY <2>1, <2>2
  <1>4. ASSUME NEW f \in File, Edit(f) PROVE AgeInv'
    BY <1>1, <1>4, ConstantsAssumption DEF Edit, AgeInv, Content, Absent
  <1>5. ASSUME NEW p \in Proc,
               \/ Read(p) \/ PruneAtStart(p) \/ Crash(p)
               \/ \E q \in Requests : StartCommit(p, q)
               \/ \E t \in Id, goal \in {"completed", "rolled_back"} : LoadPending(p, t, goal)
               \/ \E f \in File : Note(p, f)
        PROVE  AgeInv'
    BY <1>2, <1>5 DEF Read, PruneAtStart, Crash, StartCommit, LoadPending, Note, disk
  <1>6. CASE UNCHANGED vars
    BY <1>2, <1>6 DEF vars, disk
  <1> QED BY <1>3, <1>4, <1>5, <1>6 DEF Next

LEMMA InitPhase == Init => PhaseInv /\ AgeInv
  <1> SUFFICES ASSUME Init PROVE PhaseInv /\ AgeInv
    OBVIOUS
  <1>1. RunsOK /\ JournalOK /\ HistoryOK /\ DiscardedOK /\ TempsOK
    BY DEF Init, RunsOK, JournalOK, HistoryOK, DiscardedOK, TempsOK, Cleaning
  <1>2. AgeInv
    BY DEF Init, AgeInv, Absent
  <1> QED BY <1>1, <1>2 DEF PhaseInv

LEMMA SpecPhaseInv == Spec => [](PhaseInv /\ AgeInv)
  <1>1. IndInv /\ (PhaseInv /\ AgeInv) /\ [Next]_vars => (PhaseInv /\ AgeInv)'
    BY NextPhase, NextAge
  <1> QED BY <1>1, InitPhase, SpecIndInv, PTL DEF Spec

-----------------------------------------------------------------------------
(* The theorems on records, backups and staged siblings *)

\* A staged sibling never outlives its transaction: finish and commitRun.fail remove the
\* temporaries before the record goes, whatever fails or crashes in between.
THEOREM NoOrphans == Spec => []NoOrphanTemps
  <1>1. IndInv /\ PhaseInv => NoOrphanTemps
    BY DEF IndInv, FilesOK, PhaseInv, TempsOK, NoOrphanTemps, Pending
  <1> QED BY <1>1, SpecIndInv, SpecPhaseInv, PTL

\* Retention and the discarding of backups never take a backup that a record in history
\* still offers to restore.
THEOREM HistoryKeeps == Spec => []HistoryKeepsItsBackups
  <1>1. PhaseInv => HistoryKeepsItsBackups
    BY DEF PhaseInv, HistoryOK, FiledOK, OnDisk, HistoryKeepsItsBackups
  <1> QED BY <1>1, SpecPhaseInv, PTL

\* If the atomic requests only make directories and write files, History can always list its
\* records, and whatever it offers can be restored, as long as every record has an entry.
THEOREM HistoryHolds ==
    AtomicOnlyWrites /\ Spec => [](RecordsHaveEntries => HistoryStands)
  <1>1. AtomicOnlyWrites /\ PhaseInv => (RecordsHaveEntries => HistoryStands)
    BY DEF PhaseInv, HistoryOK, FiledOK, OnDisk, HistoryStands, HistoryKeepsItsBackups,
           HistoryIsReadable, RecordsHaveEntries
  <1>2. AtomicOnlyWrites => []AtomicOnlyWrites
    <2>1. AtomicOnlyWrites => AtomicOnlyWrites'
      BY DEF AtomicOnlyWrites
    <2> QED BY <2>1, PTL
  <1> QED BY <1>1, <1>2, SpecPhaseInv, PTL
=============================================================================
