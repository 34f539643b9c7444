------------------------ MODULE StorageTransaction ------------------------
(***************************************************************************)
(* The journalled transactions of internal/storage: a commit records its   *)
(* plan in journal/<id>.json, keeps the contents it replaces under         *)
(* backups/<id>/, stages every new file next to its target, applies the    *)
(* entries one by one and files the record under history/<id>.json.  Any   *)
(* step may fail with an I/O error or be cut short by a crash; Complete    *)
(* and Rollback pick up the record afterwards.                             *)
(*                                                                         *)
(* A content stands for the bytes and the mode of a file: it is the number *)
(* of the transaction (or of the edit by another program) that wrote it,   *)
(* 0 for what was there at the start.  Each I/O step of the code is one    *)
(* action: it takes effect, or fails before or after taking effect.        *)
(***************************************************************************)
EXTENDS Integers, Sequences, FiniteSets, Functions

CONSTANTS
  Proc,             \* the processes that share the workspace (engine, CLI)
  File, Dir,        \* paths of regular files and of directories
  Parent,           \* Parent[f]: the directory of file f, or Root
  Root,             \* ~/.ssh itself, which always exists
  Present,          \* the paths that exist at the start
  Requests,         \* what a caller may ask for
  Editable,         \* files another program may write while nobody holds the lock
  RetainedRecords,  \* RetainedHistoryRecords
  MaxId, MaxFaults, MaxCrashes, MaxEdits, MaxNotes    \* bounds of the model

Absent  == -1
Content == Absent .. MaxId
Id      == 1 .. MaxId
Path    == File \cup Dir
NoProc  == "none"

FileAction == {"write", "move", "remove", "note"}
DirAction  == {"mkdir", "rmdir"}

\* journalEntry: keep is ~NoBackup, old and new are PreviousDigest and Digest.
Entry == [action : FileAction, path : File, target : File, keep : BOOLEAN,
          had : BOOLEAN, old : Content, new : Content]
         \cup
         [action : DirAction, path : Dir, target : Dir, keep : BOOLEAN,
          had : BOOLEAN, old : Content, new : Content]

Status == {"staging", "staged", "applied", "completed", "rolled_back"}

\* journalRecord: temps and backups are the files whose entry names a Temp, a Backup.
Record == [status : Status, atomic : BOOLEAN, discard : BOOLEAN,
           entries : Seq(Entry), committed : Nat,
           temps : SUBSET File, backups : SUBSET File]

NoRecord == [status |-> "none"]

\* Request: mode selects Commit, CommitAtomic or CommitAtomicDiscardBackups.  The items
\* stand in the order of commitBuilder.stage: directories, writes, moves, removals,
\* removed directories, final writes.
Item    == [action : FileAction \ {"note"}, path : File, target : File, keep : BOOLEAN, same : BOOLEAN]
           \cup [action : DirAction, path : Dir, target : Dir, keep : BOOLEAN, same : BOOLEAN]
Request == {q \in [mode : {"plain", "atomic", "discard"}, items : Seq(Item)] :
              \A i, j \in 1 .. Len(q.items) :
                i < j /\ q.items[j].action = "mkdir" => q.items[i].action = "mkdir"}

Label == {"idle", "begin", "prepare", "apply", "markApplied", "loaded", "undo", "temps",
          "discard", "history", "journal", "prune", "failTemps", "failWrite"}

\* A run is what a process holds in memory: own is TRUE while a failure goes through
\* commitRun.fail, goal the status that finish will give the record, undo the number
\* of entries rollbackRecord has still to undo.
Run   == [txn : Id, rec : Record, goal : {"completed", "rolled_back"},
          own : BOOLEAN, undo : Nat]
NoRun == [txn |-> 0]

ASSUME ConstantsAssumption ==
  /\ NoProc \notin Proc
  /\ File \cap Dir = {}
  /\ Root \notin Path
  /\ Parent \in [File -> Dir \cup {Root}]
  /\ Present \subseteq Path
  /\ \A f \in Present \cap File : Parent[f] \in Present \cup {Root}
  /\ Requests \subseteq Request
  /\ Editable \subseteq File
  /\ RetainedRecords \in Nat
  /\ MaxId \in Nat /\ MaxFaults \in Nat /\ MaxCrashes \in Nat
  /\ MaxEdits \in Nat /\ MaxNotes \in Nat

VARIABLES
  files, dirs,      \* the workspace: content of each file, directories present
  temps, backups,   \* <<id, file>>: staged siblings and generation backups on disk
  journal, history, \* the records on disk
  lock,             \* the OS mutation lock
  pc, run,          \* what each process is doing
  seen,             \* the contents a process last read: its preconditions
  nextId,           \* the next transaction or edit
  published,        \* transactions whose publish callback has run
  faults, crashes, edits, notes

disk   == <<files, dirs, temps, backups, journal, history>>
memory == <<lock, pc, run>>
bounds == <<crashes, edits, notes>>
vars   == <<disk, memory, seen, nextId, published, faults, bounds>>
-----------------------------------------------------------------------------
(* What the workspace shows *)

Pending == {t \in Id : journal[t] # NoRecord}

InDir(f, d) == Parent[f] = d

\* A staged sibling counts as a directory entry like any other file.
DirEmpty(d) == /\ \A f \in File : InDir(f, d) => files[f] = Absent
               /\ \A s \in temps : ~InDir(s[2], d)

DirPresent(d) == d = Root \/ d \in dirs

Indices(rec) == 1 .. Len(rec.entries)

Touches(e, f) == e.action # "note" /\ (e.path = f \/ (e.action = "move" /\ e.target = f))

\* The content of file f before and after entry e.
Before(e, f) == IF e.action = "move" /\ e.target = f THEN Absent ELSE e.old
After(e, f)  == IF e.action # "move" THEN e.new ELSE IF e.target = f THEN e.old ELSE Absent

\* noOpWrite: the bytes stay what they were.
NoOpWrite(e) == e.action = "write" /\ e.had /\ e.new = e.old

\* checkReversible
Reversible(e) == /\ ~(e.action = "remove" /\ ~e.keep)
                 /\ ~(e.action = "write" /\ e.had /\ ~e.keep /\ ~NoOpWrite(e))

ExpectsBackup(e) == e.action \in {"write", "remove"} /\ e.had /\ e.keep

-----------------------------------------------------------------------------
(* Reading a record back: validateLoadedJournalRecord and reconcileRecord *)

\* What validateLoadedJournalEntry accepts of the entries of a pending or filed record.
ReadableEntries(rec) ==
  \A i \in Indices(rec) : LET e == rec.entries[i] IN
    /\ rec.atomic => /\ e.action \notin {"move", "remove", "rmdir"}
                     /\ e.action = "write" => e.keep
    /\ (ExpectsBackup(e) /\ e.path \notin rec.backups) =>
          \/ rec.status \in {"staging", "rolled_back"}
          \/ rec.discard /\ rec.status \in {"applied", "completed"}

\* A request that only removes directories already gone writes a record without entries,
\* and validateLoadedJournalRecord refuses it.
ReadablePending(rec) ==
  /\ rec.entries # << >>
  /\ rec.status \in {"staging", "staged", "applied"}
  /\ rec.status = "applied" => rec.atomic /\ rec.discard /\ rec.committed = Len(rec.entries)
  /\ rec.status = "staging" /\ ~rec.atomic => rec.committed = 0
  /\ rec.discard => rec.atomic
  /\ ReadableEntries(rec)

ReadableHistory(rec) ==
  /\ rec.entries # << >>
  /\ rec.status = "completed" => rec.committed = Len(rec.entries) /\ rec.temps = {}
  /\ rec.status = "rolled_back" => rec.committed = 0
  /\ ReadableEntries(rec)

\* A write of unchanged contents taken for applied.
EvidenceOfSameApplied(e) ==
  LET when(applied) == IF applied THEN "applied" ELSE "unapplied"
      now == files[e.path]
  IN CASE e.action = "mkdir" -> IF e.had THEN "none" ELSE when(e.path \in dirs)
       [] e.action = "rmdir" -> when(e.path \notin dirs)
       [] e.action = "write" -> IF now = Absent THEN "unapplied" ELSE when(now = e.new)
       [] OTHER -> when(now = Absent)

\* entryEvidence: what the target tells about entry e.
Evidence(e) ==
  LET when(applied) == IF applied THEN "applied" ELSE "unapplied"
      now == files[e.path]
  IN CASE e.action = "mkdir" -> IF e.had THEN "none" ELSE when(e.path \in dirs)
       [] e.action = "rmdir" -> when(e.path \notin dirs)
       [] e.action = "write" ->
            IF NoOpWrite(e) THEN "none"
            ELSE IF now = Absent THEN (IF e.had THEN "unknown" ELSE "unapplied")
            ELSE IF now = e.new THEN "applied"
            ELSE IF e.had /\ now = e.old THEN "unapplied" ELSE "unknown"
       [] e.action = "move" ->
            IF now = Absent /\ files[e.target] = e.new THEN "applied"
            ELSE IF files[e.target] = Absent /\ now = e.new THEN "unapplied" ELSE "unknown"
       [] e.action = "remove" ->
            IF now = Absent THEN "applied" ELSE IF now = e.old THEN "unapplied" ELSE "unknown"
       [] OTHER -> "unknown"

Shows(rec, evidence) == {i \in Indices(rec) : Evidence(rec.entries[i]) = evidence}

\* The applied prefix: everything before the first entry seen unapplied.
Boundary(rec) == CHOOSE n \in 0 .. Len(rec.entries) :
                   /\ \A i \in Shows(rec, "unapplied") : n < i
                   /\ n = Len(rec.entries) \/ (n + 1) \in Shows(rec, "unapplied")

\* reconcileRecord leaves these records as they are.
NotReconciled(rec) ==
  \/ rec.status = "applied" /\ Shows(rec, "unapplied") = {}
  \/ rec.status = "staging" /\ ~rec.atomic

ResolvableAlways(rec) ==
  \A i \in Shows(rec, "applied"), j \in Shows(rec, "unapplied") : i < j

\* Its failure is ErrRecoveryStateUnknown.
Resolvable(rec) ==
  \/ rec.status = "staging" /\ ~rec.atomic
  \/ /\ Shows(rec, "unknown") = {}
     /\ \A i \in Shows(rec, "applied"), j \in Shows(rec, "unapplied") : i < j

ReconciledTrustingProgress(rec) == rec
Reconciled(rec) ==
  IF NotReconciled(rec) THEN rec
  ELSE [rec EXCEPT !.status = IF rec.status = "applied" THEN "staged" ELSE rec.status,
                   !.committed = Boundary(rec)]

StagedMatches(t, rec, e) == e.path \in rec.temps /\ <<t, e.path>> \in temps

\* What complete and rollback demand of a reconciled record.
CanComplete(t, rec) ==
  \/ rec.status = "applied" /\ rec.discard
  \/ /\ rec.status = "staged" /\ ~rec.atomic
     /\ \A i \in Indices(rec) : (i > rec.committed /\ rec.entries[i].action = "write") =>
                                   StagedMatches(t, rec, rec.entries[i])

CanRollbackApplied(rec) ==
  \A i \in Indices(rec) : i <= rec.committed => Reversible(rec.entries[i])
CanRollbackStagedOnly(rec) ==
  /\ rec.status = "staged"
  /\ \A i \in Indices(rec) : i <= rec.committed => Reversible(rec.entries[i])
CanRollback(rec) ==
  /\ rec.status # "applied"
  /\ \A i \in Indices(rec) : i <= rec.committed => Reversible(rec.entries[i])
-----------------------------------------------------------------------------
(* Planning a commit: commitBuilder *)

\* Already missing directories need no removal.
Wanted(q) == {i \in 1 .. Len(q.items) :
                q.items[i].action = "rmdir" => q.items[i].path \in dirs}

\* The increasing enumeration of what is wanted.
Orders(q) == {o \in [1 .. Cardinality(Wanted(q)) -> Wanted(q)] :
                \A i, j \in DOMAIN o : i < j => o[i] < o[j]}

Makes(q, d) == \E m \in Range(q.items) : m.action = "mkdir" /\ m.path = d

HasPlace(q, f) == DirPresent(Parent[f]) \/ Makes(q, Parent[f])

ClaimedBy(m) == IF m.action = "move" THEN {m.path, m.target} ELSE {m.path}

Claims(q, f) == \E m \in Range(q.items) : f \in ClaimedBy(m)

\* claim: its failure is ErrDuplicatePath.
EachPathOnce(q) ==
  /\ \A m \in Range(q.items) : m.action = "move" => m.path # m.target
  /\ \A i, j \in 1 .. Len(q.items) :
       i # j => ClaimedBy(q.items[i]) \cap ClaimedBy(q.items[j]) = {}

AcceptableUnchecked(q, m, had) == m.action = "write" => HasPlace(q, m.path)

\* The caller read had[f] when it formed its request: the Precondition of file f.
Acceptable(q, m, had) ==
  CASE m.action = "write"  -> files[m.path] = had[m.path] /\ HasPlace(q, m.path)
    [] m.action = "move"   -> /\ files[m.path] # Absent /\ files[m.path] = had[m.path]
                              /\ files[m.target] = Absent /\ HasPlace(q, m.target)
    [] m.action = "remove" -> files[m.path] # Absent /\ files[m.path] = had[m.path]
    [] m.action = "rmdir"  -> \A f \in File :
                                InDir(f, m.path) /\ files[f] # Absent => Claims(q, f)
    [] OTHER -> TRUE

AdmissibleAlways(q) == TRUE

\* validateAtomicRequest and validateDiscardBackupsRequest, then the claims of the builder
Admissible(q) ==
  /\ EachPathOnce(q)
  /\ q.mode # "plain" =>
       \A m \in Range(q.items) : m.action \in {"write", "remove"} => m.keep
  /\ q.mode = "discard" => \A m \in Range(q.items) : m.action = "write"

Planned(m, t) ==
  LET now == IF m.path \in File THEN files[m.path] ELSE Absent
      had == IF m.path \in File THEN now # Absent ELSE m.path \in dirs
  IN [action |-> m.action, path |-> m.path, target |-> m.target, keep |-> m.keep,
      had |-> had, old |-> now,
      new |-> CASE m.action = "write" -> IF m.same /\ had THEN now ELSE t
                [] m.action = "move" -> now
                [] OTHER -> Absent]

PlanOf(q, order, t) ==
  [status |-> "staging", atomic |-> q.mode # "plain", discard |-> q.mode = "discard",
   entries |-> [i \in DOMAIN order |-> Planned(q.items[order[i]], t)],
   committed |-> 0, temps |-> {}, backups |-> {}]

-----------------------------------------------------------------------------
(* Control: where a process goes when a step succeeds or fails *)

Goto(p, label, rec) == /\ pc' = [pc EXCEPT ![p] = label]
                       /\ run' = [run EXCEPT ![p].rec = rec]
                       /\ UNCHANGED lock

ReleaseWithoutUnlock(p) == /\ UNCHANGED lock
                           /\ pc' = [pc EXCEPT ![p] = "idle"]
                           /\ run' = [run EXCEPT ![p] = NoRun]

\* The call returns: the deferred unlock runs.
Release(p) == /\ lock' = NoProc
              /\ pc' = [pc EXCEPT ![p] = "idle"]
              /\ run' = [run EXCEPT ![p] = NoRun]

Succeed == UNCHANGED faults
Fault   == faults < MaxFaults /\ faults' = faults + 1

\* commitRun.fail, entered with the record as the process holds it in memory.  A
\* recovery, and a rollback already under way, return their error at once.
OnError(p, rec) ==
  IF ~run[p].own THEN Release(p)
  ELSE IF rec.atomic
       THEN Goto(p, "failWrite",
                 [rec EXCEPT !.status = IF rec.status = "staging" THEN "staging" ELSE "staged"])
  ELSE IF rec.status = "staging" THEN Goto(p, "failTemps", rec)
  ELSE IF rec.status = "staged" THEN Goto(p, "failWrite", rec)
  ELSE Release(p)

\* writeRecord: the file is replaced by a rename.  When it fails, the new record may
\* be in place all the same, its directory entry only not flushed.
Written(t, rec)       == journal' = [journal EXCEPT ![t] = rec]
PerhapsWritten(t, rec) == journal' \in {journal, [journal EXCEPT ![t] = rec]}

Rec(p) == run[p].rec
Txn(p) == run[p].txn

-----------------------------------------------------------------------------
(* Commit *)

\* A caller reads the files its next request depends on, without the lock.
Read(p) == /\ pc[p] = "idle"
           /\ seen' = [seen EXCEPT ![p] = files]
           /\ UNCHANGED <<disk, memory, nextId, published, faults, bounds>>

\* ensureNoPendingTransaction
NoPendingUnchecked == TRUE
NoPending == Pending = {}

\* commitBuilt up to the plan.  A held lock, a pending record or a precondition that
\* no longer holds returns an error and changes nothing.
StartCommit(p, q) ==
  /\ pc[p] = "idle" /\ lock = NoProc
  /\ NoPending
  /\ Admissible(q)
  /\ \A m \in Range(q.items) : Acceptable(q, m, seen[p])
  /\ nextId <= MaxId
  /\ nextId' = nextId + 1
  /\ lock' = p
  /\ pc' = [pc EXCEPT ![p] = "begin"]
  /\ \E order \in Orders(q) :
       run' = [run EXCEPT ![p] = [txn |-> nextId, rec |-> PlanOf(q, order, nextId),
                                  goal |-> "completed", own |-> TRUE, undo |-> 0]]
  /\ UNCHANGED <<disk, seen, published, faults, bounds>>

\* commitRun.begin: its failure is returned without going through fail.
Begin(p) ==
  /\ pc[p] = "begin"
  /\ \/ Written(Txn(p), Rec(p)) /\ Goto(p, "prepare", Rec(p)) /\ Succeed
     \/ PerhapsWritten(Txn(p), Rec(p)) /\ Release(p) /\ Fault
  /\ UNCHANGED <<files, dirs, temps, backups, history, seen, nextId, published, bounds>>

DirsToMake(rec)    == {i \in Indices(rec) : i > rec.committed /\ rec.entries[i].action = "mkdir"}
BackupsToWrite(rec) == {i \in Indices(rec) : /\ ExpectsBackup(rec.entries[i])
                                             /\ rec.entries[i].path \notin rec.backups}
WritesToStage(rec) == {i \in Indices(rec) : /\ rec.entries[i].action = "write"
                                            /\ rec.entries[i].path \notin rec.temps}

FirstOf(i, indices) == i \in indices /\ \A j \in indices : i <= j

MakeDirectory(p) ==
  LET rec == Rec(p) IN
  /\ pc[p] = "prepare"
  /\ \E i \in Indices(rec) :
       /\ FirstOf(i, DirsToMake(rec))
       /\ \/ /\ dirs' = dirs \cup {rec.entries[i].path}
             /\ Goto(p, "prepare", [rec EXCEPT !.committed = i]) /\ Succeed
          \/ UNCHANGED dirs /\ OnError(p, rec) /\ Fault
  /\ UNCHANGED <<files, temps, backups, journal, history, seen, nextId, published, bounds>>

WriteBackup(p) ==
  LET rec == Rec(p) IN
  /\ pc[p] = "prepare" /\ DirsToMake(rec) = {}
  /\ \E i \in Indices(rec) :
       /\ FirstOf(i, BackupsToWrite(rec))
       /\ LET f == rec.entries[i].path
              kept == backups \cup {<<Txn(p), f>>}
          IN \/ /\ backups' = kept
                /\ Goto(p, "prepare", [rec EXCEPT !.backups = @ \cup {f}]) /\ Succeed
             \/ backups' \in {backups, kept} /\ OnError(p, rec) /\ Fault
  /\ UNCHANGED <<files, dirs, temps, journal, history, seen, nextId, published, bounds>>

StageWrite(p) ==
  LET rec == Rec(p) IN
  /\ pc[p] = "prepare" /\ DirsToMake(rec) = {} /\ BackupsToWrite(rec) = {}
  /\ \E i \in Indices(rec) :
       /\ FirstOf(i, WritesToStage(rec))
       /\ LET f == rec.entries[i].path
          IN \/ /\ temps' = temps \cup {<<Txn(p), f>>}
                /\ Goto(p, "prepare", [rec EXCEPT !.temps = @ \cup {f}]) /\ Succeed
             \/ UNCHANGED temps /\ OnError(p, rec) /\ Fault
  /\ UNCHANGED <<files, dirs, backups, journal, history, seen, nextId, published, bounds>>

\* When the record cannot be written, a plain commit goes on failing as staging.
MarkStaged(p) ==
  LET staged == [Rec(p) EXCEPT !.status = "staged"] IN
  /\ pc[p] = "prepare"
  /\ DirsToMake(Rec(p)) = {} /\ BackupsToWrite(Rec(p)) = {} /\ WritesToStage(Rec(p)) = {}
  /\ \/ Written(Txn(p), staged) /\ Goto(p, "apply", staged) /\ Succeed
     \/ /\ PerhapsWritten(Txn(p), staged)
        /\ OnError(p, IF staged.atomic THEN staged ELSE Rec(p)) /\ Fault
  /\ UNCHANGED <<files, dirs, temps, backups, history, seen, nextId, published, bounds>>
-----------------------------------------------------------------------------
(* Applying the entries: commitStaged, run by a commit and by Complete *)

AppliedFiles(e) ==
  CASE e.action = "write"  -> [files EXCEPT ![e.path] = e.new]
    [] e.action = "move"   -> [files EXCEPT ![e.path] = Absent, ![e.target] = files[e.path]]
    [] e.action = "remove" -> [files EXCEPT ![e.path] = Absent]
    [] OTHER -> files

AppliedDirs(e) ==
  CASE e.action = "mkdir" -> dirs \cup {e.path}
    [] e.action = "rmdir" -> dirs \ {e.path}
    [] OTHER -> dirs

\* The file operation itself can succeed.
Applicable(t, rec, e) ==
  CASE e.action = "write"  -> StagedMatches(t, rec, e) /\ DirPresent(Parent[e.path])
    [] e.action = "move"   -> files[e.path] # Absent /\ DirPresent(Parent[e.target])
    [] e.action = "remove" -> files[e.path] # Absent
    [] e.action = "rmdir"  -> DirEmpty(e.path)
    [] OTHER -> TRUE

\* The memory of a run that has applied entry i.
Advanced(rec, i) ==
  [rec EXCEPT !.committed = i,
              !.temps = IF rec.entries[i].action = "write" THEN @ \ {rec.entries[i].path} ELSE @]

\* Where commitStaged hands over.
AfterApply(rec) == IF rec.discard THEN "markApplied" ELSE "temps"

\* Progress is counted before the directory is flushed, and is not written down.
ApplyEntry(p) ==
  LET rec == Rec(p)
      i   == rec.committed + 1
      e   == rec.entries[i]
      apply == /\ files' = AppliedFiles(e)
               /\ dirs' = AppliedDirs(e)
               /\ temps' = IF e.action = "write" THEN temps \ {<<Txn(p), e.path>>} ELSE temps
  IN /\ pc[p] = "apply" /\ i <= Len(rec.entries)
     /\ \/ /\ Applicable(Txn(p), rec, e) /\ apply
           /\ \/ Goto(p, "apply", Advanced(rec, i)) /\ Succeed
              \/ OnError(p, Advanced(rec, i)) /\ Fault
        \/ /\ UNCHANGED <<files, dirs, temps>> /\ OnError(p, rec)
           /\ IF Applicable(Txn(p), rec, e) THEN Fault ELSE Succeed
     /\ UNCHANGED <<backups, journal, history, seen, nextId, published, bounds>>

Applied(p) ==
  /\ pc[p] = "apply" /\ Rec(p).committed = Len(Rec(p).entries)
  /\ Goto(p, AfterApply(Rec(p)), Rec(p))
  /\ UNCHANGED <<disk, seen, nextId, published, faults, bounds>>

\* finishDiscardingBackups: the applied record is the commit point; publish follows it,
\* and whatever fails afterwards is ignored.
MarkApplied(p) ==
  LET marked == [Rec(p) EXCEPT !.status = "applied"] IN
  /\ pc[p] = "markApplied"
  /\ \/ /\ Written(Txn(p), marked)
        /\ published' = published \cup {Txn(p)}
        /\ pc' = [pc EXCEPT ![p] = "temps"]
        /\ run' = [run EXCEPT ![p] = [@ EXCEPT !.rec = marked, !.own = FALSE]]
        /\ UNCHANGED lock /\ Succeed
     \/ /\ PerhapsWritten(Txn(p), marked) /\ OnError(p, marked) /\ Fault
        /\ UNCHANGED published
  /\ UNCHANGED <<files, dirs, temps, backups, history, seen, nextId, bounds>>

-----------------------------------------------------------------------------
(* finish: temporaries, rollback material, history, journal, retention *)

LeftTempsNamed(p) == {<<Txn(p), f>> : f \in Rec(p).temps} \cap temps
LeftTemps(p) == {s \in temps : s[1] = Txn(p)}

\* removeStagedTemps and removeLeftoverTemps
RemoveTemp(p) ==
  /\ pc[p] = "temps"
  /\ \E s \in LeftTemps(p) :
       LET rec == [Rec(p) EXCEPT !.temps = @ \ {s[2]}] IN
       \/ temps' = temps \ {s} /\ Goto(p, "temps", rec) /\ Succeed
       \/ UNCHANGED temps /\ OnError(p, Rec(p)) /\ Fault
  /\ UNCHANGED <<files, dirs, backups, journal, history, seen, nextId, published, bounds>>

TempsRemoved(p) ==
  /\ pc[p] = "temps" /\ LeftTemps(p) = {}
  /\ Goto(p, IF Rec(p).discard THEN "discard" ELSE "history", [Rec(p) EXCEPT !.temps = {}])
  /\ UNCHANGED <<disk, seen, nextId, published, faults, bounds>>

\* discardRollbackBackups removes the backups the record names.
DiscardBackup(p) ==
  /\ pc[p] = "discard"
  /\ \E f \in Rec(p).backups :
       \/ /\ backups' = backups \ {<<Txn(p), f>>}
          /\ Goto(p, "discard", [Rec(p) EXCEPT !.backups = @ \ {f}]) /\ Succeed
       \/ /\ backups' \in {backups, backups \ {<<Txn(p), f>>}}
          /\ OnError(p, Rec(p)) /\ Fault
  /\ UNCHANGED <<files, dirs, temps, journal, history, seen, nextId, published, bounds>>

BackupsDiscarded(p) ==
  /\ pc[p] = "discard" /\ Rec(p).backups = {}
  /\ Goto(p, "history", Rec(p))
  /\ UNCHANGED <<disk, seen, nextId, published, faults, bounds>>

WriteHistory(p) ==
  LET filed == [Rec(p) EXCEPT !.status = run[p].goal]
      written == [history EXCEPT ![Txn(p)] = filed]
  IN /\ pc[p] = "history"
     /\ \/ history' = written /\ Goto(p, "journal", filed) /\ Succeed
        \/ history' \in {history, written} /\ OnError(p, filed) /\ Fault
     /\ UNCHANGED <<files, dirs, temps, backups, journal, seen, nextId, published, bounds>>

\* Removing a record that is not there is an error, and so is a failed flush of the
\* directory it has left.
RemoveJournal(p) ==
  LET removed == [journal EXCEPT ![Txn(p)] = NoRecord] IN
  /\ pc[p] = "journal"
  /\ \/ /\ journal[Txn(p)] # NoRecord
        /\ journal' = removed /\ Goto(p, "prune", Rec(p)) /\ Succeed
     \/ /\ journal[Txn(p)] # NoRecord
        /\ journal' \in {journal, removed} /\ OnError(p, Rec(p)) /\ Fault
     \/ /\ journal[Txn(p)] = NoRecord
        /\ UNCHANGED journal /\ OnError(p, Rec(p)) /\ Succeed
  /\ UNCHANGED <<files, dirs, temps, backups, history, seen, nextId, published, bounds>>

HasBackups(t) == \E b \in backups : b[1] = t

FinishedWithPending == {t \in Id : history[t] # NoRecord \/ HasBackups(t)}

\* finishedRecordIdentifiers: interrupted changes are neither counted nor removed.
Finished == {t \in Id \ Pending : history[t] # NoRecord \/ HasBackups(t)}

Newer(t) == {u \in Finished : u > t}

\* removeFinishedRecord: the record goes before its backups, so that a failure in
\* between leaves backups without a record and never the reverse.
RemovedBackupsFirst(records, trees) == records \subseteq trees
Removed(records, trees) == trees \subseteq records

\* pruneHistory: a cut-off in age or size spares the newest records, at most
\* RetainedRecords of them, and the record that was finished just now.
PruneHistory(justFinished) ==
  \E kept \in 0 .. RetainedRecords :
    LET stale == {t \in Finished \ justFinished : Cardinality(Newer(t)) >= kept}
        remove(records, trees) ==
          /\ history' = [t \in Id |-> IF t \in records THEN NoRecord ELSE history[t]]
          /\ backups' = {b \in backups : b[1] \notin trees}
    IN \/ remove(stale, stale) /\ Succeed
       \/ \E records, trees \in SUBSET stale :
            Removed(records, trees) /\ trees # stale /\ remove(records, trees) /\ Fault

Prune(p) ==
  /\ pc[p] = "prune"
  /\ PruneHistory({Txn(p)})
  /\ Release(p)
  /\ UNCHANGED <<files, dirs, temps, journal, seen, nextId, published, bounds>>

\* PruneHistory at engine start
PruneAtStart(p) ==
  /\ pc[p] = "idle" /\ lock = NoProc
  /\ Finished # {}
  /\ PruneHistory({})
  /\ UNCHANGED <<files, dirs, temps, journal, memory, seen, nextId, published, bounds>>

-----------------------------------------------------------------------------
(* Failure handling: commitRun.fail and rollbackRecord *)

FailTemps(p) ==
  /\ pc[p] = "failTemps"
  /\ \/ /\ \E f \in Rec(p).temps :
             \/ /\ temps' = temps \ {<<Txn(p), f>>}
                /\ Goto(p, "failTemps", [Rec(p) EXCEPT !.temps = @ \ {f}]) /\ Succeed
             \/ UNCHANGED temps /\ Release(p) /\ Fault
     \/ Rec(p).temps = {} /\ UNCHANGED temps /\ Release(p) /\ Succeed
  /\ UNCHANGED <<files, dirs, backups, journal, history, seen, nextId, published, bounds>>

StartUndoOffByOne(p, rec) ==
  /\ pc' = [pc EXCEPT ![p] = "undo"]
  /\ run' = [run EXCEPT ![p] = [@ EXCEPT !.rec = rec, !.goal = "rolled_back",
                                         !.own = FALSE, !.undo = rec.committed - 1]]
  /\ UNCHANGED lock

\* rollbackRecord: from here on an error is returned as it is.
StartUndo(p, rec) ==
  /\ pc' = [pc EXCEPT ![p] = "undo"]
  /\ run' = [run EXCEPT ![p] = [@ EXCEPT !.rec = rec, !.goal = "rolled_back",
                                         !.own = FALSE, !.undo = rec.committed]]
  /\ UNCHANGED lock

\* The record is rewritten with the progress the process knows; a failure to do so is
\* reported but stops nothing.
FailWrite(p) ==
  /\ pc[p] = "failWrite"
  /\ \/ Written(Txn(p), Rec(p)) /\ Succeed
     \/ PerhapsWritten(Txn(p), Rec(p)) /\ Fault
  /\ IF Rec(p).atomic /\ CanRollback(Rec(p)) THEN StartUndo(p, Rec(p)) ELSE Release(p)
  /\ UNCHANGED <<files, dirs, temps, backups, history, seen, nextId, published, bounds>>

\* restorePrevious needs the backup the record names, unless nothing changed.
NothingToRestore(rec, e) == NoOpWrite(e) /\ e.path \notin rec.backups

Undoable(t, rec, e) ==
  CASE e.action \in {"write", "remove"} ->
         e.had => \/ NothingToRestore(rec, e)
                  \/ e.path \in rec.backups /\ <<t, e.path>> \in backups /\ DirPresent(Parent[e.path])
    [] e.action = "move" -> files[e.target] # Absent /\ DirPresent(Parent[e.path])
    [] OTHER -> TRUE

UndoneFiles(rec, e) ==
  CASE e.action = "write"  -> IF NothingToRestore(rec, e) THEN files ELSE [files EXCEPT ![e.path] = e.old]
    [] e.action = "remove" -> [files EXCEPT ![e.path] = e.old]
    [] e.action = "move"   -> [files EXCEPT ![e.target] = Absent, ![e.path] = files[e.target]]
    [] OTHER -> files

\* A directory the transaction made goes away if nothing is in it.
UndoneDirs(e) ==
  CASE e.action = "mkdir" -> IF e.had \/ ~DirEmpty(e.path) THEN dirs ELSE dirs \ {e.path}
    [] e.action = "rmdir" -> dirs \cup {e.path}
    [] OTHER -> dirs

UndoEntry(p) ==
  LET rec == Rec(p)
      e   == rec.entries[run[p].undo]
      undo == files' = UndoneFiles(rec, e) /\ dirs' = UndoneDirs(e)
  IN /\ pc[p] = "undo" /\ run[p].undo > 0
     /\ \/ /\ Undoable(Txn(p), rec, e) /\ undo
           /\ \/ run' = [run EXCEPT ![p].undo = @ - 1] /\ UNCHANGED <<pc, lock>> /\ Succeed
              \/ Release(p) /\ Fault
        \/ UNCHANGED <<files, dirs>> /\ Release(p)
           /\ IF Undoable(Txn(p), rec, e) THEN Fault ELSE Succeed
     /\ UNCHANGED <<temps, backups, journal, history, seen, nextId, published, bounds>>

UndoneKeepingProgress(p) ==
  /\ pc[p] = "undo" /\ run[p].undo = 0
  /\ Goto(p, "temps", Rec(p))
  /\ UNCHANGED <<disk, seen, nextId, published, faults, bounds>>
Undone(p) ==
  /\ pc[p] = "undo" /\ run[p].undo = 0
  /\ Goto(p, "temps", [Rec(p) EXCEPT !.committed = 0])
  /\ UNCHANGED <<disk, seen, nextId, published, faults, bounds>>

-----------------------------------------------------------------------------
(* Recovery: Complete and Rollback of an interrupted transaction *)

\* loadPending: a record that is not readable, or whose targets are in neither of
\* their recorded states, is refused.  A changed progress is written down first.
LoadPending(p, t, goal) ==
  LET rec == journal[t]
      known == Reconciled(rec)
  IN /\ pc[p] = "idle" /\ lock = NoProc
     /\ rec # NoRecord /\ ReadablePending(rec) /\ Resolvable(rec)
     /\ \/ /\ Written(t, known)
           /\ lock' = p
           /\ pc' = [pc EXCEPT ![p] = "loaded"]
           /\ run' = [run EXCEPT ![p] = [txn |-> t, rec |-> known, goal |-> goal,
                                         own |-> FALSE, undo |-> 0]]
           /\ Succeed
        \/ known # rec /\ PerhapsWritten(t, known) /\ UNCHANGED memory /\ Fault
     /\ UNCHANGED <<files, dirs, temps, backups, history, seen, nextId, published, bounds>>

Complete(p) ==
  /\ pc[p] = "loaded" /\ run[p].goal = "completed" /\ CanComplete(Txn(p), Rec(p))
  /\ Goto(p, IF Rec(p).status = "applied" THEN "temps" ELSE "apply", Rec(p))
  /\ UNCHANGED <<disk, seen, nextId, published, faults, bounds>>

Rollback(p) ==
  /\ pc[p] = "loaded" /\ run[p].goal = "rolled_back" /\ CanRollback(Rec(p))
  /\ StartUndo(p, Rec(p))
  /\ UNCHANGED <<disk, seen, nextId, published, faults, bounds>>

\* ErrCannotComplete, ErrCannotRollback, ErrIrreversible...
Refuse(p) ==
  /\ pc[p] = "loaded"
  /\ CASE run[p].goal = "completed"   -> ~CanComplete(Txn(p), Rec(p))
       [] run[p].goal = "rolled_back" -> ~CanRollback(Rec(p))
  /\ Release(p)
  /\ UNCHANGED <<disk, seen, nextId, published, faults, bounds>>

-----------------------------------------------------------------------------
(* Other operations and the environment *)

\* Note files a record of an operation that changed no file.
Note(p, f) ==
  /\ pc[p] = "idle" /\ lock = NoProc /\ NoPending
  /\ notes < MaxNotes /\ notes' = notes + 1
  /\ nextId <= MaxId /\ nextId' = nextId + 1
  /\ history' = [history EXCEPT ![nextId] =
       [status |-> "completed", atomic |-> FALSE, discard |-> FALSE,
        entries |-> <<[action |-> "note", path |-> f, target |-> f, keep |-> TRUE,
                       had |-> FALSE, old |-> Absent, new |-> Absent]>>,
        committed |-> 1, temps |-> {}, backups |-> {}]]
  /\ UNCHANGED <<files, dirs, temps, backups, journal, memory, seen, published, faults,
                 crashes, edits>>

\* The process dies: its memory is gone and the OS drops its lock.
Crash(p) ==
  /\ pc[p] # "idle"
  /\ crashes < MaxCrashes /\ crashes' = crashes + 1
  /\ Release(p)
  /\ UNCHANGED <<disk, seen, nextId, published, faults, edits, notes>>

\* Another program, which knows nothing of the lock, writes a file.  Edits that race
\* with a running commit are beyond what the code can detect and are left out.
Edit(f) ==
  /\ f \in Editable /\ lock = NoProc /\ DirPresent(Parent[f])
  /\ edits < MaxEdits /\ edits' = edits + 1
  /\ nextId <= MaxId /\ nextId' = nextId + 1
  /\ files' = [files EXCEPT ![f] = nextId]
  /\ UNCHANGED <<dirs, temps, backups, journal, history, memory, seen, published, faults,
                 crashes, notes>>

-----------------------------------------------------------------------------

Init ==
  /\ files = [f \in File |-> IF f \in Present THEN 0 ELSE Absent]
  /\ dirs = Present \cap Dir
  /\ temps = {} /\ backups = {}
  /\ journal = [t \in Id |-> NoRecord]
  /\ history = [t \in Id |-> NoRecord]
  /\ lock = NoProc
  /\ pc = [p \in Proc |-> "idle"]
  /\ run = [p \in Proc |-> NoRun]
  /\ seen = [p \in Proc |-> files]
  /\ nextId = 1
  /\ published = {}
  /\ faults = 0 /\ crashes = 0 /\ edits = 0 /\ notes = 0

\* What a process does once it has the lock.
Step(p) ==
  \/ Begin(p) \/ MakeDirectory(p) \/ WriteBackup(p) \/ StageWrite(p) \/ MarkStaged(p)
  \/ ApplyEntry(p) \/ Applied(p) \/ MarkApplied(p)
  \/ RemoveTemp(p) \/ TempsRemoved(p) \/ DiscardBackup(p) \/ BackupsDiscarded(p)
  \/ WriteHistory(p) \/ RemoveJournal(p) \/ Prune(p)
  \/ FailTemps(p) \/ FailWrite(p) \/ UndoEntry(p) \/ Undone(p)
  \/ Complete(p) \/ Rollback(p) \/ Refuse(p)

Next ==
  \/ \E p \in Proc :
       \/ Read(p) \/ Step(p) \/ PruneAtStart(p) \/ Crash(p)
       \/ \E q \in Requests : StartCommit(p, q)
       \/ \E t \in Id, goal \in {"completed", "rolled_back"} : LoadPending(p, t, goal)
       \/ \E f \in File : Note(p, f)
  \/ \E f \in File : Edit(f)

Spec == Init /\ [][Next]_vars

\* A process that has the lock goes on, and the user who is shown a pending change
\* (the history screen, or the automatic recovery at engine start) keeps asking both
\* for its completion and for its rollback.
FairSpec ==
  /\ Spec
  /\ \A p \in Proc : WF_vars(Step(p))
  /\ \A goal \in {"completed", "rolled_back"} :
       SF_vars(\E p \in Proc, t \in Id : LoadPending(p, t, goal))

-----------------------------------------------------------------------------
(* Properties *)

TypeOK ==
  /\ files \in [File -> Content] /\ dirs \in SUBSET Dir
  /\ temps \in SUBSET (Id \X File) /\ backups \in SUBSET (Id \X File)
  /\ journal \in [Id -> Record \cup {NoRecord}]
  /\ history \in [Id -> Record \cup {NoRecord}]
  /\ lock \in Proc \cup {NoProc}
  /\ pc \in [Proc -> Label]
  /\ run \in [Proc -> Run \cup {NoRun}]
  /\ seen \in [Proc -> [File -> Content]]
  /\ nextId \in 1 .. (MaxId + 1)
  /\ published \in SUBSET Id
  /\ faults \in 0 .. MaxFaults /\ crashes \in 0 .. MaxCrashes
  /\ edits \in 0 .. MaxEdits /\ notes \in 0 .. MaxNotes

InHand(t) == \E p \in Proc : pc[p] # "idle" /\ run[p].txn = t

\* At most one change is interrupted at a time, and while one is, nobody works on
\* another: ensureNoPendingTransaction under the mutation lock.
OnePending ==
  /\ \A t, u \in Pending : t = u
  /\ \A p \in Proc, t \in Pending : pc[p] # "idle" => run[p].txn = t

\* The content a commit is about to replace is still the one its caller read, however
\* long planning, keeping and staging took: no update of another process is lost.
ReplacesWhatWasRead ==
  \A p \in Proc :
    (pc[p] = "apply" /\ run[p].own /\ Rec(p).committed < Len(Rec(p).entries)) =>
      LET e == Rec(p).entries[Rec(p).committed + 1] IN
        e.path \in File => files[e.path] = seen[p][e.path]

\* commitStaged writes no progress: what reconcileRecord would make of the record on
\* disk is, at every moment of the application, what the process itself knows (up to
\* entries whose target looks the same before and after).
ProgressIsReconstructible ==
  \A p \in Proc : (pc[p] = "apply" /\ edits = 0) =>
    LET rec == journal[Txn(p)]
        known == Rec(p).committed
    IN /\ rec # NoRecord /\ Resolvable(rec)
       /\ Reconciled(rec).committed >= known
       /\ \A i \in (known + 1) .. Reconciled(rec).committed : Evidence(rec.entries[i]) = "none"

\* Whatever was interrupted, and wherever, the user can complete it or roll it back
\* (unless another program wrote to one of its files meanwhile).
Recoverable ==
  edits = 0 => \A t \in Pending : ~InHand(t) =>
    LET rec == journal[t] IN
      /\ ReadablePending(rec) /\ Resolvable(rec)
      /\ CanComplete(t, Reconciled(rec)) \/ CanRollback(Reconciled(rec))

\* Rollback never finds a backup missing: what it would restore is on disk until the
\* record has become history, retention and the discarding of backups notwithstanding.
BackupsOutliveThePending ==
  \A t \in Pending : ~InHand(t) /\ edits = 0 /\ ReadablePending(journal[t]) =>
    LET rec == Reconciled(journal[t]) IN
      CanRollback(rec) =>
        \A i \in 1 .. rec.committed :
          LET e == rec.entries[i] IN
            ExpectsBackup(e) /\ ~NothingToRestore(rec, e) =>
              e.path \in rec.backups /\ <<t, e.path>> \in backups

\* The history screen never offers a generation whose backups are gone.
HistoryKeepsItsBackups ==
  \A t \in Id : history[t] # NoRecord =>
    \A f \in history[t].backups : <<t, f>> \in backups

\* Every record in history can be listed: History fails on the first it cannot read.
HistoryIsReadable == \A t \in Id : history[t] # NoRecord => ReadableHistory(history[t])

\* What the history screen shows can be listed, and what it offers can be restored.
HistoryStands == HistoryKeepsItsBackups /\ HistoryIsReadable

\* A staged sibling exists only while its transaction is recorded or running: none is
\* left behind for the key list or an Include glob to pick up.
NoOrphanTemps == \A s \in temps : s[1] \in Pending \/ InHand(s[1])

\* Once the new key generation is published in memory, the files never go back.
PublishedIsFinal ==
  \A t \in published :
    /\ t \in Pending => journal[t].status = "applied"
    /\ history[t] # NoRecord => history[t].status = "completed"

\* The backups of a change of master password are gone once it is settled either way.
RollbackMaterialIsDiscarded ==
  \A t \in Id : (t \notin Pending /\ ~InHand(t) /\ history[t] # NoRecord /\ history[t].discard)
                  => ~HasBackups(t)

\* A record leaves the journal only when history tells the truth about it: completed
\* means every entry is in effect, rolled back that no file shows it.
SettledTruthfully ==
  [][\A t \in Id : (t \in Pending /\ t \notin Pending') =>
       /\ history'[t] # NoRecord
       /\ edits = 0 => \A i \in Indices(journal[t]) :
            LET e == journal[t].entries[i] IN
              IF history'[t].status = "completed"
              THEN /\ \A f \in File : Touches(e, f) => files[f] = After(e, f)
                   /\ e.action = "mkdir" => e.path \in dirs
                   /\ e.action = "rmdir" => e.path \notin dirs
              ELSE \A f \in File : Touches(e, f) => files[f] = Before(e, f)]_vars

\* Every run ends and gives the lock back.
LockReleased == lock # NoProc ~> lock = NoProc

\* An interrupted change does not stay interrupted (unless another program wrote to the
\* workspace meanwhile, when recovery may refuse to guess).
PendingSettles == (Pending # {} /\ edits = 0) ~> (Pending = {} \/ edits > 0)

-----------------------------------------------------------------------------
(* The files as a whole: AtomicWorkspace *)

Open == {t \in Id : t \in Pending \/ InHand(t)}

RecordOf(t) == IF InHand(t)
               THEN Rec(CHOOSE p \in Proc : pc[p] # "idle" /\ run[p].txn = t)
               ELSE journal[t]

OpenEntries == UNION {Range(RecordOf(t).entries) : t \in Open}

\* What an entry of an open change says of file f.  A file in neither of the recorded
\* states holds an edit of another program, and keeps it.
Image(State(_, _)) ==
  LET entries == OpenEntries
  IN [f \in File |->
        IF \E e \in entries : Touches(e, f) /\ files[f] \in {Before(e, f), After(e, f)}
        THEN State(CHOOSE e \in entries : Touches(e, f), f)
        ELSE files[f]]

Workspace == INSTANCE AtomicWorkspace WITH
  value <- Image(Before), target <- Image(After), open <- Open # {}

\* All files of a change take effect or none does, through errors, crashes and
\* recoveries, and an edit made while a change is pending is never overwritten.
AllOrNothing == Workspace!Spec
=============================================================================
