# sshc: a verification development

sshc manages `~/.ssh`: an *engine* process serves a web UI and a command line that edit the
OpenSSH configuration, keep keys and an encrypted vault, synchronise them between machines
through an object store, open terminals and SFTP transfers, and start VPN routes.  This
directory holds TLA+ specifications of the parts whose correctness depends on the order of
steps, on failures or on concurrency, the TLC configurations that check them, and theorems that
TLAPS proves about them.

Paths below are relative to `src/internal/` unless they start with `src/`.

## 1. The system

| component | state it keeps | operations | what is hard | what makes it correct |
|---|---|---|---|---|
| storage transactions (`storage`) | workspace files; `journal/`, `backups/`, `history/` records; the OS mutation lock | Commit, CommitAtomic, CommitAtomicDiscardBackups, Complete, Rollback, Note, PruneHistory | crash or I/O error between any two steps; a record read back by stricter rules than it was written by; two processes; edits by other programs | all files of a change or none; never more than one interrupted change; every interrupted change can be settled; history tells the truth and keeps its backups |
| remote sync (`remotesync`) | per machine: local files, last synced base, ETag, origin; in the bucket: one live object and dated copies | push, forced push, pull, pull of a dated copy, apply, automatic schedule | conditional writes that race, lost answers that the SDK retries, a crash between the remote write and the local state | no push is lost by another one; local unsynced edits survive a pull; a live revision keeps its dated copy; machines that stop editing converge |
| sync key rotation (`remotesync/rekey.go`) | recovery journal, sync key in the vault, live object | replaceKey, resolveKeyRecovery | one remote and two local writes without a transaction | the live object can always be opened with the local key or the recovery evidence |
| vault (`secret`) | decrypted vault in memory, sealed baseline, vault file and everything sealed with its key | Initialise, Unlock, Lock, ReloadAfterRecovery, ChangeMasterPassword, RecoverCompatibleBackup | the mutex is released while storage commits; lock during a commit; crash in a change of password | memory never holds a vault that is not on disk; all artifacts are under one key |
| browser entrance (`browserauth`, `session`) | registrations with current and retired token hashes; sessions, CSRF and action tokens | Register, Recover, Forget, JoinOrIssue, ConsumeAction, sweep | a rotation whose answer is lost; two tabs that recover at once; eviction at a limit | a browser that keeps its token gets in; a session never outlives its registration |
| terminals (`terminal`) | registry, session state, process, ring of output, tickets | Open, Reconnect (automatic and by hand), StopReconnecting, Close, BeginShutdown, ForceClose, Wait | stop decisions that race with a reopened process | no process without an owner; shutdown ends; a closed session is never reopened |
| SFTP transfers (`sftp/jobs*.go`, `sftp/remote_*.go`) | queue of jobs, slots, queue file, the goroutines of the jobs the engine runs, part files on the hosts | admission with eviction, controls, reports, removal, settings, sweep, close, restart | admission at 200 jobs with clean-up off the lock; missed wake-ups; late reports of a swept job | at most the configured number runs; a queued job eventually runs; no part file is forgotten |
| VPN routes (`vpn`) | per profile: borrow count, running container, stop counter | Dial, Start, Stop, StopIdle, Disconnect, Forget | idle stop against a new connection, stop against waiting starts | a borrowed route is not stopped as idle; a stop beats the starts that waited |
| connection attempts, handoff, snippets, saved terminals, self update | small registries and documents under one mutex or file lock | | replacement while in use | |
| configuration editing (`application`) | none of its own: forms storage requests from what it read | save, rename, move, group and key operations | requests formed from files read without the lock | its preconditions, which storage checks |
| parsing and resolution (`config`, `effective`), protocol clients (`sshclient`, `telnet`, `serialtransport`), HTTP API, command line, web front end, mobile binding | | | text, I/O and views | |

How they interact: every change of the workspace, by the engine or the command line, is one
storage transaction.  The vault hands storage a sealed clone of itself and publishes it in memory
after the commit (or inside it, for a change of master password).  Remote sync reads the workspace,
talks to the object store, and applies a pull as one storage transaction whose final write is its
own state file.  The engine runs retention at start, completes or rolls back an interrupted change
on the user's request, and runs the automatic sync schedule.

`PROJECT.json` lists every component with its sources, and the hazards with their lines.

## 2. The plan

The behaviour on which all others rest comes first.

| module | what it is | state |
|---|---|---|
| `StorageTransaction`, `AtomicWorkspace` | section 3 | done |
| `StorageTransactionProofs`, extended by `StorageFilesProofs` | section 3 | all safety properties and the refinement proved |
| `RemoteSync`, `RemoteSyncProofs` | section 4 | done as far as section 4 says, all safety properties proved |
| `TerminalSessions`, `VpnRoute`, composed by `Connections` | section 5 | done |
| `VpnRouteProofs`; `ConnectionsProofs`, of the sessions and of the two together | section 5 | all safety properties proved |
| `TransferLedger`, extended by `TransferQueue`; `TransferQueueProofs` | section 6 | done, all safety properties proved |
| `VaultService`, extended by `SyncKeyRotation`; `SyncKeyRotationProofs` | section 7 | done, all properties proved (`RemoteOpens` without restores) |
| `BrowserEntrance`, `BrowserEntranceProofs` | section 8 | done, all properties proved |

Composition: remote sync and the vault use the promise that `AtomicWorkspace` states (a commit takes
effect as a whole or not at all); the refinement, checked in `storage_recovery` and proved as
`ChangesAreAtomic`, is what justifies that.  `Connections` joins terminals and routes; `SyncKeyRotation` joins the vault, the sync settings
in the workspace and the bucket.

Still to be modelled:

1. The setup of a target (`remotesync/setup.go`): a setup whose write took effect but whose answer
   was lost, or that dies before the settings are stored.
2. `RemoteSync`: an abstract register that a machine may replace only if it has acknowledged its
   value, with the refinement; the removal of the live object; a change of the binding; a storage
   transaction that a crash leaves open while push collects the files, over `AtomicWorkspace`.
3. Engine handoff (`handoff`): which engine owns the document across restarts and updates.
4. The smaller registries: connection attempts, snippets' job pool, saved terminals.

Theorem still to be proved:

- Vault: `RemoteOpens` for a machine that has joined a target and not synchronised yet, and next to
  restores of files other than the settings.

No module here declares a RECURSIVE operator, so all of them can be proved about.

## 3. Storage transactions

### State

| variable | in the code |
|---|---|
| `files`, `dirs` | the workspace; a content is a number standing for bytes and mode (`digest` and `fileMode` of an entry together), `Absent` for no file |
| `temps` | staged siblings `.sshc-<id>...` next to their targets (`staged_file.go`), as pairs of transaction and target |
| `backups` | `backups/<id>/...` |
| `journal`, `history` | `journal/<id>.json` and `history/<id>.json`; a `Record` has the fields of `journalRecord` that control depends on |
| `lock` | the OS lock of `Workspace.lockMutation`, dropped by the OS when a process dies |
| `pc`, `run` | where a process is inside a call and what it holds in memory: `commitRun`, or the record of a recovery |
| `seen` | the contents a caller read before it asked: the preconditions of its next request |
| `published` | transactions whose `publish` callback ran (a new key generation in memory) |
| `faults`, `crashes`, `edits`, `notes`, `nextId` | counters bounded by `MaxFaults`, `MaxCrashes`, `MaxEdits`, `MaxNotes`, `MaxId` |

### Actions

A commit is `Read`, `StartCommit` (everything of `commit` up to the plan, under the lock: no pending
record, request shape with no path used twice (`EachPathOnce`), preconditions), `Begin` (journal as staging), `MakeDirectory`, `WriteBackup`,
`StageWrite`, `MarkStaged`, `ApplyEntry` for each entry in order, `MarkApplied` for a discarding
commit, then finish: `RemoveTemp`, `DiscardBackup`, `WriteHistory`, `RemoveJournal`, `Prune`.
Each stands for one I/O operation of the code together with the record kept in memory, and has up
to three outcomes: it succeeds, it fails without effect, or it fails after taking effect (the rename
went through and the flush of the directory failed).  A failure goes where `commitRun.fail` sends
it (`OnError`): removal of temporaries, a rewrite of the record (`FailWrite`), an undo of the
applied entries for an atomic commit (`UndoEntry`), or straight back to the caller.

`LoadPending` reads a pending record, refuses what `validateLoadedJournalRecord` refuses, and infers
the applied prefix from the targets (`Evidence`, `Boundary`, `Reconciled`); `Complete` and
`Rollback` continue from there, `Refuse` returns an error.  `PruneAtStart` is the retention of an
engine start, `Note` the filing of an operation without files, `Crash` the death of a process,
`Edit` another program's write while nobody holds the lock.

### Abstract specification

`AtomicWorkspace` has one variable for the contents as they would be if the change in progress were
given up and one for the contents if it were carried out.  `Begin` plans a change, `Settle` takes
one of the two as a whole, `Edit` writes one file in both.  The refinement mapping (`Image`) reads
both from the record of the open change: a file in its recorded state before or after belongs to
the change, a file in any other state holds somebody else's edit and keeps it.  No other step may
change either image, so every intermediate step of the commit, of the failure handling and of
recovery must be invisible.

### Runs

| run | question | bounds | result |
|---|---|---|---|
| `storage_commit` | are commits, failure handling, recovery, history and retention safe? | 2 processes, 2 transactions, 3 files of which one in a directory that may not exist, 11 requests, 1 I/O failure, 2 crashes, 1 note, retention of 1 record | 1.8 million states, all properties hold |
| `storage_recovery` | is a change atomic, and is it settled in the end? | 1 process, 3 transactions or edits, 4 kinds of request, 1 failure, 1 crash, 1 edit by another program | 0.2 million states, refinement and liveness hold |
| `storage_atomic_move` | can every change CommitAtomic accepts be recovered? | one atomic commit with a move, 1 crash | violated, see findings |
| `storage_rekey_leftover` | are the backups of a discarding commit gone in the end? | 1 discarding commit, 1 crash | violated, see findings |

Why the bounds are enough: recovery concerns one record at a time (`OnePending`, proved for any
number of processes), a second transaction is what can collide with it and what retention can
remove, and a second crash interrupts the recovery of the first.  Each request has two or three
entries: the applied prefix is then empty, partial or full, and each pair of kinds of entry that
the code treats differently occurs (write before move into a new directory, removal before removal
of its directory, writes with and without backup).  The second process plays the command line
beside the engine.

What the properties say:

- `OnePending`: at most one change is interrupted, and nobody works on another meanwhile.
- `ReplacesWhatWasRead`: no commit replaces a content its caller has not read.
- `ProgressIsReconstructible`: `commitStaged` never writes its progress; what recovery would infer
  from disk equals what the process knows.
- `Recoverable`: an interrupted change can be read, decided, and completed or rolled back.
- `BackupsOutliveThePending`: a rollback finds every backup it needs, in spite of retention.
- `HistoryStands` (`HistoryKeepsItsBackups` and `HistoryIsReadable`): the history screen offers only
  what it can restore and never fails on a record the code filed itself.
- `NoOrphanTemps`: a staged sibling never outlives its transaction's record.
- `PublishedIsFinal`: after the new generation is published the files never go back.
- `SettledTruthfully` (action property): a record that leaves the journal as completed is in effect,
  as rolled back shows nowhere.
- `AllOrNothing` (refinement), `LockReleased`, `PendingSettles` (liveness).

Fairness (`FairSpec`): a process that has the lock goes on (`WF` of `Step`: the goroutine runs
straight through, it waits for nobody), and whoever is shown a pending change keeps asking for its
completion and for its rollback (`SF` of `LoadPending` for each: the UI refuses every other change
until it is settled, and offers both).  `LockReleased` needs the first only.

### What the runs found

- `storage_atomic_move`: `CommitAtomic` takes moves, but a pending atomic record with a move is
  refused when it is read back (`journal.go:400`, also `:408` and `:424` for removals and removed
  directories).  After a crash such a record can be neither completed nor rolled back, and blocks
  every later commit.  `application/key_passphrase_relocation.go` makes such commits.
- `storage_rekey_leftover`: the record on disk names no backup while `writeBackups` runs, so a crash
  there leaves copies of the old generation that the rollback does not remove.

Seen while modelling, and kept out of the runs: for a write that changes no bytes recovery does not
look at the target (`recovery.go:491`), so an edit made between the crash and the recovery is
overwritten, which the comment on `entryEvidence` (`recovery.go:472-473`) excludes.

Found by the proof of `Recoverable`: a request that makes two directories can become undecidable.
Take the directories d and e and files in each, of which the one in d is written and the process
dies.  The rollback goes backwards; it keeps e, because the staged sibling of the other file is
still in it (`rollbackMakeDirectory`, `recovery.go:258`; temporaries go only in `finish`,
`transaction.go:443`), and removes d.  If it dies there too, e is evidence of an applied entry behind
an unapplied one, and every recovery answers `ErrRecoveryStateUnknown`, of which the comment at
`recovery.go:439-440` says that no writer and no rollback make such a shape.  A pull makes several
directories in one request (`ParentDirectoryCreates`, `request.go:81`, `remotesync/collect.go:352`).

The passing runs leave these four situations out by their choice of requests (no atomic move, no
edit of a file whose write is a no-op, at most one new directory, no claim about leftovers of a
discarding commit); everything else is checked with all requests.

### Limits of the model

- Power loss is a crash of the process: every operation of the code flushes file and directory
  before the next one starts.
- A program that edits a file while a commit is between its check and its rename is not modelled;
  the code cannot detect it.
- One I/O failure per behaviour.  With two failures in a row and a crash, an atomic commit can
  leave its last rewrite of the record behind the files, or undo entries without a record; the runs
  do not cover that, and `ChangesAreAtomic` sets it apart by a hypothesis.
- A request that only removes directories which are already gone (`commit_builder.go:287-294`
  skips them) writes a record without entries, and `journal.go:273` refuses to read one.  The
  folder deletion of `application/fileops.go:382-410` is such a request when the folder goes between
  its check and the mutation lock, by a second deletion or another program.  `History` then fails
  until retention takes the record away, and after a crash every commit fails as long as the record
  lies in the journal.  No request of this kind is in the runs, and the theorems on readable records
  speak of the states where every record has an entry (`RecordsHaveEntries`).
- A rollback leaves a directory it had created when its own temporaries are still in it, or when
  the record was still staging; `SettledTruthfully` therefore speaks of files only in that case.

### What is proved

Everything below holds for any sets of processes, files, directories and requests and any number of
faults, crashes, edits and notes that satisfy `ConstantsAssumption`.

| theorem | statement | in |
|---|---|---|
| `TypeCorrect`, `OnePendingHolds` | `Spec => []TypeOK`, `Spec => []OnePending` | `StorageTransactionProofs` |
| `MutualExclusion` | `Spec => []Exclusive`: at most one process is inside a transaction, the holder of the lock | |
| `NoOrphans`, `HistoryKeeps` | `Spec => []NoOrphanTemps`, `Spec => []HistoryKeepsItsBackups` | |
| `HistoryHolds` | `AtomicOnlyWrites /\ Spec => [](RecordsHaveEntries => HistoryStands)` | |
| `NothingOverwritten`, `ProgressFound` | `Spec => []ReplacesWhatWasRead`, `Spec => []ProgressIsReconstructible` | `StorageFilesProofs` |
| `BackupsOutlive` | `FreshRekey /\ Spec => []BackupsOutliveThePending` | |
| `AlwaysRecoverable` | `AtomicOnlyWrites /\ OneDirectory /\ Spec => [](RecordsHaveEntries => Recoverable)` | |
| `PublishedForGood`, `HistoryIsTruthful` | `Spec => []PublishedIsFinal`, `Spec => SettledTruthfully` | |
| `ChangesAreAtomic` | `MaxFaults <= 1 /\ SameIsOurs /\ Spec => AllOrNothing` | |
| `GuardedRunsAreAtomic` | `Spec /\ [][Guarded]_vars => AllOrNothing` | |

Five theorems have hypotheses, and the code breaks their properties without them:

- `AtomicOnlyWrites`: atomic requests only write files and make directories.  The others are what
  `storage_atomic_move` refutes.
- `OneDirectory`: no request makes two directories ("Found by the proof" above).
- `RecordsHaveEntries`: no record on disk is without entries, the case described above.  It is asked
  of the state and not of the requests, so the theorems cover folder deletions that found their
  folder.
- `FreshRekey`: a discarding commit changes every file it writes.  Its documents are sealed again
  with fresh random bytes; for a write that changes nothing recovery may place the boundary behind
  it while its backup has been discarded already.
- `MaxFaults <= 1` and `SameIsOurs`, of `ChangesAreAtomic`: at most one I/O step fails, and no other
  program writes a file that a request may rewrite with what it holds.  If the removal of the record
  fails after taking effect, and so does the next write of it, `commitRun.fail` undoes the entries
  of an atomic change with no record of it in the journal; a crash then leaves half of them.  And an
  edit of a file that an open change rewrites as it is cannot be seen by recovery (`Evidence` is
  "none"), so `Complete` writes over it.
- `Guarded`, of `GuardedRunsAreAtomic`, excludes just these two steps from a behaviour and leaves the
  number of failures open: a run that goes on to undo has its record in the journal, and no edit hits
  such a file while the change is open.

The argument has five layers, each an inductive invariant that uses the ones before:

- `IndInv`.  `TypeOK` is not inductive: an index into the entries of a record stays in range only
  because the progress of a run never exceeds its length, and a run's record must be well formed
  wherever it was loaded from.  `OnePending` needs to know that whoever is past `Begin` holds the
  lock and works on the only record in the journal, and that `nextId` has never been used.  `IndInv`
  is `FilesOK` (types of the disk), `RecordsOK`, `ControlOK` (what each label of `pc` implies about
  lock, run and journal), `CountersOK` and `OnePending`.  One lemma per action; `GotoControl`,
  `ReleaseControl`, `StartUndoControl` and `OnErrorControl` say that each way of moving control keeps
  `ControlOK`.  `Boundary` is a `CHOOSE`, so `BoundaryExists` shows by a least element that it exists.
- `PhaseInv`.  What a process does at a label is right only for records in a certain phase: finish
  forgets temporaries before backups, backups before it files the record, and files before it
  removes the journal.  `RunsOK` ties the record in memory at each label (`Intent`, `Progress`) to its
  copy in the journal and in history (`Recorded`), with what the caller read (`Believes`); `JournalOK`
  and `HistoryOK` say what a record on disk promises (its plan, its backups) whoever left it;
  `DiscardedOK` that retention and the discarding of backups concern different records; `TempsOK`
  that a staged sibling has a record.
- `AgeInv`: no file is newer than the next transaction, so what an entry writes differs from all it
  can find; without it the evidence of recovery would mean nothing.
- `TrackInv` and `PublishedInv`.  A prefix of the entries is in effect and the rest is not
  (`Tracks`), whether a process works on the change (`TrackRun`, with what its next steps need in
  `Going`) or it waits for recovery (`Parked`); and the record stands for a way on from there
  (`Stands`).  The boundary of a parked change is only said to exist: it is what recovery has to
  find.  A file that somebody edited is told by its age and belongs to no one.
- `CarefulInv`, for the refinement.  A step that overwrites an edit would be seen in the abstract
  contents, so whoever applies or undoes entries must know that none of them has met one (`Clean`):
  the process that made the plan, because it has held the lock since; recovery, because every entry
  showed one of its recorded states (`ResolvedClean`).  And a record may leave the journal only
  where all entries are in effect or none is, or `Settle` would have no outcome to take.

The refinement mapping is a `CHOOSE` over the entries of the open change.  `PlanShown` turns it, from
`TrackInv`, into what the abstract contents are file by file (`Shown`), wherever the record is:
`ViewInv` says this of the process at work, of a parked record, and of a workspace with no change
open.  A step that only moves files covered by the plan from one recorded state to the other is then
invisible (`CoveredUnseen`), and where the record goes the files are one of the two contents as a
whole (`EndsShown`).  One `Careful...` lemma per action shows that a step is of this kind (`Careful`),
`WorkRefines` maps it to a stutter or to `Settle`; `StartCommitRefines` maps planning to `Begin`,
`EditRefines` an edit to `Edit`, `LoadPendingRefines` and `OutsideRefines` the others to stutters.

Only model-checked: the liveness properties, which are beyond the prover.

## 4. Remote sync

`RemoteSync` models machines that share a bucket which has been set up.  A content is the number of
the edit that made it, a revision the number of the snapshot; every snapshot is sealed anew, so the
ETag of the live object is its revision.

### State

| variable | in the code |
|---|---|
| `live`, `dated` | the live object and the dated copies of the bucket |
| `snap` | what each snapshot holds: files, parent revision and the ancestors it carries (`Manifest`) |
| `local` | the files of each machine that travel |
| `st` | `sync-state.json`: the ETag and the base manifest of the last sync |
| `direction` | the setting: send, receive, or both |
| `op` | the operation that holds `operationMutex`, and what it keeps between two requests |
| `pending`, `blocked` | `Auto.pending` and `Auto.blockedETag`, in memory only |
| `author`, `superseded` | history variables of the properties: who made each edit, and which contents somebody replaced knowingly |
| `nextRev`, `faults`, `retries`, `crashes` | counters bounded by `MaxRev`, `MaxFaults`, `MaxRetries`, `MaxCrashes`; `MaxEdits` bounds `author` |

### Actions

A push is `Push`, `ForcePush` or a send of automatic sync (all of `push` up to the sealed snapshot
is `Collect`), then `PutDated`, `PutLive`, and `SaveState` or `RemoveCandidate`.  A pull is `Pull`
(download, lineage, plan), `Validate` (the HEAD before the commit) and `Apply` (one storage
transaction, by the promise of `AtomicWorkspace` a single step).  `Look` is the HEAD of an automatic
cycle, `AutoGet` its pull, `SendScheduled` and `SendNow` its second half.  Between any two of these
another machine may act and a user may edit files.  A preview changes nothing and is not an action:
`Pull` stands for the confirmed request, for whatever generation the user has been shown.

`Takes` and `Contested` are the three-way comparison of `PlanEntries` for one file.  `Follows` is
the lineage check; `MaxAncestors` is `MaxManifestAncestors`, 50 in the code and 1 in the runs, so
that the way over the dated copies (`LineageReaches`) is needed at all.

A request can fail before or after taking effect (`Fault`), and the SDK can repeat a live write
whose answer was lost (`Retry`).  A crash forgets `op`, `pending` and `blocked`.

### Runs

| run | question | bounds | result |
|---|---|---|---|
| `sync_by_hand` | do users on two machines lose edits or overwrite unseen heads? | 2 machines, 2 files, 2 edits, 2 snapshots after the setup, 1 repeated write, all operations of the user | 2.5 million states, all properties hold |
| `sync_converges` | does automatic sync alone settle, and lose nothing on the way? | 2 machines in 3 combinations of directions, 2 files, 2 edits, 6 snapshots (never used up), 1 failure, 1 crash | 0.8 million states, all properties hold |
| `sync_lost_answer` | is a dated copy removed only after a lost race? | 1 edit, 1 repeated write | violated, see findings |
| `sync_restore` | does the next push publish a restored revision? | 1 machine, 2 edits | violated, see findings |

Why the bounds are enough: every conflict is between one machine and the live snapshot, so a second
machine is all the rest of the world.  Two files are the least for a merge, where one is taken and
the other kept; two edits are the least for a conflict, for a removal against a change, and for an
edit while a pull is under way.

- `NothingLost`: a content that nobody replaced knowingly, by editing over it or by asking for the
  other side, is on a machine or in the live snapshot.
- `HeadsFollow` (action property): a live snapshot is replaced by one that names it as its parent,
  by a forced push confirmed for it, or after a restore made while it was live.
- `OnlyOwnEdits`: a file that differs from the base was changed on this machine.  This is what makes
  the comparison with the base mean anything, and it fails as soon as files and state can get out
  of step.
- `HeadIsInHistory`: every live snapshot but that of the setup has its dated copy.  It holds when
  the store repeats nothing (`MaxRetries = 0` in `sync_converges`, which checks it together with
  `NothingLost` as `ContentsAreKept`).
- `Converges` (liveness): once edits stop, every machine holds the live snapshot or has stopped for
  a decision about exactly this one; a machine that only receives may keep edits of its own.

Fairness (`AutoSpec`): a begun operation goes on, and `Auto.Run` keeps polling and keeps sending
what is scheduled (`WF` of each; its `select` serves a ticker and a timer).  It assumes automatic
sync on and the vault unlocked on every machine.  A failing bucket is bounded by `MaxFaults`.
`PushingSpec`, of `sync_restore` only, has a user who pushes again and again.

### What the runs found

- `sync_lost_answer`: the write of the live object takes effect, its answer is lost, the SDK repeats
  it, and the object it has just written refuses the repetition.  `uploadSnapshot` takes the 412 for
  a lost race and deletes the dated copy of the snapshot that is live (`push.go:248`).
- `sync_restore`: after a restore the files equal the base in the state, so the next push finds
  nothing to push and automatic sync nothing to do (`push.go:131`); the revision the user went back
  to reaches no other machine until a file is edited.  `pull.go:84-86` and `docs/design.md:191` say
  that the next push makes a head of it.

### Limits of the model

- The live object is never removed and the binding never changes; both end an operation in the code.
- The lineage is read in one step with the live object; in the code the dated copies are listed and
  fetched one by one, and one that disappears meanwhile refuses the pull.
- `ManualApplyCompleted` lifts the stop in the same step as the apply, not after the request.
- The cache of failed generations is left out: it delays a retry and is cleared by a new generation.

### What is proved

`RemoteSyncProofs` proves, for any machines, files and bounds that satisfy `ConstantsAssumption`:

- `SyncTypeCorrect`: `Spec => []TypeOK`.
- `OnlyOwnEditsHolds`: `Spec => []OnlyOwnEdits`.
- `HeadsFollowHolds`: `Spec => HeadsFollow`.
- `NothingIsLost`: `Spec => []NothingLost`, from `EditsStay`: `Spec => []AuthorsKeep`.  A content
  that nobody replaced knowingly is still on the machine that made it, which is more than
  `NothingLost` asks for: no push, pull or restore makes an edit depend on the bucket alone.
- `ContentsKept`: `MaxRetries = 0 /\ Spec => []ContentsAreKept`, `NothingLost` together with
  `HeadIsInHistory`.  The hypothesis says that the store repeats no write; without it
  `HeadIsInHistory` is false, as `sync_lost_answer` shows.

`OnlyOwnEdits` is not inductive, because the state file changes at the end of an operation and the
files may change while it is under way.  `IndInv` adds what an operation keeps true between its
requests: a push has collected files that still explain the machine's (`PushSound`, which also says
that its parent is the base and, unless it is forced, its ETag the one in the state), and a pull
leaves alone only files that are the same on both sides or were edited here (`PullSound`, from
`NotTaken` on the three-way comparison).  `Allocated` says that no revision in use is filled again,
`Authored` that every content in use has an author; both are needed because a push fills a new
revision and an edit makes a new content.  There is one lemma per action; `Moves` and `Ends` are
what the actions share that only change the operation, `Collected` and `PlannedStep` the starts of a
push and of a pull.  `HeadsFollow` follows from `PushSound` at the conditional write.

`NothingLost` says nothing of how contents travel, so a second invariant, `KeepInv`, does.  Its
first part, `Lineage`, is about revisions: each holds what its parent holds and what the ancestors it
carries hold, but for contents replaced knowingly (`Continues`).  The others say the same of
machines: of their files and the base (`BasesKept`), of their files and the snapshot being pushed
(`PushesKeep`), and of the files as the plan of a pull would leave them, where what the plan
overwrites is passed over or given up knowingly (`PullsKeep`).  `KeepInv` uses `IndInv`: that a
content which differs from the base was made on this machine is what allows a machine to overwrite a
content of another one.  A pull rests on `FollowsContinues`, that a live snapshot which
`liveSnapshotFollows` accepts continues the base.  Its walk over the dated copies
(`LineageReaches`) is a recursive function chosen by its equation; `WayOverCopies` shows that a
function with this equation exists, whatever the parents are, and `WalkContinues` takes the first
revision that would refute the claim (`LeastElement`).

`CopiesInv` has, besides `HeadIsInHistory`, that the candidates of different pushes are different
revisions, that none is live before its push writes it, and that its copy is there by then
(`Candidates`).  With no repeated write a refused push has never been live, so that removing its
copy takes no copy of the live snapshot.

Only model-checked: `Converges` (liveness, beyond the prover).

## 5. Terminal sessions and VPN routes

`TerminalSessions` is the registry of terminals and, for each session, the pump that reads its
process and reconnects a lost transport.  `VpnRoute` is one VPN profile: its borrow count, its
container and the transition lock under which it is started and stopped.  `Connections` composes
them as `app/vpn.go` wires them: the handshake of every process of a routed session dials through
the route, and a process that ends closes its connection, which returns the borrow.

### State and actions

A step is one critical section of the registry, of a session or of the route, or one call on a
process.  A caller that reads a field under a mutex and acts on it after unlocking has one step for
each.

| variable | in the code |
|---|---|
| `list`, `place`, `closing`, `forced`, `call`, `wait`, `waitFor` | the registry: listed sessions and their order, shutdown, the Open or Reconnect under way, `Wait` |
| `state`, `process`, `seen`, `byUser`, `attempts`, `stopping`, `discarded` | a session under its mutex |
| `pump`, `hand`, `stop`, `shaking`, `close`, `hangup`, `force` | where each goroutine and each call on a session is, and what it has read |
| `life` | each process: dialing, shaking hands, ready, lost, ended |
| `running`, `container`, `open`, `idle`, `disconnected`, `stops` | a route under its mutex, and what docker runs |
| `holder`, `cause`, `starter`, `cancelled`, `dial`, `snap` | the transition lock, the start under way, the dials that wait and the stop counter each has read |
| `stopping` (`stopCall`), `sweep`, `quitting` | stops by users, the idle sweep, the end of the engine |

Open is `OpenBegin`, `OpenFails` or `OpenReturns`, `ReconnectPublish`, `StartPump` or `Undo`; a
reconnection by hand shares the last three.  The pump is `ProcessEnds`, `ChooseAttempt`, `WaitOver`,
`DialReturns` or `DialFails`, `Install`, `Observe`, `Finish`.  StopReconnecting, Close, Hangup and
ForceClose are two to four steps each.  On the route a dial is `Ask`, `Queue`, `Serves`, or `Begins`
with `Started`, then `Connect`; it can give up (`GiveUp`), be overtaken by a stop (`Overtaken`) or
find the container gone (`Rebuild`).

### Run

`connections`: two sessions of which one has a route in half of the initial states, a limit of one
session, one automatic reconnection per loss, two processes per session, one `sshc vpn up`, one
connection of the relay, one stop, and 3 requests (2 with a route); 244 thousand states.  One
session over the limit, one retry and one reopened process are what the code distinguishes; the
second session is what crosses the limit and what shutdown must not be held up by.

- `ProcessesAreAccounted`: every running process is in the hands of exactly one goroutine
  (`EveryProcessIsHeld`), and sessions opened, live and reopened stay within the limit
  (`WithinLimit`).
- `ClosedStaysClosed`: no process is published in a session the user closed.
- `RouteIsAccounted`: the borrow count equals the number of borrowers, with processes killed at any
  point of their dial.
- `DisconnectedIsDown`, `StopWins`, `SweepSparesDials`: a route remembered as disconnected is down or
  being stopped; a start that waited while a stop was requested does not bring the route up after
  it; the idle sweep never takes the route from under a dial.
- `CloseGivesBack` (liveness): closing a session ends its processes and returns their borrows.
- `ShutdownEnds` (liveness): after ForceClose, `Wait` returns.

Fairness: every goroutine goes on, a dial returns and docker answers (their calls carry deadlines).
No handshake need end (a prompt waits for the user), no wait for the network, and no process ends by
itself.

### Observed, and excepted by the properties

- `StopReconnecting` reads `handshaking` before the pump installs a process and closes `stopping`
  after it (`reconnect.go:60-79`): the session stays reconnecting with a live process, which the
  comments at `reconnect.go:73-76` and `registry.go:442-443` exclude.  Its second half may also close
  the fresh `stopping` of a reconnection by hand.
- `Disconnect` remembers the disconnection only once it has the lock (`vpn/manager.go:454-474`); an
  automatic reconnection that begins before brings the route up again, against `vpn/manager.go:450-453`.
- An `Open` that is cancelled by the shutdown discards its process after it has left the count, so
  `Wait` may return a moment before (`ShutdownEnds` names the state).

Left out: output, titles, problem texts, tmux names, browser streams; docker's failures in detail,
orphaned containers, logs, DNS.  Killing a process never fails, which is what `ForceClose` of an SSH
session does (`sshclient/session.go:347-356`); that of a local shell may return an error of the
operating system, and `Registry.Close` then returns before it takes the session off the list
(`registry.go:567-571`), with `discarded` set and reconnection stopped.

### What is proved

For any finite set of sessions, any number of processes, users of the route, callers who stop it,
and any limits (`SessionsAssumption`, `ConnectionsAssumption`, `RouteAssumption`, the last of which
says that identities are told apart), `ConnectionsProofs` proves of the composition:

| theorem | property |
|---|---|
| `ComposedTypeCorrect` | `[]CTypeOK` |
| `ProcessesAccounted`, `ClosedStays` | `[]ProcessesAreAccounted`, `ClosedStaysClosed` |
| `RouteAccounted`, `DisconnectedDown` | `[]RouteIsAccounted`, `[]DisconnectedIsDown` |
| `StopsWin`, `DialsSpared` | `StopWins`, `SweepSparesDials` |
| `SessionsRefined`, `RouteRefined` | the composition implements the safety part of `TerminalSessions` and of `VpnRoute` |

Every step of `Connections` is a step of `TerminalSessions` or leaves it unchanged, and the same for
`VpnRoute` (`SessionsRefined`, `RouteRefined`).  So each part has its own inductive invariant, proved
without the other (in the first part of `ConnectionsProofs`, and in `VpnRouteProofs`), and
`ComposedInv` joins them.

- `SessionsInv`: a process has one holder only because a session has one owner at a time, a call of
  Open or Reconnect or its pump (`ControlOK`), and only the owner has a running process in its hands
  (`Held`).  That the limit holds needs the exact count, which changes at most by the session a
  step is about (`LimitKept`).
- `RouteInv`: who holds the transition lock, a start, a stop or the idle sweep (`LockOK`); the exact
  count of the borrows (`OpenIsExact`); and what each holder has established while it holds the lock
  (`BuildOK`: a start that builds has forgotten the disconnection, and every later stop has cancelled
  it; `StopOK`; `SweepOK`).  `DisconnectedIsDown`, `StopWins` and `SweepSparesDials` follow from these
  and are not inductive by themselves.

Only model-checked: `CloseGivesBack` and `ShutdownEnds`, which are liveness.

## 6. SFTP transfer queue

`TransferLedger` is what `jobsMutex` protects, with the queue file and every request that changes
them.  `TransferQueue` extends it with the actors: the goroutine of each job the engine runs, and the
requests by which a browser or the command line sends an upload.

### State and actions

| variable | in the code |
|---|---|
| `job` | `m.jobs`: status, problem, whether the record knows of a part, the mark set before a publication, the clean-up flag |
| `active`, `settings`, `silent` | `activeJobs`, the limits and switches, jobs whose client has not reported for two minutes |
| `disk` | the queue file |
| `worker`, `current`, `due` | the goroutines of the jobs the engine runs, `remoteRuns`, the schedules to come |
| `owner`, `evicting`, `replaced` | the job-owner lock, admissions that are cleaning up another job, and those of them whose record left the ledger meanwhile (cleared, or replaced by copies after a failed save) |
| `part`, `effect`, `consent` | the hosts: an unpublished part (`late` if a run that had ended made it after a clean-up had looked for it; no guard tells this apart), a move that has changed something; and what the user has asked for since |

A step is one critical section with the save it ends in, or one exchange with a host.  A save takes
effect, fails, or reports a failure although the new file is in place (the flush of the directory
after the rename).  Every request sweeps first, as in the code (`Swept`).  A run is `Schedule`,
`SlotWait`, `AskSlot`, `Wake`, `Keep`, `Plan`, `Mark`, `Operate` or `Checkpoint`, `Create` and `Copy`,
`Complete`, then `Ending`, `Clean`, `Finish`; or `Reconnect` and `Backoff` after a lost connection.
Pause, cancel and the end of the engine end a run at any moment; its reports are refused from then
on while the exchange it is in goes on.  `effect` and `consent` are kept for moves only: a copy is
guarded by the revision of its target.

### Run

`transfer_queue`: one slot; eight scenarios of which jobs exist, how many the ledger retains and how
many requests, failed saves and restarts there are; 716 thousand states.  A copy, a move and an
upload each alone with failures and restarts; two jobs that want the one slot; a full ledger in which
admission evicts one, alone or with another one that finishes and is cleared meanwhile.

- `SlotsAreCounted`: `activeJobs` is the number of jobs that run or reconnect.
- `NeverRepeated`: a move or delete that may have changed a host begins again only if the user has
  asked for it since, across crashes and failed saves.
- `PartsGoFirst`: a record that knows of an unpublished part is forgotten only when the part is gone
  (but for a late part, see below).
- `SlotIsNotMissed` (liveness): no worker waits for ever while a slot is free.

Fairness: the scheduler's goroutine and those that wait for a slot go on.  No job need end.

### Observed, and excepted by the properties

- Admission evicts a finished job whose data request is still running (`jobs_admission.go`, without
  the check of `jobs_removal.go:41-49`) or whose goroutine is still at work.  What it evicts has no
  part or is cleaned up first.  But `copyServerFile` asks for the end of its run before the checkpoint
  and not again before `openPart` (`remote_file_transfer.go:82`): a copy passes its checkpoint, the
  client cancels it, an admission to the full ledger cleans up and finds no part, the goroutine makes
  the part, and the admission drops the record.  The part stays on the host and nobody knows of it.
  `Create` is this step; the part it makes then is `late`, and `PartsGoFirst` excepts it.  Stated
  without the exception (`part[j] = "none"`) the property is violated in `transfer_queue` by just this
  sequence.  `SeenGone` would also call a part late after a removal or a completion; TLC finds that in
  the run every late part comes after an admission's clean-up.
- A part made in the same way after a run's own clean-up has cleared the record's mark
  (`cleanupCancelledServerFile`) is not known to any record from the start, so `PartsGoFirst` does not
  speak of it.
- `PartsGoFirst` excepts a restart after a save that only reported a failure, since the file then says
  something else than the ledger.
- `jobs_admission.go:150-170` compares record pointers: a failed save of another request replaces the
  records by copies, and the clean-up flag then stays set until a restart (`replaced`).
- A worker whose wait captured no time of a next sweep is not woken when the one running client goes
  silent, until some request sweeps.  `SlotIsNotMissed` speaks of the counted slots.
- A failed save of the start report leaves the job queued without a worker; two failed saves around
  the backoff leave it reconnecting with its slot.
- Switching automatic reconnection on while `operation.run` is under way lets a copy whose rename may
  have happened be repeated (`remote_jobs.go:125`).
- The clearing of the mark after a pause does not ask whether the interrupted publication was
  ambiguous (`clearCommitPendingAfterPause`).

- `RemoveJob` gives up the lock for the clean-up and then takes whatever record has the name
  (`jobs_removal.go:119-148`; an admission compares the records).  A copy runs and is cancelled, its
  removal begins while the worker is still cleaning the part, the worker's report lets another
  request clear the record, the name is admitted again and runs, and the removal deletes the running
  record: `activeJobs` stays one too high, although the comment on `RemoveJob` speaks of a retained
  record.  Five requests are needed; the runs have fewer for a copy, and the theorems below say
  `NoReadmission`.

Left out: the order of the list and its changes, downloads and their spool, bytes, rates and the
limiter, the ranges of split uploads, `progress` and `complete` by a client for a job of the engine,
which the code does not refuse and no client of the program sends.

### What is proved

`TransferQueueProofs` proves, for any finite set of jobs and goroutines, any settings and any number
of requests, failed saves and restarts (`LedgerAssumption`):

| theorem | statement |
|---|---|
| `RunsAreHonest` | `Spec => []RunInv` |
| `MovesAreNotRepeated` | `Spec => NeverRepeated` |
| `CleaningIsKnown` | `Spec /\ [][NoReadmission]_vars => [](RunInv /\ Tallied)` |
| `SlotsStayCounted`, `TypesHold` | `Spec /\ [][NoReadmission]_vars => []SlotsAreCounted`, and `[]TypeOK` |
| `PartsAreKnown` | `Spec /\ [][NoReadmission]_vars => [](RunInv /\ Tallied /\ PartInv)` |
| `PartsAreNotForgotten` | `Spec /\ [][NoReadmission]_vars => PartsGoFirst` |

`NoReadmission` says that a name whose record is gone is not admitted again while its removal is
still under way; TLC finds that it holds in the whole run `transfer_queue`, and without it the code
breaks the count ("Observed").

- `RunInv`.  `NeverRepeated` is about one step, a move that begins an exchange with a host, but what
  makes it hold lies before a crash or a failed save: a move waits only with the user's consent and
  one that runs without it is marked, in memory and in the queue file (`Honest` of both, since a
  restart or a failed save makes the one the other); of all goroutines of a job only the current
  one reports (`OneReporter`), and it finds its record unmarked until it marks it (`MarksOnce`).
  `Named` and `NothingHeld` keep clean-ups away from moves.
- `CleaningInv`.  `SlotsAreCounted` fails if a record with a slot disappears from under a removal or
  an eviction, which look at it, let go of the lock, and come back.  So a record that is being
  cleaned up has no slot (`Marked`) and one of three takes it away: nobody, one removal, or one
  admission that still knows it.  `Tallied` joins this with the exact count (`Counted`); `PutCount`
  and `SweptCount` are its arithmetic.

- `PartInv`.  `PartsGoFirst` is about the step that forgets a record; whether the part is gone was
  decided long before, by someone else.  So for each job, what is said of its part is true
  (`PartSafe`): a completed record, or a cancelled upload, that knew of a part has none left, as
  long as the file can be trusted (`Trusted`: no save has failed, or no engine follows); a run that
  goes on and may still make a part finds its record running, and one about to report success has seen the part
  go or has a record that knew of none (`RunSafe`); the same for an upload (`UploadSafe`); a removal
  and an admission that say they have cleaned up have seen it go (`RemovalSafe`, `EvictionSafe`).
  What a run that has ended may still make is either none of these yet, or late (`CreateHarmless`).
  `FileFollows` carries this over a restart: as long as no save has failed, the file agrees with the
  ledger on `held` and on every finished status.  Here `NoReadmission` is what keeps a removal from
  vouching for the part of a later job of the same name.

Each action has its lemma, with the conclusion `Good`: both invariants and the count are kept, and no
mark is passed without consent.  Most actions are shown to be `Ordinary`, a change of one record that
is saved or not with goroutines that only go on, and what an ordinary step keeps is proved once.

For the parts each action has a second lemma, with the conclusion `Harmless`: the change is filed or
need not be, and every job is `Kept`.  A job that a step is not about is kept because its record is
as it was or swept, and nobody begins to act on it (`Passive`, `Alike`); only the jobs a step is about
are argued about.  The one step that is not harmless in this sense is `Restart` (`RestartSafe`).

Only model-checked: `SlotIsNotMissed` (liveness).

## 7. Vault and sync key

`VaultService` is the vault: what is open in memory, the files sealed with its key, and the requests
that change either.  `SyncKeyRotation` extends it with the bucket, the rotation of the sync key, and
the pushes and pulls that cross it.

### State and actions

| variable | in the code |
|---|---|
| `disk` | the vault, local-vault-key, the sync settings, the snippet library, a plain file, the sync state, the rotation's journal, and the kept generations of all of these |
| `record`, `lock` | the storage transaction in the journal, the workspace lock |
| `vault`, `owner` | `Service.vault` with its baseline, and `mutationMutex` |
| `op` | each request: what it has read, its entries, how far its commit is |
| `keys`, `saved`, `overtaken`, `carried` | keys derived so far; history: what the user was told is saved, and the excepted races |
| `remote`, `puts` | the live object (key, body, ETag) and how many writes there were |
| `sync` | the operation under `operationMutex`, as the list of stages it still has to do |

A key stands for the salt and the password or machine secret it was derived from.  A commit applies
its entries one by one and can fail or be killed between any two; what happens then depends on the
kind of commit (`Mode`), as in storage.  A storage recovery is one step, by the promise of
`AtomicWorkspace`.  A writer is `Begins`, `Applies`, `Ends` or `Fails`, `Publishes`, `Returns`; the
idle lock, a lock by hand and an unlock may come between any two.  A rotation is `ReplaceKey`,
`ResolveKeyRecovery`, `Gets`, `PutsResealed`, the commits of journal, key and state, `PutsBack` where
something failed, and `Answers`.

### Run

`vault_keys`, 1.5 million states over six kinds of scenario: the first vault; any two requests with
one failure, one idle lock and one crash; any three requests where nothing fails; three of save,
restore and change of password; a rotation next to edits of the settings and a change of the
password; an interrupted rotation entered again, next to pushes of two machines.  Vaults with a
password and without both occur, and a kept generation of an earlier vault or library.  Two
requests are what a race needs; the third is what comes after an interrupted one.

- `KeysAgree`: at every moment the machine's secret opens the vault that a restart would find
  (`AutoUnlockWorks`), and at rest everything sealed is sealed with the vault's key.
- `SavedIsServed`: the vault on disk holds what the user was told is saved, and memory serves it.
- `RemoteOpens`: while no journal asks for recovery the local sync key opens the live object of the
  generation this machine knows.

There is no liveness here: the requests are bounded, so a quiet state ends the run
(`CHECK_DEADLOCK FALSE`).

### What is proved

`SyncKeyRotationProofs` proves, of `RotationSpec(files, first, bounds)` (the machine starts with
`files` on its disk, the vault `first` in memory, and whatever `bounds` allow of requests, idle
locks, failures, crashes and pushes of other machines), for any workers, secrets, sync keys and
number of objects (`VaultAssumption`, `RotationAssumption`):

| theorem | for | statement |
|---|---|---|
| `RotationTypes` | `Started` files | `[]TypeOK` |
| `RotationKeepsKeys` | `SettledStart` files | `[]KeysAgree` |
| `RotationServesSaved` | `SettledStart` files | `[]SavedIsServed` |
| `RotationKeepsRemote` | `SyncedStart` files, no restore among the requests | `[]RemoteOpens` |

`Started` says that the files are those of a workspace.  `SettledStart` adds that everything sealed
on this disk is sealed with the key of its vault, and that this vault is open or none is: what
`KeysAgree` says of a quiet moment.  `SyncedStart` says instead that there is no recovery journal,
and that settings, where there are any, have the key that opens the live object and lie beside the
state of an earlier synchronization; the setup of an empty target stores that state before the
settings (`placeSetupSnapshot` in `remotesync/setup.go`).  Each scenario of `vault_keys` begins with
files of all three kinds, and the last three theorems speak of all of them except that
`RotationKeepsRemote` leaves out those with restores: a restore of the settings brings back whatever
sync key they had.  There `RemoteOpens` is only model-checked, with kept generations of the vault
and the library.  A machine that has joined a target and not synchronised yet is left out too.

Between two steps of a commit the disk is a mixture that no promise is about.  So the invariants
speak of `Before` and `After`, the disk without and with the pending change, and of `Now`, the one of
the two that recovery finds.  TLC has checked each of them on scenarios of the run.

- `RotInv` types the state and ties it together.  `TypeOK` is not inductive: the number of entries
  done stays in range only because the record in the journal is that of the request that applies it
  (`Linked`), and generations stay within `puts` only because entries, journal and operation hold
  none that has not been put (`StatesIn`, `SyncTied`).
- `KeyInv`.  `KeysAgree` is about restarts and quiet moments; it holds because everything sealed in
  `Now` agrees with its vault, and in `After` as soon as the change may be completed; a save that is
  to be published, and a pull, have the key that the vault had when they sealed, and nothing changes
  that key while they hold the mutex.
- `ServedInv`.  `Now` holds what the user saved.  An open vault that differs from the disk does so
  while a change of the vault is pending or a request that will read it again is under way; and a
  commit that may undo itself is at work over a vault that is what undoing it leaves.
- `RemInv`.  Settings, state and journal are three files and the object is a fourth thing, each written
  on its own, so what an operation may rely on depends on what it has still to do.  `Claim` says so
  for each of the twenty plans that are left of a rotation, a push or a pull; `Stable` says what holds
  whoever was killed wherever: without a journal the settings open the object; with one they do if
  the object is the old one, so a push or a pull that finds the old ETag may clear the journal; and
  a change of the key is pending only while both disks hold a journal and neither has the journal's
  old generation in its state.  The last is why a push that read the settings before that change
  cannot go through after it: it replaces only the generation in the state, and that is not the one
  whose presence lets it clear the journal.

Each action has a lemma for each invariant.  Begin, end and undoing of a write are proved of views of
the disk (`View`) alone, for any operation (`BeginsStable`, `EndsClaim`, `BackStable`).

### Observed, and excepted by the properties

Excepted through `overtaken` and `carried`, since restore and recovery do not take `mutationMutex`
(`application/history.go`):

- A restore between a writer's commit and its publication is followed by the publication of the
  older vault over the reloaded one; later writes are then refused.
- A restore that reads a backup before a change of the password and writes it after brings back a
  file of the old key, which may be the vault: the change of the password has promised that everything
  local is encrypted again (`secret/rekey.go:60-62`).
- The candidate of `ChangeMasterPassword` is cloned before the workspace lock and its precondition is
  read inside it, so a restore in between is overwritten silently.
- A reload reads the disk in the middle of another writer's commit that is then rolled back.

Excepted through `strayed`: completing from the history a settings write that the rotation took for
failed leaves the new key here and the old one in the bucket; `ensureNoKeyRecovery` then clears the
journal because the old ETag is live, which its comment takes for proof that the key was not
  committed (`remotesync/rekey.go:339-341`).

Not excepted, because the properties do not speak of it:

- A generated sync key is returned only on success, so after a crash behind the write of the object
  the only key to it is in the journal that asks for it to be entered again.
- After an interrupted rotation whose object a third body has replaced, every operation answers
  ErrRecoveryRequired and the target cannot be changed, as the tests intend.
- An idle lock between a writer's backup and a failing rename makes the rollback in the process fail
  with ErrLocked; the record stays pending.
- An idle lock between the moment a writer releases the mutex and its publication is undone by the
  publication, which puts the unlocked clone in its place (`vault_transaction.go:121-126`).
- `RekeyTravelDigest` takes `s.mutex` while the caller holds it if a state file has both a keyed and a
  plain digest; and a rotation computes the keyed digests outside `mutationMutex`.

Simplified or left out: migration of old vaults, RecoverCompatibleBackup and ResetUnsupported, delays
after a wrong password, retention of backups, digests in the sync state, forced pushes and dated
copies (section 4 has them), a change of the target; `ChangeMasterPassword` on a locked vault without
a password is an unlock before it; `region` stands for every setting but the key; a ciphertext is
identified with its key and body; the restore of a settings generation is not combined with a
rotation.

## 8. Browser entrance

`BrowserEntrance` is how a browser gets a session: the registrations (`browserauth`), the sessions
(`session`), the handlers over both (`httpserver/handlers.go`), and the page that keeps the token
(`src/web/src/session`).

### State and actions

| variable | in the code |
|---|---|
| `doc` | the file of registrations, in the order of their last use: current token, retired tokens |
| `grace`, `names`, `named` | `Store.rotations`, and the identifiers that tie sessions to registrations |
| `sessions`, `link` | `Manager.sessions`, and whether the bootstrap token is unused |
| `stored`, `cookie` | the token in localStorage and the cookie of each browser |
| `tab` | what each tab shows, or where its request or its answer is |
| `family`, `born`, `answers`, `adopted`, `lost`, `excused`, `untied` | history variables of the properties |

A token is a number and stands for its hash.  A recovery is `Load` (the page reads the token),
`Recover`, `RecoverInGrace`, `TakenForCopy` or `Refuse` under the store's mutex, `JoinOrIssue` or
`RevokeRegistration` under that of the sessions, and `Adopt` or `Dropped` when the answer arrives.  A
link is `Reissue`, `OpenLink`, `Bootstrap`, `Register` (with the eviction at the limit), `LinkUsed`.
Signing out is `SignOut`, `Forget`, `Leave`, `Dropped`.  Answers overtake each other or get lost; a
write of the file fails, or reports a failure although it took effect; the engine restarts, on its
port or on another one, which drops every registration (`SetPort`); sessions and registrations
expire; a browser profile is copied.

A minute passes (`GraceEnds`) while no request is under way: no request takes that long.  The graces
end in the order in which their tokens were replaced, which the next token of the same registration
tells (`Successor`).

### Run

`browser_entrance`: two tabs of one browser and one of another, two registrations, two retired
tokens (64 in the code; 16 registrations), six tokens, four sessions; four scenarios (tabs that recover at once with a
lost answer; sign-outs next to a restart and a failed write; a copied profile; links beyond the
limit of registrations); 1.7 million states.  Three rotations of one registration are needed for a
chain of graces that outlives the list of retired tokens, two tabs for requests that cross, the other
browser for a copy, and three registrations for an eviction.

- `OnlyCopiesAreTaken` (action property): a registration is never taken for copied when nobody copied
  its token.
- `SessionsEndWithIt`: a session entered from a registration is there only as long as the registration
  is in the file, or as long as the request that has taken it out is about to end its sessions.  So
  when a sign-out or a detected copy has been answered, none is left, by whichever token it was
  entered, and none is entered any more.  It speaks of every session whose registration is gone, in
  whatever way it went, except for the registrations in `untied`, which the actions fill in four
  places, listed below under "Observed".
- `TypeOK` includes the limit on registrations: the file is refused as invalid when it has more.

There is no liveness: nobody need open a page (`CHECK_DEADLOCK FALSE`, the loads are bounded).

### What is proved

`BrowserEntranceProofs` proves, of `EntranceSpec(first, bounds)` (one profile, `first`, is registered;
`bounds` is whatever is allowed of loads, links, losses, failures, restarts and copies), for any
profiles and tabs and any limits (`EntranceAssumption`):

| theorem | property |
|---|---|
| `Types` | `[]TypeOK` |
| `SignedOut` | `[]SessionsEndWithIt` |
| `CopiesOnly` | `OnlyCopiesAreTaken` |

Each of the scenarios of the run is such a specification.  TLC has checked the invariants below as
well, on the run's four scenarios, before they were proved.

- `TypeInv` is what the file and the store's memory have to do with each other.  A token is a
  position in `family`, which says to which registration it belongs; the tokens that a registration
  remembers are of its family, no two registrations are of one family (`RegistryOK`), and a token in
  its grace leads to a current one of its family (`GraceOK`).  `TypeOK` alone is not inductive: the
  chain of graces would lead anywhere.
- `EndInv`.  That nothing is left of a registration when it ends depends on a name that the store made
  up for it at some time, and that the sessions, the requests and the store each keep a copy of.
  `Tied` says that the registration is there or its end is under way, and that they all have the same
  name; no request is about to end a registration that is there; and a recovery between its two steps
  stays tied, which is why a registration that goes at that time is excepted.  `Unties` says that a
  registration that goes any other way than by a request that ends its sessions is counted among the
  exceptions.  A restart forgets all names, and all that bear them.
- `HoldInv`.  `OnlyCopiesAreTaken` is about one step, the recovery with a token that leads nowhere, but
  what makes it hold is who has tokens at all: of one registration only one browser (in its
  localStorage, in a request or in an answer, `Holds`); what it has leads to the registration, as its
  current token or by a grace (`Led`); and what it stores is the current one unless a later answer is
  under way or has been lost (`Missed`).  The last is what the end of a grace relies on: a browser that
  has missed nothing has no use for the grace.

Each action has a lemma for each invariant.  What the actions do is stated once, without the tests that
lead there (`RecoverFacts`, `GraceFacts`, `TakenFacts`, `ForgetFacts`, `RegisterFacts`), in terms of
four changes of the store: nothing, some registrations go (`Drops`), one gets a new token
(`Rotates`), one is added (`Adds`); what each of them does to names, holders and leads is proved once.

### Observed, and excepted by the properties

The first four are what `untied` excepts from `SessionsEndWithIt`, and what `SignedOut` therefore does
not promise:

- A recovery between its two steps, while a sign-out or a detected copy ends the registration, still
  issues a session; it stays until it expires, against `entrance.go:20-22` and `docs/design.md:16`.
- A removal whose write is reported as failed but took effect (`store.go:209`, `store.go:248`) returns
  before the revocation: the registration is gone and all its sessions live on until they expire.  A
  sign-out that is tried again finds no registration, ends the session it comes from and answers
  204, while the other sessions stay, against `entrance.go:20-22` and `entrance.go:55-56`.  A copy
  that is presented again is refused, with the same outcome.
- A rotation whose write is reported as failed but took effect loses the tie: the store forgets the
  identifier with the old hash, so the sessions entered before outlive a later sign-out, and the
  browser keeps a token that is taken for a copy a minute later (`excused`).
- A registration evicted at the limit keeps its sessions (`store.go:281-286`).

Further:

- A sign-out with a token too old to be remembered, whose grace is over, finds nothing either: the
  registration stays, and with it the other sessions, which the property allows.
- An answer that arrives after a later one overwrites the newer token (`bootstrap.ts:99`), and the
  honest browser is taken for a copy after the grace.  A test message of `rotation_lifecycle_test.go`
  names the overwriting as what must not happen; the engine avoids it only for answers it makes
  after the rotation.
- An answer that is lost and not asked for again within the minute, and a restart within it, which
  forgets the graces, have the same outcome.
- A late 401 clears a newer token (`bootstrap.ts:115`).
- A session entered through a link is tied to no registration until its browser recovers.

Left out: CSRF and action tokens, the count of requests in flight that keeps a session from expiring,
sessions lent to the command line, failures of the random source, the check of the peer's user.

## 9. Not modelled

For now: the components under "still to be modelled" in section 2, terminal streams (a ring buffer
with absolute cursors), remote engines, and the start-up and background loops of the engine.  For
good: parsing and resolution of configuration and of terminal output (sequential functions on text),
protocol clients and VPN back ends (I/O over libraries), configuration editing (it forms storage
requests), the HTTP API, command line, web and mobile front ends (views of the services; of the web
front end only the entrance is modelled), and the single-file helpers of storage.
