----------------------------- MODULE VaultService -----------------------------
(***************************************************************************)
(* The vault (internal/secret): what is open in memory, the files that are *)
(* sealed with its key, and everything that changes either.                *)
(*                                                                         *)
(* A writer holds mutationMutex from its copy of the vault to the          *)
(* publication of that copy, but storage runs meanwhile and comes back for *)
(* the key to seal its backups, so the memory itself is not locked.  The   *)
(* restore and the recovery of the history screen do not take that mutex.  *)
(*                                                                         *)
(* A storage transaction is a record in the journal and its entries,       *)
(* applied one by one; StorageTransaction has the rest of it.  A key       *)
(* stands for the salt and the password it was derived from: positive keys *)
(* for a password of the user's, negative ones for the secret in           *)
(* local-vault-key.                                                        *)
(***************************************************************************)
EXTENDS Integers, Sequences, FiniteSets

CONSTANTS
    Workers,    \* concurrent requests
    NoWorker,
    Secrets,    \* what the vault can hold
    Travelled   \* the secrets in the snapshot a pull brings

ASSUME VaultAssumption == NoWorker \notin Workers /\ Travelled \subseteq Secrets

VARIABLES
    disk,       \* the files
    record,     \* the record in the journal, or NoRecord
    lock,       \* who holds the workspace lock
    vault,      \* Service.vault and its baseline, or Closed
    owner,      \* who holds mutationMutex
    op,         \* what each request is doing
    up,         \* the engine runs
    keys,       \* how many keys have been derived
    saved,      \* history: the secrets as the user was last told they are
    overtaken,  \* history: a restore or a recovery of the vault ran across a writer
    carried,    \* history: a restore brought back a file of an earlier key
    left        \* bounds: kinds of request, requests, idles, faults, crashes

storageVars == <<disk, record, lock>>
memoryVars == <<vault, owner, op, up, keys>>
ghostVars == <<saved, overtaken, carried>>
vaultVars == <<storageVars, memoryVars, ghostVars, left>>

Sealed(key, body) == [key |-> key, body |-> body]
Missing == Sealed(0, {})
Closed == Missing
Plain == Sealed(0, {"text"})

KeyBound == {"vault", "settings", "library"}
Entry(f, old, new) == [file |-> f, old |-> old, new |-> new]
Idle == [kind |-> "none", at |-> "idle", entries |-> << >>, candidate |-> Missing]
NoRecord == [kind |-> "none"]

\* How storage is asked to commit: CommitAtomic undoes a failure itself,
\* CommitAtomicDiscardBackups too, with backups it does not seal, and Commit leaves a
\* record to be completed or rolled back.
Mode(kind) ==
    CASE kind = "save" -> "atomic"
      [] kind \in {"initialise", "rekey"} -> "discard"
      [] OTHER -> "plain"

Written(entries) == {entries[i].file : i \in DOMAIN entries}
Of(entries, f) == entries[CHOOSE i \in DOMAIN entries : entries[i].file = f]

\* The disk when the first n entries have been applied.
Applied(entries, n) ==
    [f \in DOMAIN disk |->
        IF f \notin Written(entries) THEN disk[f]
        ELSE IF \E i \in 1 .. n : entries[i].file = f THEN Of(entries, f).new
        ELSE Of(entries, f).old]

\* The contents a commit keeps a generation of, sealed with the key open in memory.
Kept(kind, entries) ==
    IF Mode(kind) = "discard" THEN {}
    ELSE {i \in DOMAIN entries : entries[i].file \in KeyBound \cup {"config"}
                                    /\ entries[i].old # Missing}
BackupsOf(kind, entries, outer) ==
    {[file |-> entries[i].file, outer |-> outer, was |-> entries[i].old] :
        i \in Kept(kind, entries)}

\* A rollback opens the sealed backups of what has been applied.
CanRollBack(r, key) == r.done = 0 \/ r.outer \in {0, key}

\* What the user knows of the vault once the commit is in effect.
Owed(kind, entries) ==
    IF kind \in {"save", "restore", "pull"} /\ "vault" \in Written(entries)
    THEN Of(entries, "vault").new.body ELSE saved

\* A restored file is sealed with another key than the vault it comes to lie beside.
Carries(kind, entries) ==
    /\ kind = "restore"
    /\ \E i \in DOMAIN entries :
          entries[i].file \in KeyBound /\ entries[i].new.key # disk.vault.key

(***************************************************************************)
(* What is sealed with the key                                             *)
(***************************************************************************)

LocalFor(key) == IF key < 0 THEN key ELSE 0

ResealedBackup(b, key) ==
    [b EXCEPT !.outer = key,
              !.was = IF b.file \in KeyBound THEN Sealed(key, @.body) ELSE @]

KeysOf(b) == {b.outer} \cup (IF b.file \in KeyBound THEN {b.was.key} ELSE {})

\* The keys of everything reSealKeyBoundArtifacts opens.
ArtifactKeys ==
    UNION ({KeysOf(b) : b \in disk.backups}
           \cup {{disk[f].key} : f \in {"library", "settings"}})

\* One of the two sealed files, if it is there, under another key.
ReSealed(f, key) ==
    IF disk[f] = Missing THEN << >> ELSE <<Entry(f, disk[f], Sealed(key, disk[f].body))>>

\* Mutant: the change of password forgets the backups of the key-bound files.
ReSealForgettingBackups(key) == ReSealed("library", key) \o ReSealed("settings", key)

\* The library, the settings and every backup, under another key.
ReSealKeyBoundArtifacts(key) ==
    ReSealed("library", key) \o ReSealed("settings", key)
    \o <<Entry("backups", disk.backups, {ResealedBackup(b, key) : b \in disk.backups})>>

(***************************************************************************)
(* Requests                                                                *)
(***************************************************************************)

Spend(what) == left[what] > 0 /\ left' = [left EXCEPT ![what] = @ - 1]

Asks(w, kind) == up /\ op[w] = Idle /\ kind \in left.kinds /\ Spend("requests")

\* mutationMutex is taken.
Holds(w) == owner = NoWorker /\ owner' = w
Released(w) == owner' = IF owner = w THEN NoWorker ELSE owner

Goes(w, kind, entries, candidate) ==
    op' = [op EXCEPT ![w] = [kind |-> kind, at |-> "commit", entries |-> entries,
                             candidate |-> candidate]]
Moves(w, at) == op' = [op EXCEPT ![w].at = at]

Initialise(w, sign) ==
    LET key == sign * (keys + 1)
    IN  /\ Asks(w, "initialise") /\ Holds(w) /\ disk.vault = Missing
        /\ keys' = keys + 1
        /\ Goes(w, "initialise", <<Entry("vault", Missing, Sealed(key, {})),
                                   Entry("local", disk.local, LocalFor(key))>>,
                Sealed(key, {}))
        /\ UNCHANGED <<storageVars, vault, up, ghostVars>>

\* commitVaultTransaction: the copy, with a secret set or removed, and the vault in
\* memory as what it must replace.
Save(w, s) ==
    LET body == IF s \in vault.body THEN vault.body \ {s} ELSE vault.body \cup {s}
        clone == Sealed(vault.key, body)
    IN  /\ Asks(w, "save") /\ Holds(w) /\ vault # Closed
        /\ Goes(w, "save", <<Entry("vault", vault, clone)>>, clone)
        /\ UNCHANGED <<storageVars, vault, up, keys, ghostVars>>

\* The current password opens the file on disk; the new key seals a copy of the memory.
ChangeMasterPassword(w, sign) ==
    LET key == sign * (keys + 1)
    IN  /\ Asks(w, "rekey") /\ Holds(w) /\ vault # Closed
        /\ disk.vault.key # 0 /\ (disk.vault.key < 0 => disk.local = disk.vault.key)
        /\ keys' = keys + 1
        /\ Goes(w, "rekey", <<Entry("local", disk.local, LocalFor(key))>>,
                Sealed(key, vault.body))
        /\ UNCHANGED <<storageVars, vault, up, ghostVars>>

\* writeSyncSettings: what is stored is opened, changed, and must still be there.
WriteSettings(w, kind, body) ==
    /\ vault # Closed /\ disk.settings.key = vault.key
    /\ Holds(w)
    /\ Goes(w, kind, <<Entry("settings", disk.settings, Sealed(vault.key, body))>>, Missing)
    /\ UNCHANGED <<storageVars, vault, up, keys, ghostVars>>

\* SetSyncSettings keeps the sync key, SetSyncAuto all that is told apart here.
SetSyncSettings(w) ==
    /\ Asks(w, "settings")
    /\ \E region \in {disk.settings.body.region, 1 - disk.settings.body.region} :
          WriteSettings(w, "settings", [disk.settings.body EXCEPT !.region = region])

\* The snippets: read, sealed and written under both barriers, by a rename.
SaveLibrary(w) ==
    /\ Asks(w, "library")
    /\ owner = NoWorker /\ lock = NoWorker /\ record = NoRecord
    /\ vault # Closed /\ disk.library.key \in {0, vault.key}
    /\ disk' = [disk EXCEPT !.library = Sealed(vault.key, {})]
    /\ UNCHANGED <<record, lock, memoryVars, ghostVars>>

\* apply of a pull: the vault and the snippets of the snapshot, sealed with this key, and
\* the state of synchronization.
Pull(w, state) ==
    /\ Asks(w, "pull") /\ Holds(w) /\ vault # Closed
    /\ Goes(w, "pull", <<Entry("library", disk.library, Sealed(vault.key, {})),
                         Entry("vault", disk.vault, Sealed(vault.key, Travelled)),
                         Entry("state", disk.state, state)>>, Missing)
    /\ UNCHANGED <<storageVars, vault, up, keys, ghostVars>>

\* saveMutex of the application.
SaveMutexFree == \A v \in Workers : op[v].kind \notin {"config", "restore", "recover"}

\* Any save of the configuration: here only the generation it keeps matters.
SaveConfig(w) ==
    /\ Asks(w, "config") /\ SaveMutexFree
    /\ Goes(w, "config", <<Entry("config", Plain, Plain)>>, Missing)
    /\ UNCHANGED <<storageVars, vault, owner, up, keys, ghostVars>>

\* A generation of the history is opened; what it replaces is read afterwards.
Restore(w, b) ==
    /\ Asks(w, "restore") /\ SaveMutexFree
    /\ b.file \in KeyBound /\ vault # Closed /\ b.outer = vault.key
    /\ op' = [op EXCEPT ![w] = [kind |-> "restore", at |-> "read", candidate |-> Missing,
                                entries |-> <<Entry(b.file, Missing, b.was)>>]]
    /\ UNCHANGED <<storageVars, vault, owner, up, keys, ghostVars>>

RestoreReads(w) ==
    /\ op[w].at = "read"
    /\ op' = [op EXCEPT ![w].at = "commit", ![w].entries[1].old =
                                                         disk[op[w].entries[1].file]]
    /\ UNCHANGED <<storageVars, vault, owner, up, keys, ghostVars, left>>

(***************************************************************************)
(* The storage transaction of a request                                    *)
(***************************************************************************)

\* The entries of a change of password are made inside the workspace lock, so that they
\* list every backup a finished commit has left.
Built(w) ==
    IF op[w].kind # "rekey" THEN op[w].entries
    ELSE ReSealKeyBoundArtifacts(op[w].candidate.key)
         \o <<Entry("vault", disk.vault, op[w].candidate)>> \o op[w].entries

\* Every precondition holds, and a change of password can open everything it re-seals.
Acceptable(w) ==
    /\ \A i \in DOMAIN op[w].entries :
          disk[op[w].entries[i].file] = op[w].entries[i].old
    /\ op[w].kind = "rekey" =>
          disk.vault # Missing /\ ArtifactKeys \subseteq {0, vault.key, disk.vault.key}

\* The lock is free, no change is pending, and the preconditions hold: the record is
\* begun and the backups are written.
Begins(w) ==
    LET kind == op[w].kind
        entries == Built(w)
        sealable == Kept(kind, entries) = {} \/ vault # Closed
        outer == IF Kept(kind, entries) = {} THEN 0 ELSE vault.key
    IN  /\ op[w].at = "commit" /\ lock = NoWorker /\ record = NoRecord /\ Acceptable(w)
        /\ \/ /\ sealable
              /\ record' = [kind |-> kind, entries |-> entries, done |-> 0,
                            outer |-> outer, status |-> "staged"]
              /\ disk' = [disk EXCEPT !.backups =
                             @ \cup BackupsOf(kind, entries, outer)]
              /\ lock' = w
              /\ carried' = (carried \/ Carries(kind, entries))
              /\ Moves(w, "apply")
           \/ /\ ~sealable
              /\ record' = IF Mode(kind) = "atomic" THEN NoRecord
                           ELSE [kind |-> kind, entries |-> entries, done |-> 0,
                                 outer |-> 0, status |-> "staging"]
              /\ Moves(w, "failed")
              /\ UNCHANGED <<disk, lock, carried>>
        /\ UNCHANGED <<vault, owner, up, keys, saved, overtaken, left>>

\* Another change is pending, a precondition fails, or the lock was busy for too long.
Refused(w) ==
    /\ op[w].at = "commit"
    /\ \/ lock = NoWorker /\ ~(record = NoRecord /\ Acceptable(w)) /\ UNCHANGED left
       \/ lock # NoWorker /\ Spend("faults")
    /\ Moves(w, "failed")
    /\ UNCHANGED <<storageVars, vault, owner, up, keys, ghostVars>>

\* Mutant: one entry more is counted than the record has.
AppliesPast(w) ==
    /\ op[w].at = "apply" /\ record.done <= Len(record.entries)
    /\ record' = [record EXCEPT !.done = @ + 1]
    /\ disk' = Applied(record.entries, record.done + 1)
    /\ UNCHANGED <<lock, memoryVars, ghostVars, left>>

\* The next file takes its new contents.
Applies(w) ==
    /\ op[w].at = "apply" /\ record.done < Len(record.entries)
    /\ record' = [record EXCEPT !.done = @ + 1]
    /\ disk' = Applied(record.entries, record.done + 1)
    /\ UNCHANGED <<lock, memoryVars, ghostVars, left>>

\* A change of password publishes its key before the lock is given back.
PublishesInside(w) ==
    vault' = IF op[w].kind = "rekey" THEN op[w].candidate ELSE vault

\* The commit is over.  A discarding one may leave its record, marked applied, to a
\* recovery that only has to clean up.
Ends(w) ==
    /\ op[w].at = "apply" /\ record.done = Len(record.entries)
    /\ \/ record' = NoRecord /\ UNCHANGED left
       \/ /\ Mode(record.kind) = "discard" /\ Spend("faults")
          /\ record' = [record EXCEPT !.status = "applied"]
    /\ lock' = NoWorker
    /\ PublishesInside(w)
    /\ saved' = Owed(record.kind, record.entries)
    /\ overtaken' = (overtaken \/ (op[w].kind = "rekey" /\ op[w].candidate.body # saved))
    /\ Moves(w, "done")
    /\ UNCHANGED <<disk, owner, up, keys, carried>>

\* A step of the commit fails.  What undoes itself does so, unless the vault has been
\* closed since it sealed the backups.
Fails(w) ==
    /\ op[w].at = "apply" /\ Spend("faults")
    /\ IF Mode(record.kind) # "plain" /\ CanRollBack(record, vault.key)
       THEN disk' = Applied(record.entries, 0) /\ record' = NoRecord
       ELSE UNCHANGED <<disk, record>>
    /\ lock' = NoWorker
    /\ Moves(w, "failed")
    /\ UNCHANGED <<vault, owner, up, keys, ghostVars>>

(***************************************************************************)
(* After the commit                                                        *)
(***************************************************************************)

Finish(w) == op' = [op EXCEPT ![w] = Idle] /\ Released(w)

\* Mutant: a failed commit is published like any other.
PublishesAnyway(w) ==
    /\ op[w].at \in {"done", "failed"} /\ op[w].kind \in {"save", "initialise"}
    /\ vault' = op[w].candidate
    /\ overtaken' = overtaken
    /\ Finish(w)
    /\ UNCHANGED <<storageVars, up, keys, saved, carried, left>>

\* The copy becomes the vault, whatever has happened to the one it was made of.
Publishes(w) ==
    /\ op[w].at = "done" /\ op[w].kind \in {"save", "initialise"}
    /\ vault' = op[w].candidate
    /\ overtaken' = (overtaken \/ disk.vault # op[w].candidate)
    /\ Finish(w)
    /\ UNCHANGED <<storageVars, up, keys, saved, carried, left>>

\* Reload: a vault that is open is read again with the key in memory.
Reload == vault' = IF vault # Closed /\ disk.vault.key = vault.key THEN disk.vault
                   ELSE vault

\* After a pull, a restore or a recovery that wrote the vault.  A restore that finds
\* it under another key asks for the vault to be locked.
Reloads(w) ==
    /\ op[w].at = "done" /\ op[w].kind \in {"pull", "restore", "recover"}
    /\ IF "vault" \notin Written(op[w].entries) THEN UNCHANGED vault /\ Finish(w)
       ELSE /\ Reload
            /\ IF op[w].kind = "restore" /\ vault # Closed /\ disk.vault.key # vault.key
               THEN Moves(w, "lock") /\ UNCHANGED owner
               ELSE Finish(w)
    /\ overtaken' = (overtaken \/ (/\ "vault" \in Written(op[w].entries)
                                    /\ record # NoRecord
                                    /\ "vault" \in Written(record.entries)))
    /\ UNCHANGED <<storageVars, up, keys, saved, carried, left>>

LocksAfterRestore(w) ==
    /\ op[w].at = "lock" /\ owner = NoWorker
    /\ vault' = Closed
    /\ Finish(w)
    /\ UNCHANGED <<storageVars, up, keys, ghostVars, left>>

Returns(w) ==
    /\ \/ op[w].at = "failed"
       \/ op[w].at = "done" /\ op[w].kind \in {"rekey", "settings", "config"}
    /\ op[w].kind # "rotated"
    /\ Finish(w)
    /\ UNCHANGED <<storageVars, vault, up, keys, ghostVars, left>>

(***************************************************************************)
(* Locking and unlocking                                                   *)
(***************************************************************************)

\* open: a vault with a password that has not been used for long enough is closed,
\* during a commit too.
IdleCloses ==
    /\ vault.key > 0 /\ Spend("idles")
    /\ vault' = Closed
    /\ UNCHANGED <<storageVars, owner, op, up, keys, ghostVars>>

Unlock ==
    /\ up /\ vault = Closed /\ owner = NoWorker /\ disk.vault.key > 0
    /\ vault' = disk.vault
    /\ UNCHANGED <<storageVars, owner, op, up, keys, ghostVars, left>>

\* The records AutoUnlock settles before it opens the vault: those whose rollback opens
\* no sealed backup.
BeforeUnlock ==
    \/ record.kind \in {"initialise", "rekey"}
    \/ record.kind = "save" /\ record.done = 0

\* Mutant: the vault is opened before the interrupted change of password is settled.
SettledLate == disk

\* The disk when they are settled: completed if all is in effect, else rolled back.
SettledFirst ==
    IF ~BeforeUnlock THEN disk
    ELSE Applied(record.entries,
                 IF record.status = "applied" THEN Len(record.entries) ELSE 0)

AutoUnlocks == SettledFirst.local < 0
\* The secret of the machine opens the vault it finds.
AutoUnlockWorks == AutoUnlocks => SettledFirst.vault.key = SettledFirst.local

\* A vault without a password is opened, and then the records its key is needed for are
\* settled.
AutoUnlock ==
    LET afterwards == AutoUnlocks /\ ~BeforeUnlock /\ record.kind = "save"
        final == IF afterwards THEN Applied(record.entries, 0) ELSE SettledFirst
    IN  /\ AutoUnlockWorks
        /\ disk' = final
        /\ record' = IF BeforeUnlock \/ afterwards THEN NoRecord ELSE record
        /\ vault' = IF AutoUnlocks THEN final.vault ELSE vault

\* LockManually: a vault without a password is opened instead.
LockManually ==
    /\ up /\ owner = NoWorker /\ lock = NoWorker /\ Spend("idles")
    /\ IF disk.local = 0 THEN vault' = Closed /\ UNCHANGED <<disk, record>>
       ELSE IF vault = Closed THEN AutoUnlock
       ELSE UNCHANGED <<disk, record, vault>>
    /\ UNCHANGED <<lock, owner, op, up, keys, ghostVars>>

(***************************************************************************)
(* Interruption and recovery                                               *)
(***************************************************************************)

CanComplete ==
    \/ record.status = "applied"
    \/ record.status = "staged" /\ Mode(record.kind) = "plain"

\* The user settles a pending change from the history; the caller then reloads.
Recover(w, action) ==
    /\ up /\ op[w] = Idle /\ SaveMutexFree /\ lock = NoWorker /\ record # NoRecord
    /\ \/ /\ action = "complete" /\ CanComplete
          /\ disk' = Applied(record.entries, Len(record.entries))
          /\ saved' = IF record.status = "staged" THEN Owed(record.kind, record.entries)
                      ELSE saved
       \/ /\ action = "rollback" /\ record.status # "applied"
          /\ CanRollBack(record, vault.key)
          /\ disk' = Applied(record.entries, 0)
          /\ UNCHANGED saved
    /\ record' = NoRecord
    /\ op' = [op EXCEPT ![w] = [kind |-> "recover", at |-> "done",
                                entries |-> record.entries, candidate |-> Missing]]
    /\ UNCHANGED <<lock, vault, owner, up, keys, overtaken, carried, left>>

\* The engine is killed.
Crash ==
    /\ up /\ Spend("crashes")
    /\ up' = FALSE
    /\ vault' = Closed /\ owner' = NoWorker /\ lock' = NoWorker
    /\ op' = [w \in Workers |-> Idle]
    /\ UNCHANGED <<disk, record, keys, ghostVars>>

Start ==
    /\ ~up
    /\ AutoUnlock
    /\ up' = TRUE
    /\ UNCHANGED <<lock, owner, op, keys, ghostVars, left>>

VaultInit(files, first, bounds) ==
    /\ disk = files /\ record = NoRecord /\ lock = NoWorker
    /\ vault = first /\ owner = NoWorker /\ op = [w \in Workers |-> Idle]
    /\ up = TRUE /\ keys = 1
    /\ saved = files.vault.body /\ overtaken = FALSE /\ carried = FALSE
    /\ left = bounds

(***************************************************************************)
(* The steps of the vault                                                  *)
(***************************************************************************)

Step(w) ==
    \/ RestoreReads(w) \/ Begins(w) \/ Refused(w) \/ Applies(w) \/ Ends(w) \/ Fails(w)
    \/ Publishes(w) \/ Reloads(w) \/ LocksAfterRestore(w) \/ Returns(w)

\* What a user, the front end or a schedule asks of the engine.  Pull, Recover and Crash
\* are left to the module that adds the bucket.
Request(w) ==
    \/ \E sign \in {1, -1} : Initialise(w, sign) \/ ChangeMasterPassword(w, sign)
    \/ \E s \in Secrets : Save(w, s)
    \/ SetSyncSettings(w) \/ SaveLibrary(w) \/ SaveConfig(w)
    \/ \E b \in disk.backups : Restore(w, b)

VaultStep ==
    \/ \E w \in Workers : Step(w) \/ Request(w)
    \/ IdleCloses \/ Unlock \/ LockManually \/ Start

(***************************************************************************)
(* What the vault promises                                                 *)
(***************************************************************************)

\* Nothing is under way and nothing is pending.
Quiet == record = NoRecord /\ \A w \in Workers : op[w] = Idle

\* Killed at any moment, the engine starts again: the secret of the machine opens the
\* vault that is left when the interrupted change has been settled (an engine whose
\* AutoUnlock fails does not start, app/services.go).  And at rest everything sealed
\* with a key is sealed with that of the vault on disk, the library, the settings, each
\* kept generation and what is sealed inside it: a file under any other key is lost
\* (rekey.go, ChangeMasterPassword: one transaction, its list made inside the lock).
KeysAgree ==
    ~carried =>
        /\ AutoUnlockWorks
        /\ Quiet /\ disk.vault # Missing =>
              /\ ArtifactKeys \subseteq {0, disk.vault.key}
              /\ disk.local = LocalFor(disk.vault.key)

\* The vault on disk holds what the user has been told it holds, and what is open in
\* memory is what is on disk: through failures that roll back, an idle lock during a
\* commit, crashes, pulls and restores (vault_transaction.go, Reload).
SavedIsServed ==
    Quiet /\ disk.vault # Missing /\ ~overtaken /\ ~carried =>
        /\ disk.vault.body = saved
        /\ vault # Closed => vault = disk.vault
=============================================================================
