---------------------------- MODULE SyncKeyRotation ----------------------------
(***************************************************************************)
(* Changing the sync key (internal/remotesync/rekey.go), over the vault    *)
(* that keeps it.                                                          *)
(*                                                                         *)
(* The live object is sealed with the sync key, and the sync key lies in   *)
(* the settings that the vault seals.  No transaction spans both: the      *)
(* rotation writes a recovery journal, replaces the object, writes the     *)
(* journal and the state of synchronization, commits the settings, and     *)
(* removes the journal.  Each of the four local writes is a storage        *)
(* transaction of its own, which can fail or be left pending; a failure    *)
(* after the PUT puts the old ciphertext back.                             *)
(*                                                                         *)
(* Synchronization runs one operation at a time (operationMutex): a        *)
(* rotation, a push or a pull.  Another machine that has the first sync    *)
(* key pushes meanwhile.                                                   *)
(***************************************************************************)
EXTENDS VaultService

CONSTANTS
    SyncKeys,   \* the keys a user may enter; the bucket begins with key 1
    MaxPuts     \* bound: objects written

ASSUME RotationAssumption ==
    1 \in SyncKeys /\ SyncKeys \subseteq Nat /\ MaxPuts \in Nat \ {0}

VARIABLES
    remote,     \* the live object
    puts,       \* ciphertexts made so far
    sync,       \* the operation that holds operationMutex, or NoSync
    strayed     \* history: a settings write was completed after its rotation was undone

rotationVars == <<remote, puts, sync, strayed>>
vars == <<vaultVars, rotationVars>>

\* What the bucket returns: the ETag, which ciphertext it is, and the key that opens it.
Object(etag, cipher, key) == [etag |-> etag, cipher |-> cipher, key |-> key]
NoJournal == [phase |-> "none"]

\* todo: the stages still to come; new: the key asked for; read: the settings as the
\* operation found them; object: the object it started from; sealed: the ciphertext to
\* put; etag: what the state is to record; undo: a failure puts the object back.
NoSync == [by |-> NoWorker, todo |-> << >>]
Stage == IF sync.todo = << >> THEN "over" ELSE Head(sync.todo)
FreshPlan == <<"prepare", "put", "advance", "state", "commit", "clear">>

Calls(w) == sync.by = w /\ op[w].at = "call"
Goes_(todo) == sync' = [sync EXCEPT !.todo = todo]
Proceeds == Goes_(Tail(sync.todo))
Stops == Goes_(<< >>)
LocallyUnchanged == UNCHANGED <<storageVars, memoryVars, ghostVars, strayed>>

(***************************************************************************)
(* The operations                                                          *)
(***************************************************************************)

\* The settings are read from the vault, and operationMutex is held.
Operates(w, kind, new, todo) ==
    /\ Asks(w, kind) /\ sync = NoSync /\ \A v \in Workers : op[v].kind # "pull"
    /\ vault # Closed /\ disk.settings.key = vault.key
    /\ sync' = [by |-> w, todo |-> todo, new |-> new, read |-> disk.settings.body,
                object |-> remote, sealed |-> 0, etag |-> 0, undo |-> FALSE]
    /\ op' = [op EXCEPT ![w] = [Idle EXCEPT !.kind = "rotated", !.at = "call"]]
    /\ UNCHANGED <<storageVars, vault, owner, up, keys, ghostVars, remote, puts, strayed>>

ReplaceKey(w, new) == Operates(w, "rotate", new, <<"resolve", "choose">>)
Push(w) == Operates(w, "push", 0, <<"ensure", "send", "state">>)

\* A pull that brings nothing else than the ETag.
Fetch(w) == Operates(w, "fetch", 0, <<"ensure", "get", "state">>)

\* A pull that brings a vault.
PullsFiles(w) ==
    /\ sync = NoSync /\ disk.journal = NoJournal
    /\ vault # Closed /\ disk.settings.key = vault.key
    /\ disk.settings.body.sync = remote.key
    /\ Pull(w, remote.etag)
    /\ UNCHANGED rotationVars

(***************************************************************************)
(* Reading the bucket                                                      *)
(***************************************************************************)

\* resolveKeyRecovery: only the evidence of the journal decides what became of an
\* interrupted rotation.  The old ciphertext is adopted and the rotation begins afresh;
\* the new one is adopted with the key, if the key that was entered opens it.
ResolveKeyRecovery(w) ==
    LET journal == disk.journal
        isOld == remote.etag = journal.old \/ remote.cipher = journal.oldCipher
        isNew == /\ remote.cipher = journal.newCipher
                 /\ journal.phase = "advanced" => remote.etag = journal.new
                 /\ remote.key = sync.new
        Adopts(todo) == sync' = [sync EXCEPT !.todo = todo, !.etag = remote.etag]
    IN  /\ Calls(w) /\ Stage = "resolve"
        /\ \/ journal = NoJournal /\ Proceeds
           \/ /\ journal # NoJournal
              /\ \/ isOld /\ disk.state # 0 /\ Adopts(<<"state", "clear", "choose">>)
                 \/ ~isOld /\ isNew /\ disk.state # 0 /\ Adopts(<<"state", "commit", "clear">>)
                 \/ (disk.state = 0 \/ ~(isOld \/ isNew)) /\ Stops
        /\ LocallyUnchanged /\ UNCHANGED <<left, remote, puts>>

\* Mutant: a push or a pull clears any journal, whatever the bucket holds.
EnsureClearsAnyway(w) ==
    /\ Calls(w) /\ Stage = "ensure"
    /\ IF disk.journal = NoJournal THEN Proceeds
       ELSE Goes_(<<"clear">> \o Tail(sync.todo))
    /\ LocallyUnchanged /\ UNCHANGED <<left, remote, puts>>

\* ensureNoKeyRecovery: a push or a pull clears the journal only when the old ETag is live.
EnsureNoKeyRecovery(w) ==
    /\ Calls(w) /\ Stage = "ensure"
    /\ \/ disk.journal = NoJournal /\ Proceeds
       \/ disk.journal # NoJournal /\ remote.etag = disk.journal.old
            /\ Goes_(<<"clear">> \o Tail(sync.todo))
       \/ disk.journal # NoJournal /\ remote.etag # disk.journal.old /\ Stops
    /\ LocallyUnchanged /\ UNCHANGED <<left, remote, puts>>

\* Without a generation of its own, or with the key it already has, only the settings
\* change; else the live object must be the known one and open with the old key.
Chooses(w) ==
    LET alone == sync.read.sync = sync.new \/ disk.state = 0
        known == remote.etag = disk.state /\ remote.key = sync.read.sync
    IN  /\ Calls(w) /\ Stage = "choose"
        /\ \/ alone /\ Goes_(<<"commit">>) /\ UNCHANGED puts
           \/ ~alone /\ ~known /\ Stops /\ UNCHANGED puts
           \/ /\ ~alone /\ known /\ puts < MaxPuts
              /\ puts' = puts + 1
              /\ sync' = [sync EXCEPT !.todo = FreshPlan, !.object = remote,
                                      !.sealed = puts + 1]
        /\ LocallyUnchanged /\ UNCHANGED <<left, remote>>

Gets(w) ==
    /\ Calls(w) /\ Stage = "get"
    /\ IF remote.key = sync.read.sync
       THEN sync' = [sync EXCEPT !.todo = Tail(@), !.etag = remote.etag]
       ELSE Stops
    /\ LocallyUnchanged /\ UNCHANGED <<left, remote, puts>>

(***************************************************************************)
(* Writing the bucket                                                      *)
(***************************************************************************)

\* A conditional PUT: refused, answered, or carried out or not without an answer.
Puts(w, object, match, undo, refused) ==
    \/ remote.etag # match /\ Goes_(refused) /\ UNCHANGED <<remote, left>>
    \/ /\ remote.etag = match /\ remote' = object
       /\ sync' = [sync EXCEPT !.todo = Tail(@), !.etag = object.etag, !.undo = undo]
       /\ UNCHANGED left
    \/ /\ Spend("faults") /\ Stops
       /\ remote' \in {remote, IF remote.etag = match THEN object ELSE remote}

\* The re-sealed object.  A refusal removes the journal; a lost answer keeps it.
PutsResealed(w) ==
    /\ Calls(w) /\ Stage = "put"
    /\ Puts(w, Object(sync.sealed, sync.sealed, sync.new), sync.object.etag, TRUE, <<"clear">>)
    /\ LocallyUnchanged /\ UNCHANGED puts

\* rollback: the old ciphertext again, under its old ETag where ETags are digests.
PutsBack(w) ==
    /\ Calls(w) /\ Stage = "undo"
    /\ \/ /\ Puts(w, sync.object, sync.etag, FALSE, << >>)
          /\ UNCHANGED puts
       \/ /\ puts < MaxPuts /\ puts' = puts + 1
          /\ Puts(w, [sync.object EXCEPT !.etag = puts + 1], sync.etag, FALSE, << >>)
    /\ LocallyUnchanged

Sends(w) ==
    /\ Calls(w) /\ Stage = "send" /\ puts < MaxPuts
    /\ puts' = puts + 1
    /\ Puts(w, Object(puts + 1, puts + 1, sync.read.sync), disk.state, FALSE, << >>)
    /\ LocallyUnchanged

\* Another machine, which knows the first key, pulls what is live and pushes over it.
OtherPush ==
    /\ remote.key = 1 /\ puts < MaxPuts /\ Spend("others")
    /\ puts' = puts + 1
    /\ remote' = Object(puts + 1, puts + 1, 1)
    /\ UNCHANGED <<storageVars, memoryVars, ghostVars, sync, strayed>>

(***************************************************************************)
(* Writing the workspace                                                   *)
(***************************************************************************)

Journal(phase) ==
    [phase |-> phase, old |-> sync.object.etag, oldCipher |-> sync.object.cipher,
     new |-> IF phase = "advanced" THEN sync.etag ELSE 0, newCipher |-> sync.sealed]

LocalEntry ==
    CASE Stage = "prepare" -> Entry("journal", disk.journal, Journal("prepared"))
      [] Stage = "advance" -> Entry("journal", disk.journal, Journal("advanced"))
      [] Stage = "clear" -> Entry("journal", disk.journal, NoJournal)
      [] Stage = "state" -> Entry("state", disk.state, sync.etag)

\* writeKeyRecovery, removeKeyRecovery and writeState.
Commits(w) ==
    /\ Calls(w) /\ Stage \in {"prepare", "advance", "clear", "state"}
    /\ Goes(w, "rotated", <<LocalEntry>>, Missing)
    /\ UNCHANGED <<storageVars, vault, owner, up, keys, ghostVars, left, rotationVars>>

\* SetSyncKeyIfSettingsMatch: the key, only into the settings the rotation began with.
CommitsKey(w) ==
    /\ Calls(w) /\ Stage = "commit"
    /\ disk.settings.body = sync.read
    /\ WriteSettings(w, "rotated", [sync.read EXCEPT !.sync = sync.new])
    /\ UNCHANGED <<left, rotationVars>>

\* A failure: after the PUT and up to the commit, the object is put back.
Abandons == sync' = [sync EXCEPT !.todo = IF sync.undo THEN <<"undo", "state", "clear">>
                                          ELSE << >>,
                                 !.undo = FALSE]

\* The settings have changed or the vault is closed.
CommitsNoKey(w) ==
    /\ Calls(w) /\ Stage = "commit" /\ owner = NoWorker
    /\ vault = Closed \/ disk.settings.key # vault.key \/ disk.settings.body # sync.read
    /\ Abandons
    /\ LocallyUnchanged /\ UNCHANGED <<left, remote, puts>>

\* Mutant: a commit of the key that failed is taken for one that succeeded.
ContinuesAnyway(w) ==
    /\ sync.by = w /\ op[w].at \in {"done", "failed"}
    /\ IF op[w].at = "done" \/ Stage = "commit"
       THEN sync' = [sync EXCEPT !.todo = Tail(@), !.undo = @ /\ Stage # "commit"]
       ELSE Abandons
    /\ op' = [op EXCEPT ![w] = [Idle EXCEPT !.kind = "rotated", !.at = "call"]]
    /\ Released(w)
    /\ UNCHANGED <<storageVars, vault, up, keys, ghostVars, left, remote, puts, strayed>>

\* A local write has ended.
Continues(w) ==
    /\ sync.by = w /\ op[w].at \in {"done", "failed"}
    /\ IF op[w].at = "done"
       THEN sync' = [sync EXCEPT !.todo = Tail(@), !.undo = @ /\ Stage # "commit"]
       ELSE Abandons
    /\ op' = [op EXCEPT ![w] = [Idle EXCEPT !.kind = "rotated", !.at = "call"]]
    /\ Released(w)
    /\ UNCHANGED <<storageVars, vault, up, keys, ghostVars, left, remote, puts, strayed>>

Answers(w) ==
    /\ Calls(w) /\ Stage = "over"
    /\ sync' = NoSync
    /\ op' = [op EXCEPT ![w] = Idle]
    /\ UNCHANGED <<storageVars, vault, owner, up, keys, ghostVars, left, remote, puts, strayed>>

(***************************************************************************)
(* The whole                                                               *)
(***************************************************************************)

\* Completing, from the history, a write of the key whose rotation has taken it for
\* failed and has put, or is about to put, the object back.
Strays(action) ==
    /\ action = "complete" /\ record.kind = "rotated"
    /\ "settings" \in Written(record.entries)
    /\ \/ Stage = "undo" \/ (sync # NoSync /\ sync.undo)
       \/ Of(record.entries, "settings").new.body.sync # remote.key

Recovers(w, action) ==
    /\ Recover(w, action)
    /\ strayed' = (strayed \/ Strays(action))
    /\ UNCHANGED <<remote, puts, sync>>

Killed == Crash /\ sync' = NoSync /\ UNCHANGED <<remote, puts, strayed>>

Rotation(w) ==
    \/ \E new \in SyncKeys : ReplaceKey(w, new)
    \/ Push(w) \/ Fetch(w) \/ PullsFiles(w)
    \/ ResolveKeyRecovery(w) \/ EnsureNoKeyRecovery(w) \/ Chooses(w) \/ Gets(w)
    \/ PutsResealed(w) \/ PutsBack(w) \/ Sends(w)
    \/ Commits(w) \/ CommitsKey(w) \/ CommitsNoKey(w) \/ Continues(w) \/ Answers(w)

Next ==
    \/ VaultStep /\ UNCHANGED rotationVars
    \/ \E w \in Workers :
          Rotation(w) \/ \E action \in {"complete", "rollback"} : Recovers(w, action)
    \/ OtherPush \/ Killed

\* What the variables hold.
TypeOK ==
    /\ \A f \in {"vault", "library", "settings"} : disk[f].key \in Int
    /\ disk.vault.body \subseteq Secrets /\ vault.body \subseteq Secrets
    /\ disk.local \in Int /\ disk.state \in 0 .. puts
    /\ disk.journal.phase \in {"none", "prepared", "advanced"}
    /\ lock \in Workers \cup {NoWorker} /\ owner \in Workers \cup {NoWorker}
    /\ record # NoRecord =>
          record.done \in 0 .. Len(record.entries) /\ record.status \in {"staging", "staged", "applied"}
    /\ \A w \in Workers :
          op[w].at \in {"idle", "read", "commit", "apply", "done", "failed", "lock", "call"}
    /\ puts \in 1 .. MaxPuts /\ remote.key \in SyncKeys
    /\ remote.etag \in 1 .. puts /\ remote.cipher \in 1 .. puts
    /\ sync.by \in Workers \cup {NoWorker}

RotationInit(files, first, bounds) ==
    /\ VaultInit(files, first, bounds)
    /\ remote = Object(1, 1, 1) /\ puts = 1 /\ sync = NoSync /\ strayed = FALSE

RotationSpec(files, first, bounds) == RotationInit(files, first, bounds) /\ [][Next]_vars

(***************************************************************************)
(* What the rotation promises                                              *)
(***************************************************************************)

\* While no operation runs, nothing is pending and no journal asks for recovery, the
\* sync key in the settings opens the live object, if this machine knows the object's
\* generation: whatever write failed, whichever answer was lost, whenever the engine was
\* killed, and whatever was edited or pushed meanwhile.  A key that opens nothing leaves
\* the user's data in the bucket out of reach (rekey.go, replaceKey and rollback).
RemoteOpens ==
    Quiet /\ sync = NoSync /\ disk.journal = NoJournal /\ disk.state # 0
        /\ disk.settings # Missing /\ ~strayed =>
        disk.settings.body.sync = remote.key
=============================================================================
