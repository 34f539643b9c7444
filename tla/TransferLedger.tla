--------------------------- MODULE TransferLedger ---------------------------
(***************************************************************************)
(* The queue of SFTP transfers (internal/sftp): the jobs under jobsMutex,  *)
(* their file, the slots, and every request that changes them.             *)
(*                                                                         *)
(* A step is one critical section of jobsMutex, with the save it ends in,  *)
(* or one exchange with a remote host.  A save takes effect, or fails, or  *)
(* reports a failure although the new file has taken the old one's place.  *)
(* Bytes, rates, paths and the order of the list are left out: any job     *)
(* that may be evicted may be the oldest.                                  *)
(***************************************************************************)
EXTENDS Integers, FiniteSets

CONSTANTS
    Copies,       \* jobs the engine runs: one file, resumable by a checkpoint
    Moves,        \* jobs the engine runs: moves, deletes, folders
    Uploads,      \* files a browser or the CLI sends
    Runs, NoRun,  \* names for the runs of one job
    NoJob,
    Settings,     \* the settings there are: [slots, halted, auto, tries]
    Scenarios     \* bounds: the jobs that are asked for, maxRetainedTransferJobs, how many
                  \* requests, failed saves and restarts there are, the settings in use,
                  \* and the jobs an earlier engine left queued, or failed with a part

Remote == Copies \cup Moves
Jobs == Remote \cup Uploads
Workers == Remote \X Runs

ASSUME LedgerAssumption ==
    /\ Copies \cap Moves = {} /\ Remote \cap Uploads = {}
    /\ IsFiniteSet(Jobs) /\ IsFiniteSet(Runs)
    /\ NoRun \notin Runs /\ NoJob \notin Jobs
    /\ Settings \subseteq [slots : Nat \ {0}, halted : BOOLEAN, auto : BOOLEAN,
                           tries : Nat]
    /\ Scenarios \subseteq [jobs : SUBSET Jobs, room : Nat \ {0}, requests : Nat,
                            trouble : Nat, restarts : Nat, settings : SUBSET Settings,
                            queued : SUBSET Remote, failed : SUBSET Uploads]

VARIABLES
    \* the ledger
    job,        \* m.jobs
    active,     \* m.activeJobs
    settings,   \* maxConcurrent, processingStopped, autoReconnect, maxReconnectAttempts
    silent,     \* UpdatedAt is more than two minutes ago
    disk,       \* the queue file
    open,       \* the manager is not closed
    \* who works on the jobs
    worker,     \* the goroutines of the remote jobs
    current,    \* m.remoteRuns
    due,        \* the remote jobs whose scheduleRemoteJob comes next
    owner,      \* who holds the job-owner lock, and how far it is
    evicting,   \* the admissions that are cleaning up another job
    replaced,   \* the admissions whose record left the ledger while they cleaned it up
    \* the world
    part,       \* the unpublished part a host holds of a job
    effect,     \* the moves that have changed a host
    consent,    \* the moves the user has asked for since they last began
    \* bounds
    scene, requests, trouble, restarts

ledgerVars == <<job, active, settings, silent, disk, open>>
actorVars == <<worker, current, due, owner, evicting, replaced>>
worldVars == <<part, effect, consent>>
boundVars == <<scene, requests, trouble, restarts>>
vars == <<ledgerVars, actorVars, worldVars, boundVars>>

(***************************************************************************)
(* Records                                                                 *)
(***************************************************************************)

Statuses == {"none", "queued", "running", "reconnecting", "paused", "reattach",
             "needs_overwrite", "completed", "failed", "cancelled"}

\* uncertain is RemoteReconciliationProblem, cleanup CleanupPendingProblem; held says
\* that the record knows of a part: a checkpoint, a target revision, an offset.
Records == [status : Statuses, problem : {"none", "uncertain", "cleanup", "other"},
            held : BOOLEAN, cleaning : BOOLEAN, tombstone : BOOLEAN, tries : Nat]

Absent == [status |-> "none", problem |-> "none", held |-> FALSE,
           cleaning |-> FALSE, tombstone |-> FALSE, tries |-> 0]

Present(q, j) == q[j].status # "none"
Count(q) == Cardinality({j \in Jobs : Present(q, j)})

HasSlot(r) == r.status \in {"running", "reconnecting"}
Terminal(r) == r.status \in {"completed", "cancelled"}
Retained(r) == Terminal(r) \/ r.status = "failed"

\* transferOutcomeUnrecorded and mayHoldRemotePart.
Unrecorded(r) == r.problem = "uncertain" /\ ~HasSlot(r)

\* Mutant: a cancelled copy is taken to hold nothing.
MayHoldFailed(j, r) == r.held /\ r.status = "failed"

MayHold(j, r) ==
    r.held /\ \/ r.status = "failed"
              \/ j \in Copies /\ r.status = "cancelled"

\* What the file keeps of a ledger.
Durable(q) == [j \in Jobs |-> [q[j] EXCEPT !.cleaning = FALSE, !.tombstone = FALSE]]

\* A worker between KeepJobActive and its release.
Keeping == {"planning", "marking", "operating", "copying", "creating",
            "publishing", "done", "failing", "interrupted", "reporting", "backoff",
            "unrecorded"}
\* An upload request that called KeepJobActive.
Requesting == {"preparing", "prepared", "appending", "completing", "published", "unsure",
               "unrecorded", "cancelling", "cancelled", "uncancelled"}

\* dataPlane[id] > 0
InUse(j) == \/ owner[j] \in Requesting
            \/ j \in Remote /\ \E r \in Runs : worker[<<j, r>>].pc \in Keeping

Goroutines == [pc : Keeping \cup {"none", "asking", "asked", "waiting", "started", "ending",
                                 "cleaning", "cleaned", "uncleaned", "finishing"},
               ended : BOOLEAN, woken : BOOLEAN, timer : BOOLEAN,
               err : {"none", "lost", "refused", "exists", "unsure"}, before : BOOLEAN]

Idle == [pc |-> "none", ended |-> TRUE, woken |-> FALSE, timer |-> FALSE,
         err |-> "none", before |-> FALSE]

\* There is none, or one; a late one was made by a run that had ended, after somebody had
\* seen that there is none.  No guard tells late from made.
Parts == {"none", "made", "late"}
HasPart(j) == part[j] # "none"

TypeOK ==
    /\ job \in [Jobs -> Records]
    /\ active \in 0 .. Cardinality(Jobs)
    /\ settings \in Settings
    /\ silent \in [Jobs -> BOOLEAN]
    /\ disk \in [Jobs -> Records]
    /\ open \in BOOLEAN
    /\ worker \in [Workers -> Goroutines]
    /\ current \in [Remote -> Runs \cup {NoRun}]
    /\ due \in [Remote -> {"no", "created", "resumed"}]
    /\ owner \in [Jobs -> Requesting \cup {"free", "removing", "removed", "unremoved"}]
    /\ evicting \in [Jobs -> [job : Jobs \cup {NoJob},
                              phase : {"no", "cleaning", "cleaned", "uncleaned",
                                       "again"}]]
    /\ replaced \in SUBSET Jobs
    /\ part \in [Jobs -> Parts]
    /\ effect \in [Moves -> BOOLEAN] /\ consent \in [Moves -> BOOLEAN]
    /\ scene \in Scenarios
    /\ requests \in 0 .. scene.requests /\ trouble \in 0 .. scene.trouble
    /\ restarts \in 0 .. scene.restarts

Init ==
    /\ scene \in Scenarios
    /\ job = [j \in Jobs |->
                 IF j \in scene.queued THEN [Absent EXCEPT !.status = "queued"]
                 ELSE IF j \in scene.failed
                      THEN [Absent EXCEPT !.status = "failed", !.held = TRUE]
                 ELSE Absent]
    /\ disk = job
    /\ active = 0 /\ settings \in scene.settings /\ open = TRUE
    /\ silent = [j \in Jobs |-> FALSE]
    /\ worker = [w \in Workers |-> Idle]
    /\ current = [j \in Remote |-> NoRun]
    /\ due = [j \in Remote |-> IF j \in scene.queued THEN "created" ELSE "no"]
    /\ owner = [j \in Jobs |-> "free"]
    /\ evicting = [j \in Jobs |-> [job |-> NoJob, phase |-> "no"]]
    /\ replaced = {}
    /\ part = [j \in Jobs |-> IF j \in scene.failed THEN "made" ELSE "none"]
    /\ effect = [j \in Moves |-> FALSE] /\ consent = [j \in Moves |-> j \in scene.queued]
    /\ requests = 0 /\ trouble = 0 /\ restarts = 0

(***************************************************************************)
(* Saving, sweeping, signalling                                            *)
(***************************************************************************)

\* persistJobsLocked of ledger q: it succeeds, or it fails.
Saved(q) == disk' = Durable(q) /\ UNCHANGED trouble
NotSaved(base, q) ==
    /\ trouble < scene.trouble /\ trouble' = trouble + 1
    /\ disk' \in {base, Durable(q)}

\* The running jobs that stopped reporting.
Stale == {j \in Jobs : job[j].status = "running" /\ silent[j] /\ ~InUse(j)}

\* sweepJobsLocked: the ledger every request goes on from.
Swept == [j \in Jobs |-> IF j \in Stale
                         THEN [job[j] EXCEPT !.status = "failed", !.problem = "other"]
                         ELSE job[j]]
Less(n, k) == IF n > k THEN n - k ELSE 0
sweptActive == Less(active, Cardinality(Stale))

\* releaseJobLocked: the slots that are taken after job record r leaves its own.
Released(n, r) == IF HasSlot(r) THEN Less(n, 1) ELSE n

\* signalSlotLocked: the channel that the waiting workers hold is closed.
Signal(ws) == [w \in Workers |-> IF ws[w].pc \in {"asked", "waiting"}
                                  THEN [ws[w] EXCEPT !.woken = TRUE] ELSE ws[w]]
SignalIf(freed, ws) == IF freed THEN Signal(ws) ELSE ws

\* endRemoteRun: the context of the job's current run is cancelled.
EndRun(j, ws) == IF j \in Remote /\ current[j] # NoRun
                 THEN [ws EXCEPT ![<<j, current[j]>>].ended = TRUE] ELSE ws

Touch(S) == silent' = [j \in Jobs |-> silent[j] /\ j \notin S \cup Stale]

\* sweepStaleJobsLocked, when it is all that happens to the ledger, or fails.
SweepSaved(ws) ==
    /\ job' = Swept /\ active' = sweptActive /\ Touch({})
    /\ IF Stale = {} THEN UNCHANGED <<disk, trouble>> ELSE Saved(Swept)
    /\ worker' = SignalIf(Stale # {}, ws)
SweepFails(ws) ==
    /\ Stale # {} /\ NotSaved(disk, Swept)
    /\ UNCHANGED <<job, active, silent>>
    /\ worker' = Signal(ws)
SweepOnly(ws) == SweepSaved(ws) \/ SweepFails(ws)

\* A request whose save fails: the sweep's, or its own; q is what it wanted saved.
SaveFails(q, freed, ws) ==
    \/ SweepFails(ws)
    \/ /\ NotSaved(IF Stale = {} THEN disk ELSE Durable(Swept), q)
       /\ job' = Swept /\ active' = sweptActive /\ Touch({})
       /\ worker' = SignalIf(Stale # {} \/ freed, ws)

\* Mutant: a slot that is given back is not signalled.
UpdateUnsignalled(j, r, n, ok, no) ==
    LET q == [Swept EXCEPT ![j] = r]
    IN  \/ /\ job' = q /\ active' = n /\ Touch({j}) /\ Saved(q)
           /\ worker' = IF HasSlot(r) \/ r.status = "queued" THEN ok ELSE EndRun(j, ok)
        \/ SaveFails(q, FALSE, no)

\* updateJob that gives job j the record r and leaves n slots taken: ok and no are the
\* goroutines after it succeeded and after it failed.
Update(j, r, n, ok, no) ==
    LET q == [Swept EXCEPT ![j] = r]
        freed == n < sweptActive
    IN  \/ /\ job' = q /\ active' = n /\ Touch({j}) /\ Saved(q)
           /\ worker' = SignalIf(Stale # {} \/ freed,
                                 IF HasSlot(r) \/ r.status = "queued" THEN ok
                                 ELSE EndRun(j, ok))
        \/ SaveFails(q, freed, no)

\* Mutant: a rewrite that leaves the save to the next request.
RewriteUnsaved(j, r, ok, no) ==
    /\ job' = [job EXCEPT ![j] = r] /\ worker' = ok
    /\ silent' = [silent EXCEPT ![j] = FALSE]
    /\ UNCHANGED <<disk, trouble>>

\* rewriteJobLocked, which does not sweep.
Rewrite(j, r, ok, no) ==
    LET q == [job EXCEPT ![j] = r]
    IN  \/ /\ job' = q /\ Saved(q) /\ worker' = ok
           /\ silent' = [silent EXCEPT ![j] = FALSE]
        \/ NotSaved(disk, q) /\ worker' = no /\ UNCHANGED <<job, silent>>

\* updateJob refuses a job that is being cleaned up.
Open(j) == Present(Swept, j) /\ ~Swept[j].cleaning /\ ~Swept[j].tombstone

(***************************************************************************)
(* The actions of applyTransferActionLocked, on the swept record           *)
(***************************************************************************)

CanStart(r) == r.status = "queued" /\ ~settings.halted /\ sweptActive < settings.slots
CanRestart(r) == /\ r.status = "reconnecting" /\ ~settings.halted /\ settings.auto
                 /\ r.tries <= settings.tries
CanReconnect(r) == /\ r.status = "running" /\ ~settings.halted /\ settings.auto
                   /\ r.tries < settings.tries
CanPause(r) == r.status = "queued" \/ HasSlot(r)
CanResume(r) == r.status \in {"paused", "reattach", "needs_overwrite"} /\ ~Unrecorded(r)
CanRetry(r) == r.status = "failed" /\ ~Unrecorded(r)
CanFail(r) == r.status = "queued" \/ HasSlot(r)

Becomes(r, status, problem) == [r EXCEPT !.status = status, !.problem = problem]
Started(r) == IF r.status = "queued" THEN [r EXCEPT !.status = "running"]
              ELSE Becomes(r, "running", "none")
Reconnecting(r) == [Becomes(r, "reconnecting", "other") EXCEPT !.tries = @ + 1]
Requeued(r) == [Becomes(r, "queued", "none") EXCEPT !.tries = 0]
Cancelled(r) == [Becomes(r, "cancelled", "none") EXCEPT !.tombstone = FALSE]

\* The controls a client may send: whether they are refused, the record, the slots.  The
\* reports progress and complete, which no client of the program sends for these jobs, are
\* left out.
Controls == {"start", "reconnect", "pause", "resume", "retry", "fail", "exists", "cancel"}
ControlsOf(j) == IF j \in Uploads THEN Controls \ {"cancel"} ELSE Controls \ {"reconnect"}
CanControl(r, what) ==
    \/ what = "start" /\ (CanStart(r) \/ CanRestart(r))
    \/ what = "reconnect" /\ CanReconnect(r)
    \/ what = "pause" /\ CanPause(r)
    \/ what = "resume" /\ CanResume(r)
    \/ what = "retry" /\ CanRetry(r)
    \/ what \in {"fail", "exists"} /\ CanFail(r)
    \/ what = "cancel" /\ ~Terminal(r)
Controlled(r, what) ==
    CASE what = "start" -> Started(r)
      [] what = "reconnect" -> Reconnecting(r)
      [] what = "pause" -> [r EXCEPT !.status = "paused"]
      [] what \in {"resume", "retry"} -> Requeued(r)
      [] what = "cancel" -> Cancelled(r)
      [] what = "fail" -> Becomes(r, "failed", "other")
      [] what = "exists" -> Becomes(r, "needs_overwrite", "other")

\* Mutant: a job that is paused or cancelled gives back a slot, whether it has one or not.
SlotsAfterAlways(r, what) ==
    IF what = "start" /\ r.status = "queued" THEN sweptActive + 1
    ELSE IF what \in {"pause", "cancel", "fail", "exists"} THEN sweptActive - 1
    ELSE sweptActive

SlotsAfter(r, what) ==
    IF what = "start" /\ r.status = "queued" THEN sweptActive + 1
    ELSE IF what \in {"pause", "cancel", "fail", "exists"} THEN Released(sweptActive, r)
    ELSE sweptActive

(***************************************************************************)
(* Requests                                                                *)
(***************************************************************************)

Asked == requests < scene.requests /\ requests' = requests + 1
Consented(j) == [k \in Moves |-> consent[k] \/ k = j]

\* UpdateJobFromClient, under the job-owner lock.  Resume and retry of a remote job
\* schedule it before the lock is given back.
ClientUpdate(j, what) ==
    LET r == Swept[j]
    IN  /\ Asked /\ open /\ owner[j] = "free"
        /\ what \in ControlsOf(j)
        /\ j \in Remote => due[j] # "resumed"
        /\ Open(j) /\ CanControl(r, what)
        /\ Update(j, Controlled(r, what), SlotsAfter(r, what), worker, worker)
        /\ consent' = IF what \in {"resume", "retry"} THEN Consented(j) ELSE consent
        /\ IF j \in Remote /\ what \in {"resume", "retry"} /\ job'[j].status = "queued"
           THEN due' = [due EXCEPT ![j] = "resumed"]
           ELSE UNCHANGED due
        /\ UNCHANGED <<settings, open, current, owner, evicting, replaced, part, effect,
                       scene, restarts>>

\* ListJobs.
List ==
    /\ Stale # {} /\ SweepOnly(worker)
    /\ UNCHANGED <<settings, open, current, due, owner, evicting, replaced, worldVars,
                   scene, requests, restarts>>

\* SetTransferSettings, once its own file is saved.
Set(new) ==
    /\ Asked /\ new # settings /\ new \in scene.settings
    /\ settings' = new /\ worker' = Signal(worker)
    /\ UNCHANGED <<job, active, silent, disk, open, current, due, owner, evicting,
                   replaced, worldVars, scene, trouble, restarts>>

\* Two minutes pass for a job that reports nothing.
Silence(j) ==
    /\ job[j].status = "running" /\ ~silent[j]
    /\ silent' = [silent EXCEPT ![j] = TRUE]
    /\ UNCHANGED <<job, active, settings, disk, open, actorVars, worldVars, boundVars>>

(***************************************************************************)
(* CreateJob                                                               *)
(***************************************************************************)

Evictable(j) ==
    /\ Present(Swept, j) /\ ~Swept[j].cleaning
    /\ Retained(Swept[j])
    /\ ~(MayHold(j, Swept[j]) /\ Swept[j].problem = "cleanup")

\* evictForAdmissionLocked, the three rounds of it: jobs that go at once, and jobs
\* whose part has to be removed first.
AtOnce == {j \in Jobs : Evictable(j) /\ ~MayHold(j, Swept[j])}
Overdue == {j \in Jobs : /\ Present(Swept, j) /\ ~Swept[j].cleaning
                         /\ MayHold(j, Swept[j]) /\ Swept[j].problem = "cleanup"}
AfterCleanup ==
    IF AtOnce # {} THEN {} ELSE IF Overdue # {} THEN Overdue
    ELSE {j \in Jobs : Evictable(j)}

Full == Count(Swept) >= scene.room

\* The jobs that stay in the ledger when E is evicted and n admitted.
Admitted(n, E) ==
    [j \in Jobs |-> IF j = n THEN [Absent EXCEPT !.status = "queued"]
                    ELSE IF j \in E THEN Absent ELSE Swept[j]]

\* The admissions that clean up a record.  A failed save puts copies in the place of all
\* records (restoreTransferQueueLocked), which are not the ones they hold.
Cleaners == {n \in Jobs : evicting[n].job # NoJob}

NotEvicting == [job |-> NoJob, phase |-> "no"]

\* A new request (fresh), or one that goes on after it has cleaned up another job.
Admitting(n) ==
    /\ n \in scene.jobs /\ open /\ ~Present(job, n)
    /\ \/ evicting[n].phase = "no" /\ Asked
       \/ evicting[n].phase = "again" /\ UNCHANGED requests

Admit(n) ==
    /\ Admitting(n)
    /\ \E E \in IF Full THEN {{j} : j \in AtOnce} ELSE {{}} :
          LET q == Admitted(n, E)
          IN  \/ /\ job' = q /\ active' = sweptActive /\ Touch({n} \cup E) /\ Saved(q)
                 /\ worker' = SignalIf(Stale # {}, worker)
                 /\ UNCHANGED replaced
              \/ /\ SaveFails(q, FALSE, worker)
                 /\ replaced' = replaced \cup Cleaners
    /\ evicting' = [evicting EXCEPT ![n] = NotEvicting]
    /\ due' = [j \in Remote |-> IF j = n /\ Present(job', n) THEN "created" ELSE due[j]]
    /\ consent' = Consented(n) /\ effect' = [k \in Moves |-> effect[k] /\ k # n]
    /\ UNCHANGED <<settings, open, current, owner, part, scene, restarts>>

\* CreateJob for a job that is there already: it is only scheduled.
Resend(n) ==
    /\ Asked /\ open /\ n \in Remote /\ due[n] = "no" /\ Present(Swept, n)
    /\ \/ SweepSaved(worker) /\ due' = [due EXCEPT ![n] = "created"]
       \/ SweepFails(worker) /\ UNCHANGED due
    /\ UNCHANGED <<settings, open, current, owner, evicting, replaced, worldVars, scene,
                   restarts>>

\* The queue is full and nothing can go.
AdmitRefused(n) ==
    /\ Admitting(n) /\ Full /\ AtOnce = {} /\ AfterCleanup = {}
    /\ SweepOnly(worker)
    /\ evicting' = [evicting EXCEPT ![n] = NotEvicting]
    /\ UNCHANGED <<settings, open, current, due, owner, replaced, worldVars, scene,
                   restarts>>

\* A job has to be cleaned up first: it is marked, and the lock is given back.
EvictBegins(n, j) ==
    /\ Admitting(n) /\ Full /\ j \in AfterCleanup
    /\ LET q == [Swept EXCEPT ![j].cleaning = TRUE, ![j].tombstone = TRUE,
                              ![j].problem = "cleanup"]
       IN  \/ /\ job' = q /\ active' = sweptActive /\ Touch({j}) /\ Saved(q)
              /\ worker' = SignalIf(Stale # {}, worker)
              /\ evicting' = [evicting EXCEPT ![n] = [job |-> j, phase |-> "cleaning"]]
           \/ /\ SaveFails(q, FALSE, worker)
              /\ evicting' = [evicting EXCEPT ![n] = NotEvicting]
    /\ replaced' = replaced \ {n}
    /\ UNCHANGED <<settings, open, current, due, owner, worldVars, scene, restarts>>

\* cleanupTransferPart, without any lock of the ledger.
EvictCleans(n, ok) ==
    LET j == evicting[n].job
    IN  /\ evicting[n].phase = "cleaning"
        /\ part' = IF ok THEN [part EXCEPT ![j] = "none"] ELSE part
        /\ evicting' = [evicting EXCEPT ![n].phase = IF ok THEN "cleaned"
                                                     ELSE "uncleaned"]
        /\ UNCHANGED <<ledgerVars, worker, current, due, owner, replaced, effect, consent,
                       boundVars>>

\* The lock again: the record goes if it is still the same one, and if the part went.
EvictEnds(n) ==
    LET j == evicting[n].job
        same == Present(job, j) /\ n \notin replaced
        kept == [job EXCEPT ![j].cleaning = FALSE]
        gone == [job EXCEPT ![j] = Absent]
        answer(phase) == evicting' = [evicting EXCEPT ![n] = [job |-> NoJob,
                                                              phase |-> phase]]
    IN  /\ \/ /\ evicting[n].phase = "uncleaned"
              /\ job' = IF same THEN kept ELSE job
              /\ answer("no") /\ UNCHANGED <<disk, trouble>>
           \/ /\ evicting[n].phase = "cleaned" /\ same
              /\ \/ job' = gone /\ Saved(gone) /\ answer("again")
                 \/ job' = kept /\ NotSaved(disk, gone) /\ answer("no")
           \/ /\ evicting[n].phase = "cleaned" /\ ~same
              /\ answer("again") /\ UNCHANGED <<job, disk, trouble>>
        /\ UNCHANGED <<active, settings, silent, open, worker, current, due, owner,
                       replaced, worldVars, scene, requests, restarts>>

(***************************************************************************)
(* RemoveJob, ClearFinished and the expiry of finished jobs                *)
(***************************************************************************)

Removable(j) ==
    /\ open /\ owner[j] = "free" /\ (j \in Remote => due[j] # "resumed")
    /\ Retained(job[j]) /\ ~job[j].cleaning /\ ~InUse(j)

\* A job without a part goes at once, another one is marked first.
Remove(j) ==
    /\ Asked /\ Removable(j)
    /\ IF MayHold(j, job[j])
       THEN LET q == [job EXCEPT ![j].cleaning = TRUE]
            IN  \/ /\ Saved(q) /\ job' = q
                   /\ owner' = [owner EXCEPT ![j] = "removing"]
                \/ NotSaved(disk, q) /\ UNCHANGED <<job, owner>>
       ELSE LET q == [job EXCEPT ![j] = Absent]
            IN  /\ \/ Saved(q) /\ job' = q
                   \/ NotSaved(disk, q) /\ UNCHANGED job
                /\ UNCHANGED owner
    /\ UNCHANGED <<active, settings, silent, open, worker, current, due, evicting,
                   replaced, worldVars, scene, restarts>>

RemoveCleans(j, ok) ==
    /\ owner[j] = "removing"
    /\ part' = IF ok THEN [part EXCEPT ![j] = "none"] ELSE part
    /\ owner' = [owner EXCEPT ![j] = IF ok THEN "removed" ELSE "unremoved"]
    /\ UNCHANGED <<ledgerVars, worker, current, due, evicting, replaced, effect, consent,
                   boundVars>>

\* The record under that name, whichever it is by now, goes if the part went.
RemoveEnds(j) ==
    LET kept == [job EXCEPT ![j].cleaning = FALSE]
        marked == [kept EXCEPT ![j].tombstone = TRUE, ![j].problem = "cleanup"]
        gone == [job EXCEPT ![j] = Absent]
    IN  /\ owner[j] \in {"removed", "unremoved"}
        /\ owner' = [owner EXCEPT ![j] = "free"]
        /\ LET q == IF owner[j] = "unremoved" THEN marked ELSE gone
           IN  \/ Present(job, j) /\ job' = q /\ Saved(q)
               \/ Present(job, j) /\ job' = kept /\ NotSaved(disk, q)
               \/ ~Present(job, j) /\ UNCHANGED <<job, disk, trouble>>
        /\ UNCHANGED <<active, settings, silent, open, worker, current, due, evicting,
                       replaced, worldVars, scene, requests, restarts>>

\* removeFinishedJobs, for all finished jobs or for the old ones.
Clear(S) ==
    /\ Asked /\ S # {}
    /\ \A j \in S : Terminal(job[j]) /\ ~MayHold(j, job[j]) /\ ~InUse(j)
    /\ LET q == [j \in Jobs |-> IF j \in S THEN Absent ELSE job[j]]
       IN  \/ /\ Saved(q) /\ job' = q
              /\ replaced' = replaced \cup {n \in Jobs : evicting[n].job \in S}
           \/ /\ NotSaved(disk, q) /\ UNCHANGED job
              /\ replaced' = replaced \cup Cleaners
    /\ UNCHANGED <<active, settings, silent, open, worker, current, due, owner, evicting,
                   worldVars, scene, restarts>>

(***************************************************************************)
(* The end of the engine, and the next one                                 *)
(***************************************************************************)

\* Close: the runs are cancelled, and their reports refused.
Close ==
    /\ open
    /\ open' = FALSE
    /\ worker' = [w \in Workers |-> IF current[w[1]] = w[2]
                                    THEN [worker[w] EXCEPT !.ended = TRUE] ELSE worker[w]]
    /\ UNCHANGED <<job, active, settings, silent, disk, current, due, owner, evicting,
                   replaced, worldVars, boundVars>>

\* EnableQueuePersistence, of one job.
Restored(j, r) ==
    LET cause == IF r.problem = "uncertain" THEN "uncertain" ELSE "other"
    IN  IF ~HasSlot(r) THEN r
        ELSE IF j \in Uploads THEN Becomes(r, "reattach", cause)
        ELSE IF r.status = "reconnecting" THEN Becomes(r, "paused", cause)
        ELSE IF r.problem = "uncertain" THEN Becomes(r, "reattach", cause)
        ELSE Becomes(r, "queued", cause)

\* The engine is gone at any point; the next one reads the file and goes on.
Restart ==
    /\ restarts < scene.restarts /\ restarts' = restarts + 1
    /\ job' = [j \in Jobs |-> Restored(j, disk[j])] /\ disk' = job'
    /\ active' = 0 /\ open' = TRUE
    /\ silent' = [j \in Jobs |-> FALSE]
    /\ worker' = [w \in Workers |-> Idle]
    /\ current' = [j \in Remote |-> NoRun]
    /\ due' = [j \in Remote |-> IF job'[j].status = "queued" THEN "created" ELSE "no"]
    /\ owner' = [j \in Jobs |-> "free"]
    /\ evicting' = [j \in Jobs |-> NotEvicting]
    /\ replaced' = {}
    /\ UNCHANGED <<settings, worldVars, scene, requests, trouble>>

RequestStep ==
    \/ \E j \in Jobs :
          \/ \E what \in Controls : ClientUpdate(j, what)
          \/ Silence(j) \/ Admit(j) \/ Resend(j) \/ AdmitRefused(j) \/ Remove(j) \/ RemoveEnds(j)
          \/ \E k \in Jobs : EvictBegins(j, k)
          \/ \E ok \in BOOLEAN : EvictCleans(j, ok) \/ RemoveCleans(j, ok)
          \/ EvictEnds(j)
    \/ \E S \in SUBSET Jobs : Clear(S)
    \/ \E new \in Settings : Set(new)
    \/ List \/ Close \/ Restart
=============================================================================
