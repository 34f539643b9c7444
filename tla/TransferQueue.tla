--------------------------- MODULE TransferQueue ---------------------------
(***************************************************************************)
(* The actors of the transfer queue (internal/sftp): the goroutine of each *)
(* remote job, and the requests of an upload, over the ledger they share.  *)
(*                                                                         *)
(* A goroutine waits for a slot, plans its operation, marks the record     *)
(* before anything is published, works, and reports.  Its run may end at   *)
(* any moment: pause, cancel and the end of the engine cancel its context, *)
(* and from then on its reports are refused, while the request it is in    *)
(* goes on.  An exchange with a host may succeed, fail, or lose its        *)
(* answer.                                                                 *)
(***************************************************************************)
EXTENDS TransferLedger

still == <<settings, open, due, evicting, replaced, scene, requests, restarts>>

\* The next place of w, and the last one, where only its run is remembered.
To(w, pc) == [worker EXCEPT ![w].pc = pc]
Leave(w, pc) == [worker EXCEPT ![w] = [Idle EXCEPT !.pc = pc, !.ended = worker[w].ended]]
Errs(w, err, before) ==
    [worker EXCEPT ![w].pc = "failing", ![w].err = err, ![w].before = before]

\* A step of worker w that leaves the ledger alone.
Alone(w, ws) ==
    /\ worker' = ws
    /\ UNCHANGED <<job, active, silent, disk, trouble, current, owner, part, effect,
                   consent, still>>

\* reportRemoteRun: record r, n slots taken, if the ledger accepts it.
Report(w, can, r, n, ok, no) ==
    \/ /\ ~open /\ worker' = no
       /\ UNCHANGED <<job, active, silent, disk, trouble>>
    \/ /\ open /\ (~Open(w[1]) \/ worker[w].ended \/ ~can)
       /\ SweepOnly(no)
    \/ /\ open /\ Open(w[1]) /\ ~worker[w].ended /\ can
       /\ Update(w[1], r, n, ok, no)

\* The start report, from the queue or after a lost connection.
StartReport(w, ok, no) ==
    LET r == Swept[w[1]]
    IN  Report(w, CanControl(r, "start"), Started(r), SlotsAfter(r, "start"), ok, no)

(***************************************************************************)
(* The run of a remote job                                                 *)
(***************************************************************************)

\* scheduleRemoteJob.
Schedule(j) ==
    LET idle == {r \in Runs : worker[<<j, r>>].pc = "none"}
        run == CHOOSE r \in idle : TRUE
        live == current[j] # NoRun /\ ~worker[<<j, current[j]>>].ended
    IN  /\ due[j] # "no" /\ due' = [due EXCEPT ![j] = "no"]
        /\ IF ~open \/ live THEN UNCHANGED <<worker, current>>
           ELSE /\ idle # {}
                /\ current' = [current EXCEPT ![j] = run]
                /\ worker' = [worker EXCEPT ![<<j, run>>] =
                                 [Idle EXCEPT !.pc = "asking", !.ended = FALSE]]
        /\ UNCHANGED <<ledgerVars, owner, evicting, replaced, worldVars, boundVars>>

\* slotWait takes the channel, and the moment of the next sweep, before the slot is
\* asked for.
SlotWait(w) ==
    /\ worker[w].pc = "asking"
    /\ Alone(w, IF worker[w].ended THEN Leave(w, "ending")
                ELSE [worker EXCEPT
                         ![w].pc = "asked", ![w].woken = FALSE,
                         ![w].timer = \E j \in Jobs : job[j].status = "running" /\ ~InUse(j)])

\* The start report of startRemoteJobWhenSlotFree: only a full queue makes it wait.
AskSlot(w) ==
    LET r == Swept[w[1]]
        full == /\ open /\ Open(w[1]) /\ ~worker[w].ended /\ r.status = "queued"
                /\ ~CanStart(r)
    IN  /\ worker[w].pc = "asked"
        /\ \/ full /\ SweepSaved(To(w, "waiting"))
           \/ full /\ SweepFails(Leave(w, "ending"))
           \/ ~full /\ StartReport(w, Leave(w, "started"), Leave(w, "ending"))
        /\ UNCHANGED <<current, owner, worldVars, still>>

\* waitForSlot: the run ends, the channel is closed, or the timer fires.
Wake(w) ==
    /\ worker[w].pc = "waiting" /\ (worker[w].ended \/ worker[w].woken \/ worker[w].timer)
    /\ Alone(w, Leave(w, IF worker[w].ended THEN "ending" ELSE "asking"))

\* protectLocalTransferRun and KeepJobActive.
Keep(w) ==
    /\ worker[w].pc = "started"
    /\ \/ Present(job, w[1]) /\ Alone(w, Leave(w, "planning"))
       \/ (~Present(job, w[1]) \/ worker[w].ended) /\ Alone(w, Leave(w, "ending"))

\* The plan, and the report that starts the progress from zero.
Plan(w) ==
    LET r == Swept[w[1]]
    IN  /\ worker[w].pc = "planning"
        /\ \/ \E err \in {"lost", "refused"} : Alone(w, Errs(w, err, TRUE))
           \/ job[w[1]].held /\ Alone(w, To(w, "marking"))
           \/ /\ ~job[w[1]].held
              /\ Report(w, r.status = "running", r, sweptActive, To(w, "marking"),
                        Errs(w, "refused", TRUE))
              /\ UNCHANGED <<current, owner, worldVars, still>>

\* markRemoteCommitPending.
Mark(w) ==
    LET j == w[1]
        can == ~worker[w].ended /\ job[j].status = "running"
    IN  /\ worker[w].pc = "marking"
        /\ \/ ~can /\ Alone(w, Errs(w, "refused", TRUE))
           \/ /\ can
              /\ Rewrite(j, [job[j] EXCEPT !.problem = "uncertain"],
                         To(w, "operating"), Errs(w, "refused", TRUE))
              /\ consent' = IF worker'[w].pc = "operating"
                            THEN [k \in Moves |-> consent[k] /\ k # j] ELSE consent
              /\ UNCHANGED <<active, current, owner, part, effect, still>>

Recoverable(j) == j \in Copies /\ (settings.auto \/ job[j].held)

\* operation.run: it changes the host, now or later or never, and ends.
Operate(w) ==
    LET j == w[1]
    IN  /\ worker[w].pc = "operating" /\ ~Recoverable(j)
        /\ \/ /\ j \in Moves /\ ~effect[j]
              /\ effect' = [effect EXCEPT ![j] = TRUE]
              /\ UNCHANGED <<ledgerVars, actorVars, part, consent, boundVars>>
           \/ (j \in Moves => effect[j]) /\ Alone(w, To(w, "done"))
           \/ \E err \in {"lost", "refused", "exists", "unsure"} :
                 Alone(w, Errs(w, err, FALSE))

\* copyServerFile, up to the checkpoint, under the lock of the file.
Locked(j) == \E r \in Runs : worker[<<j, r>>].pc \in {"copying", "creating", "publishing"}
CopyBegins(w) ==
    /\ worker[w].pc = "operating" /\ Recoverable(w[1]) /\ ~Locked(w[1])
    /\ Alone(w, IF worker[w].ended THEN Errs(w, "refused", FALSE) ELSE To(w, "copying"))

\* prepareRemoteFileCheckpoint: an old checkpoint is compared, a new one saved.
Checkpoint(w) ==
    LET j == w[1]
        can == ~worker[w].ended /\ job[j].status = "running"
        q == [job EXCEPT ![j].held = TRUE]
    IN  /\ worker[w].pc = "copying"
        /\ \/ \E err \in {"lost", "refused"} : Alone(w, Errs(w, err, FALSE))
           \/ job[j].held /\ Alone(w, To(w, "creating"))
           \/ ~job[j].held /\ Alone(w, Errs(w, "exists", FALSE))
           \/ ~job[j].held /\ ~can /\ Alone(w, Errs(w, "refused", FALSE))
           \/ /\ ~job[j].held /\ can
              /\ \/ Saved(q) /\ job' = q /\ worker' = To(w, "creating")
                 \/ /\ NotSaved(disk, q) /\ UNCHANGED job
                    /\ worker' = Errs(w, "refused", FALSE)
              /\ UNCHANGED <<active, silent, current, owner, worldVars, still>>

\* Somebody has seen that no part of job j is left, and says so.
SeenGone(j) ==
    \/ owner[j] = "removed" \/ job[j].status = "completed"
    \/ \E n \in Jobs : evicting[n].phase = "cleaned" /\ evicting[n].job = j
    \/ \E r \in Runs : worker[<<j, r>>].pc = "done" /\ ~worker[<<j, r>>].ended

OnHost ==
    UNCHANGED <<ledgerVars, current, due, owner, evicting, replaced, effect, consent,
                boundVars>>

\* The part that is there is opened, or one is made, whether the run has ended or not; the
\* report that follows asks.
Create(w) ==
    LET j == w[1]
        late == worker[w].ended /\ part[j] # "made" /\ SeenGone(j)
    IN  /\ worker[w].pc = "creating"
        /\ \/ /\ part' = [part EXCEPT ![j] = IF late THEN "late" ELSE "made"]
              /\ worker' = IF worker[w].ended THEN Errs(w, "refused", FALSE)
                           ELSE To(w, "publishing")
           \/ /\ \E err \in {"lost", "refused"} : worker' = Errs(w, err, FALSE)
              /\ UNCHANGED part
        /\ OnHost

\* It is filled, and takes the target's name: the last question whether the run has ended
\* comes before that.
Copy(w) ==
    LET j == w[1]
    IN  /\ worker[w].pc = "publishing"
        /\ \/ /\ HasPart(j) /\ part' = [part EXCEPT ![j] = "none"]
              /\ \/ worker' = To(w, "done")
                 \/ worker' = Errs(w, "unsure", FALSE)
           \/ /\ \E err \in {"lost", "refused", "exists", "unsure"} :
                    worker' = Errs(w, err, FALSE)
              /\ UNCHANGED part
        /\ OnHost

\* The end of a successful operation.
Complete(w) ==
    LET r == Swept[w[1]]
    IN  /\ worker[w].pc = "done"
        /\ Report(w, r.status = "running", Becomes(r, "completed", "none"),
                  Released(sweptActive, r), Leave(w, "ending"), To(w, "unrecorded"))
        /\ UNCHANGED <<current, owner, worldVars, still>>

\* Mutant: a job that is marked keeps its slot.
ReconcileKeeping(j, ended, ws) ==
    /\ worker' = ws /\ UNCHANGED active
    /\ IF job[j].status # "running" \/ ended THEN UNCHANGED <<job, silent>>
       ELSE /\ job' = [job EXCEPT ![j] = Becomes(job[j], "reattach", "uncertain")]
            /\ silent' = [silent EXCEPT ![j] = FALSE]

\* markTransferReconciliationRequired, in memory only.
Reconcile(j, ended, ws) ==
    IF job[j].status # "running" \/ ended
    THEN worker' = ws /\ UNCHANGED <<job, active, silent>>
    ELSE /\ job' = [job EXCEPT ![j] = Becomes(job[j], "reattach", "uncertain")]
         /\ active' = Released(active, job[j])
         /\ silent' = [silent EXCEPT ![j] = FALSE]
         /\ worker' = SignalIf(active' < active, ws)

Unrecord(w) ==
    /\ worker[w].pc = "unrecorded"
    /\ Reconcile(w[1], worker[w].ended, Leave(w, "ending"))
    /\ UNCHANGED <<disk, trouble, current, owner, worldVars, still>>

\* An error: was it the end of the run?
Interrupted(w) ==
    /\ worker[w].pc = "failing"
    /\ Alone(w, To(w, IF worker[w].ended THEN "interrupted" ELSE "reporting"))

\* clearCommitPendingAfterPause.
ClearPending(w) ==
    LET r == job[w[1]]
    IN  /\ worker[w].pc = "interrupted"
        /\ IF r.status = "paused" /\ r.problem = "uncertain"
           THEN /\ Rewrite(w[1], [r EXCEPT !.problem = "none"], Leave(w, "ending"),
                           Leave(w, "ending"))
                /\ UNCHANGED <<active, current, owner, worldVars, still>>
           ELSE Alone(w, Leave(w, "ending"))

\* waitToReconnect, its report.
Reconnects(w) == w[1] \in Copies /\ worker[w].err = "lost"
GivesUp(w) == [worker EXCEPT ![w].pc = "reporting", ![w].err = "refused"]
Reconnect(w) ==
    LET r == Swept[w[1]]
    IN  /\ worker[w].pc = "reporting" /\ Reconnects(w)
        /\ Report(w, CanReconnect(r), Reconnecting(r), sweptActive, To(w, "backoff"),
                  GivesUp(w))
        /\ UNCHANGED <<current, owner, worldVars, still>>

\* Its wait: the settings, or the run, may end it before the next start report.
Backoff(w) ==
    /\ worker[w].pc = "backoff"
    /\ \/ (worker[w].ended \/ ~CanRestart(job[w[1]])) /\ Alone(w, GivesUp(w))
       \/ /\ CanRestart(job[w[1]])
          /\ StartReport(w, Leave(w, "planning"), GivesUp(w))
          /\ UNCHANGED <<current, owner, worldVars, still>>

\* reportRemoteFailure; when it is refused, an operation that has begun is marked.
Fail(w) ==
    LET r == Swept[w[1]]
        e == worker[w].err
        failed == IF e = "exists" THEN Becomes(r, "needs_overwrite", "other")
                  ELSE Becomes(r, "failed", IF e = "unsure" THEN "uncertain" ELSE "other")
    IN  /\ worker[w].pc = "reporting" /\ ~Reconnects(w)
        /\ Report(w, CanFail(r), failed, Released(sweptActive, r), Leave(w, "ending"),
                  Leave(w, IF worker[w].before THEN "ending" ELSE "unrecorded"))
        /\ UNCHANGED <<current, owner, worldVars, still>>

\* cleanupCancelledServerFile: the part of a cancelled copy goes, and the record says so.
Ending(w) ==
    LET r == job[w[1]]
    IN  /\ worker[w].pc = "ending"
        /\ Alone(w, To(w, IF r.status = "cancelled" /\ w[1] \in Copies /\ r.held
                          THEN "cleaning" ELSE "finishing"))

Clean(w, ok) ==
    /\ worker[w].pc = "cleaning"
    /\ part' = IF ok THEN [part EXCEPT ![w[1]] = "none"] ELSE part
    /\ worker' = To(w, IF ok THEN "cleaned" ELSE "uncleaned")
    /\ OnHost

Cleaned(w) ==
    LET j == w[1]
        q == IF worker[w].pc = "cleaned" THEN [job EXCEPT ![j].held = FALSE]
             ELSE [job EXCEPT ![j].problem = "cleanup"]
    IN  /\ worker[w].pc \in {"cleaned", "uncleaned"}
        /\ IF job[j].status # "cancelled" THEN Alone(w, To(w, "finishing"))
           ELSE /\ \/ job' = q /\ Saved(q)
                   \/ UNCHANGED job /\ NotSaved(disk, q)
                /\ worker' = To(w, "finishing")
                /\ UNCHANGED <<active, silent, current, owner, worldVars, still>>

\* finishRemoteWorker.
Finish(w) ==
    /\ worker[w].pc = "finishing"
    /\ worker' = [worker EXCEPT ![w] = Idle]
    /\ current' = [j \in Remote |-> IF <<j, current[j]>> = w THEN NoRun ELSE current[j]]
    /\ UNCHANGED <<ledgerVars, due, owner, evicting, replaced, worldVars, boundVars>>

RunStep(w) ==
    \/ SlotWait(w) \/ AskSlot(w) \/ Wake(w) \/ Keep(w) \/ Plan(w) \/ Mark(w)
    \/ Operate(w) \/ CopyBegins(w) \/ Checkpoint(w) \/ Create(w) \/ Copy(w)
    \/ Complete(w) \/ Unrecord(w)
    \/ Interrupted(w) \/ ClearPending(w) \/ Reconnect(w) \/ Backoff(w) \/ Fail(w)
    \/ Ending(w) \/ Clean(w, TRUE) \/ Clean(w, FALSE) \/ Cleaned(w) \/ Finish(w)

(***************************************************************************)
(* The requests of an upload, under its job-owner lock                     *)
(***************************************************************************)

OwnerAt(j, at) == owner' = [owner EXCEPT ![j] = at]
Quiet == UNCHANGED <<worker, current, effect, consent, still>>
LedgerAlone == UNCHANGED <<job, active, silent, disk, trouble>>

\* StartOwned, AppendOwned and CompleteOwned begin: AuthorizeUpload.
UploadBegins(j) ==
    /\ owner[j] = "free" /\ open /\ job[j].status = "running"
    /\ \/ OwnerAt(j, "preparing")
       \/ job[j].held /\ \E at \in {"appending", "completing"} : OwnerAt(j, at)
    /\ LedgerAlone /\ Quiet /\ UNCHANGED part

\* The exchange with the host.  A part that was published is no part any more; when
\* the answer is lost either may be the case.
UploadWorks(j) ==
    /\ \/ /\ owner[j] = "preparing" /\ open
          /\ part' = [part EXCEPT ![j] = "made"]
          /\ \E at \in {"prepared", "free"} : OwnerAt(j, at)
       \/ /\ owner[j] \in {"preparing", "appending", "completing"}
          /\ UNCHANGED part /\ OwnerAt(j, "free")
       \/ /\ owner[j] = "completing" /\ open /\ HasPart(j)
          /\ part' = [part EXCEPT ![j] = "none"]
          /\ \E at \in {"published", "unsure"} : OwnerAt(j, at)
       \/ /\ owner[j] = "completing" /\ open /\ HasPart(j)
          /\ UNCHANGED part /\ OwnerAt(j, "unsure")
    /\ LedgerAlone /\ Quiet

\* The record of a part that was prepared.
UploadPrepared(j) ==
    /\ owner[j] = "prepared" /\ OwnerAt(j, "free")
    /\ IF job[j].status # "running" THEN LedgerAlone /\ UNCHANGED worker
       ELSE /\ Rewrite(j, [job[j] EXCEPT !.held = TRUE], worker, worker)
            /\ UNCHANGED active
    /\ UNCHANGED <<current, worldVars, still>>

\* updateUploadJob, which a job that is being cleaned up refuses.
UploadUpdate(j, can, r) ==
    LET n == IF HasSlot(r) THEN sweptActive ELSE Released(sweptActive, Swept[j])
    IN  \/ can /\ Update(j, r, n, worker, worker)
        \/ ~can /\ SweepOnly(worker)

\* The report the engine makes itself.  One that cannot be recorded after the part was
\* published is marked.
UploadReports(j) ==
    LET r == Swept[j]
        at == owner[j]
        status == IF at = "appending" THEN r.status
                  ELSE IF at = "published" THEN "completed" ELSE "failed"
        next == IF at = "appending" THEN r
                ELSE Becomes(r, status, IF at = "unsure" THEN "uncertain" ELSE "none")
        can == Open(j) /\ r.status = "running"
    IN  /\ at \in {"appending", "published", "unsure"}
        /\ UploadUpdate(j, can, next)
        /\ OwnerAt(j, IF at = "appending" \/ job'[j].status = status THEN "free"
                      ELSE "unrecorded")
        /\ UNCHANGED <<current, worldVars, still>>

UploadUnrecord(j) ==
    /\ j \in Uploads /\ owner[j] = "unrecorded" /\ OwnerAt(j, "free")
    /\ Reconcile(j, FALSE, worker)
    /\ UNCHANGED <<disk, trouble, current, worldVars, still>>

\* CancelOwned: a job that knows of no part is cancelled at once.
CancelBegins(j) ==
    /\ Asked /\ owner[j] = "free" /\ Present(job, j) /\ ~Terminal(job[j])
    /\ IF job[j].held
       THEN OwnerAt(j, "cancelling") /\ LedgerAlone /\ UNCHANGED worker
       ELSE /\ UploadUpdate(j, Present(Swept, j) /\ ~Swept[j].cleaning,
                            Cancelled(Swept[j]))
            /\ UNCHANGED owner
    /\ UNCHANGED <<settings, open, due, evicting, replaced, scene, restarts, current,
                   worldVars>>

CancelCleans(j, ok) ==
    /\ owner[j] = "cancelling" /\ (ok => open)
    /\ part' = IF ok THEN [part EXCEPT ![j] = "none"] ELSE part
    /\ OwnerAt(j, IF ok THEN "cancelled" ELSE "uncancelled")
    /\ LedgerAlone /\ Quiet

CancelEnds(j) ==
    LET r == Swept[j]
    IN  /\ owner[j] \in {"cancelled", "uncancelled"} /\ OwnerAt(j, "free")
        /\ IF owner[j] = "cancelled"
           THEN UploadUpdate(j, Present(Swept, j) /\ ~r.cleaning /\ ~Terminal(r),
                             Cancelled(r))
           ELSE UploadUpdate(j, Open(j) /\ CanFail(r), Becomes(r, "failed", "cleanup"))
        /\ UNCHANGED <<current, worldVars, still>>

UploadStep(j) ==
    \/ UploadBegins(j) \/ UploadWorks(j) \/ UploadPrepared(j) \/ UploadReports(j)
    \/ UploadUnrecord(j)
    \/ CancelBegins(j) \/ CancelCleans(j, TRUE) \/ CancelCleans(j, FALSE) \/ CancelEnds(j)

(***************************************************************************)
(* The queue                                                               *)
(***************************************************************************)

Next ==
    \/ RequestStep
    \/ \E j \in Remote : Schedule(j)
    \/ \E w \in Workers : RunStep(w)
    \/ \E j \in Uploads : UploadStep(j)

\* A goroutine that can go on does: the scheduler, and the wait for a slot.
Fairness ==
    /\ \A j \in Remote : WF_vars(Schedule(j))
    /\ \A w \in Workers : WF_vars(SlotWait(w) \/ AskSlot(w) \/ Wake(w))

Spec == Init /\ [][Next]_vars /\ Fairness

(***************************************************************************)
(* Properties                                                              *)
(***************************************************************************)

\* activeJobs is the number of the jobs that run or reconnect, whatever was swept,
\* refused, restored after a failed save or marked in between.
SlotsAreCounted == active = Cardinality({j \in Jobs : HasSlot(job[j])})

\* A move or a delete that may have changed a host begins again only if the user asked
\* for it after it last began: not after a crash, and not after a save that failed
\* (markRemoteCommitPending, transferOutcomeUnrecorded).
NeverRepeated ==
    [][\A w \in Workers :
          (/\ w[1] \in Moves
           /\ worker[w].pc = "marking" /\ worker'[w].pc = "operating"
           /\ effect[w[1]])
          => consent[w[1]]]_vars

\* A record that knows of an unpublished part is forgotten only when the part is gone,
\* whoever is still at it (cleanupTransferPart, mayHoldRemotePart), unless a run that had
\* been paused or cancelled made the part after the clean-up had looked for it
\* (copyServerFile asks for no context there), or the record is what a save that reported a
\* failure left for the next engine.
PartsGoFirst ==
    [][\A j \in Jobs :
          (Present(job, j) /\ job[j].held /\ ~Present(job', j)
           /\ restarts' = restarts /\ (trouble = 0 \/ restarts = 0))
          => part[j] # "made"]_vars

\* No worker waits for ever while a slot is free: the release it did not see closed the
\* channel it holds (slotWait, signalSlotLocked).
Missed(w) ==
    /\ worker[w].pc \in {"asking", "asked", "waiting"} /\ ~worker[w].ended
    /\ open /\ job[w[1]].status = "queued"
    /\ ~settings.halted /\ active < settings.slots
SlotIsNotMissed == \A w \in Workers : []<>~Missed(w)
=============================================================================
