------------------------ MODULE TransferQueueProofs ------------------------
(***************************************************************************)
(* What TransferQueue keeps, proved for any jobs, any settings and any     *)
(* number of requests, failed saves and restarts.  RunInv says what the    *)
(* ledger and its file know of a move that has begun, and which goroutine  *)
(* may still report; CleaningInv says who may take away a record that is   *)
(* being cleaned up; PartInv says what the ledger, its file and those who  *)
(* work on a job know of the part it may have left on a host.              *)
(***************************************************************************)
EXTENDS TransferQueue, FiniteSetTheorems, TLAPS

(* The invariants *)

Slots(q) == {j \in Jobs : HasSlot(q[j])}

\* The types, without the bound that only the count of the slots gives.
Shapes ==
  /\ job \in [Jobs -> Records] /\ disk \in [Jobs -> Records]
  /\ active \in Nat /\ settings \in Settings
  /\ silent \in [Jobs -> BOOLEAN] /\ open \in BOOLEAN
  /\ worker \in [Workers -> Goroutines]
  /\ current \in [Remote -> Runs \cup {NoRun}]
  /\ due \in [Remote -> {"no", "created", "resumed"}]
  /\ owner \in [Jobs -> Requesting \cup {"free", "removing", "removed", "unremoved"}]
  /\ evicting \in [Jobs -> [job : Jobs \cup {NoJob},
                            phase : {"no", "cleaning", "cleaned", "uncleaned", "again"}]]
  /\ replaced \in SUBSET Jobs
  /\ part \in [Jobs -> Parts]
  /\ effect \in [Moves -> BOOLEAN] /\ consent \in [Moves -> BOOLEAN]
  /\ scene \in Scenarios
  /\ requests \in 0 .. scene.requests /\ trouble \in 0 .. scene.trouble
  /\ restarts \in 0 .. scene.restarts

\* A move waits only with the user's consent, and one that runs without it is marked.  It
\* knows of no part.
HonestRecord(r, asked) ==
  /\ r.status # "reconnecting" /\ r.held = FALSE
  /\ r.status = "queued" => asked = TRUE /\ r.problem # "uncertain"
  /\ r.status = "running" /\ r.problem # "uncertain" => asked = TRUE

Honest(q, asked) == \A j \in Moves : HonestRecord(q[j], asked[j])

\* Only the current run of a job reports.
OneReporter ==
  \A j \in Remote, r \in Runs : worker[<<j, r>>].ended = FALSE => current[j] = r

\* A run that has not marked its record yet finds it unmarked.
PreMark == {"started", "planning", "marking"}
MarksOnce ==
  \A j \in Moves, r \in Runs :
    worker[<<j, r>>].ended = FALSE /\ worker[<<j, r>>].pc \in PreMark
      /\ job[j].status = "running" => job[j].problem # "uncertain"

Removing == {"removing", "removed", "unremoved"}

\* An admission names the record it cleans up.
Cleans == {"cleaning", "cleaned", "uncleaned"}
Named == \A n \in Jobs : evicting[n].phase \in Cleans <=> evicting[n].job # NoJob

\* No move is copied, and no move has a part that a removal would wait for.
NothingHeld ==
  \A j \in Moves : /\ owner[j] \notin Removing
                   /\ \A r \in Runs : worker[<<j, r>>].pc # "copying"

RunInv ==
  /\ Shapes /\ Honest(job, consent) /\ Honest(disk, consent)
  /\ OneReporter /\ MarksOnce /\ Named /\ NothingHeld

Counted == active = Cardinality(Slots(job))

\* A removal under way that lost its record is over before the name is used again.
NoReadmission ==
  \A j \in Jobs : owner[j] \in Removing /\ owner'[j] \in Removing /\ ~Present(job, j)
                    => ~Present(job', j)

\* A record that is being cleaned up holds no slot, and one of three waits for it: nobody,
\* one removal, or one admission that still knows it.
Marked(r) == r.cleaning = TRUE /\ r.status # "none" /\ ~HasSlot(r)
Evicting(n) == evicting[n].phase \in Cleans /\ n \notin replaced

CleaningInv ==
  /\ \A j \in Jobs : owner[j] \in Removing /\ Present(job, j) => Marked(job[j])
  /\ \A n \in Jobs : Evicting(n) =>
       /\ evicting[n].job \in Jobs /\ Marked(job[evicting[n].job])
       /\ owner[evicting[n].job] \notin Removing
  /\ \A n, k \in Jobs : Evicting(n) /\ Evicting(k) /\ evicting[n].job = evicting[k].job
       => n = k

-----------------------------------------------------------------------------
(* Counting the slots *)

LEMMA LessFacts == ASSUME NEW n \in Nat, NEW k \in Nat
                   PROVE Less(n, k) \in Nat /\ (k <= n => Less(n, k) = n - k)
BY DEF Less

LEMMA SlotsFinite == ASSUME NEW q PROVE IsFiniteSet(Slots(q)) /\ Cardinality(Slots(q)) \in Nat
<1>1. IsFiniteSet(Jobs) BY LedgerAssumption
<1>2. Slots(q) \subseteq Jobs BY DEF Slots
<1> QED BY <1>1, <1>2, FS_Subset, FS_CardinalityType

\* One record changes: the count follows it.
LEMMA PutCount ==
  ASSUME NEW q \in [Jobs -> Records], NEW j \in Jobs, NEW r \in Records
  PROVE  LET p == [q EXCEPT ![j] = r] IN
         /\ p \in [Jobs -> Records]
         /\ (HasSlot(r) <=> HasSlot(q[j])) => Cardinality(Slots(p)) = Cardinality(Slots(q))
         /\ HasSlot(r) /\ ~HasSlot(q[j]) => Cardinality(Slots(p)) = Cardinality(Slots(q)) + 1
         /\ ~HasSlot(r) /\ HasSlot(q[j]) => /\ Cardinality(Slots(p)) = Cardinality(Slots(q)) - 1
                                            /\ Cardinality(Slots(q)) > 0
<1> DEFINE p == [q EXCEPT ![j] = r]
<1>1. p \in [Jobs -> Records] OBVIOUS
<1>2. IsFiniteSet(Slots(q)) /\ Cardinality(Slots(q)) \in Nat BY SlotsFinite
<1>3. ASSUME HasSlot(r) <=> HasSlot(q[j]) PROVE Slots(p) = Slots(q) BY <1>3 DEF Slots
<1>4. ASSUME HasSlot(r), ~HasSlot(q[j])
      PROVE  Cardinality(Slots(p)) = Cardinality(Slots(q)) + 1
  <2>1. Slots(p) = Slots(q) \cup {j} /\ j \notin Slots(q) BY <1>4 DEF Slots
  <2> QED BY <2>1, <1>2, FS_AddElement
<1>5. ASSUME ~HasSlot(r), HasSlot(q[j])
      PROVE  Cardinality(Slots(p)) = Cardinality(Slots(q)) - 1 /\ Cardinality(Slots(q)) > 0
  <2>1. Slots(p) = Slots(q) \ {j} /\ j \in Slots(q) BY <1>5 DEF Slots
  <2>2. Cardinality(Slots(p)) = Cardinality(Slots(q)) - 1
    BY <2>1, <1>2, FS_RemoveElement
  <2>3. Cardinality(Slots(q)) # 0 BY <2>1, <1>2, FS_EmptySet
  <2> QED BY <2>2, <2>3, <1>2
<1> QED BY <1>1, <1>3, <1>4, <1>5

\* A sweep fails the silent jobs and changes nothing else.
LEMMA SweptShape ==
  ASSUME Shapes
  PROVE  /\ Swept \in [Jobs -> Records]
         /\ \A j \in Jobs :
              \/ /\ job[j].status = "running"
                 /\ Swept[j] = [job[j] EXCEPT !.status = "failed", !.problem = "other"]
                 /\ Swept[j].status = "failed" /\ Swept[j].problem = "other"
                 /\ Swept[j].cleaning = job[j].cleaning /\ Swept[j].held = job[j].held
              \/ Swept[j] = job[j]
         /\ Stale = {} => Swept = job
<1>1. job \in [Jobs -> Records] BY DEF Shapes
<1>2. ASSUME NEW j \in Jobs
      PROVE  /\ Swept[j] \in Records
             /\ \/ /\ job[j].status = "running"
                   /\ Swept[j] = [job[j] EXCEPT !.status = "failed", !.problem = "other"]
                   /\ Swept[j].status = "failed" /\ Swept[j].problem = "other"
                   /\ Swept[j].cleaning = job[j].cleaning /\ Swept[j].held = job[j].held
                \/ Swept[j] = job[j]
  <2>1. job[j] \in Records BY <1>1
  <2>2. CASE j \in Stale
    BY <2>1, <2>2 DEF Swept, Stale, Records, Statuses
  <2>3. CASE j \notin Stale BY <2>1, <2>3 DEF Swept
  <2> QED BY <2>2, <2>3
<1>3. Swept \in [Jobs -> Records] BY <1>2 DEF Swept
<1>4. Stale = {} => Swept = job BY <1>1 DEF Swept
<1> QED BY <1>2, <1>3, <1>4

LEMMA SweptCount ==
  ASSUME Shapes
  PROVE  /\ sweptActive \in Nat
         /\ Counted => sweptActive = Cardinality(Slots(Swept))
<1>1. job \in [Jobs -> Records] /\ active \in Nat BY DEF Shapes
<1>2. Stale \subseteq Slots(job) BY DEF Stale, Slots, HasSlot
<1>3. IsFiniteSet(Slots(job)) BY SlotsFinite
<1>4. IsFiniteSet(Stale) /\ Cardinality(Stale) \in Nat
      /\ Cardinality(Stale) <= Cardinality(Slots(job))
  BY <1>2, <1>3, FS_Subset, FS_CardinalityType
<1>5. Slots(Swept) = Slots(job) \ Stale
  <2>1. ASSUME NEW j \in Jobs PROVE HasSlot(Swept[j]) <=> HasSlot(job[j]) /\ j \notin Stale
    <3>1. job[j] \in Records BY <1>1
    <3>2. CASE j \in Stale BY <3>1, <3>2 DEF Swept, HasSlot, Records
    <3>3. CASE j \notin Stale BY <3>3 DEF Swept
    <3> QED BY <3>2, <3>3
  <2> QED BY <2>1 DEF Slots
<1>6. Cardinality(Slots(Swept)) = Cardinality(Slots(job)) - Cardinality(Stale)
  <2>1. Slots(job) \cap Stale = Stale BY <1>2
  <2> QED BY <1>3, <1>5, <2>1, FS_Difference
<1>7. sweptActive \in Nat BY <1>1, <1>4, LessFacts DEF sweptActive
<1>8. ASSUME Counted PROVE sweptActive = Cardinality(Slots(Swept))
  BY <1>8, <1>1, <1>4, <1>6, LessFacts DEF sweptActive, Counted
<1> QED BY <1>7, <1>8

-----------------------------------------------------------------------------
(* What every save does to the ledger, to its file and to the goroutines *)

\* s may follow r where nothing is admitted, removed, unmarked or marked for publication.
Calm(j, r, s) ==
  /\ s.status # "none" => r.status # "none"
  /\ Marked(r) => Marked(s)
  /\ j \in Moves /\ s.status = "running" /\ s.problem = "uncertain"
       => r.status = "running" /\ r.problem = "uncertain"

\* The request wanted ledger q with n slots saved.
LedgerGoes(q, n) ==
  /\ \/ job' = q /\ active' = n
     \/ job' = Swept /\ active' = sweptActive
     \/ job' = job /\ active' = active
  /\ disk' \in {disk, Durable(Swept), Durable(q)}
  /\ silent' \in [Jobs -> BOOLEAN] /\ trouble' \in 0 .. scene.trouble

Tallied == Counted /\ CleaningInv

\* c are the consents given by then.
SoundFor(q, n, c) ==
  /\ q \in [Jobs -> Records] /\ n \in Nat
  /\ Tallied => n = Cardinality(Slots(q))
  /\ Honest(q, c)
Sound(q, n) == SoundFor(q, n, consent)

Grows(c) == \A k \in Moves : consent[k] = TRUE => c[k] = TRUE

AllCalm(q) == \A j \in Jobs : Calm(j, job[j], q[j])

LedgerSoundFor(c) ==
  /\ job' \in [Jobs -> Records] /\ disk' \in [Jobs -> Records] /\ active' \in Nat
  /\ silent' \in [Jobs -> BOOLEAN] /\ trouble' \in 0 .. scene.trouble
  /\ Tallied => Counted'
  /\ Honest(job', c) /\ Honest(disk', c)
LedgerSound == LedgerSoundFor(consent)

LEMMA DurableShape ==
  ASSUME NEW q \in [Jobs -> Records], NEW c
  PROVE  /\ Durable(q) \in [Jobs -> Records]
         /\ Honest(q, c) => Honest(Durable(q), c)
<1>1. ASSUME NEW j \in Jobs
      PROVE  /\ Durable(q)[j] \in Records /\ Durable(q)[j].status = q[j].status
             /\ Durable(q)[j].problem = q[j].problem /\ Durable(q)[j].held = q[j].held
  <2>1. q[j] \in Records OBVIOUS
  <2> QED BY <2>1 DEF Durable, Records
<1>2. Durable(q) \in [Jobs -> Records] BY <1>1 DEF Durable
<1>3. Moves \subseteq Jobs BY DEF Jobs, Remote
<1>4. ASSUME Honest(q, c) PROVE Honest(Durable(q), c)
  <2> SUFFICES ASSUME NEW j \in Moves PROVE HonestRecord(Durable(q)[j], c[j])
    BY DEF Honest
  <2>1. HonestRecord(q[j], c[j]) BY <1>4 DEF Honest
  <2> QED BY <1>1, <1>3, <2>1 DEF HonestRecord
<1> QED BY <1>2, <1>4

LEMMA Grown ==
  ASSUME NEW q, NEW c, Grows(c), Honest(q, consent) PROVE Honest(q, c)
BY DEF Grows, Honest, HonestRecord

LEMMA SweptSound == ASSUME RunInv PROVE Sound(Swept, sweptActive) /\ AllCalm(Swept)
<1> USE DEF RunInv
<1>1. Swept \in [Jobs -> Records] BY SweptShape
<1>2. Honest(Swept, consent)
  <2> SUFFICES ASSUME NEW j \in Moves PROVE HonestRecord(Swept[j], consent[j])
    BY DEF Honest
  <2>1. j \in Jobs /\ HonestRecord(job[j], consent[j]) BY DEF Honest, Jobs, Remote
  <2> QED BY <2>1, SweptShape DEF HonestRecord
<1>3. AllCalm(Swept)
  <2> SUFFICES ASSUME NEW j \in Jobs PROVE Calm(j, job[j], Swept[j]) BY DEF AllCalm
  <2>1. job[j] \in Records BY DEF Shapes
  <2> QED BY <2>1, SweptShape DEF Calm, Marked, HasSlot
<1> QED BY <1>1, <1>2, <1>3, SweptCount DEF Sound, SoundFor, Tallied

LEMMA GoesFor ==
  ASSUME RunInv, NEW q, NEW n, NEW c, Grows(c), SoundFor(q, n, c), LedgerGoes(q, n)
  PROVE  LedgerSoundFor(c) /\ (AllCalm(q) => AllCalm(job'))
<1> USE DEF RunInv
<1>1. SoundFor(Swept, sweptActive, c) /\ AllCalm(Swept)
  BY SweptSound, Grown DEF Sound, SoundFor
<1>2. SoundFor(job, active, c) /\ AllCalm(job)
  <2>1. SoundFor(job, active, c) BY Grown DEF SoundFor, Shapes, Counted, Tallied
  <2> QED BY <2>1 DEF AllCalm, Calm
<1>3. SoundFor(job', active', c) /\ (AllCalm(q) => AllCalm(job'))
  BY <1>1, <1>2 DEF LedgerGoes
<1>4. disk' \in [Jobs -> Records] /\ Honest(disk', c)
  <2>1. CASE disk' = disk BY <2>1, Grown DEF Shapes
  <2>2. CASE disk' = Durable(Swept) BY <2>2, <1>1, DurableShape DEF SoundFor
  <2>3. CASE disk' = Durable(q) BY <2>3, DurableShape DEF SoundFor
  <2> QED BY <2>1, <2>2, <2>3 DEF LedgerGoes
<1>5. Tallied => Counted' BY <1>3 DEF SoundFor, Counted
<1> QED BY <1>3, <1>4, <1>5 DEF SoundFor, LedgerGoes, LedgerSoundFor

LEMMA Goes ==
  ASSUME RunInv, NEW q, NEW n, Sound(q, n), LedgerGoes(q, n)
  PROVE  LedgerSound /\ (AllCalm(q) => AllCalm(job'))
<1>1. Grows(consent) BY DEF Grows
<1> QED BY <1>1, GoesFor DEF Sound, LedgerSound

-----------------------------------------------------------------------------
(* The goroutines after a signal, and after the end of a run *)

Gang == [Workers -> Goroutines]

\* The goroutines are where bs has them, and none that had ended goes on.
Like(ws, bs) ==
  /\ bs \in Gang => ws \in Gang
  /\ bs \in Gang =>
       \A v \in Workers : /\ ws[v].pc = bs[v].pc
                          /\ ws[v].ended = FALSE => bs[v].ended = FALSE

LEMMA SignalLike == ASSUME NEW bs PROVE Like(Signal(bs), bs) /\ Like(bs, bs)
<1> SUFFICES ASSUME bs \in Gang PROVE Like(Signal(bs), bs) /\ Like(bs, bs)
  BY DEF Like
<1>1. ASSUME NEW v \in Workers
      PROVE  /\ Signal(bs)[v] \in Goroutines /\ Signal(bs)[v].pc = bs[v].pc
             /\ Signal(bs)[v].ended = bs[v].ended
  <2>1. bs[v] \in Goroutines BY DEF Gang
  <2>2. CASE bs[v].pc \in {"asked", "waiting"}
    BY <2>1, <2>2 DEF Signal, Goroutines
  <2>3. CASE bs[v].pc \notin {"asked", "waiting"} BY <2>1, <2>3 DEF Signal
  <2> QED BY <2>2, <2>3
<1>2. Signal(bs) \in Gang BY <1>1 DEF Signal, Gang
<1> QED BY <1>1, <1>2 DEF Like

LEMMA EndRunLike == ASSUME Shapes, NEW bs, NEW j \in Jobs PROVE Like(EndRun(j, bs), bs)
<1> SUFFICES ASSUME bs \in Gang PROVE Like(EndRun(j, bs), bs)
  BY DEF Like
<1>1. CASE j \in Remote /\ current[j] # NoRun
  <2>1. <<j, current[j]>> \in Workers BY <1>1 DEF Shapes, Workers
  <2>2. ASSUME NEW v \in Workers
        PROVE  /\ EndRun(j, bs)[v] \in Goroutines /\ EndRun(j, bs)[v].pc = bs[v].pc
               /\ EndRun(j, bs)[v].ended = FALSE => bs[v].ended = FALSE
    <3>1. bs[v] \in Goroutines BY DEF Gang
    <3> QED BY <1>1, <2>1, <3>1 DEF EndRun, Goroutines, Gang
  <2>3. EndRun(j, bs) \in Gang BY <1>1, <2>2 DEF EndRun, Gang
  <2> QED BY <2>2, <2>3 DEF Like
<1>2. CASE ~(j \in Remote /\ current[j] # NoRun) BY <1>2, SignalLike DEF EndRun
<1> QED BY <1>1, <1>2

LEMMA LikeChain == ASSUME NEW a, NEW b, NEW c, Like(a, b), Like(b, c) PROVE Like(a, c)
<1> SUFFICES ASSUME c \in Gang PROVE Like(a, c) BY DEF Like
<1>1. b \in Gang /\ a \in Gang BY DEF Like
<1>2. ASSUME NEW v \in Workers
      PROVE  a[v].pc = c[v].pc /\ (a[v].ended = FALSE => c[v].ended = FALSE)
  <2>1. a[v].pc = b[v].pc /\ (a[v].ended = FALSE => b[v].ended = FALSE)
    BY <1>1 DEF Like
  <2>2. b[v].pc = c[v].pc /\ (b[v].ended = FALSE => c[v].ended = FALSE)
    BY DEF Like
  <2> QED BY <2>1, <2>2
<1> QED BY <1>1, <1>2 DEF Like

-----------------------------------------------------------------------------
(* The requests that save, one form after the other *)

LEMMA DiskOf ==
  ASSUME Shapes, NEW base, NEW q, Saved(q) \/ NotSaved(base, q)
  PROVE  disk' \in {base, Durable(q)} /\ trouble' \in 0 .. scene.trouble
<1>1. trouble \in 0 .. scene.trouble /\ scene.trouble \in Nat
  BY LedgerAssumption DEF Shapes
<1> QED BY <1>1 DEF Saved, NotSaved

LEMMA TouchType == ASSUME Shapes, NEW S, Touch(S) PROVE silent' \in [Jobs -> BOOLEAN]
BY DEF Touch

LEMMA SweepFailsGoes ==
  ASSUME Shapes, NEW q, NEW n, NEW ws, SweepFails(ws)
  PROVE  LedgerGoes(q, n) /\ Like(worker', ws)
<1>1. disk' \in {disk, Durable(Swept)} /\ trouble' \in 0 .. scene.trouble
  BY DiskOf DEF SweepFails
<1>2. job' = job /\ active' = active /\ silent' \in [Jobs -> BOOLEAN] /\ worker' = Signal(ws)
  BY DEF SweepFails, Shapes
<1> QED BY <1>1, <1>2, SignalLike DEF LedgerGoes

LEMMA SignalIfLike == ASSUME NEW c, NEW ws PROVE Like(SignalIf(c, ws), ws)
<1>1. CASE c BY <1>1, SignalLike DEF SignalIf
<1>2. CASE ~c BY <1>2, SignalLike DEF SignalIf
<1> QED BY <1>1, <1>2

LEMMA SweepGoes ==
  ASSUME Shapes, NEW ws, SweepOnly(ws)
  PROVE  LedgerGoes(Swept, sweptActive) /\ Like(worker', ws)
<1>1. CASE SweepSaved(ws)
  <2>1. job' = Swept /\ active' = sweptActive /\ Touch({})
        /\ worker' = SignalIf(Stale # {}, ws)
    BY <1>1 DEF SweepSaved
  <2>2. disk' \in {disk, Durable(Swept)} /\ trouble' \in 0 .. scene.trouble
    <3>1. CASE Stale = {}
      <4>1. disk' = disk /\ trouble' = trouble BY <1>1, <3>1 DEF SweepSaved
      <4> QED BY <4>1 DEF Shapes
    <3>2. CASE Stale # {}
      <4>1. Saved(Swept) BY <1>1, <3>2 DEF SweepSaved
      <4> QED BY <4>1, DiskOf
    <3> QED BY <3>1, <3>2
  <2> QED BY <2>1, <2>2, TouchType, SignalIfLike DEF LedgerGoes
<1>2. CASE SweepFails(ws) BY <1>2, SweepFailsGoes
<1> QED BY <1>1, <1>2 DEF SweepOnly

LEMMA SaveFailsGoes ==
  ASSUME Shapes, NEW q, NEW n, NEW freed, NEW ws, SaveFails(q, freed, ws)
  PROVE  LedgerGoes(q, n) /\ Like(worker', ws)
<1>1. CASE SweepFails(ws) BY <1>1, SweepFailsGoes
<1>2. CASE ~SweepFails(ws)
  <2>1. /\ NotSaved(IF Stale = {} THEN disk ELSE Durable(Swept), q)
        /\ job' = Swept /\ active' = sweptActive /\ Touch({})
        /\ worker' = SignalIf(Stale # {} \/ freed, ws)
    BY <1>2 DEF SaveFails
  <2>2. disk' \in {disk, Durable(Swept), Durable(q)} /\ trouble' \in 0 .. scene.trouble
    <3>1. disk' \in {IF Stale = {} THEN disk ELSE Durable(Swept), Durable(q)}
          /\ trouble' \in 0 .. scene.trouble
      BY <2>1, DiskOf
    <3> QED BY <3>1
  <2> QED BY <2>1, <2>2, TouchType, SignalIfLike DEF LedgerGoes
<1> QED BY <1>1, <1>2

\* An update: it is done, and the record is r, or it is not.
LEMMA UpdateGoes ==
  ASSUME Shapes, NEW j \in Jobs, NEW r, NEW n, NEW ok, NEW no, Update(j, r, n, ok, no)
  PROVE  /\ LedgerGoes([Swept EXCEPT ![j] = r], n)
         /\ \/ job'[j] = r /\ job' = [Swept EXCEPT ![j] = r] /\ Like(worker', ok)
            \/ Like(worker', no)
<1> DEFINE q == [Swept EXCEPT ![j] = r]
           freed == n < sweptActive
           after == IF HasSlot(r) \/ r.status = "queued" THEN ok ELSE EndRun(j, ok)
<1>1. \/ /\ job' = q /\ active' = n /\ Touch({j}) /\ Saved(q)
         /\ worker' = SignalIf(Stale # {} \/ freed, after)
      \/ SaveFails(q, freed, no)
  BY DEF Update
<1>2. q[j] = r
  <2>1. j \in DOMAIN Swept BY DEF Swept
  <2> QED BY <2>1
<1>3. Like(after, ok)
  <2>1. CASE HasSlot(r) \/ r.status = "queued" BY <2>1, SignalLike
  <2>2. CASE ~(HasSlot(r) \/ r.status = "queued") BY <2>2, EndRunLike
  <2> QED BY <2>1, <2>2
<1> HIDE DEF q, freed, after
<1>4. CASE SaveFails(q, freed, no) BY <1>4, SaveFailsGoes DEF q
<1>5. CASE /\ job' = q /\ active' = n /\ Touch({j}) /\ Saved(q)
           /\ worker' = SignalIf(Stale # {} \/ freed, after)
  <2>1. disk' = Durable(q) /\ trouble' \in 0 .. scene.trouble
    BY <1>5, DiskOf DEF Saved
  <2>2. LedgerGoes(q, n) BY <1>5, <2>1, TouchType DEF LedgerGoes
  <2>3. Like(worker', after) BY <1>5, SignalIfLike
  <2> QED BY <1>2, <1>3, <1>5, <2>2, <2>3, LikeChain DEF q
<1> QED BY <1>1, <1>4, <1>5

LEMMA RewriteGoes ==
  ASSUME Shapes, NEW j \in Jobs, NEW r, NEW ok, NEW no, Rewrite(j, r, ok, no)
  PROVE  LET q == [job EXCEPT ![j] = r] IN
         /\ \/ job' = q /\ disk' = Durable(q) /\ worker' = ok
            \/ job' = job /\ disk' \in {disk, Durable(q)} /\ worker' = no
         /\ silent' \in [Jobs -> BOOLEAN] /\ trouble' \in 0 .. scene.trouble
<1> DEFINE q == [job EXCEPT ![j] = r]
<1>1. \/ /\ job' = q /\ Saved(q) /\ worker' = ok
         /\ silent' = [silent EXCEPT ![j] = FALSE]
      \/ NotSaved(disk, q) /\ worker' = no /\ job' = job /\ silent' = silent
  BY DEF Rewrite
<1>2. disk' \in {disk, Durable(q)} /\ trouble' \in 0 .. scene.trouble
  BY <1>1, DiskOf
<1>3. silent' \in [Jobs -> BOOLEAN] BY <1>1 DEF Shapes
<1> QED BY <1>1, <1>2, <1>3 DEF Saved

\* A save of q by a request that does not sweep, or that has nothing else to sweep.
LEMMA SaveGoes ==
  ASSUME Shapes, NEW q, UNCHANGED <<active, silent>>,
         (job' = q /\ Saved(q)) \/ (job' = job /\ NotSaved(disk, q))
  PROVE  LedgerGoes(q, active)
<1>1. disk' \in {disk, Durable(q)} /\ trouble' \in 0 .. scene.trouble BY DiskOf
<1> QED BY <1>1 DEF LedgerGoes, Shapes

LEMMA AloneGoes ==
  ASSUME Shapes, UNCHANGED <<job, active, silent, disk, trouble>>
  PROVE  LedgerGoes(job, active)
BY DEF LedgerGoes, Shapes

\* What one record that is put into the swept ledger, or into the ledger, owes.
LEMMA PutSoundFor ==
  ASSUME RunInv, NEW q, NEW m, Sound(q, m), AllCalm(q), NEW j \in Jobs, NEW r \in Records,
         NEW n \in Nat, NEW c, Grows(c),
         m = Cardinality(Slots(q)) =>
           \/ (HasSlot(r) <=> HasSlot(q[j])) /\ n = m
           \/ HasSlot(r) /\ ~HasSlot(q[j]) /\ n = m + 1
           \/ ~HasSlot(r) /\ HasSlot(q[j]) /\ n = Less(m, 1),
         j \in Moves => HonestRecord(r, c[j])
  PROVE  /\ SoundFor([q EXCEPT ![j] = r], n, c)
         /\ Calm(j, q[j], r) => AllCalm([q EXCEPT ![j] = r])
<1> DEFINE p == [q EXCEPT ![j] = r]
<1>1. q \in [Jobs -> Records] /\ m \in Nat BY DEF Sound, SoundFor
<1>2. p \in [Jobs -> Records] BY <1>1
<1>3. Tallied => n = Cardinality(Slots(p))
  <2> SUFFICES ASSUME Tallied PROVE n = Cardinality(Slots(p)) OBVIOUS
  <2>1. m = Cardinality(Slots(q)) BY DEF Sound, SoundFor
  <2>2. /\ (HasSlot(r) <=> HasSlot(q[j])) => Cardinality(Slots(p)) = m
        /\ HasSlot(r) /\ ~HasSlot(q[j]) => Cardinality(Slots(p)) = m + 1
        /\ ~HasSlot(r) /\ HasSlot(q[j]) => Cardinality(Slots(p)) = m - 1 /\ m > 0
    BY <1>1, <2>1, PutCount
  <2>3. m > 0 => Less(m, 1) = m - 1 BY <1>1, LessFacts
  <2> HIDE DEF p
  <2> QED BY <2>1, <2>2, <2>3
<1>4. Honest(p, c)
  <2> SUFFICES ASSUME NEW k \in Moves PROVE HonestRecord(p[k], c[k]) BY DEF Honest
  <2>1. HonestRecord(q[k], c[k]) /\ k \in Jobs
    <3>1. Honest(q, c) BY Grown DEF Sound, SoundFor
    <3> QED BY <3>1 DEF Honest, Jobs, Remote
  <2> QED BY <1>1, <2>1
<1>5. ASSUME Calm(j, q[j], r) PROVE AllCalm(p)
  <2> SUFFICES ASSUME NEW k \in Jobs PROVE Calm(k, job[k], p[k]) BY DEF AllCalm
  <2>1. Calm(k, job[k], q[k]) BY DEF AllCalm
  <2>2. CASE k = j BY <1>1, <1>5, <2>1, <2>2 DEF Calm
  <2>3. CASE k # j BY <1>1, <2>1, <2>3
  <2> QED BY <2>2, <2>3
<1> QED BY <1>2, <1>3, <1>4, <1>5 DEF Sound, SoundFor

LEMMA PutSound ==
  ASSUME RunInv, NEW q, NEW m, Sound(q, m), AllCalm(q), NEW j \in Jobs, NEW r \in Records,
         NEW n \in Nat,
         m = Cardinality(Slots(q)) =>
           \/ (HasSlot(r) <=> HasSlot(q[j])) /\ n = m
           \/ HasSlot(r) /\ ~HasSlot(q[j]) /\ n = m + 1
           \/ ~HasSlot(r) /\ HasSlot(q[j]) /\ n = Less(m, 1),
         j \in Moves => HonestRecord(r, consent[j])
  PROVE  /\ Sound([q EXCEPT ![j] = r], n)
         /\ Calm(j, q[j], r) => AllCalm([q EXCEPT ![j] = r])
<1>1. Grows(consent) BY DEF Grows
<1> QED BY <1>1, PutSoundFor DEF Sound

-----------------------------------------------------------------------------
(* The ordinary step: no record appears, disappears or is released from a cleanup, *)
(* no run begins, and none passes the mark.                                        *)

Rest ==
  /\ settings \in Settings /\ open \in BOOLEAN
  /\ current \in [Remote -> Runs \cup {NoRun}]
  /\ due \in [Remote -> {"no", "created", "resumed"}]
  /\ owner \in [Jobs -> Requesting \cup {"free", "removing", "removed", "unremoved"}]
  /\ evicting \in [Jobs -> [job : Jobs \cup {NoJob},
                            phase : {"no", "cleaning", "cleaned", "uncleaned", "again"}]]
  /\ replaced \in SUBSET Jobs
  /\ part \in [Jobs -> Parts]
  /\ effect \in [Moves -> BOOLEAN] /\ consent \in [Moves -> BOOLEAN]
  /\ scene \in Scenarios /\ requests \in 0 .. scene.requests
  /\ restarts \in 0 .. scene.restarts

GoesOn ==
  /\ worker' \in Gang
  /\ \A v \in Workers : worker'[v].ended = FALSE =>
       worker[v].ended = FALSE /\ current'[v[1]] = current[v[1]]

NotFurther ==
  \A v \in Workers :
    /\ worker'[v].pc \in PreMark => worker[v].pc \in PreMark
    /\ worker[v].pc = "marking" => worker'[v].pc # "operating"
    /\ worker'[v].pc = "copying" => worker[v].pc = "copying" \/ v[1] \notin Moves

\* The clean-ups that are under way are those that were.
Settled ==
  /\ \A j \in Jobs : owner'[j] \in Removing => owner[j] \in Removing
  /\ \A n \in Jobs :
       /\ Evicting(n)' => Evicting(n) /\ evicting'[n].job = evicting[n].job
       /\ evicting'[n].job = evicting[n].job
       /\ evicting'[n].phase \in Cleans <=> evicting[n].phase \in Cleans

Ordinary ==
  /\ LedgerSoundFor(consent') /\ AllCalm(job')
  /\ GoesOn /\ NotFurther
  /\ Rest' /\ scene' = scene /\ Settled /\ Grows(consent')

\* The goroutines with w at pc.
Near(ws, w, pc) ==
  /\ ws \in Gang
  /\ \A v \in Workers : /\ ws[v].ended = FALSE => worker[v].ended = FALSE
                        /\ ws[v].pc = IF v = w THEN pc ELSE worker[v].pc

PCs == Keeping \cup {"none", "asking", "asked", "waiting", "started", "ending", "cleaning",
                     "cleaned", "uncleaned", "finishing"}
Errors == {"none", "lost", "refused", "exists", "unsure"}

LEMMA MoveTo ==
  ASSUME Shapes, NEW w \in Workers, NEW pc \in PCs, NEW err \in Errors,
         NEW before \in BOOLEAN
  PROVE  /\ Near(To(w, pc), w, pc) /\ Near(Leave(w, pc), w, pc)
         /\ Near(Errs(w, err, before), w, "failing")
<1>1. worker \in Gang BY DEF Shapes, Gang
<1>2. worker[w] \in Goroutines BY <1>1 DEF Gang
<1>3. [worker[w] EXCEPT !.pc = pc] \in Goroutines
  BY <1>2 DEF Goroutines, PCs
<1>4. [Idle EXCEPT !.pc = pc, !.ended = worker[w].ended] \in Goroutines
      /\ [Idle EXCEPT !.pc = pc, !.ended = worker[w].ended].pc = pc
      /\ [Idle EXCEPT !.pc = pc, !.ended = worker[w].ended].ended = worker[w].ended
  BY <1>2 DEF Goroutines, PCs, Idle
<1>5. Near(To(w, pc), w, pc)
  <2>1. To(w, pc) = [worker EXCEPT ![w] = [worker[w] EXCEPT !.pc = pc]] BY DEF To
  <2> QED BY <1>1, <1>2, <1>3, <2>1 DEF Near, Gang, Goroutines
<1>6. Near(Leave(w, pc), w, pc)
  <2> DEFINE g == [Idle EXCEPT !.pc = pc, !.ended = worker[w].ended]
  <2>1. Leave(w, pc) = [worker EXCEPT ![w] = g] BY DEF Leave
  <2> HIDE DEF g
  <2> QED BY <1>1, <1>4, <2>1 DEF Near, Gang, g
<1>7. Near(Errs(w, err, before), w, "failing")
  <2> DEFINE g == [worker[w] EXCEPT !.pc = "failing", !.err = err, !.before = before]
  <2>1. g \in Goroutines /\ g.pc = "failing" /\ g.ended = worker[w].ended
    BY <1>2 DEF Goroutines, Keeping, Errors
  <2>2. Errs(w, err, before) = [worker EXCEPT ![w] = g]
    BY <1>1, <1>2 DEF Errs, Gang, Goroutines
  <2> HIDE DEF g
  <2> QED BY <1>1, <2>1, <2>2 DEF Near, Gang
<1> QED BY <1>5, <1>6, <1>7

LEMMA StayNear == ASSUME Shapes, NEW w \in Workers PROVE Near(worker, w, worker[w].pc)
BY DEF Near, Shapes, Gang

LEMMA LikeNear ==
  ASSUME NEW ws, NEW bs, NEW w, NEW pc, Like(ws, bs), Near(bs, w, pc)
  PROVE  Near(ws, w, pc)
<1>1. bs \in Gang /\ ws \in Gang BY DEF Like, Near
<1> QED BY <1>1 DEF Like, Near

LEMMA NearGoes ==
  ASSUME NEW w, NEW pc, Near(worker', w, pc), current' = current,
         pc \in PreMark => worker[w].pc \in PreMark,
         pc = "operating" => worker[w].pc # "marking", pc = "copying" => w[1] \notin Moves
  PROVE  GoesOn /\ NotFurther
BY DEF Near, GoesOn, NotFurther

LEMMA LikeGoes ==
  ASSUME Shapes, Like(worker', worker), current' = current
  PROVE  GoesOn /\ NotFurther
<1>1. worker \in Gang BY DEF Shapes, Gang
<1> QED BY <1>1 DEF Like, GoesOn, NotFurther, PreMark

LEMMA RestStays ==
  ASSUME Shapes,
         UNCHANGED <<settings, open, current, due, owner, evicting, replaced, part, effect,
                     consent, scene, requests, restarts>>
  PROVE  Rest' /\ Settled /\ Grows(consent')
<1>1. Rest' BY DEF Shapes, Rest
<1>2. Settled /\ Grows(consent') BY DEF Settled, Evicting, Grows
<1> QED BY <1>1, <1>2

-----------------------------------------------------------------------------
(* The steps of a goroutine that leave the ledger alone *)

LEMMA StillOrdinary ==
  ASSUME RunInv, NEW q, NEW n, Sound(q, n), AllCalm(q), LedgerGoes(q, n),
         UNCHANGED <<current, owner, part, effect, consent, still>>,
         GoesOn, NotFurther
  PROVE  Ordinary
<1>1. Shapes BY DEF RunInv
<1>2. Rest' /\ Settled /\ Grows(consent') BY <1>1, RestStays DEF still
<1>3. LedgerSound /\ AllCalm(job') BY Goes
<1> QED BY <1>2, <1>3 DEF Ordinary, still, LedgerSound

LEMMA SameSound == ASSUME RunInv PROVE Sound(job, active) /\ AllCalm(job)
BY DEF RunInv, Sound, SoundFor, Shapes, Counted, Tallied, AllCalm, Calm

LEMMA AloneOrdinary ==
  ASSUME RunInv, NEW w \in Workers, NEW ws, NEW pc, Alone(w, ws), Near(ws, w, pc),
         pc \in PreMark => worker[w].pc \in PreMark,
         pc = "operating" => worker[w].pc # "marking", pc = "copying" => w[1] \notin Moves
  PROVE  Ordinary
<1>1. Shapes BY DEF RunInv
<1>2. /\ UNCHANGED <<job, active, silent, disk, trouble>> /\ worker' = ws
      /\ UNCHANGED <<current, owner, part, effect, consent, still>>
  BY DEF Alone
<1>3. GoesOn /\ NotFurther BY <1>2, NearGoes
<1>4. LedgerGoes(job, active) BY <1>1, <1>2, AloneGoes
<1> QED BY <1>2, <1>3, <1>4, SameSound, StillOrdinary

LEMMA QuietSteps ==
  ASSUME RunInv, NEW w \in Workers,
         SlotWait(w) \/ Wake(w) \/ Keep(w) \/ CopyBegins(w) \/ Interrupted(w) \/ Ending(w)
  PROVE  Ordinary
<1>1. Shapes BY DEF RunInv
<1> USE DEF PCs, Keeping, Errors, PreMark
<1>2. CASE SlotWait(w)
  <2>1. CASE worker[w].ended
    <3>1. Alone(w, Leave(w, "ending")) BY <1>2, <2>1 DEF SlotWait
    <3>2. Near(Leave(w, "ending"), w, "ending") BY <1>1, MoveTo
    <3> QED BY <3>1, <3>2, AloneOrdinary
  <2>2. CASE ~worker[w].ended
    <3> DEFINE timer == \E j \in Jobs : job[j].status = "running" /\ ~InUse(j)
               ws == [worker EXCEPT ![w].pc = "asked", ![w].woken = FALSE,
                                    ![w].timer = timer]
               g == [worker[w] EXCEPT !.pc = "asked", !.woken = FALSE, !.timer = timer]
    <3>1. Alone(w, ws) BY <1>2, <2>2 DEF SlotWait
    <3>2. worker \in Gang /\ worker[w] \in Goroutines BY <1>1 DEF Shapes, Gang
    <3>3. timer \in BOOLEAN OBVIOUS
    <3> HIDE DEF timer
    <3>4. g \in Goroutines /\ g.pc = "asked" /\ g.ended = worker[w].ended
      BY <3>2, <3>3 DEF Goroutines
    <3>5. ws = [worker EXCEPT ![w] = g] BY <3>2 DEF Gang, Goroutines
    <3> HIDE DEF g, ws
    <3>6. Near(ws, w, "asked") BY <3>2, <3>4, <3>5 DEF Near, Gang
    <3> QED BY <3>1, <3>6, AloneOrdinary
  <2> QED BY <2>1, <2>2
<1>3. CASE Wake(w)
  <2>1. \E pc \in {"ending", "asking"} : Alone(w, Leave(w, pc)) BY <1>3 DEF Wake
  <2>2. PICK pc \in {"ending", "asking"} : Alone(w, Leave(w, pc)) BY <2>1
  <2>3. Near(Leave(w, pc), w, pc) BY <1>1, MoveTo
  <2> QED BY <2>2, <2>3, AloneOrdinary
<1>4. CASE Keep(w)
  <2>1. PICK pc \in {"ending", "planning"} : Alone(w, Leave(w, pc)) BY <1>4 DEF Keep
  <2>2. worker[w].pc = "started" BY <1>4 DEF Keep
  <2>3. Near(Leave(w, pc), w, pc) BY <1>1, MoveTo
  <2> QED BY <2>1, <2>2, <2>3, AloneOrdinary
<1>5. CASE CopyBegins(w)
  <2>1. Near(Errs(w, "refused", FALSE), w, "failing") /\ Near(To(w, "copying"), w, "copying")
    BY <1>1, MoveTo
  <2>2. CASE Alone(w, Errs(w, "refused", FALSE)) BY <2>1, <2>2, AloneOrdinary
  <2>0. w[1] \notin Moves BY <1>5, LedgerAssumption DEF CopyBegins, Recoverable
  <2>3. CASE Alone(w, To(w, "copying")) BY <2>0, <2>1, <2>3, AloneOrdinary
  <2> QED BY <1>5, <2>2, <2>3 DEF CopyBegins
<1>6. CASE Interrupted(w)
  <2>1. PICK pc \in {"interrupted", "reporting"} : Alone(w, To(w, pc))
    BY <1>6 DEF Interrupted
  <2>2. Near(To(w, pc), w, pc) BY <1>1, MoveTo
  <2> QED BY <2>1, <2>2, AloneOrdinary
<1>7. CASE Ending(w)
  <2>1. PICK pc \in {"cleaning", "finishing"} : Alone(w, To(w, pc))
    BY <1>7 DEF Ending
  <2>2. Near(To(w, pc), w, pc) BY <1>1, MoveTo
  <2> QED BY <2>1, <2>2, AloneOrdinary
<1> QED BY <1>2, <1>3, <1>4, <1>5, <1>6, <1>7

\* A step of the world outside, or of the run alone, that does not touch the ledger.
LEMMA OutsideOrdinary ==
  ASSUME RunInv, UNCHANGED <<ledgerVars, evicting, replaced, boundVars>>,
         Rest', \A j \in Jobs : owner'[j] \in Removing => owner[j] \in Removing,
         consent' = consent,
         GoesOn, NotFurther
  PROVE  Ordinary
<1>1. Shapes BY DEF RunInv
<1>2. LedgerGoes(job, active) BY <1>1, AloneGoes DEF ledgerVars, boundVars
<1>3. LedgerSound /\ AllCalm(job') BY <1>2, SameSound, Goes
<1>4. Settled /\ Grows(consent') BY DEF Settled, Evicting, Grows
<1> QED BY <1>3, <1>4 DEF Ordinary, boundVars, LedgerSound

LEMMA WorldSteps ==
  ASSUME RunInv, NEW w \in Workers,
         Operate(w) \/ Create(w) \/ Copy(w) \/ Clean(w, TRUE) \/ Clean(w, FALSE)
  PROVE  Ordinary
<1>1. Shapes BY DEF RunInv
<1> USE DEF PCs, Keeping, Errors, PreMark
<1>0. w[1] \in Remote /\ w[1] \in Jobs BY DEF Workers, Jobs
<1>2. CASE Operate(w)
  <2>1. CASE Alone(w, To(w, "done"))
    <3>1. Near(To(w, "done"), w, "done") BY <1>1, MoveTo
    <3> QED BY <2>1, <3>1, AloneOrdinary
  <2>2. ASSUME NEW err \in {"lost", "refused", "exists", "unsure"},
               Alone(w, Errs(w, err, FALSE))
        PROVE Ordinary
    <3>1. Near(Errs(w, err, FALSE), w, "failing") BY <1>1, MoveTo
    <3> QED BY <2>2, <3>1, AloneOrdinary
  <2>3. CASE /\ w[1] \in Moves /\ effect' = [effect EXCEPT ![w[1]] = TRUE]
             /\ UNCHANGED <<ledgerVars, actorVars, part, consent, boundVars>>
    <3>1. Rest' BY <1>1, <2>3 DEF Shapes, Rest, ledgerVars, actorVars, boundVars
    <3>2. GoesOn /\ NotFurther
      <4>1. worker' = worker /\ current' = current BY <2>3 DEF actorVars
      <4> QED BY <4>1, <1>1 DEF GoesOn, NotFurther, Shapes, Gang
    <3> QED BY <2>3, <3>1, <3>2, OutsideOrdinary DEF actorVars
  <2> QED BY <1>2, <2>1, <2>2, <2>3 DEF Operate
<1>3. CASE Create(w) \/ Copy(w)
  <2>1. /\ worker[w].pc \in {"creating", "publishing"}
        /\ UNCHANGED <<ledgerVars, current, due, owner, evicting, replaced, effect, consent,
                       boundVars>>
        /\ part' \in [Jobs -> Parts]
        /\ \/ \E pc \in {"publishing", "done"} : worker' = To(w, pc)
           \/ \E err \in {"lost", "refused", "exists", "unsure"} : worker' = Errs(w, err, FALSE)
    <3>1. CASE Create(w) BY <1>0, <1>1, <3>1 DEF Create, OnHost, Shapes, Parts
    <3>2. CASE Copy(w) BY <1>0, <1>1, <3>2 DEF Copy, OnHost, Shapes, Parts
    <3> QED BY <1>3, <3>1, <3>2
  <2>2. GoesOn /\ NotFurther
    <3>1. ASSUME NEW pc \in {"publishing", "done"}, worker' = To(w, pc)
          PROVE  GoesOn /\ NotFurther
      <4>1. Near(worker', w, pc) BY <1>1, <3>1, MoveTo
      <4> QED BY <2>1, <4>1, NearGoes
    <3>2. ASSUME NEW err \in {"lost", "refused", "exists", "unsure"},
                 worker' = Errs(w, err, FALSE)
          PROVE GoesOn /\ NotFurther
      <4>1. Near(worker', w, "failing") BY <1>1, <3>2, MoveTo
      <4> QED BY <2>1, <4>1, NearGoes
    <3> QED BY <2>1, <3>1, <3>2
  <2>3. Rest' BY <1>1, <2>1 DEF Shapes, Rest, ledgerVars, boundVars
  <2> QED BY <2>1, <2>2, <2>3, OutsideOrdinary
<1>4. ASSUME NEW ok \in BOOLEAN, Clean(w, ok) PROVE Ordinary
  <2>1. /\ UNCHANGED <<ledgerVars, current, due, owner, evicting, replaced, effect, consent,
                       boundVars>>
        /\ part' \in [Jobs -> Parts]
        /\ worker' = To(w, "cleaned") \/ worker' = To(w, "uncleaned")
    BY <1>0, <1>1, <1>4 DEF Clean, OnHost, Shapes, Parts
  <2>2. GoesOn /\ NotFurther
    <3>1. ASSUME NEW pc \in {"cleaned", "uncleaned"}, worker' = To(w, pc)
          PROVE GoesOn /\ NotFurther
      <4>1. Near(worker', w, pc) BY <1>1, <3>1, MoveTo
      <4> QED BY <2>1, <4>1, NearGoes
    <3> QED BY <2>1, <3>1
  <2>3. Rest' BY <1>1, <2>1 DEF Shapes, Rest, ledgerVars, boundVars
  <2> QED BY <2>1, <2>2, <2>3, OutsideOrdinary
<1> QED BY <1>2, <1>3, <1>4

LEMMA FinishStep == ASSUME RunInv, NEW w \in Workers, Finish(w) PROVE Ordinary
<1>1. Shapes /\ OneReporter BY DEF RunInv
<1>2. /\ worker' = [worker EXCEPT ![w] = Idle]
      /\ current' = [j \in Remote |-> IF <<j, current[j]>> = w THEN NoRun ELSE current[j]]
      /\ UNCHANGED <<ledgerVars, due, owner, evicting, replaced, worldVars, boundVars>>
  BY DEF Finish
<1>3. Idle \in Goroutines /\ Idle.ended = TRUE /\ Idle.pc = "none"
  BY DEF Idle, Goroutines
<1>4. worker' \in Gang BY <1>1, <1>2, <1>3 DEF Shapes, Gang
<1>5. ASSUME NEW v \in Workers
      PROVE  /\ worker'[v].pc \in PreMark => worker[v].pc \in PreMark
             /\ worker[v].pc = "marking" => worker'[v].pc # "operating"
             /\ worker'[v].pc = "copying" => worker[v].pc = "copying"
             /\ worker'[v].ended = FALSE =>
                  worker[v].ended = FALSE /\ current'[v[1]] = current[v[1]]
  <2>1. CASE v = w BY <1>1, <1>2, <1>3, <2>1 DEF Shapes, PreMark
  <2>2. CASE v # w
    <3>1. worker'[v] = worker[v] BY <1>1, <1>2, <2>2 DEF Shapes
    <3>2. v[1] \in Remote /\ v[2] \in Runs /\ v = <<v[1], v[2]>> BY DEF Workers
    <3>3. worker[v].ended = FALSE => current[v[1]] = v[2]
      BY <1>1, <3>2 DEF OneReporter
    <3>4. current'[v[1]] = IF <<v[1], current[v[1]]>> = w THEN NoRun ELSE current[v[1]]
      BY <1>2, <3>2
    <3>5. worker[v].ended = FALSE => current'[v[1]] = current[v[1]]
      BY <2>2, <3>2, <3>3, <3>4
    <3>6. "marking" # "operating" OBVIOUS
    <3> QED BY <3>1, <3>5, <3>6
  <2> QED BY <2>1, <2>2
<1>6. GoesOn /\ NotFurther BY <1>4, <1>5 DEF GoesOn, NotFurther
<1>7. Rest' BY <1>1, <1>2 DEF Shapes, Rest, ledgerVars, worldVars, boundVars
<1> QED BY <1>2, <1>6, <1>7, OutsideOrdinary DEF worldVars

-----------------------------------------------------------------------------
(* The reports of a goroutine *)

\* Record r for job j, with n slots taken, follows the swept ledger.
OwedFor(j, r, n, c) ==
  /\ r \in Records /\ n \in Nat
  /\ \/ (HasSlot(r) <=> HasSlot(Swept[j])) /\ n = sweptActive
     \/ HasSlot(r) /\ ~HasSlot(Swept[j]) /\ n = sweptActive + 1
     \/ ~HasSlot(r) /\ HasSlot(Swept[j]) /\ n = Less(sweptActive, 1)
  /\ j \in Moves => HonestRecord(r, c[j])
Owed(j, r, n) == OwedFor(j, r, n, consent)

LEMMA UpdateSoundFor ==
  ASSUME RunInv, NEW j \in Jobs, NEW r, NEW n, NEW ok, NEW no, NEW c, Grows(c),
         OwedFor(j, r, n, c), Update(j, r, n, ok, no)
  PROVE  /\ LedgerSoundFor(c) /\ (Calm(j, Swept[j], r) => AllCalm(job'))
         /\ \/ Like(worker', ok) /\ job'[j] = r /\ job' = [Swept EXCEPT ![j] = r]
            \/ Like(worker', no)
<1>1. Shapes BY DEF RunInv
<1>2. Sound(Swept, sweptActive) /\ AllCalm(Swept) BY SweptSound
<1>3. SoundFor([Swept EXCEPT ![j] = r], n, c)
      /\ (Calm(j, Swept[j], r) => AllCalm([Swept EXCEPT ![j] = r]))
  BY <1>2, PutSoundFor DEF OwedFor
<1>4. /\ LedgerGoes([Swept EXCEPT ![j] = r], n)
      /\ \/ job'[j] = r /\ job' = [Swept EXCEPT ![j] = r] /\ Like(worker', ok)
         \/ Like(worker', no)
  BY <1>1, UpdateGoes
<1>5. LedgerSoundFor(c) /\ (AllCalm([Swept EXCEPT ![j] = r]) => AllCalm(job'))
  BY <1>3, <1>4, GoesFor
<1> QED BY <1>3, <1>4, <1>5

LEMMA UpdateSound ==
  ASSUME RunInv, NEW j \in Jobs, NEW r, NEW n, NEW ok, NEW no,
         Owed(j, r, n), Update(j, r, n, ok, no)
  PROVE  /\ LedgerSound /\ (Calm(j, Swept[j], r) => AllCalm(job'))
         /\ \/ Like(worker', ok) /\ job'[j] = r /\ job' = [Swept EXCEPT ![j] = r]
            \/ Like(worker', no)
<1>1. Grows(consent) BY DEF Grows
<1> QED BY <1>1, UpdateSoundFor DEF Owed, LedgerSound

LEMMA SweepSound ==
  ASSUME RunInv, NEW ws, SweepOnly(ws)
  PROVE  LedgerSound /\ AllCalm(job') /\ Like(worker', ws)
<1>1. Shapes BY DEF RunInv
<1>2. Sound(Swept, sweptActive) /\ AllCalm(Swept) BY SweptSound
<1> QED BY <1>1, <1>2, SweepGoes, Goes

LEMMA AloneSound ==
  ASSUME RunInv, UNCHANGED <<job, active, silent, disk, trouble>>
  PROVE  LedgerSound /\ AllCalm(job')
<1>1. Shapes BY DEF RunInv
<1>2. LedgerGoes(job, active) BY <1>1, AloneGoes
<1> QED BY <1>2, SameSound, Goes

LEMMA ReportSound ==
  ASSUME RunInv, NEW w \in Workers, NEW can, NEW r, NEW n, NEW ok, NEW no,
         Report(w, can, r, n, ok, no),
         Open(w[1]) /\ worker[w].ended = FALSE /\ can => Owed(w[1], r, n)
  PROVE  /\ LedgerSound
         /\ (Open(w[1]) /\ can => Calm(w[1], Swept[w[1]], r)) => AllCalm(job')
         /\ \/ /\ Open(w[1]) /\ worker[w].ended = FALSE /\ can /\ job'[w[1]] = r
               /\ Like(worker', ok) /\ job' = [Swept EXCEPT ![w[1]] = r]
            \/ Like(worker', no)
<1>1. w[1] \in Jobs BY DEF Workers, Jobs
<1>2. worker[w].ended \in BOOLEAN BY DEF RunInv, Shapes, Goroutines
<1>3. CASE worker' = no /\ UNCHANGED <<job, active, silent, disk, trouble>>
  BY <1>3, AloneSound, SignalLike
<1>4. CASE SweepOnly(no) BY <1>4, SweepSound
<1>5. CASE Open(w[1]) /\ ~worker[w].ended /\ can /\ Update(w[1], r, n, ok, no)
  <2>1. worker[w].ended = FALSE BY <1>2, <1>5
  <2> QED BY <1>1, <1>5, <2>1, UpdateSound
<1> QED BY <1>3, <1>4, <1>5 DEF Report

\* The fields of a swept record, and what Becomes makes of it.
LEMMA SweptRecord ==
  ASSUME RunInv, NEW j \in Jobs, NEW status \in Statuses,
         NEW problem \in {"none", "uncertain", "cleanup", "other"}
  PROVE  /\ Swept[j] \in Records
         /\ Becomes(Swept[j], status, problem) \in Records
         /\ Becomes(Swept[j], status, problem).status = status
         /\ Becomes(Swept[j], status, problem).problem = problem
         /\ Becomes(Swept[j], status, problem).cleaning = Swept[j].cleaning
         /\ Becomes(Swept[j], status, problem).held = Swept[j].held
         /\ j \in Moves => HonestRecord(Swept[j], consent[j])
         /\ HasSlot(Swept[j]) <=> Swept[j].status = "running" \/ Swept[j].status = "reconnecting"
<1>1. Swept[j] \in Records BY SweptShape DEF RunInv
<1>2. j \in Moves => HonestRecord(Swept[j], consent[j]) BY SweptSound DEF Sound, SoundFor, Honest
<1> QED BY <1>1, <1>2 DEF Becomes, Records, HasSlot

\* An open record that leaves its slot.
LEMMA LeavesSlot ==
  ASSUME RunInv, NEW j \in Jobs, NEW r \in Records, ~HasSlot(r), r.status # "queued",
         j \in Moves => r.held = Swept[j].held
  PROVE  Owed(j, r, Released(sweptActive, Swept[j]))
<1>1. sweptActive \in Nat BY SweptCount DEF RunInv
<1>2. Less(sweptActive, 1) \in Nat BY <1>1, LessFacts
<1>3. j \in Moves => HonestRecord(r, consent[j])
  <2>1. j \in Moves => HonestRecord(Swept[j], consent[j])
    BY SweptSound DEF Sound, SoundFor, Honest
  <2> QED BY <2>1 DEF HonestRecord, HasSlot
<1> QED BY <1>1, <1>2, <1>3 DEF Owed, OwedFor, Released

\* An open record is not being cleaned up: it may become any record of that job that is
\* not newly marked.
LEMMA OpenCalm ==
  ASSUME RunInv, NEW j \in Jobs, NEW r, Present(Swept, j), ~Swept[j].cleaning,
         j \in Moves => ~(r.status = "running" /\ r.problem = "uncertain")
  PROVE  Calm(j, Swept[j], r)
<1>1. ~Marked(Swept[j])
  <2>1. Swept[j] \in Records BY SweptShape DEF RunInv
  <2> QED BY <2>1 DEF Marked, Records
<1> QED BY <1>1 DEF Calm, Present

-----------------------------------------------------------------------------
(* The steps of a goroutine that report *)

\* A report that moves w to pc when it is accepted and to bad when it is not.
LEMMA ReportOrdinary ==
  ASSUME RunInv, NEW w \in Workers, NEW can, NEW r, NEW n, NEW ok, NEW no,
         NEW pc, NEW bad,
         Report(w, can, r, n, ok, no), UNCHANGED <<current, owner, worldVars, still>>,
         Near(ok, w, pc), Near(no, w, bad),
         bad \notin {"started", "planning", "marking", "operating", "copying"},
         Open(w[1]) /\ worker[w].ended = FALSE /\ can => Owed(w[1], r, n),
         Open(w[1]) /\ can => Calm(w[1], Swept[w[1]], r),
         pc \in PreMark => worker[w].pc \in PreMark, pc # "operating", pc # "copying"
  PROVE  Ordinary
<1>1. Shapes BY DEF RunInv
<1>2. LedgerSound /\ AllCalm(job') /\ (Like(worker', ok) \/ Like(worker', no))
  BY ReportSound
<1>3. Near(worker', w, pc) \/ Near(worker', w, bad) BY <1>2, LikeNear
<1>4. GoesOn /\ NotFurther
  <2>1. CASE Near(worker', w, pc) BY <2>1, NearGoes
  <2>2. CASE Near(worker', w, bad) BY <2>2, NearGoes DEF PreMark
  <2> QED BY <1>3, <2>1, <2>2
<1>5. Rest' /\ Settled /\ Grows(consent') BY <1>1, RestStays DEF still, worldVars
<1> QED BY <1>2, <1>4, <1>5 DEF Ordinary, still, worldVars, LedgerSound

LEMMA ReportSteps ==
  ASSUME RunInv, NEW w \in Workers,
         Plan(w) \/ Complete(w) \/ Reconnect(w) \/ Fail(w)
  PROVE  Ordinary
<1>1. Shapes BY DEF RunInv
<1>0. w[1] \in Remote /\ w[1] \in Jobs /\ (w[1] \in Copies => w[1] \notin Moves)
  BY LedgerAssumption DEF Workers, Jobs
<1> DEFINE j == w[1]
           r == Swept[j]
<1> USE DEF PCs, Keeping, Errors
<1>r. r \in Records /\ (j \in Moves => HonestRecord(r, consent[j]))
      /\ (HasSlot(r) <=> r.status = "running" \/ r.status = "reconnecting")
  BY <1>0, SweptRecord DEF Statuses
<1>s. sweptActive \in Nat BY <1>1, SweptCount
<1>2. CASE Plan(w)
  <2>1. ASSUME NEW err \in {"lost", "refused"}, Alone(w, Errs(w, err, TRUE))
        PROVE  Ordinary
    <3>1. Near(Errs(w, err, TRUE), w, "failing") BY <1>1, MoveTo
    <3> QED BY <2>1, <3>1, AloneOrdinary DEF PreMark
  <2>0. worker[w].pc = "planning" BY <1>2 DEF Plan
  <2>2. CASE Alone(w, To(w, "marking"))
    <3>1. Near(To(w, "marking"), w, "marking") BY <1>1, MoveTo
    <3> QED BY <2>0, <2>2, <3>1, AloneOrdinary DEF PreMark
  <2>3. CASE /\ Report(w, r.status = "running", r, sweptActive, To(w, "marking"),
                       Errs(w, "refused", TRUE))
             /\ UNCHANGED <<current, owner, worldVars, still>>
    <3>1. Near(To(w, "marking"), w, "marking")
          /\ Near(Errs(w, "refused", TRUE), w, "failing")
      BY <1>1, MoveTo
    <3>2. Owed(j, r, sweptActive) BY <1>r, <1>s DEF Owed, OwedFor
    <3>3. Calm(j, r, r) BY DEF Calm
    <3> QED BY <2>0, <2>3, <3>1, <3>2, <3>3, ReportOrdinary DEF PreMark
  <2> QED BY <1>2, <2>1, <2>2, <2>3 DEF Plan
<1>3. CASE Complete(w)
  <2> DEFINE s == Becomes(r, "completed", "none")
  <2>1. s \in Records /\ s.status = "completed" /\ s.held = r.held BY <1>0, SweptRecord DEF Statuses
  <2>2. /\ Report(w, r.status = "running", s, Released(sweptActive, r), Leave(w, "ending"),
                  To(w, "unrecorded"))
        /\ UNCHANGED <<current, owner, worldVars, still>>
    BY <1>3 DEF Complete
  <2>3. Near(Leave(w, "ending"), w, "ending") /\ Near(To(w, "unrecorded"), w, "unrecorded")
    BY <1>1, MoveTo
  <2> HIDE DEF s
  <2>4. Owed(j, s, Released(sweptActive, r)) BY <1>0, <2>1, LeavesSlot DEF HasSlot
  <2>5. Open(j) => Calm(j, r, s) BY <1>0, <2>1, OpenCalm DEF Open
  <2> QED BY <2>2, <2>3, <2>4, <2>5, ReportOrdinary DEF PreMark
<1>4. CASE Reconnect(w)
  <2> DEFINE s == Reconnecting(r)
  <2>1. s \in Records /\ s.status = "reconnecting"
    <3>1. Becomes(r, "reconnecting", "other") \in Records
          /\ Becomes(r, "reconnecting", "other").status = "reconnecting"
      BY <1>0, SweptRecord DEF Statuses
    <3> HIDE DEF r
    <3> QED BY <3>1 DEF Reconnecting, Records
  <2>2. /\ Report(w, CanReconnect(r), s, sweptActive, To(w, "backoff"), GivesUp(w))
        /\ UNCHANGED <<current, owner, worldVars, still>> /\ j \in Copies
    BY <1>4 DEF Reconnect, Reconnects
  <2>3. Near(To(w, "backoff"), w, "backoff") BY <1>1, MoveTo
  <2>4. Near(GivesUp(w), w, "reporting")
    <3>1. worker \in Gang /\ worker[w] \in Goroutines BY <1>1 DEF Shapes, Gang
    <3> DEFINE g == [worker[w] EXCEPT !.pc = "reporting", !.err = "refused"]
    <3>2. g \in Goroutines /\ g.pc = "reporting" /\ g.ended = worker[w].ended
      BY <3>1 DEF Goroutines
    <3>3. GivesUp(w) = [worker EXCEPT ![w] = g] BY <3>1 DEF GivesUp, Gang, Goroutines
    <3> HIDE DEF g
    <3> QED BY <3>1, <3>2, <3>3 DEF Near, Gang
  <2> HIDE DEF s
  <2>5. CanReconnect(r) => Owed(j, s, sweptActive)
    BY <1>0, <1>r, <1>s, <2>1, <2>2 DEF Owed, OwedFor, CanReconnect, HasSlot
  <2>6. Open(j) => Calm(j, r, s) BY <1>0, <2>1, OpenCalm DEF Open
  <2> QED BY <2>2, <2>3, <2>4, <2>5, <2>6, ReportOrdinary DEF PreMark
<1>5. CASE Fail(w)
  <2> DEFINE e == worker[w].err
             s == IF e = "exists" THEN Becomes(r, "needs_overwrite", "other")
                  ELSE Becomes(r, "failed", IF e = "unsure" THEN "uncertain" ELSE "other")
             bad == IF worker[w].before THEN "ending" ELSE "unrecorded"
  <2>1. s \in Records /\ s.status \in {"needs_overwrite", "failed"} /\ s.held = r.held
    BY <1>0, SweptRecord DEF Statuses
  <2>2. /\ Report(w, CanFail(r), s, Released(sweptActive, r), Leave(w, "ending"),
                  Leave(w, bad))
        /\ UNCHANGED <<current, owner, worldVars, still>>
    BY <1>5 DEF Fail
  <2>b. bad \in {"ending", "unrecorded"} OBVIOUS
  <2> HIDE DEF s, bad
  <2>3. Near(Leave(w, "ending"), w, "ending") /\ Near(Leave(w, bad), w, bad)
    BY <1>1, <2>b, MoveTo
  <2>4. Owed(j, s, Released(sweptActive, r)) BY <1>0, <2>1, LeavesSlot DEF HasSlot
  <2>5. Open(j) => Calm(j, r, s) BY <1>0, <2>1, OpenCalm DEF Open
  <2> QED BY <2>2, <2>3, <2>4, <2>5, <2>b, ReportOrdinary DEF PreMark
<1> QED BY <1>2, <1>3, <1>4, <1>5

\* An ordinary step of a goroutine that reports nothing, but saves.
LEMMA SavingOrdinary ==
  ASSUME RunInv, NEW w \in Workers, NEW q, NEW n, NEW pc,
         Sound(q, n), AllCalm(q), LedgerGoes(q, n), Near(worker', w, pc),
         UNCHANGED <<current, owner, part, effect, consent, still>>,
         pc \notin {"started", "planning", "marking", "operating", "copying"}
  PROVE  Ordinary
<1>1. GoesOn /\ NotFurther BY NearGoes DEF PreMark
<1> QED BY <1>1, StillOrdinary

\* A record of the ledger that changes neither its status nor its problem.
LEMMA FieldSound ==
  ASSUME RunInv, NEW j \in Jobs, NEW r \in Records, r.status = job[j].status,
         r.problem = job[j].problem \/ j \notin Moves \/ (~HasSlot(r) /\ r.status # "queued"),
         r.cleaning = job[j].cleaning, j \in Moves => r.held \in {FALSE, job[j].held}
  PROVE  Sound([job EXCEPT ![j] = r], active) /\ AllCalm([job EXCEPT ![j] = r])
<1>1. Sound(job, active) /\ AllCalm(job) BY SameSound
<1>2. job[j] \in Records /\ active \in Nat BY DEF RunInv, Shapes
<1>3. HasSlot(r) <=> HasSlot(job[j]) BY DEF HasSlot
<1>4. j \in Moves => HonestRecord(r, consent[j])
  <2>1. j \in Moves => HonestRecord(job[j], consent[j]) BY DEF RunInv, Honest
  <2> QED BY <2>1 DEF HonestRecord, HasSlot
<1>5. Calm(j, job[j], r)
  BY <1>2, <1>3 DEF Calm, Marked, HasSlot
<1> QED BY <1>1, <1>2, <1>3, <1>4, <1>5, PutSound

LEMMA SavingSteps ==
  ASSUME RunInv, NEW w \in Workers, Checkpoint(w) \/ Cleaned(w) \/ ClearPending(w)
  PROVE  Ordinary
<1>1. Shapes BY DEF RunInv
<1>0. w[1] \in Remote /\ w[1] \in Jobs BY DEF Workers, Jobs
<1> DEFINE j == w[1]
<1>r. job \in [Jobs -> Records] /\ job[j] \in Records BY <1>0, <1>1 DEF Shapes
<1> USE DEF PCs, Keeping, Errors
<1>2. CASE Checkpoint(w)
  <2>1. ASSUME NEW err \in {"lost", "refused", "exists"}, Alone(w, Errs(w, err, FALSE))
        PROVE  Ordinary
    <3>1. Near(Errs(w, err, FALSE), w, "failing") BY <1>1, MoveTo
    <3> QED BY <2>1, <3>1, AloneOrdinary DEF PreMark
  <2>2. CASE Alone(w, To(w, "creating"))
    <3>1. Near(To(w, "creating"), w, "creating") BY <1>1, MoveTo
    <3> QED BY <2>2, <3>1, AloneOrdinary DEF PreMark
  <2> DEFINE q == [job EXCEPT ![j].held = TRUE]
             r == [job[j] EXCEPT !.held = TRUE]
  <2>3. CASE /\ \/ Saved(q) /\ job' = q /\ worker' = To(w, "creating")
                \/ NotSaved(disk, q) /\ job' = job /\ worker' = Errs(w, "refused", FALSE)
             /\ UNCHANGED <<active, silent, current, owner, worldVars, still>>
    <3>1. q = [job EXCEPT ![j] = r] BY <1>0, <1>r
    <3>2. r \in Records /\ r.status = job[j].status /\ r.problem = job[j].problem
          /\ r.cleaning = job[j].cleaning
      BY <1>r DEF Records
    <3> HIDE DEF r
    <3>0. j \notin Moves
      <4>1. w[2] \in Runs /\ w = <<j, w[2]>> BY DEF Workers
      <4>2. worker[<<j, w[2]>>].pc = "copying" BY <1>2, <4>1 DEF Checkpoint
      <4> QED BY <4>1, <4>2 DEF RunInv, NothingHeld
    <3>3. Sound(q, active) /\ AllCalm(q) BY <1>0, <3>0, <3>1, <3>2, FieldSound
    <3> HIDE DEF q
    <3>4. LedgerGoes(q, active) BY <1>1, <2>3, SaveGoes
    <3>5. Near(worker', w, "creating") \/ Near(worker', w, "failing")
      BY <1>1, <2>3, MoveTo
    <3>6. UNCHANGED <<current, owner, part, effect, consent, still>>
      BY <2>3 DEF worldVars
    <3>7. CASE Near(worker', w, "creating") BY <3>3, <3>4, <3>6, <3>7, SavingOrdinary
    <3>8. CASE Near(worker', w, "failing") BY <3>3, <3>4, <3>6, <3>8, SavingOrdinary
    <3> QED BY <3>5, <3>7, <3>8
  <2> QED BY <1>2, <2>1, <2>2, <2>3 DEF Checkpoint
<1>3. CASE Cleaned(w)
  <2>1. CASE Alone(w, To(w, "finishing"))
    <3>1. Near(To(w, "finishing"), w, "finishing") BY <1>1, MoveTo
    <3> QED BY <2>1, <3>1, AloneOrdinary DEF PreMark
  <2> DEFINE r == IF worker[w].pc = "cleaned" THEN [job[j] EXCEPT !.held = FALSE]
                  ELSE [job[j] EXCEPT !.problem = "cleanup"]
             q == [job EXCEPT ![j] = r]
  <2>2. CASE /\ job[j].status = "cancelled"
             /\ \/ job' = q /\ Saved(q)
                \/ job' = job /\ NotSaved(disk, q)
             /\ worker' = To(w, "finishing")
             /\ UNCHANGED <<active, silent, current, owner, worldVars, still>>
    <3>1. r \in Records /\ r.status = job[j].status /\ r.cleaning = job[j].cleaning
          /\ r.held \in {FALSE, job[j].held}
      BY <1>r DEF Records
    <3>2. ~HasSlot(r) /\ r.status # "queued" BY <2>2, <3>1 DEF HasSlot
    <3> HIDE DEF r
    <3>3. Sound(q, active) /\ AllCalm(q) BY <1>0, <3>1, <3>2, FieldSound
    <3> HIDE DEF q
    <3>4. LedgerGoes(q, active) BY <1>1, <2>2, SaveGoes
    <3>5. Near(worker', w, "finishing") BY <1>1, <2>2, MoveTo
    <3>6. UNCHANGED <<current, owner, part, effect, consent, still>>
      BY <2>2 DEF worldVars
    <3> QED BY <3>3, <3>4, <3>5, <3>6, SavingOrdinary
  <2>3. CASE worker[w].pc = "cleaned"
    <3>1. q = [job EXCEPT ![j].held = FALSE] BY <1>0, <1>r, <2>3
    <3> QED BY <1>3, <2>1, <2>2, <2>3, <3>1 DEF Cleaned
  <2>4. CASE worker[w].pc # "cleaned"
    <3>1. q = [job EXCEPT ![j].problem = "cleanup"] BY <1>0, <1>r, <2>4
    <3> QED BY <1>3, <2>1, <2>2, <2>4, <3>1 DEF Cleaned
  <2> QED BY <2>3, <2>4
<1>4. CASE ClearPending(w)
  <2>1. Near(Leave(w, "ending"), w, "ending") BY <1>1, MoveTo
  <2>2. CASE Alone(w, Leave(w, "ending")) BY <2>1, <2>2, AloneOrdinary DEF PreMark
  <2> DEFINE r == [job[j] EXCEPT !.problem = "none"]
             q == [job EXCEPT ![j] = r]
  <2>3. CASE /\ job[j].status = "paused"
             /\ Rewrite(j, r, Leave(w, "ending"), Leave(w, "ending"))
             /\ UNCHANGED <<active, current, owner, worldVars, still>>
    <3>1. r \in Records /\ r.status = job[j].status /\ r.cleaning = job[j].cleaning
          /\ r.held \in {FALSE, job[j].held}
      BY <1>r DEF Records
    <3>2. ~HasSlot(r) /\ r.status # "queued" BY <2>3, <3>1 DEF HasSlot
    <3> HIDE DEF r
    <3>3. Sound(q, active) /\ AllCalm(q) BY <1>0, <3>1, <3>2, FieldSound
    <3>4. /\ job' = q \/ job' = job
          /\ disk' \in {disk, Durable(q)} /\ worker' = Leave(w, "ending")
          /\ silent' \in [Jobs -> BOOLEAN] /\ trouble' \in 0 .. scene.trouble
      BY <1>0, <1>1, <2>3, RewriteGoes
    <3> HIDE DEF q
    <3>5. LedgerGoes(q, active) BY <2>3, <3>4 DEF LedgerGoes
    <3>6. UNCHANGED <<current, owner, part, effect, consent, still>>
      BY <2>3 DEF worldVars
    <3> QED BY <2>1, <3>3, <3>4, <3>5, <3>6, SavingOrdinary
  <2> QED BY <1>4, <2>2, <2>3 DEF ClearPending
<1> QED BY <1>2, <1>3, <1>4

\* A mark in memory.
LEMMA ReconcileSound ==
  ASSUME RunInv, NEW j \in Jobs, NEW ended, NEW ws, Reconcile(j, ended, ws),
         UNCHANGED <<disk, trouble>>
  PROVE  LedgerSound /\ AllCalm(job') /\ Like(worker', ws)
<1>1. Shapes BY DEF RunInv
<1>2. CASE job[j].status # "running" \/ ended
  <2>1. worker' = ws /\ UNCHANGED <<job, active, silent, disk, trouble>>
    BY <1>2 DEF Reconcile
  <2> QED BY <2>1, AloneSound, SignalLike
<1>3. CASE ~(job[j].status # "running" \/ ended)
  <2> DEFINE r == Becomes(job[j], "reattach", "uncertain")
             q == [job EXCEPT ![j] = r]
             n == Released(active, job[j])
  <2>0. job[j] \in Records /\ active \in Nat BY <1>1 DEF Shapes
  <2>1. /\ job' = q /\ active' = n /\ silent' = [silent EXCEPT ![j] = FALSE]
        /\ worker' = SignalIf(active' < active, ws) /\ job[j].status = "running"
    BY <1>3 DEF Reconcile
  <2>2. r \in Records /\ r.status = "reattach" /\ r.held = job[j].held BY <2>0 DEF Becomes, Records, Statuses
  <2> HIDE DEF r
  <2>3. n = Less(active, 1) /\ n \in Nat BY <2>0, <2>1, LessFacts DEF Released, HasSlot
  <2>4. ~HasSlot(r) /\ HasSlot(job[j]) BY <2>1, <2>2 DEF HasSlot
  <2>5. j \in Moves => HonestRecord(r, consent[j])
    <3>1. j \in Moves => HonestRecord(job[j], consent[j]) BY DEF RunInv, Honest
    <3> QED BY <2>2, <3>1 DEF HonestRecord
  <2>6. Calm(j, job[j], r) BY <2>1, <2>2, <2>4 DEF Calm, Marked
  <2>7. Sound(q, n) /\ AllCalm(q) BY <2>2, <2>3, <2>4, <2>5, <2>6, SameSound, PutSound
  <2>8. silent' \in [Jobs -> BOOLEAN] BY <1>1, <2>1 DEF Shapes
  <2>9. LedgerGoes(q, n) BY <1>1, <2>1, <2>8 DEF LedgerGoes, Shapes
  <2> QED BY <2>1, <2>7, <2>9, Goes, SignalIfLike
<1> QED BY <1>2, <1>3

LEMMA UnrecordStep == ASSUME RunInv, NEW w \in Workers, Unrecord(w) PROVE Ordinary
<1>1. Shapes BY DEF RunInv
<1>2. w[1] \in Jobs BY DEF Workers, Jobs
<1>3. LedgerSound /\ AllCalm(job') /\ Like(worker', Leave(w, "ending"))
  BY <1>2, ReconcileSound DEF Unrecord
<1>4. Near(Leave(w, "ending"), w, "ending") BY <1>1, MoveTo DEF PCs, Errors
<1>5. UNCHANGED <<current, owner, worldVars, still>> BY DEF Unrecord
<1>6. GoesOn /\ NotFurther
  <2>1. Near(worker', w, "ending") BY <1>3, <1>4, LikeNear
  <2> QED BY <1>5, <2>1, NearGoes DEF PreMark
<1>7. Rest' /\ Settled /\ Grows(consent') BY <1>1, <1>5, RestStays DEF still, worldVars
<1> QED BY <1>3, <1>5, <1>6, <1>7 DEF Ordinary, still, worldVars, LedgerSound

-----------------------------------------------------------------------------
(* The requests of an upload *)

LEMMA WorkersAsTheyWere ==
  ASSUME Shapes, worker' = worker, current' = current PROVE GoesOn /\ NotFurther
<1>1. Like(worker', worker) BY SignalLike
<1> QED BY <1>1, LikeGoes

LEMMA OwnerOrdinary ==
  ASSUME RunInv, LedgerSound, AllCalm(job'), GoesOn, NotFurther, NEW j \in Jobs,
         NEW at \in Requesting \cup {"free"},
         owner' = [owner EXCEPT ![j] = at] \/ owner' = owner,
         UNCHANGED <<settings, open, current, due, evicting, replaced, effect, consent, scene,
                     restarts>>,
         part' \in [Jobs -> Parts], requests' \in 0 .. scene.requests
  PROVE  Ordinary
<1>1. Shapes BY DEF RunInv
<1>2. at \notin Removing BY DEF Requesting, Removing
<1>3. \A k \in Jobs : owner'[k] \in Removing => owner[k] \in Removing
  BY <1>1, <1>2 DEF Shapes
<1>4. owner' \in [Jobs -> Requesting \cup {"free", "removing", "removed", "unremoved"}]
  BY <1>1 DEF Shapes
<1>5. Rest' BY <1>1, <1>4 DEF Shapes, Rest
<1>6. Settled /\ Grows(consent') BY <1>3 DEF Settled, Evicting, Grows
<1> QED BY <1>5, <1>6 DEF Ordinary, LedgerSound

LEMMA UploadUpdateSound ==
  ASSUME RunInv, NEW j \in Jobs, j \notin Moves, NEW can, NEW r, UploadUpdate(j, can, r),
         can => /\ r \in Records /\ Present(Swept, j) /\ ~Swept[j].cleaning
                /\ r = Swept[j] \/ (~HasSlot(r) /\ r.status # "queued")
  PROVE  LedgerSound /\ AllCalm(job') /\ Like(worker', worker)
<1>1. Shapes BY DEF RunInv
<1>2. CASE ~can /\ SweepOnly(worker) BY <1>2, SweepSound
<1> DEFINE n == IF HasSlot(r) THEN sweptActive ELSE Released(sweptActive, Swept[j])
<1>3. CASE can /\ Update(j, r, n, worker, worker)
  <2>1. Owed(j, r, n)
    <3>1. CASE r = Swept[j]
      <4>1. sweptActive \in Nat BY <1>1, SweptCount
      <4>2. j \in Moves => HonestRecord(Swept[j], consent[j])
        BY SweptSound DEF Sound, SoundFor, Honest
      <4> QED BY <1>3, <3>1, <4>1, <4>2 DEF Owed, OwedFor, Released
    <3>2. CASE ~HasSlot(r) /\ r.status # "queued" BY <1>3, <3>2, LeavesSlot
    <3> QED BY <1>3, <3>1, <3>2
  <2>2. Calm(j, Swept[j], r)
    <3>1. CASE r = Swept[j] BY <3>1 DEF Calm
    <3>2. CASE ~HasSlot(r)
      <4>1. r.status # "running" BY <3>2 DEF HasSlot
      <4> QED BY <1>3, <4>1, OpenCalm
    <3> QED BY <1>3, <3>1, <3>2
  <2> QED BY <1>3, <2>1, <2>2, UpdateSound
<1> QED BY <1>2, <1>3 DEF UploadUpdate

LEMMA UploadSteps ==
  ASSUME RunInv, NEW j \in Uploads, UploadStep(j)
  PROVE  Ordinary
<1>1. Shapes BY DEF RunInv
<1>0. j \in Jobs /\ j \notin Moves BY LedgerAssumption DEF Jobs, Remote
<1>r. job[j] \in Records /\ requests \in 0 .. scene.requests BY <1>0, <1>1 DEF Shapes
<1>s. Swept[j] \in Records BY <1>0, <1>1, SweptShape
<1>2. CASE UploadBegins(j) \/ UploadWorks(j)
  <2>1. LedgerAlone /\ Quiet BY <1>2 DEF UploadBegins, UploadWorks
  <2>2. LedgerSound /\ AllCalm(job') BY <2>1, AloneSound DEF LedgerAlone
  <2>3. GoesOn /\ NotFurther BY <1>1, <2>1, WorkersAsTheyWere DEF Quiet
  <2>4. PICK at \in Requesting \cup {"free"} : OwnerAt(j, at)
    BY <1>2 DEF UploadBegins, UploadWorks, Requesting
  <2>5. part' \in [Jobs -> Parts] BY <1>1, <1>2 DEF UploadBegins, UploadWorks, Shapes, Parts
  <2> QED BY <1>0, <1>r, <2>1, <2>2, <2>3, <2>4, <2>5, OwnerOrdinary DEF OwnerAt, Quiet, still
<1>3. CASE UploadPrepared(j)
  <2>1. OwnerAt(j, "free") /\ UNCHANGED <<current, worldVars, still>>
    BY <1>3 DEF UploadPrepared
  <2>2. worker' = worker /\ LedgerSound /\ AllCalm(job')
    <3>1. CASE LedgerAlone /\ worker' = worker BY <3>1, AloneSound DEF LedgerAlone
    <3>2. CASE /\ Rewrite(j, [job[j] EXCEPT !.held = TRUE], worker, worker)
               /\ UNCHANGED active
      <4> DEFINE r == [job[j] EXCEPT !.held = TRUE]
                 q == [job EXCEPT ![j] = r]
      <4>1. r \in Records /\ r.status = job[j].status /\ r.cleaning = job[j].cleaning
            /\ r.problem = job[j].problem
        BY <1>r DEF Records
      <4>2. Rewrite(j, r, worker, worker) BY <3>2
      <4> HIDE DEF r
      <4>3. Sound(q, active) /\ AllCalm(q) BY <1>0, <4>1, FieldSound
      <4>4. /\ job' = q \/ job' = job
            /\ disk' \in {disk, Durable(q)} /\ worker' = worker
            /\ silent' \in [Jobs -> BOOLEAN] /\ trouble' \in 0 .. scene.trouble
        BY <1>0, <1>1, <4>2, RewriteGoes
      <4> HIDE DEF q
      <4>5. LedgerGoes(q, active) BY <3>2, <4>4 DEF LedgerGoes
      <4> QED BY <4>3, <4>4, <4>5, Goes
    <3> QED BY <1>3, <3>1, <3>2 DEF UploadPrepared
  <2>3. GoesOn /\ NotFurther BY <1>1, <2>1, <2>2, WorkersAsTheyWere
  <2> QED BY <1>0, <1>1, <1>r, <2>1, <2>2, <2>3, OwnerOrdinary
       DEF OwnerAt, still, worldVars, Shapes
<1>4. CASE UploadReports(j)
  <2> DEFINE r == Swept[j]
             at == owner[j]
             status == IF at = "appending" THEN r.status
                       ELSE IF at = "published" THEN "completed" ELSE "failed"
             next == IF at = "appending" THEN r
                     ELSE Becomes(r, status, IF at = "unsure" THEN "uncertain" ELSE "none")
             can == Open(j) /\ r.status = "running"
  <2>1. /\ UploadUpdate(j, can, next)
        /\ OwnerAt(j, IF at = "appending" \/ job'[j].status = status THEN "free"
                      ELSE "unrecorded")
        /\ UNCHANGED <<current, worldVars, still>>
    BY <1>4 DEF UploadReports
  <2>2. next \in Records /\ (next = r \/ (~HasSlot(next) /\ next.status # "queued"))
    <3>1. CASE at = "appending" BY <1>s, <3>1
    <3>2. CASE at = "published" BY <1>0, <3>2, SweptRecord DEF Statuses, HasSlot
    <3>3. CASE at # "appending" /\ at # "published"
      BY <1>0, <3>3, SweptRecord DEF Statuses, HasSlot
    <3> QED BY <3>1, <3>2, <3>3
  <2>3. can => Present(Swept, j) /\ ~Swept[j].cleaning BY DEF Open
  <2> HIDE DEF next, can
  <2>4. LedgerSound /\ AllCalm(job') /\ Like(worker', worker)
    BY <1>0, <2>1, <2>2, <2>3, UploadUpdateSound
  <2>5. GoesOn /\ NotFurther BY <1>1, <2>1, <2>4, LikeGoes
  <2>6. \E to \in {"free", "unrecorded"} : OwnerAt(j, to) BY <2>1
  <2> QED BY <1>0, <1>1, <1>r, <2>1, <2>4, <2>5, <2>6, OwnerOrdinary
       DEF OwnerAt, still, worldVars, Shapes, Requesting
<1>5. CASE UploadUnrecord(j)
  <2>1. OwnerAt(j, "free") /\ UNCHANGED <<current, worldVars, still>>
    BY <1>5 DEF UploadUnrecord
  <2>2. LedgerSound /\ AllCalm(job') /\ Like(worker', worker)
    BY <1>0, <1>5, ReconcileSound DEF UploadUnrecord
  <2>3. GoesOn /\ NotFurther BY <1>1, <2>1, <2>2, LikeGoes
  <2> QED BY <1>0, <1>1, <1>r, <2>1, <2>2, <2>3, OwnerOrdinary
       DEF OwnerAt, still, worldVars, Shapes
<1>c. Cancelled(Swept[j]) \in Records /\ Cancelled(Swept[j]).status = "cancelled"
  <2>1. Becomes(Swept[j], "cancelled", "none") \in Records
        /\ Becomes(Swept[j], "cancelled", "none").status = "cancelled"
    BY <1>0, SweptRecord DEF Statuses
  <2> QED BY <2>1 DEF Cancelled, Records
<1>d. ~HasSlot(Cancelled(Swept[j])) /\ Cancelled(Swept[j]).status # "queued"
  BY <1>c DEF HasSlot
<1>6. CASE CancelBegins(j)
  <2>1. /\ UNCHANGED <<settings, open, due, evicting, replaced, scene, restarts, current,
                       worldVars>>
        /\ requests < scene.requests /\ requests' = requests + 1
    BY <1>6 DEF CancelBegins, Asked
  <2>2. requests' \in 0 .. scene.requests BY <1>r, <2>1, LedgerAssumption, <1>1 DEF Shapes
  <2>3. CASE OwnerAt(j, "cancelling") /\ LedgerAlone /\ worker' = worker
    <3>1. LedgerSound /\ AllCalm(job') BY <2>3, AloneSound DEF LedgerAlone
    <3>2. GoesOn /\ NotFurther BY <1>1, <2>1, <2>3, WorkersAsTheyWere
    <3> QED BY <1>0, <1>1, <2>1, <2>2, <2>3, <3>1, <3>2, OwnerOrdinary
         DEF OwnerAt, worldVars, Shapes, Requesting
  <2>4. CASE /\ UploadUpdate(j, Present(Swept, j) /\ ~Swept[j].cleaning,
                             Cancelled(Swept[j]))
             /\ owner' = owner
    <3>1. LedgerSound /\ AllCalm(job') /\ Like(worker', worker)
      BY <1>0, <1>c, <1>d, <2>4, UploadUpdateSound
    <3>2. GoesOn /\ NotFurther BY <1>1, <2>1, <3>1, LikeGoes
    <3> QED BY <1>0, <1>1, <2>1, <2>2, <2>4, <3>1, <3>2, OwnerOrdinary
         DEF worldVars, Shapes, Requesting
  <2> QED BY <1>6, <2>3, <2>4 DEF CancelBegins
<1>7. ASSUME NEW ok \in BOOLEAN, CancelCleans(j, ok) PROVE Ordinary
  <2>1. LedgerAlone /\ Quiet BY <1>7 DEF CancelCleans
  <2>2. LedgerSound /\ AllCalm(job') BY <2>1, AloneSound DEF LedgerAlone
  <2>3. GoesOn /\ NotFurther BY <1>1, <2>1, WorkersAsTheyWere DEF Quiet
  <2>4. PICK at \in Requesting \cup {"free"} : OwnerAt(j, at)
    BY <1>7 DEF CancelCleans, Requesting
  <2>5. part' \in [Jobs -> Parts] BY <1>1, <1>7 DEF CancelCleans, Shapes, Parts
  <2> QED BY <1>0, <1>r, <2>1, <2>2, <2>3, <2>4, <2>5, OwnerOrdinary DEF OwnerAt, Quiet, still
<1>8. CASE CancelEnds(j)
  <2>1. OwnerAt(j, "free") /\ UNCHANGED <<current, worldVars, still>>
    BY <1>8 DEF CancelEnds
  <2>2. LedgerSound /\ AllCalm(job') /\ Like(worker', worker)
    <3>1. CASE UploadUpdate(j, Present(Swept, j) /\ ~Swept[j].cleaning /\ ~Terminal(Swept[j]),
                            Cancelled(Swept[j]))
      BY <1>0, <1>c, <1>d, <3>1, UploadUpdateSound
    <3> DEFINE r == Becomes(Swept[j], "failed", "cleanup")
    <3>2. CASE UploadUpdate(j, Open(j) /\ CanFail(Swept[j]), r)
      <4>1. r \in Records /\ r.status = "failed" BY <1>0, SweptRecord DEF Statuses
      <4> HIDE DEF r
      <4>2. ~HasSlot(r) /\ r.status # "queued" BY <4>1 DEF HasSlot
      <4>3. Open(j) => Present(Swept, j) /\ ~Swept[j].cleaning BY DEF Open
      <4> QED BY <1>0, <3>2, <4>1, <4>2, <4>3, UploadUpdateSound
    <3> QED BY <1>8, <3>1, <3>2 DEF CancelEnds
  <2>3. GoesOn /\ NotFurther BY <1>1, <2>1, <2>2, LikeGoes
  <2> QED BY <1>0, <1>1, <1>r, <2>1, <2>2, <2>3, OwnerOrdinary
       DEF OwnerAt, still, worldVars, Shapes
<1> QED BY <1>2, <1>3, <1>4, <1>5, <1>6, <1>7, <1>8 DEF UploadStep

-----------------------------------------------------------------------------
(* The requests that admit nothing and remove nothing *)

LEMMA LeavesSlotFor ==
  ASSUME RunInv, NEW j \in Jobs, NEW r \in Records, ~HasSlot(r), r.status # "queued", NEW c,
         j \in Moves => r.held = Swept[j].held
  PROVE  OwedFor(j, r, Released(sweptActive, Swept[j]), c)
<1>1. Owed(j, r, Released(sweptActive, Swept[j])) BY LeavesSlot
<1>2. j \in Moves => HonestRecord(r, c[j])
  <2>1. j \in Moves => HonestRecord(r, consent[j]) BY <1>1 DEF Owed, OwedFor
  <2> QED BY <2>1 DEF HonestRecord, HasSlot
<1> QED BY <1>1, <1>2 DEF Owed, OwedFor

LEMMA StartOwed ==
  ASSUME RunInv, NEW j \in Jobs, CanControl(Swept[j], "start"), NEW c, Grows(c)
  PROVE  LET r == Started(Swept[j]) IN
         /\ OwedFor(j, r, SlotsAfter(Swept[j], "start"), c)
         /\ r.status = "running" /\ (j \in Moves => r.problem # "uncertain")
<1> DEFINE s == Swept[j]
           r == Started(s)
<1>1. s \in Records /\ (j \in Moves => HonestRecord(s, consent[j]))
  BY SweptRecord DEF Statuses
<1>2. sweptActive \in Nat BY SweptCount DEF RunInv
<1>3. CASE s.status = "queued"
  <2>1. r = [s EXCEPT !.status = "running"] BY <1>3 DEF Started
  <2>2. r \in Records /\ r.status = "running" /\ r.problem = s.problem /\ r.held = s.held
    BY <1>1, <2>1 DEF Records, Statuses
  <2>3. SlotsAfter(s, "start") = sweptActive + 1 BY <1>3 DEF SlotsAfter
  <2>4. j \in Moves => consent[j] = TRUE /\ s.problem # "uncertain" /\ s.held = FALSE
    BY <1>1, <1>3 DEF HonestRecord
  <2>5. j \in Moves => HonestRecord(r, c[j])
    BY <2>2, <2>4 DEF HonestRecord, Grows
  <2>6. HasSlot(r) /\ ~HasSlot(s) BY <1>3, <2>2 DEF HasSlot
  <2> HIDE DEF s, r
  <2>7. OwedFor(j, r, SlotsAfter(s, "start"), c)
    BY <1>2, <2>2, <2>3, <2>5, <2>6 DEF OwedFor, s
  <2> QED BY <2>2, <2>4, <2>7 DEF r, s
<1>4. CASE s.status # "queued"
  <2>0. s.status = "reconnecting" BY <1>4 DEF CanControl, CanStart, CanRestart
  <2>1. r = Becomes(s, "running", "none") BY <1>4 DEF Started
  <2>2. r \in Records /\ r.status = "running" /\ r.problem = "none"
    BY <2>1, SweptRecord DEF Statuses
  <2>3. SlotsAfter(s, "start") = sweptActive BY <1>4 DEF SlotsAfter
  <2>4. j \notin Moves BY <1>1, <2>0 DEF HonestRecord
  <2>5. HasSlot(r) /\ HasSlot(s) BY <2>0, <2>2 DEF HasSlot
  <2> HIDE DEF s, r
  <2>6. OwedFor(j, r, SlotsAfter(s, "start"), c)
    BY <1>2, <2>2, <2>3, <2>4, <2>5 DEF OwedFor, s
  <2> QED BY <2>2, <2>6 DEF r, s
<1> QED BY <1>3, <1>4

LEMMA ControlOwed ==
  ASSUME RunInv, NEW j \in Jobs, NEW what \in ControlsOf(j), CanControl(Swept[j], what),
         Open(j), NEW c, Grows(c), what \in {"resume", "retry"} /\ j \in Moves => c[j] = TRUE
  PROVE  LET r == Controlled(Swept[j], what) IN
         OwedFor(j, r, SlotsAfter(Swept[j], what), c) /\ Calm(j, Swept[j], r)
<1> DEFINE s == Swept[j]
           r == Controlled(s, what)
<1>0. what \in Controls BY DEF ControlsOf, Controls
<1>1. s \in Records /\ (HasSlot(s) <=> s.status = "running" \/ s.status = "reconnecting")
  BY SweptRecord DEF Statuses
<1>2. sweptActive \in Nat BY SweptCount DEF RunInv
<1>3. Present(Swept, j) /\ ~s.cleaning BY DEF Open
<1>4. CASE what = "start"
  <2>1. r = Started(s) BY <1>4 DEF Controlled
  <2> QED BY <1>3, <1>4, <2>1, StartOwed, OpenCalm
<1>5. CASE what = "reconnect"
  <2>1. r = Reconnecting(s) BY <1>5 DEF Controlled
  <2>2. j \notin Moves
    BY <1>5, LedgerAssumption DEF ControlsOf, Remote
  <2>3. Becomes(s, "reconnecting", "other") \in Records
        /\ Becomes(s, "reconnecting", "other").status = "reconnecting"
    BY SweptRecord DEF Statuses
  <2>4. r \in Records /\ r.status = "reconnecting"
    <3> HIDE DEF s
    <3> QED BY <2>1, <2>3 DEF Reconnecting, Records
  <2>5. s.status = "running" BY <1>5 DEF CanControl, CanReconnect
  <2>6. HasSlot(r) /\ HasSlot(s) BY <2>4, <2>5 DEF HasSlot
  <2>7. SlotsAfter(s, what) = sweptActive BY <1>5 DEF SlotsAfter
  <2> HIDE DEF s, r
  <2>8. OwedFor(j, r, SlotsAfter(s, what), c)
    BY <1>2, <2>2, <2>4, <2>6, <2>7 DEF OwedFor, s
  <2>9. Calm(j, s, r) BY <1>3, <2>2, OpenCalm DEF s
  <2> QED BY <2>8, <2>9 DEF s, r
<1>6. CASE what \in {"resume", "retry"}
  <2>1. r = Requeued(s) BY <1>6 DEF Controlled
  <2>2. Becomes(s, "queued", "none") \in Records
        /\ Becomes(s, "queued", "none").status = "queued"
        /\ Becomes(s, "queued", "none").problem = "none"
        /\ Becomes(s, "queued", "none").held = s.held
    BY SweptRecord DEF Statuses
  <2>3. r \in Records /\ r.status = "queued" /\ r.problem = "none" /\ r.held = s.held
    <3> HIDE DEF s
    <3> QED BY <2>1, <2>2 DEF Requeued, Records
  <2>4. s.status \in {"paused", "reattach", "needs_overwrite", "failed"}
    BY <1>6 DEF CanControl, CanResume, CanRetry
  <2>5. ~HasSlot(r) /\ ~HasSlot(s) BY <2>3, <2>4 DEF HasSlot
  <2>6. SlotsAfter(s, what) = sweptActive BY <1>6 DEF SlotsAfter
  <2>7. j \in Moves => HonestRecord(r, c[j])
    <3>1. j \in Moves => HonestRecord(s, consent[j]) BY SweptRecord DEF Statuses
    <3> QED BY <1>6, <2>3, <3>1 DEF HonestRecord
  <2> HIDE DEF s, r
  <2>8. OwedFor(j, r, SlotsAfter(s, what), c)
    BY <1>2, <2>3, <2>5, <2>6, <2>7 DEF OwedFor, s
  <2>9. Calm(j, s, r) BY <1>3, <2>3, OpenCalm DEF s
  <2> QED BY <2>8, <2>9 DEF s, r
<1>7. CASE what \in {"pause", "cancel", "fail", "exists"}
  <2>1. r \in Records /\ r.status \in {"paused", "cancelled", "failed", "needs_overwrite"}
        /\ r.held = s.held
    <3>1. CASE what = "pause"
      <4>1. r = [s EXCEPT !.status = "paused"] BY <3>1 DEF Controlled
      <4> HIDE DEF s, r
      <4> QED BY <1>1, <4>1 DEF Records, Statuses
    <3>2. CASE what = "cancel"
      <4>1. r = Cancelled(s) BY <3>2 DEF Controlled
      <4>2. Becomes(s, "cancelled", "none") \in Records
            /\ Becomes(s, "cancelled", "none").status = "cancelled"
            /\ Becomes(s, "cancelled", "none").held = s.held
        BY SweptRecord DEF Statuses
      <4> HIDE DEF s, r
      <4> QED BY <4>1, <4>2 DEF Cancelled, Records
    <3>3. CASE what = "fail"
      <4>1. r = Becomes(s, "failed", "other") BY <3>3 DEF Controlled
      <4> QED BY <4>1, SweptRecord DEF Statuses
    <3>4. CASE what = "exists"
      <4>1. r = Becomes(s, "needs_overwrite", "other") BY <3>4 DEF Controlled
      <4> QED BY <4>1, SweptRecord DEF Statuses
    <3> QED BY <1>7, <3>1, <3>2, <3>3, <3>4
  <2>2. SlotsAfter(s, what) = Released(sweptActive, s) BY <1>7 DEF SlotsAfter
  <2>3. ~HasSlot(r) BY <2>1 DEF HasSlot
  <2> HIDE DEF s, r
  <2>4. OwedFor(j, r, SlotsAfter(s, what), c)
    BY <2>1, <2>2, <2>3, LeavesSlotFor DEF s
  <2>5. Calm(j, s, r) BY <1>3, <2>1, OpenCalm DEF s
  <2> QED BY <2>4, <2>5 DEF s, r
<1> QED BY <1>0, <1>4, <1>5, <1>6, <1>7 DEF Controls

LEMMA AskedBound == ASSUME Shapes, Asked PROVE requests' \in 0 .. scene.requests
<1>1. requests \in 0 .. scene.requests /\ scene.requests \in Nat
  BY LedgerAssumption DEF Shapes
<1> QED BY <1>1 DEF Asked

LEMMA ClientUpdateStep ==
  ASSUME RunInv, NEW j \in Jobs, NEW what \in Controls, ClientUpdate(j, what)
  PROVE  Ordinary
<1>1. Shapes BY DEF RunInv
<1> DEFINE r == Controlled(Swept[j], what)
           n == SlotsAfter(Swept[j], what)
<1>2. /\ Asked /\ what \in ControlsOf(j) /\ Open(j) /\ CanControl(Swept[j], what)
      /\ Update(j, r, n, worker, worker)
      /\ UNCHANGED <<settings, open, current, owner, evicting, replaced, part, effect,
                     scene, restarts>>
      /\ consent' = IF what \in {"resume", "retry"} THEN Consented(j) ELSE consent
      /\ due' = [due EXCEPT ![j] = "resumed"] \/ due' = due
  BY DEF ClientUpdate
<1>3. /\ consent' \in [Moves -> BOOLEAN] /\ Grows(consent')
      /\ what \in {"resume", "retry"} /\ j \in Moves => consent'[j] = TRUE
  <2>1. CASE what \in {"resume", "retry"}
    <3>1. consent' = [k \in Moves |-> consent[k] \/ k = j] BY <1>2, <2>1 DEF Consented
    <3> QED BY <1>1, <2>1, <3>1 DEF Grows, Shapes
  <2>2. CASE what \notin {"resume", "retry"} BY <1>1, <1>2, <2>2 DEF Grows, Shapes
  <2> QED BY <2>1, <2>2
<1>4. OwedFor(j, r, n, consent') /\ Calm(j, Swept[j], r) BY <1>2, <1>3, ControlOwed
<1> HIDE DEF r, n
<1>5. LedgerSoundFor(consent') /\ AllCalm(job') /\ Like(worker', worker)
  BY <1>2, <1>3, <1>4, UpdateSoundFor
<1>6. GoesOn /\ NotFurther BY <1>1, <1>2, <1>5, LikeGoes
<1>7. due' \in [Remote -> {"no", "created", "resumed"}] BY <1>1, <1>2 DEF Shapes
<1>8. requests' \in 0 .. scene.requests BY <1>1, <1>2, AskedBound
<1>9. Rest' BY <1>1, <1>2, <1>3, <1>7, <1>8 DEF Shapes, Rest
<1>10. Settled /\ Grows(consent') BY <1>2, <1>3 DEF Settled, Evicting
<1> QED BY <1>2, <1>5, <1>6, <1>9, <1>10 DEF Ordinary

LEMMA RequestOrdinary ==
  ASSUME RunInv, LedgerSound, AllCalm(job'), Like(worker', worker), Rest',
         UNCHANGED <<current, replaced, consent, scene>>,
         \A k \in Jobs : owner'[k] \in Removing => owner[k] \in Removing,
         \A k \in Jobs : /\ evicting'[k].job = evicting[k].job
                         /\ evicting'[k].phase \in Cleans <=> evicting[k].phase \in Cleans
  PROVE  Ordinary
<1>1. Shapes BY DEF RunInv
<1>2. GoesOn /\ NotFurther BY <1>1, LikeGoes
<1>3. Settled /\ Grows(consent') BY DEF Settled, Evicting, Grows
<1> QED BY <1>2, <1>3 DEF Ordinary, LedgerSound

LEMMA PlainRequests ==
  ASSUME RunInv,
         \/ List \/ Close
         \/ \E j \in Jobs : Silence(j) \/ Resend(j)
         \/ \E new \in Settings : Set(new)
  PROVE  Ordinary
<1>1. Shapes BY DEF RunInv
<1>2. CASE List
  <2>1. SweepOnly(worker)
        /\ UNCHANGED <<settings, open, current, due, owner, evicting, replaced, worldVars,
                       scene, requests, restarts>>
    BY <1>2 DEF List
  <2>2. Rest' BY <1>1, <2>1 DEF Shapes, Rest, worldVars
  <2> QED BY <2>1, <2>2, SweepSound, RequestOrdinary DEF worldVars
<1>3. CASE Close
  <2>1. /\ open' = FALSE
        /\ worker' = [w \in Workers |-> IF current[w[1]] = w[2]
                                        THEN [worker[w] EXCEPT !.ended = TRUE] ELSE worker[w]]
        /\ UNCHANGED <<job, active, settings, silent, disk, current, due, owner, evicting,
                       replaced, worldVars, boundVars>>
    BY <1>3 DEF Close
  <2>2. LedgerSound /\ AllCalm(job') BY <2>1, AloneSound DEF boundVars
  <2>3. Like(worker', worker)
    <3>1. ASSUME NEW w \in Workers
          PROVE  /\ worker'[w] \in Goroutines /\ worker'[w].pc = worker[w].pc
                 /\ worker'[w].ended = FALSE => worker[w].ended = FALSE
      <4>1. worker[w] \in Goroutines BY <1>1 DEF Shapes
      <4>2. CASE current[w[1]] = w[2]
        <5>1. worker'[w] = [worker[w] EXCEPT !.ended = TRUE] BY <2>1, <4>2
        <5> QED BY <4>1, <5>1 DEF Goroutines
      <4>3. CASE current[w[1]] # w[2] BY <2>1, <4>1, <4>3
      <4> QED BY <4>2, <4>3
    <3>2. worker' \in Gang BY <2>1, <3>1 DEF Gang
    <3> QED BY <3>1, <3>2 DEF Like
  <2>4. Rest' BY <1>1, <2>1 DEF Shapes, Rest, worldVars, boundVars
  <2> QED BY <2>1, <2>2, <2>3, <2>4, RequestOrdinary DEF worldVars, boundVars
<1>4. ASSUME NEW j \in Jobs, Silence(j) PROVE Ordinary
  <2>1. /\ silent' = [silent EXCEPT ![j] = TRUE]
        /\ UNCHANGED <<job, active, settings, disk, open, actorVars, worldVars, boundVars>>
    BY <1>4 DEF Silence
  <2>2. LedgerGoes(job, active)
    BY <1>1, <2>1 DEF LedgerGoes, Shapes, boundVars
  <2>3. LedgerSound /\ AllCalm(job') BY <2>2, SameSound, Goes
  <2>4. Like(worker', worker) BY <2>1, SignalLike DEF actorVars
  <2>5. Rest' BY <1>1, <2>1 DEF Shapes, Rest, actorVars, worldVars, boundVars
  <2> QED BY <2>1, <2>3, <2>4, <2>5, RequestOrdinary DEF actorVars, worldVars, boundVars
<1>5. ASSUME NEW j \in Jobs, Resend(j) PROVE Ordinary
  <2>1. /\ Asked /\ (SweepSaved(worker) \/ SweepFails(worker))
        /\ due' = [due EXCEPT ![j] = "created"] \/ due' = due
        /\ UNCHANGED <<settings, open, current, owner, evicting, replaced, worldVars, scene,
                       restarts>>
    BY <1>5 DEF Resend
  <2>2. SweepOnly(worker) BY <2>1 DEF SweepOnly
  <2>3. requests' \in 0 .. scene.requests BY <1>1, <2>1, AskedBound
  <2>4. due' \in [Remote -> {"no", "created", "resumed"}] BY <1>1, <2>1 DEF Shapes
  <2>5. Rest' BY <1>1, <2>1, <2>3, <2>4 DEF Shapes, Rest, worldVars
  <2> QED BY <2>1, <2>2, <2>5, SweepSound, RequestOrdinary DEF worldVars
<1>6. ASSUME NEW new \in Settings, Set(new) PROVE Ordinary
  <2>1. /\ Asked /\ settings' = new /\ worker' = Signal(worker)
        /\ UNCHANGED <<job, active, silent, disk, open, current, due, owner, evicting,
                       replaced, worldVars, scene, trouble, restarts>>
    BY <1>6 DEF Set
  <2>2. LedgerSound /\ AllCalm(job') BY <2>1, AloneSound
  <2>3. requests' \in 0 .. scene.requests BY <1>1, <2>1, AskedBound
  <2>4. Rest' BY <1>1, <2>1, <2>3 DEF Shapes, Rest, worldVars
  <2> QED BY <2>1, <2>2, <2>4, SignalLike, RequestOrdinary DEF worldVars
<1> QED BY <1>2, <1>3, <1>4, <1>5, <1>6

LEMMA CleanRequests ==
  ASSUME RunInv, NEW j \in Jobs, NEW ok \in BOOLEAN,
         AdmitRefused(j) \/ EvictCleans(j, ok) \/ RemoveCleans(j, ok)
  PROVE  Ordinary
<1>1. Shapes /\ Named BY DEF RunInv
<1>2. CASE AdmitRefused(j)
  <2>1. /\ Admitting(j) /\ SweepOnly(worker)
        /\ evicting' = [evicting EXCEPT ![j] = NotEvicting]
        /\ UNCHANGED <<settings, open, current, due, owner, replaced, worldVars, scene,
                       restarts>>
    BY <1>2 DEF AdmitRefused
  <2>2. evicting[j].phase \notin Cleans /\ evicting[j].job = NoJob
    BY <1>1, <2>1 DEF Admitting, Named, Cleans
  <2>3. requests' \in 0 .. scene.requests
    BY <1>1, <2>1, AskedBound DEF Admitting, Shapes
  <2>4. NotEvicting.job = NoJob /\ NotEvicting.phase \notin Cleans
        /\ NotEvicting \in [job : Jobs \cup {NoJob},
                            phase : {"no", "cleaning", "cleaned", "uncleaned", "again"}]
    BY DEF NotEvicting, Cleans
  <2>5. \A k \in Jobs : /\ evicting'[k].job = evicting[k].job
                        /\ evicting'[k].phase \in Cleans <=> evicting[k].phase \in Cleans
    BY <1>1, <2>1, <2>2, <2>4 DEF Shapes
  <2>6. Rest' BY <1>1, <2>1, <2>3, <2>4 DEF Shapes, Rest, worldVars
  <2> QED BY <2>1, <2>5, <2>6, SweepSound, RequestOrdinary DEF worldVars
<1>3. CASE EvictCleans(j, ok)
  <2> DEFINE to == IF ok THEN "cleaned" ELSE "uncleaned"
  <2>1. /\ evicting[j].phase = "cleaning"
        /\ part' = [part EXCEPT ![evicting[j].job] = "none"] \/ part' = part
        /\ evicting' = [evicting EXCEPT ![j].phase = to]
        /\ UNCHANGED <<ledgerVars, worker, current, due, owner, replaced, effect, consent,
                       boundVars>>
    BY <1>3 DEF EvictCleans
  <2>2. to \in {"cleaned", "uncleaned"} OBVIOUS
  <2> HIDE DEF to
  <2>3. /\ evicting' \in [Jobs -> [job : Jobs \cup {NoJob},
                            phase : {"no", "cleaning", "cleaned", "uncleaned", "again"}]]
        /\ \A k \in Jobs : /\ evicting'[k].job = evicting[k].job
                           /\ evicting'[k].phase \in Cleans <=> evicting[k].phase \in Cleans
    BY <1>1, <2>1, <2>2 DEF Shapes, Cleans
  <2>4. LedgerSound /\ AllCalm(job') BY <2>1, AloneSound DEF ledgerVars, boundVars
  <2>5. part' \in [Jobs -> Parts] BY <1>1, <2>1 DEF Shapes, Parts
  <2>6. Rest' BY <1>1, <2>1, <2>3, <2>5 DEF Shapes, Rest, ledgerVars, boundVars
  <2>7. Like(worker', worker) BY <2>1, SignalLike
  <2> QED BY <2>1, <2>3, <2>4, <2>6, <2>7, RequestOrdinary DEF boundVars
<1>4. CASE RemoveCleans(j, ok)
  <2>1. /\ owner[j] = "removing"
        /\ part' = [part EXCEPT ![j] = "none"] \/ part' = part
        /\ owner' = [owner EXCEPT ![j] = "removed"] \/ owner' = [owner EXCEPT ![j] = "unremoved"]
        /\ UNCHANGED <<ledgerVars, worker, current, due, evicting, replaced, effect, consent,
                       boundVars>>
    BY <1>4 DEF RemoveCleans
  <2>2. /\ owner' \in [Jobs -> Requesting \cup {"free", "removing", "removed", "unremoved"}]
        /\ \A k \in Jobs : owner'[k] \in Removing => owner[k] \in Removing
    BY <1>1, <2>1 DEF Shapes, Removing
  <2>4. LedgerSound /\ AllCalm(job') BY <2>1, AloneSound DEF ledgerVars, boundVars
  <2>5. part' \in [Jobs -> Parts] BY <1>1, <2>1 DEF Shapes, Parts
  <2>6. Rest' BY <1>1, <2>1, <2>2, <2>5 DEF Shapes, Rest, ledgerVars, boundVars
  <2>7. Like(worker', worker) BY <2>1, SignalLike
  <2> QED BY <2>1, <2>2, <2>4, <2>6, <2>7, RequestOrdinary DEF boundVars
<1> QED BY <1>2, <1>3, <1>4

-----------------------------------------------------------------------------
(* What an ordinary step keeps *)

NoMarkPassed ==
  \A w \in Workers : w[1] \in Moves /\ worker[w].pc = "marking"
    /\ worker'[w].pc = "operating" => consent[w[1]] = TRUE

Good == RunInv' /\ NoMarkPassed /\ (Tallied => Counted')
        /\ (CleaningInv /\ NoReadmission => CleaningInv')

\* What the next states of the parts say together.
LEMMA TypesTogether ==
  ASSUME LedgerSoundFor(consent'), worker' \in Gang, Rest', scene' = scene PROVE Shapes'
BY DEF LedgerSoundFor, Rest, Shapes, Gang

LEMMA CalmKeeps ==
  ASSUME CleaningInv, RunInv, Settled,
         \A j \in Jobs : /\ owner[j] \in Removing /\ Present(job', j) => Present(job, j)
                         /\ Marked(job[j]) => Marked(job'[j])
  PROVE  CleaningInv'
<1>1. ASSUME NEW j \in Jobs, owner'[j] \in Removing, Present(job', j) PROVE Marked(job'[j])
  <2>1. owner[j] \in Removing /\ Present(job, j) BY <1>1 DEF Settled
  <2> QED BY <2>1 DEF CleaningInv
<1>2. ASSUME NEW n \in Jobs, Evicting(n)'
      PROVE  /\ Evicting(n) /\ evicting'[n].job = evicting[n].job /\ evicting'[n].job \in Jobs
             /\ Marked(job'[evicting'[n].job]) /\ owner'[evicting'[n].job] \notin Removing
  <2>1. Evicting(n) /\ evicting'[n].job = evicting[n].job BY <1>2 DEF Settled
  <2>2. evicting[n].job \in Jobs /\ Marked(job[evicting[n].job])
        /\ owner[evicting[n].job] \notin Removing
    BY <2>1 DEF CleaningInv
  <2> QED BY <2>1, <2>2 DEF Settled
<1>3. ASSUME NEW n \in Jobs, NEW k \in Jobs, Evicting(n)', Evicting(k)',
             evicting'[n].job = evicting'[k].job
      PROVE  n = k
  <2>1. Evicting(n) /\ Evicting(k) /\ evicting[n].job = evicting[k].job BY <1>2, <1>3
  <2> QED BY <2>1 DEF CleaningInv
<1> QED BY <1>1, <1>2, <1>3 DEF CleaningInv

\* A run may come before the mark of a move, too, if its record is not marked.
Passes ==
  \A v \in Workers :
    /\ worker'[v].pc \in PreMark =>
         worker[v].pc \in PreMark \/ (v[1] \in Moves => job'[v[1]].problem # "uncertain")
    /\ worker[v].pc = "marking" => worker'[v].pc # "operating"
    /\ worker'[v].pc = "copying" => worker[v].pc = "copying" \/ v[1] \notin Moves

LEMMA PassesKeeps ==
  ASSUME RunInv, LedgerSoundFor(consent'), AllCalm(job'), GoesOn, Passes, Rest',
         scene' = scene, Settled, Grows(consent')
  PROVE  Good
<1>1. Shapes' BY TypesTogether DEF GoesOn
<1>2. Honest(job, consent)' /\ Honest(disk, consent)'
  BY DEF LedgerSoundFor, Honest
<1>3. OneReporter'
  <2> SUFFICES ASSUME NEW j \in Remote, NEW r \in Runs, worker'[<<j, r>>].ended = FALSE
               PROVE  current'[j] = r
    BY DEF OneReporter
  <2>1. <<j, r>> \in Workers /\ <<j, r>>[1] = j BY DEF Workers
  <2>2. worker[<<j, r>>].ended = FALSE /\ current'[j] = current[j]
    BY <2>1 DEF GoesOn
  <2> QED BY <2>2 DEF RunInv, OneReporter
<1>4. MarksOnce'
  <2> SUFFICES ASSUME NEW j \in Moves, NEW r \in Runs, worker'[<<j, r>>].ended = FALSE,
                      worker'[<<j, r>>].pc \in PreMark, job'[j].status = "running"
               PROVE  job'[j].problem # "uncertain"
    BY DEF MarksOnce
  <2>1. <<j, r>> \in Workers /\ j \in Jobs BY DEF Workers, Remote, Jobs
  <2>2. CASE worker[<<j, r>>].pc \notin PreMark BY <2>1, <2>2 DEF Passes
  <2>4. worker[<<j, r>>].ended = FALSE BY <2>1 DEF GoesOn
  <2>3. Calm(j, job[j], job'[j]) BY <2>1 DEF AllCalm
  <2> QED BY <2>2, <2>3, <2>4 DEF Calm, RunInv, MarksOnce
<1>5. Named' BY DEF Settled, RunInv, Named
<1>8. NothingHeld'
  <2> SUFFICES ASSUME NEW j \in Moves
               PROVE  /\ owner'[j] \notin Removing
                      /\ \A r \in Runs : worker'[<<j, r>>].pc # "copying"
    BY DEF NothingHeld
  <2>1. owner'[j] \notin Removing BY DEF RunInv, NothingHeld, Settled, Jobs, Remote
  <2>2. ASSUME NEW r \in Runs PROVE worker'[<<j, r>>].pc # "copying"
    <3>1. <<j, r>> \in Workers /\ <<j, r>>[1] = j BY DEF Workers, Remote
    <3>2. worker[<<j, r>>].pc # "copying" BY DEF RunInv, NothingHeld
    <3> QED BY <3>1, <3>2 DEF Passes
  <2> QED BY <2>1, <2>2
<1>6. NoMarkPassed BY DEF NoMarkPassed, Passes
<1>7. CleaningInv => CleaningInv'
  <2>1. ASSUME NEW j \in Jobs
        PROVE  /\ Present(job', j) => Present(job, j)
               /\ Marked(job[j]) => Marked(job'[j])
    <3>1. Calm(j, job[j], job'[j]) BY DEF AllCalm
    <3> QED BY <3>1 DEF Calm, Present
  <2> QED BY <2>1, CalmKeeps
<1> QED BY <1>1, <1>2, <1>3, <1>4, <1>5, <1>6, <1>7, <1>8 DEF RunInv, Good, LedgerSoundFor

LEMMA OrdinaryKeeps == ASSUME RunInv, Ordinary PROVE Good
<1>1. Passes BY DEF Ordinary, NotFurther, Passes
<1> QED BY <1>1, PassesKeeps DEF Ordinary

-----------------------------------------------------------------------------
(* A run begins, takes its slot, and passes the mark *)

\* A start report that leads to pc, or to bad.
LEMMA StartKeeps ==
  ASSUME RunInv, NEW w \in Workers, NEW ok, NEW no, NEW pc, NEW bad,
         StartReport(w, ok, no), UNCHANGED <<current, owner, worldVars, still>>,
         Near(ok, w, pc), Near(no, w, bad), worker[w].pc # "marking",
         bad \notin {"started", "planning", "marking", "copying"}, pc # "copying"
  PROVE  Good
<1> DEFINE j == w[1]
           r == Started(Swept[j])
           can == CanControl(Swept[j], "start")
           n == SlotsAfter(Swept[j], "start")
<1>1. Shapes BY DEF RunInv
<1>2. j \in Jobs BY DEF Workers, Jobs
<1>3. Report(w, can, r, n, ok, no) BY DEF StartReport
<1>4. Grows(consent) BY DEF Grows
<1>5. can => Owed(j, r, n) /\ r.status = "running" /\ (j \in Moves => r.problem # "uncertain")
  BY <1>2, <1>4, StartOwed DEF Owed
<1>6. Open(j) /\ can => Calm(j, Swept[j], r) BY <1>2, <1>5, OpenCalm DEF Open
<1> HIDE DEF r, n, can
<1>7. /\ LedgerSound /\ AllCalm(job')
      /\ \/ can /\ job'[j] = r /\ Like(worker', ok)
         \/ Like(worker', no)
  BY <1>3, <1>5, <1>6, ReportSound
<1>8. \/ can /\ job'[j] = r /\ Near(worker', w, pc)
      \/ Near(worker', w, bad)
  BY <1>7, LikeNear
<1>9. current' = current /\ consent' = consent /\ scene' = scene
  BY DEF still, worldVars
<1>10. GoesOn BY <1>8, <1>9 DEF Near, GoesOn
<1>11. Passes
  <2> SUFFICES ASSUME NEW v \in Workers
               PROVE  /\ worker'[v].pc \in PreMark => worker[v].pc \in PreMark
                           \/ (v[1] \in Moves => job'[v[1]].problem # "uncertain")
                      /\ worker[v].pc = "marking" => worker'[v].pc # "operating"
                      /\ worker'[v].pc = "copying" =>
                           worker[v].pc = "copying" \/ v[1] \notin Moves
    BY DEF Passes
  <2>1. CASE v # w
    <3>1. worker'[v].pc = worker[v].pc BY <1>8, <2>1 DEF Near
    <3> QED BY <3>1
  <2>2. CASE v = w /\ can /\ job'[j] = r /\ Near(worker', w, pc)
    <3>1. worker'[w].pc = pc BY <2>2 DEF Near
    <3> QED BY <1>5, <2>2, <3>1
  <2>3. CASE v = w /\ Near(worker', w, bad)
    <3>1. worker'[w].pc = bad BY <2>3 DEF Near
    <3> QED BY <2>3, <3>1 DEF PreMark
  <2> QED BY <1>8, <2>1, <2>2, <2>3
<1>12. Rest' /\ Settled /\ Grows(consent') BY <1>1, RestStays DEF still, worldVars
<1>13. LedgerSoundFor(consent') BY <1>7, <1>9 DEF LedgerSound
<1> QED BY <1>7, <1>9, <1>10, <1>11, <1>12, <1>13, PassesKeeps

LEMMA AskSlotStep == ASSUME RunInv, NEW w \in Workers, AskSlot(w) PROVE Good
<1>1. Shapes BY DEF RunInv
<1> USE DEF PCs, Keeping, Errors
<1>0. worker[w].pc = "asked" /\ UNCHANGED <<current, owner, worldVars, still>>
  BY DEF AskSlot
<1>e. Near(Leave(w, "ending"), w, "ending") /\ Near(To(w, "waiting"), w, "waiting")
      /\ Near(Leave(w, "started"), w, "started")
  BY <1>1, MoveTo
<1>2. ASSUME NEW ws, NEW pc, SweepOnly(ws), Near(ws, w, pc), pc \in {"waiting", "ending"}
      PROVE  Good
  <2>1. LedgerSound /\ AllCalm(job') /\ Like(worker', ws) BY <1>2, SweepSound
  <2>2. Near(worker', w, pc) BY <1>2, <2>1, LikeNear
  <2>3. GoesOn /\ NotFurther BY <1>0, <1>2, <2>2, NearGoes DEF PreMark
  <2>4. Rest' /\ Settled /\ Grows(consent') BY <1>0, <1>1, RestStays DEF still, worldVars
  <2>5. Ordinary BY <1>0, <2>1, <2>3, <2>4 DEF Ordinary, still, worldVars, LedgerSound
  <2> QED BY <2>5, OrdinaryKeeps
<1>3. CASE SweepSaved(To(w, "waiting"))
  <2>1. SweepOnly(To(w, "waiting")) BY <1>3 DEF SweepOnly
  <2> QED BY <2>1, <1>2, <1>e
<1>4. CASE SweepFails(Leave(w, "ending"))
  <2>1. SweepOnly(Leave(w, "ending")) BY <1>4 DEF SweepOnly
  <2> QED BY <2>1, <1>2, <1>e
<1>5. CASE StartReport(w, Leave(w, "started"), Leave(w, "ending"))
  BY <1>0, <1>5, <1>e, StartKeeps
<1> QED BY <1>3, <1>4, <1>5 DEF AskSlot

LEMMA GivesUpNear == ASSUME Shapes, NEW w \in Workers PROVE Near(GivesUp(w), w, "reporting")
<1>1. worker \in Gang /\ worker[w] \in Goroutines BY DEF Shapes, Gang
<1> DEFINE g == [worker[w] EXCEPT !.pc = "reporting", !.err = "refused"]
<1>2. g \in Goroutines /\ g.pc = "reporting" /\ g.ended = worker[w].ended
  BY <1>1 DEF Goroutines, Keeping
<1>3. GivesUp(w) = [worker EXCEPT ![w] = g] BY <1>1 DEF GivesUp, Gang, Goroutines
<1> HIDE DEF g
<1> QED BY <1>1, <1>2, <1>3 DEF Near, Gang

LEMMA BackoffStep == ASSUME RunInv, NEW w \in Workers, Backoff(w) PROVE Good
<1>1. Shapes BY DEF RunInv
<1>2. worker[w].pc = "backoff" BY DEF Backoff
<1>3. Near(GivesUp(w), w, "reporting") BY <1>1, GivesUpNear
<1>4. Near(Leave(w, "planning"), w, "planning")
  BY <1>1, MoveTo DEF PCs, Keeping, Errors
<1>5. CASE Alone(w, GivesUp(w))
  <2>1. Ordinary BY <1>3, <1>5, AloneOrdinary DEF PreMark
  <2> QED BY <2>1, OrdinaryKeeps
<1>6. CASE /\ StartReport(w, Leave(w, "planning"), GivesUp(w))
           /\ UNCHANGED <<current, owner, worldVars, still>>
  BY <1>2, <1>3, <1>4, <1>6, StartKeeps
<1> QED BY <1>5, <1>6 DEF Backoff

LEMMA ScheduleStep == ASSUME RunInv, NEW j \in Remote, Schedule(j) PROVE Good
<1>1. Shapes /\ OneReporter BY DEF RunInv
<1> DEFINE idle == {r \in Runs : worker[<<j, r>>].pc = "none"}
           run == CHOOSE r \in idle : TRUE
           live == current[j] # NoRun /\ ~worker[<<j, current[j]>>].ended
           g == [Idle EXCEPT !.pc = "asking", !.ended = FALSE]
<1>2. /\ due' = [due EXCEPT ![j] = "no"]
      /\ UNCHANGED <<ledgerVars, owner, evicting, replaced, worldVars, boundVars>>
      /\ \/ worker' = worker /\ current' = current
         \/ /\ ~live /\ idle # {} /\ current' = [current EXCEPT ![j] = run]
            /\ worker' = [worker EXCEPT ![<<j, run>>] = g]
  BY DEF Schedule
<1>3. LedgerSound /\ AllCalm(job') BY <1>2, AloneSound DEF ledgerVars, boundVars
<1>4. due' \in [Remote -> {"no", "created", "resumed"}] BY <1>1, <1>2 DEF Shapes
<1>s. Settled /\ Grows(consent') /\ consent' = consent /\ scene' = scene
  BY <1>2 DEF Settled, Evicting, Grows, worldVars, boundVars
<1>5. CASE worker' = worker /\ current' = current
  <2>1. GoesOn /\ NotFurther BY <1>1, <1>5, WorkersAsTheyWere
  <2>2. Rest' BY <1>1, <1>2, <1>4, <1>5 DEF Shapes, Rest, ledgerVars, worldVars, boundVars
  <2>3. Ordinary BY <1>3, <1>s, <2>1, <2>2 DEF Ordinary, LedgerSound
  <2> QED BY <2>3, OrdinaryKeeps
<1>6. CASE /\ ~live /\ idle # {} /\ current' = [current EXCEPT ![j] = run]
           /\ worker' = [worker EXCEPT ![<<j, run>>] = g]
  <2>1. run \in Runs BY <1>6
  <2>2. g \in Goroutines /\ g.pc = "asking" BY DEF Goroutines, Idle
  <2> HIDE DEF run, g
  <2> DEFINE w == <<j, run>>
  <2>3. w \in Workers BY <2>1 DEF Workers
  <2>4. worker' \in Gang /\ worker'[w] = g /\ \A v \in Workers : v # w => worker'[v] = worker[v]
    BY <1>1, <1>6, <2>2, <2>3 DEF Shapes, Gang
  <2>5. current' \in [Remote -> Runs \cup {NoRun}] /\ current'[j] = run
        /\ \A k \in Remote : k # j => current'[k] = current[k]
    BY <1>1, <1>6, <2>1 DEF Shapes
  <2>6. Rest' BY <1>1, <1>2, <1>4, <2>5 DEF Shapes, Rest, ledgerVars, worldVars, boundVars
  <2>7. Shapes' BY <1>3, <1>s, <2>4, <2>6, TypesTogether DEF LedgerSound
  <2>8. OneReporter'
    <3> SUFFICES ASSUME NEW k \in Remote, NEW r \in Runs, worker'[<<k, r>>].ended = FALSE
                 PROVE  current'[k] = r
      BY DEF OneReporter
    <3>1. <<k, r>> \in Workers BY DEF Workers
    <3>2. CASE <<k, r>> = w BY <2>5, <3>2
    <3>3. CASE <<k, r>> # w
      <4>1. worker[<<k, r>>].ended = FALSE /\ current[k] = r
        BY <1>1, <2>4, <3>1, <3>3 DEF OneReporter
      <4>2. CASE k = j
        <5>1. current[j] # NoRun /\ ~worker[<<j, current[j]>>].ended
          BY <4>1, <4>2, LedgerAssumption
        <5> QED BY <1>6, <5>1
      <4>3. CASE k # j BY <2>5, <4>1, <4>3
      <4> QED BY <4>2, <4>3
    <3> QED BY <3>2, <3>3
  <2>9. MarksOnce'
    <3> SUFFICES ASSUME NEW k \in Moves, NEW r \in Runs, worker'[<<k, r>>].ended = FALSE,
                        worker'[<<k, r>>].pc \in PreMark, job'[k].status = "running"
                 PROVE  job'[k].problem # "uncertain"
      BY DEF MarksOnce
    <3>1. <<k, r>> \in Workers BY DEF Workers, Remote
    <3>2. worker'[<<k, r>>] = worker[<<k, r>>]
      BY <2>2, <2>4, <3>1 DEF PreMark
    <3>3. job' = job BY <1>2 DEF ledgerVars
    <3> QED BY <3>2, <3>3 DEF RunInv, MarksOnce
  <2>10. Named' BY <1>2 DEF RunInv, Named
  <2>16. NothingHeld'
    <3> SUFFICES ASSUME NEW k \in Moves
                 PROVE  /\ owner'[k] \notin Removing
                        /\ \A r \in Runs : worker'[<<k, r>>].pc # "copying"
      BY DEF NothingHeld
    <3>1. owner'[k] \notin Removing BY <1>2 DEF RunInv, NothingHeld
    <3>2. ASSUME NEW r \in Runs PROVE worker'[<<k, r>>].pc # "copying"
      <4>1. <<k, r>> \in Workers BY DEF Workers, Remote
      <4>2. worker[<<k, r>>].pc # "copying" BY DEF RunInv, NothingHeld
      <4> QED BY <2>2, <2>4, <4>1, <4>2
    <3> QED BY <3>1, <3>2
  <2>11. NoMarkPassed
    <3> SUFFICES ASSUME NEW v \in Workers, worker[v].pc = "marking",
                        worker'[v].pc = "operating"
                 PROVE  FALSE
      BY DEF NoMarkPassed
    <3>1. CASE v = w BY <2>2, <2>4, <3>1
    <3>2. CASE v # w BY <2>4, <3>2
    <3> QED BY <3>1, <3>2
  <2>12. CleaningInv => CleaningInv'
    <3>1. job' = job BY <1>2 DEF ledgerVars
    <3> QED BY <1>s, <3>1, CalmKeeps
  <2>13. LedgerSoundFor(consent') BY <1>3, <1>s DEF LedgerSound
  <2>14. Honest(job, consent)' /\ Honest(disk, consent)' BY <2>13 DEF LedgerSoundFor, Honest
  <2>15. Tallied => Counted' BY <2>13 DEF LedgerSoundFor
  <2> QED BY <2>7, <2>8, <2>9, <2>10, <2>11, <2>12, <2>14, <2>15, <2>16 DEF Good, RunInv
<1> QED BY <1>2, <1>5, <1>6

LEMMA MarkStep == ASSUME RunInv, NEW w \in Workers, Mark(w) PROVE Good
<1>1. Shapes BY DEF RunInv
<1> DEFINE j == w[1]
           r == [job[j] EXCEPT !.problem = "uncertain"]
           q == [job EXCEPT ![j] = r]
           bad == Errs(w, "refused", TRUE)
<1>0. j \in Remote /\ j \in Jobs /\ w[2] \in Runs /\ w = <<j, w[2]>>
  BY DEF Workers, Jobs
<1>2. Near(bad, w, "failing") /\ Near(To(w, "operating"), w, "operating")
  BY <1>1, MoveTo DEF PCs, Keeping, Errors
<1>3. job \in [Jobs -> Records] /\ job[j] \in Records /\ worker[w] \in Goroutines
  BY <1>0, <1>1 DEF Shapes
<1>4. r \in Records /\ r.status = job[j].status /\ r.cleaning = job[j].cleaning
      /\ r.held = job[j].held /\ r.problem = "uncertain"
  BY <1>3 DEF Records
<1>5. CASE Alone(w, bad)
  <2>1. Ordinary BY <1>2, <1>5, AloneOrdinary DEF PreMark
  <2> QED BY <2>1, OrdinaryKeeps
<1> HIDE DEF r, bad
<1>6. CASE /\ ~worker[w].ended /\ job[j].status = "running"
           /\ Rewrite(j, r, To(w, "operating"), bad)
           /\ consent' = IF worker'[w].pc = "operating"
                         THEN [k \in Moves |-> consent[k] /\ k # j] ELSE consent
           /\ UNCHANGED <<active, current, owner, part, effect, still>>
           /\ worker[w].pc = "marking"
  <2>1. /\ \/ job' = q /\ disk' = Durable(q) /\ worker' = To(w, "operating")
           \/ job' = job /\ disk' \in {disk, Durable(q)} /\ worker' = bad
        /\ silent' \in [Jobs -> BOOLEAN] /\ trouble' \in 0 .. scene.trouble
    BY <1>0, <1>1, <1>6, RewriteGoes
  <2>2. j \in Moves => HonestRecord(job[j], consent[j]) BY DEF RunInv, Honest
  <2>3. j \in Moves => HonestRecord(r, consent[j])
    BY <1>4, <1>6, <2>2 DEF HonestRecord
  <2>4. HasSlot(r) <=> HasSlot(job[j]) BY <1>4 DEF HasSlot
  <2>5. Sound(q, active)
    BY <1>0, <1>1, <1>4, <2>3, <2>4, SameSound, PutSound DEF Shapes
  <2>6. q \in [Jobs -> Records] BY <1>3, <1>4
  <2>7. LedgerGoes(q, active) BY <1>6, <2>1 DEF LedgerGoes
  <2>8. LedgerSound BY <2>5, <2>7, Goes
  <2>9. q[j] = r /\ \A k \in Jobs : k # j => q[k] = job[k] BY <1>0, <1>3
  <2> HIDE DEF q
  <2>10. CASE job' = job /\ worker' = bad
    <3>1. worker'[w].pc = "failing" BY <1>2, <2>10 DEF Near
    <3>2. consent' = consent BY <1>6, <3>1
    <3>3. GoesOn /\ NotFurther BY <1>2, <1>6, <2>10, NearGoes DEF PreMark
    <3>4. AllCalm(job') BY <2>10 DEF AllCalm, Calm
    <3>5. Rest' /\ Settled /\ Grows(consent') BY <1>1, <1>6, <3>2, RestStays DEF still
    <3>6. Ordinary
      BY <1>6, <2>8, <3>2, <3>3, <3>4, <3>5 DEF Ordinary, LedgerSound, still
    <3> QED BY <3>6, OrdinaryKeeps
  <2>11. CASE job' = q /\ disk' = Durable(q) /\ worker' = To(w, "operating")
    <3>1. worker'[w].pc = "operating" /\ Near(worker', w, "operating")
      BY <1>2, <2>11 DEF Near
    <3>2. consent' = [k \in Moves |-> consent[k] /\ k # j] BY <1>6, <3>1
    <3>3. consent' \in [Moves -> BOOLEAN]
          /\ \A k \in Moves : k # j => consent'[k] = consent[k]
      BY <1>1, <3>2 DEF Shapes
    <3>4. Rest' BY <1>1, <1>6, <3>3 DEF Shapes, Rest, still
    <3>5. Shapes'
      BY <1>1, <1>6, <2>8, <3>1, <3>4 DEF LedgerSound, LedgerSoundFor, Rest, Shapes, Gang,
         Near, still
    <3>6. Honest(job', consent') /\ Honest(disk', consent')
      <4>1. Honest(q, consent')
        <5> SUFFICES ASSUME NEW k \in Moves PROVE HonestRecord(q[k], consent'[k])
          BY DEF Honest
        <5>1. k \in Jobs BY DEF Jobs, Remote
        <5>2. CASE k = j
          <6>1. HonestRecord(r, consent[j]) BY <2>3, <5>2
          <6> QED BY <1>4, <1>6, <2>9, <5>2, <6>1 DEF HonestRecord
        <5>3. CASE k # j
          <6>1. HonestRecord(job[k], consent[k]) BY DEF RunInv, Honest
          <6> QED BY <2>9, <3>3, <5>1, <5>3, <6>1
        <5> QED BY <5>2, <5>3
      <4> QED BY <2>6, <2>11, <4>1, DurableShape
    <3>7. Honest(job, consent)' /\ Honest(disk, consent)' BY <3>6 DEF Honest
    <3>8. worker[w].ended = FALSE /\ current[j] = w[2]
      <4>1. worker[w].ended = FALSE BY <1>3, <1>6 DEF Goroutines
      <4> QED BY <1>0, <4>1 DEF RunInv, OneReporter
    <3>9. OneReporter'
      <4> SUFFICES ASSUME NEW k \in Remote, NEW s \in Runs, worker'[<<k, s>>].ended = FALSE
                   PROVE  current'[k] = s
        BY DEF OneReporter
      <4>1. <<k, s>> \in Workers BY DEF Workers
      <4>2. worker[<<k, s>>].ended = FALSE BY <3>1, <4>1 DEF Near
      <4> QED BY <1>6, <4>2 DEF RunInv, OneReporter
    <3>10. MarksOnce'
      <4> SUFFICES ASSUME NEW k \in Moves, NEW s \in Runs, worker'[<<k, s>>].ended = FALSE,
                          worker'[<<k, s>>].pc \in PreMark, job'[k].status = "running"
                   PROVE  job'[k].problem # "uncertain"
        BY DEF MarksOnce
      <4>1. <<k, s>> \in Workers /\ k \in Jobs /\ k \in Remote BY DEF Workers, Jobs, Remote
      <4>2. <<k, s>> # w BY <3>1 DEF PreMark
      <4>3. worker[<<k, s>>].ended = FALSE /\ worker[<<k, s>>].pc \in PreMark
        BY <3>1, <4>1, <4>2 DEF Near
      <4>4. current[k] = s BY <4>1, <4>3 DEF RunInv, OneReporter
      <4>5. k # j BY <1>0, <3>8, <4>2, <4>4
      <4>6. job'[k] = job[k] BY <2>9, <2>11, <4>1, <4>5
      <4> QED BY <4>3, <4>6 DEF RunInv, MarksOnce
    <3>11. Named' BY <1>6 DEF RunInv, Named, still
    <3>12. NothingHeld'
      <4> SUFFICES ASSUME NEW k \in Moves
                   PROVE  /\ owner'[k] \notin Removing
                          /\ \A s \in Runs : worker'[<<k, s>>].pc # "copying"
        BY DEF NothingHeld
      <4>1. owner'[k] \notin Removing BY <1>6 DEF RunInv, NothingHeld
      <4>2. ASSUME NEW s \in Runs PROVE worker'[<<k, s>>].pc # "copying"
        <5>1. <<k, s>> \in Workers BY DEF Workers, Remote
        <5>2. worker[<<k, s>>].pc # "copying" BY DEF RunInv, NothingHeld
        <5> QED BY <3>1, <5>1, <5>2 DEF Near
      <4> QED BY <4>1, <4>2
    <3>13. NoMarkPassed
      <4> SUFFICES ASSUME NEW v \in Workers, v[1] \in Moves, worker[v].pc = "marking",
                          worker'[v].pc = "operating"
                   PROVE  consent[v[1]] = TRUE
        BY DEF NoMarkPassed
      <4>1. v = w BY <3>1 DEF Near
      <4>2. job[j].problem # "uncertain"
        BY <1>0, <1>6, <3>8, <4>1 DEF RunInv, MarksOnce, PreMark
      <4> QED BY <1>6, <2>2, <4>1, <4>2 DEF HonestRecord
    <3>14. CleaningInv => CleaningInv'
      <4>1. Settled BY <1>6 DEF Settled, Evicting, still
      <4>2. ASSUME NEW k \in Jobs
            PROVE  /\ Present(job', k) => Present(job, k)
                   /\ Marked(job[k]) => Marked(job'[k])
        <5>1. CASE k = j
          <6>1. job'[j] = r BY <2>9, <2>11
          <6> QED BY <1>4, <1>6, <2>4, <5>1, <6>1 DEF Present, Marked
        <5>2. CASE k # j
          <6>1. job'[k] = job[k] BY <2>9, <2>11, <5>2
          <6> QED BY <6>1 DEF Present
        <5> QED BY <5>1, <5>2
      <4> QED BY <4>1, <4>2, CalmKeeps
    <3>15. Tallied => Counted' BY <2>8 DEF LedgerSound, LedgerSoundFor
    <3> QED BY <3>5, <3>7, <3>9, <3>10, <3>11, <3>12, <3>13, <3>14, <3>15
         DEF Good, RunInv
  <2> QED BY <2>1, <2>10, <2>11
<1> QED BY <1>5, <1>6 DEF Mark, r, bad

LEMMA RunSteps == ASSUME RunInv, NEW w \in Workers, RunStep(w) PROVE Good
<1>1. CASE SlotWait(w) \/ Wake(w) \/ Keep(w) \/ CopyBegins(w) \/ Interrupted(w) \/ Ending(w)
  BY <1>1, QuietSteps, OrdinaryKeeps
<1>2. CASE Operate(w) \/ Create(w) \/ Copy(w) \/ Clean(w, TRUE) \/ Clean(w, FALSE)
  BY <1>2, WorldSteps, OrdinaryKeeps
<1>3. CASE Plan(w) \/ Complete(w) \/ Reconnect(w) \/ Fail(w)
  BY <1>3, ReportSteps, OrdinaryKeeps
<1>4. CASE Checkpoint(w) \/ Cleaned(w) \/ ClearPending(w)
  BY <1>4, SavingSteps, OrdinaryKeeps
<1>5. CASE Unrecord(w) BY <1>5, UnrecordStep, OrdinaryKeeps
<1>6. CASE Finish(w) BY <1>6, FinishStep, OrdinaryKeeps
<1>7. CASE AskSlot(w) BY <1>7, AskSlotStep
<1>8. CASE Backoff(w) BY <1>8, BackoffStep
<1>9. CASE Mark(w) BY <1>9, MarkStep
<1> QED BY <1>1, <1>2, <1>3, <1>4, <1>5, <1>6, <1>7, <1>8, <1>9 DEF RunStep

-----------------------------------------------------------------------------
(* The requests that admit and remove records *)

LEMMA RequestKeeps ==
  ASSUME RunInv, LedgerSoundFor(consent'), Like(worker', worker), current' = current, Rest',
         scene' = scene, Grows(consent'), Named',
         \A j \in Moves : owner'[j] \notin Removing,
         \A j \in Moves : job'[j].status = "running" /\ job'[j].problem = "uncertain"
                            => job[j].status = "running" /\ job[j].problem = "uncertain"
  PROVE  RunInv' /\ NoMarkPassed /\ (Tallied => Counted')
<1>1. worker \in Gang BY DEF RunInv, Shapes, Gang
<1>2. worker' \in Gang
      /\ \A v \in Workers : /\ worker'[v].pc = worker[v].pc
                            /\ worker'[v].ended = FALSE => worker[v].ended = FALSE
  BY <1>1 DEF Like
<1>3. Shapes' BY <1>2, TypesTogether
<1>4. Honest(job, consent)' /\ Honest(disk, consent)' BY DEF LedgerSoundFor, Honest
<1>5. \A j \in Remote, r \in Runs : <<j, r>> \in Workers BY DEF Workers
<1>6. Moves \subseteq Remote BY DEF Remote
<1>7. OneReporter' BY <1>2, <1>5 DEF RunInv, OneReporter
<1>8. MarksOnce'
  <2> SUFFICES ASSUME NEW j \in Moves, NEW r \in Runs, worker'[<<j, r>>].ended = FALSE,
                      worker'[<<j, r>>].pc \in PreMark, job'[j].status = "running"
               PROVE  job'[j].problem # "uncertain"
    BY DEF MarksOnce
  <2>1. worker[<<j, r>>].ended = FALSE /\ worker[<<j, r>>].pc \in PreMark
    BY <1>2, <1>5, <1>6
  <2> QED BY <2>1 DEF RunInv, MarksOnce
<1>9. NothingHeld' BY <1>2, <1>5, <1>6 DEF RunInv, NothingHeld
<1>10. NoMarkPassed BY <1>2 DEF NoMarkPassed
<1> QED BY <1>3, <1>4, <1>7, <1>8, <1>9, <1>10 DEF RunInv, LedgerSoundFor

\* Two ledgers that a request that does not sweep may leave, or may leave in the file.
LEMMA SwapSound ==
  ASSUME RunInv, NEW p, NEW q, Sound(p, active), Sound(q, active),
         job' \in {job, p, q}, disk' \in {disk, Durable(p), Durable(q)},
         active' = active, silent' = silent, trouble' \in 0 .. scene.trouble
  PROVE  LedgerSound
<1>1. LedgerGoes(p, active) \/ LedgerGoes(q, active) \/ job' = p \/ job' = q
  BY DEF LedgerGoes, RunInv, Shapes
<1>2. Sound(job', active) BY SameSound
<1>3. disk' \in [Jobs -> Records] /\ Honest(disk', consent)
  <2>1. CASE disk' = disk BY <2>1 DEF RunInv, Shapes
  <2>2. CASE disk' = Durable(p) BY <2>2, DurableShape DEF Sound, SoundFor
  <2>3. CASE disk' = Durable(q) BY <2>3, DurableShape DEF Sound, SoundFor
  <2> QED BY <2>1, <2>2, <2>3
<1>4. Tallied => Counted' BY <1>2 DEF Sound, SoundFor, Counted
<1>5. job' \in [Jobs -> Records] /\ active' \in Nat /\ Honest(job', consent)
  BY <1>2 DEF Sound, SoundFor
<1> QED BY <1>3, <1>4, <1>5 DEF LedgerSound, LedgerSoundFor, RunInv, Shapes

Fresh == [Absent EXCEPT !.status = "queued"]

LEMMA RecordFacts ==
  /\ Absent \in Records /\ Absent.status = "none" /\ Absent.held = FALSE
  /\ Absent.problem = "none"
  /\ Fresh \in Records /\ Fresh.status = "queued" /\ Fresh.problem = "none"
  /\ Fresh.held = FALSE
BY DEF Absent, Fresh, Records, Statuses

\* A record that leaves the ledger without a slot.
LEMMA GoneSound ==
  ASSUME RunInv, NEW j \in Jobs, Tallied => ~HasSlot(job[j])
  PROVE  Sound([job EXCEPT ![j] = Absent], active)
<1>1. Sound(job, active) /\ active \in Nat BY SameSound DEF RunInv, Shapes
<1>2. job \in [Jobs -> Records] BY DEF RunInv, Shapes
<1> DEFINE q == [job EXCEPT ![j] = Absent]
<1>3. q \in [Jobs -> Records] BY <1>2, RecordFacts
<1>4. ASSUME Tallied PROVE active = Cardinality(Slots(q))
  <2>1. ~HasSlot(Absent) /\ ~HasSlot(job[j]) BY <1>4, RecordFacts DEF HasSlot
  <2>2. Slots(q) = Slots(job) BY <1>2, <2>1 DEF Slots
  <2> QED BY <1>4, <2>2 DEF Tallied, Counted
<1>5. Honest(q, consent)
  <2> SUFFICES ASSUME NEW k \in Moves PROVE HonestRecord(q[k], consent[k]) BY DEF Honest
  <2>1. HonestRecord(job[k], consent[k]) /\ k \in Jobs
    BY DEF RunInv, Honest, Jobs, Remote
  <2> QED BY <1>2, <2>1, RecordFacts DEF HonestRecord
<1> QED BY <1>1, <1>3, <1>4, <1>5 DEF Sound, SoundFor

LEMMA AdmittedSound ==
  ASSUME RunInv, NEW n \in Jobs, ~Present(job, n), NEW E,
         \A j \in E : j \in Jobs /\ Present(Swept, j) /\ ~Swept[j].cleaning
                        /\ Retained(Swept[j]),
         NEW c, Grows(c), n \in Moves => c[n] = TRUE
  PROVE  /\ SoundFor(Admitted(n, E), sweptActive, c)
         /\ \A j \in Jobs : j # n =>
              /\ Present(Admitted(n, E), j) => Present(job, j)
              /\ Marked(job[j]) => Marked(Admitted(n, E)[j])
              /\ Admitted(n, E)[j].status = "running" => Admitted(n, E)[j] = Swept[j]
         /\ Admitted(n, E)[n] = Fresh
<1> DEFINE q == Admitted(n, E)
<1>1. Shapes BY DEF RunInv
<1>2. Sound(Swept, sweptActive) /\ AllCalm(Swept) BY SweptSound
<1>3. q[n] = Fresh /\ \A j \in Jobs : j # n => q[j] = IF j \in E THEN Absent ELSE Swept[j]
  BY DEF Admitted, Fresh
<1>4. q \in [Jobs -> Records]
  <2>1. \A j \in Jobs : q[j] \in Records
    BY <1>2, <1>3, RecordFacts DEF Sound, SoundFor
  <2> QED BY <2>1 DEF Admitted
<1>5. Slots(q) = Slots(Swept)
  <2>1. ASSUME NEW j \in Jobs PROVE HasSlot(q[j]) <=> HasSlot(Swept[j])
    <3>1. CASE j = n
      <4>1. Swept[n] = job[n]
        BY <1>1, SweptShape DEF Present
      <4> QED BY <1>3, <3>1, <4>1, RecordFacts DEF HasSlot, Present
    <3>2. CASE j # n /\ j \in E
      <4>1. ~HasSlot(Swept[j]) BY <3>2 DEF Retained, Terminal, HasSlot
      <4> QED BY <1>3, <3>2, <4>1, RecordFacts DEF HasSlot
    <3>3. CASE j # n /\ j \notin E BY <1>3, <3>3
    <3> QED BY <3>1, <3>2, <3>3
  <2> QED BY <2>1 DEF Slots
<1>6. Honest(q, c)
  <2> SUFFICES ASSUME NEW k \in Moves PROVE HonestRecord(q[k], c[k]) BY DEF Honest
  <2>1. k \in Jobs BY DEF Jobs, Remote
  <2>2. HonestRecord(Swept[k], c[k])
    <3>1. Honest(Swept, c) BY <1>2, Grown DEF Sound, SoundFor
    <3> QED BY <3>1 DEF Honest
  <2>3. HonestRecord(Absent, c[k]) BY RecordFacts DEF HonestRecord
  <2>4. k = n => HonestRecord(Fresh, c[k]) BY RecordFacts DEF HonestRecord
  <2> QED BY <1>3, <2>1, <2>2, <2>3, <2>4
<1>7. SoundFor(q, sweptActive, c) BY <1>2, <1>4, <1>5, <1>6 DEF Sound, SoundFor
<1>8. ASSUME NEW j \in Jobs, j # n
      PROVE  /\ Present(q, j) => Present(job, j)
             /\ Marked(job[j]) => Marked(q[j])
             /\ q[j].status = "running" => q[j] = Swept[j]
  <2>1. Calm(j, job[j], Swept[j]) BY <1>2 DEF AllCalm
  <2>2. CASE j \in E
    <3>1. ~Marked(Swept[j])
      <4>1. Swept[j] \in Records BY <1>1, SweptShape
      <4> QED BY <2>2, <4>1 DEF Marked, Records
    <3> QED BY <1>3, <1>8, <2>1, <2>2, <3>1, RecordFacts DEF Calm, Present
  <2>3. CASE j \notin E BY <1>3, <1>8, <2>1, <2>3 DEF Calm, Present
  <2> QED BY <2>2, <2>3
<1> QED BY <1>3, <1>7, <1>8

LEMMA AdmitStep == ASSUME RunInv, NEW n \in Jobs, Admit(n) PROVE Good
<1>1. Shapes /\ Named BY DEF RunInv
<1>2. /\ Admitting(n) /\ evicting' = [evicting EXCEPT ![n] = NotEvicting]
      /\ due' = [j \in Remote |-> IF j = n /\ Present(job', n) THEN "created" ELSE due[j]]
      /\ consent' = Consented(n) /\ effect' = [k \in Moves |-> effect[k] /\ k # n]
      /\ UNCHANGED <<settings, open, current, owner, part, scene, restarts>>
  BY DEF Admit
<1>3. PICK E \in IF Full THEN {{j} : j \in AtOnce} ELSE {{}} :
        LET q == Admitted(n, E)
        IN  \/ /\ job' = q /\ active' = sweptActive /\ Touch({n} \cup E) /\ Saved(q)
               /\ worker' = SignalIf(Stale # {}, worker)
               /\ replaced' = replaced
            \/ /\ SaveFails(q, FALSE, worker)
               /\ replaced' = replaced \cup Cleaners
  BY DEF Admit
<1>4. E \subseteq AtOnce BY <1>3
<1>5. \A j \in E : j \in Jobs /\ Present(Swept, j) /\ ~Swept[j].cleaning
                     /\ Retained(Swept[j])
  BY <1>4 DEF AtOnce, Evictable
<1>6. consent' \in [Moves -> BOOLEAN] /\ Grows(consent') /\ (n \in Moves => consent'[n] = TRUE)
  BY <1>1, <1>2 DEF Consented, Grows, Shapes
<1>7. ~Present(job, n) BY <1>2 DEF Admitting
<1> DEFINE q == Admitted(n, E)
<1>8. /\ SoundFor(q, sweptActive, consent')
      /\ \A j \in Jobs : j # n =>
              /\ Present(q, j) => Present(job, j)
              /\ Marked(job[j]) => Marked(q[j])
              /\ q[j].status = "running" => q[j] = Swept[j]
      /\ q[n] = Fresh
  BY <1>5, <1>6, <1>7, AdmittedSound
<1> HIDE DEF q
<1>9. LedgerGoes(q, sweptActive) /\ Like(worker', worker)
  <2>1. CASE /\ job' = q /\ active' = sweptActive /\ Touch({n} \cup E) /\ Saved(q)
             /\ worker' = SignalIf(Stale # {}, worker)
    <3>1. disk' = Durable(q) /\ trouble' \in 0 .. scene.trouble
      BY <1>1, <2>1, DiskOf DEF Saved
    <3> QED BY <1>1, <2>1, <3>1, TouchType, SignalIfLike DEF LedgerGoes
  <2>2. CASE SaveFails(q, FALSE, worker) BY <1>1, <2>2, SaveFailsGoes
  <2> QED BY <1>3, <2>1, <2>2 DEF q
<1>10. LedgerSoundFor(consent') BY <1>6, <1>8, <1>9, GoesFor
<1>11. AllCalm(Swept) /\ Swept \in [Jobs -> Records]
  BY SweptSound DEF Sound, SoundFor
<1>12. ASSUME NEW j \in Jobs, j # n
       PROVE  /\ Present(job', j) => Present(job, j)
              /\ Marked(job[j]) => Marked(job'[j])
              /\ j \in Moves /\ job'[j].status = "running" /\ job'[j].problem = "uncertain"
                    => job[j].status = "running" /\ job[j].problem = "uncertain"
  <2>1. Calm(j, job[j], Swept[j]) BY <1>11 DEF AllCalm
  <2>2. CASE job' = q BY <1>8, <1>12, <2>1, <2>2 DEF Calm
  <2>3. CASE job' = Swept BY <2>1, <2>3 DEF Calm, Present
  <2>4. CASE job' = job BY <2>4
  <2> QED BY <1>9, <2>2, <2>3, <2>4 DEF LedgerGoes
<1>13. job'[n].status # "running"
  <2>1. job[n].status = "none" BY <1>7 DEF Present
  <2>2. Swept[n].status # "running"
    BY <1>1, <2>1, SweptShape
  <2> QED BY <1>8, <1>9, <2>1, <2>2, RecordFacts DEF LedgerGoes
<1>14. ~Marked(job[n]) BY <1>7 DEF Marked, Present
<1>15. evicting[n].phase \notin Cleans /\ evicting[n].job = NoJob
  BY <1>1, <1>2 DEF Admitting, Named, Cleans
<1>16. NotEvicting.job = NoJob /\ NotEvicting.phase \notin Cleans
       /\ NotEvicting \in [job : Jobs \cup {NoJob},
                            phase : {"no", "cleaning", "cleaned", "uncleaned", "again"}]
  BY DEF NotEvicting, Cleans
<1>17. requests' \in 0 .. scene.requests
  BY <1>1, <1>2, AskedBound DEF Admitting, Shapes
<1>18. replaced' \subseteq Jobs /\ replaced \subseteq replaced'
  BY <1>1, <1>3 DEF Cleaners, Shapes
<1>19. due' \in [Remote -> {"no", "created", "resumed"}] BY <1>1, <1>2 DEF Shapes
<1>20. effect' \in [Moves -> BOOLEAN] BY <1>1, <1>2 DEF Shapes
<1>21. Rest' BY <1>1, <1>2, <1>6, <1>16, <1>17, <1>18, <1>19, <1>20 DEF Shapes, Rest
<1>22. \A k \in Jobs : /\ evicting'[k].job = evicting[k].job
                       /\ evicting'[k].phase \in Cleans <=> evicting[k].phase \in Cleans
  BY <1>1, <1>2, <1>15, <1>16 DEF Shapes
<1>23. Named' BY <1>1, <1>22 DEF Named
<1>24. RunInv' /\ NoMarkPassed /\ (Tallied => Counted')
  <2>1. \A j \in Moves : owner'[j] \notin Removing /\ j \in Jobs
    BY <1>2 DEF RunInv, NothingHeld, Jobs, Remote
  <2>2. \A j \in Moves : job'[j].status = "running" /\ job'[j].problem = "uncertain"
                            => job[j].status = "running" /\ job[j].problem = "uncertain"
    BY <1>12, <1>13, <2>1
  <2> QED BY <1>2, <1>6, <1>9, <1>10, <1>21, <1>23, <2>1, <2>2, RequestKeeps
<1>25. Settled BY <1>2, <1>18, <1>22 DEF Settled, Evicting
<1>26. ASSUME CleaningInv, NoReadmission PROVE CleaningInv'
  <2>1. ASSUME NEW j \in Jobs
        PROVE  /\ owner[j] \in Removing /\ Present(job', j) => Present(job, j)
               /\ Marked(job[j]) => Marked(job'[j])
    <3>1. CASE j = n BY <1>2, <1>7, <1>14, <1>26, <3>1 DEF NoReadmission
    <3>2. CASE j # n BY <1>12, <3>2
    <3> QED BY <3>1, <3>2
  <2> QED BY <1>25, <1>26, <2>1, CalmKeeps
<1> QED BY <1>24, <1>26 DEF Good


Phases == {"no", "cleaning", "cleaned", "uncleaned", "again"}

LEMMA EvictBeginsStep ==
  ASSUME RunInv, NEW n \in Jobs, NEW j \in Jobs, EvictBegins(n, j) PROVE Good
<1>1. Shapes /\ Named BY DEF RunInv
<1> DEFINE r == [Swept[j] EXCEPT !.cleaning = TRUE, !.tombstone = TRUE, !.problem = "cleanup"]
           q == [Swept EXCEPT ![j] = r]
           begun == [job |-> j, phase |-> "cleaning"]
<1>2. Swept \in [Jobs -> Records] /\ Swept[j] \in Records BY <1>1, SweptShape
<1>3. [Swept EXCEPT ![j].cleaning = TRUE, ![j].tombstone = TRUE, ![j].problem = "cleanup"] = q
  BY <1>2
<1>4. /\ Admitting(n) /\ j \in AfterCleanup /\ replaced' = replaced \ {n}
      /\ UNCHANGED <<settings, open, current, due, owner, worldVars, scene, restarts>>
      /\ \/ /\ job' = q /\ active' = sweptActive /\ Touch({j}) /\ Saved(q)
            /\ worker' = SignalIf(Stale # {}, worker)
            /\ evicting' = [evicting EXCEPT ![n] = begun]
         \/ /\ SaveFails(q, FALSE, worker)
            /\ evicting' = [evicting EXCEPT ![n] = NotEvicting]
  BY <1>3 DEF EvictBegins
<1>5. Present(Swept, j) /\ ~Swept[j].cleaning /\ Retained(Swept[j])
  BY <1>4 DEF AfterCleanup, Overdue, Evictable, MayHold, Retained, Terminal
<1>6. /\ r \in Records /\ r.status = Swept[j].status /\ r.held = Swept[j].held
      /\ r.cleaning = TRUE
  BY <1>2 DEF Records
<1>7. /\ ~HasSlot(r) /\ ~HasSlot(Swept[j]) /\ r.status # "queued" /\ r.status # "none"
      /\ r.status # "running"
  BY <1>5, <1>6 DEF Retained, Terminal, HasSlot
<1> HIDE DEF r
<1>8. Sound(q, sweptActive) /\ AllCalm(q)
  <2>1. Sound(Swept, sweptActive) /\ AllCalm(Swept) BY SweptSound
  <2>2. sweptActive \in Nat BY <2>1 DEF Sound, SoundFor
  <2>3. j \in Moves => HonestRecord(r, consent[j])
    <3>1. j \in Moves => HonestRecord(Swept[j], consent[j])
      BY <2>1 DEF Sound, SoundFor, Honest
    <3> QED BY <1>6, <1>7, <3>1 DEF HonestRecord, HasSlot
  <2>4. Calm(j, Swept[j], r) BY <1>5, <1>7, OpenCalm
  <2> QED BY <1>6, <1>7, <2>1, <2>2, <2>3, <2>4, PutSound
<1>9. q[j] = r BY <1>2
<1> HIDE DEF q
<1>10. LedgerGoes(q, sweptActive) /\ Like(worker', worker)
  <2>1. CASE /\ job' = q /\ active' = sweptActive /\ Touch({j}) /\ Saved(q)
             /\ worker' = SignalIf(Stale # {}, worker)
    <3>1. disk' = Durable(q) /\ trouble' \in 0 .. scene.trouble
      BY <1>1, <2>1, DiskOf DEF Saved
    <3> QED BY <1>1, <2>1, <3>1, TouchType, SignalIfLike DEF LedgerGoes
  <2>2. CASE SaveFails(q, FALSE, worker) BY <1>1, <2>2, SaveFailsGoes
  <2> QED BY <1>4, <2>1, <2>2
<1>11. LedgerSound /\ AllCalm(job') BY <1>8, <1>10, Goes
<1>12. ~Marked(job[j]) /\ Present(job, j)
  <2>1. Swept[j].cleaning = job[j].cleaning /\ (job[j].status = "running" \/ Swept[j] = job[j])
    BY <1>1, SweptShape
  <2>2. job[j] \in Records BY <1>1 DEF Shapes
  <2> QED BY <1>5, <2>1, <2>2 DEF Marked, Present, Records
<1>13. evicting[n].phase \notin Cleans /\ evicting[n].job = NoJob
  BY <1>1, <1>4 DEF Admitting, Named, Cleans
<1>14. /\ NotEvicting.job = NoJob /\ NotEvicting.phase \notin Cleans
       /\ NotEvicting \in [job : Jobs \cup {NoJob}, phase : Phases]
       /\ begun.job = j /\ begun.phase \in Cleans
       /\ begun \in [job : Jobs \cup {NoJob}, phase : Phases]
  BY DEF NotEvicting, Cleans, Phases
<1> HIDE DEF begun
<1>15. /\ evicting' \in [Jobs -> [job : Jobs \cup {NoJob}, phase : Phases]]
       /\ \A k \in Jobs : k # n => evicting'[k] = evicting[k]
       /\ \/ evicting'[n] = begun /\ job' = q
          \/ evicting'[n] = NotEvicting
  <2>1. evicting \in [Jobs -> [job : Jobs \cup {NoJob}, phase : Phases]]
    BY <1>1 DEF Shapes, Phases
  <2>2. CASE evicting' = [evicting EXCEPT ![n] = begun] /\ job' = q BY <1>14, <2>1, <2>2
  <2>3. CASE evicting' = [evicting EXCEPT ![n] = NotEvicting] BY <1>14, <2>1, <2>3
  <2> QED BY <1>4, <2>2, <2>3
<1>16. Named'
  <2>1. j # NoJob BY LedgerAssumption
  <2>2. evicting'[n].phase \in Cleans <=> evicting'[n].job # NoJob BY <1>14, <1>15, <2>1
  <2> QED BY <1>1, <1>15, <2>2 DEF Named
<1>17. requests' \in 0 .. scene.requests
  BY <1>1, <1>4, AskedBound DEF Admitting, Shapes
<1>18. Rest' BY <1>1, <1>4, <1>15, <1>17 DEF Shapes, Rest, worldVars, Phases
<1>19. RunInv' /\ NoMarkPassed /\ (Tallied => Counted')
  <2>1. consent' = consent BY <1>4 DEF worldVars
  <2>2. LedgerSoundFor(consent') BY <1>11, <2>1 DEF LedgerSound
  <2>3. \A k \in Moves : owner'[k] \notin Removing /\ k \in Jobs
    BY <1>4 DEF RunInv, NothingHeld, Jobs, Remote
  <2>4. \A k \in Moves : job'[k].status = "running" /\ job'[k].problem = "uncertain"
                            => job[k].status = "running" /\ job[k].problem = "uncertain"
    BY <1>11, <2>3 DEF AllCalm, Calm
  <2>5. Grows(consent') BY <2>1 DEF Grows
  <2> QED BY <1>4, <1>10, <1>16, <1>18, <2>2, <2>3, <2>4, <2>5, RequestKeeps
<1>20. ASSUME CleaningInv PROVE CleaningInv'
  <2>1. \A k \in Jobs : /\ Present(job', k) => Present(job, k)
                        /\ Marked(job[k]) => Marked(job'[k])
    BY <1>11 DEF AllCalm, Calm, Present
  <2>2. \A k \in Jobs : Evicting(k) => k # n /\ evicting[k].job # j
    BY <1>12, <1>13, <1>20 DEF CleaningInv, Evicting
  <2>3. owner[j] \notin Removing BY <1>12, <1>20 DEF CleaningInv
  <2>4. \A k \in Jobs : k # n => (Evicting(k)' <=> Evicting(k))
    BY <1>4, <1>15 DEF Evicting
  <2>5. CASE evicting'[n] = begun /\ job' = q
    <3>1. Marked(job'[j]) BY <1>6, <1>7, <1>9, <2>5 DEF Marked
    <3>2. \A k \in Jobs : Evicting(k)' =>
            /\ evicting'[k].job \in Jobs /\ Marked(job'[evicting'[k].job])
            /\ owner'[evicting'[k].job] \notin Removing
      <4> SUFFICES ASSUME NEW k \in Jobs, Evicting(k)'
                   PROVE  /\ evicting'[k].job \in Jobs /\ Marked(job'[evicting'[k].job])
                          /\ owner'[evicting'[k].job] \notin Removing
        OBVIOUS
      <4>1. CASE k = n BY <1>4, <1>14, <2>3, <2>5, <3>1, <4>1
      <4>2. CASE k # n
        <5>1. /\ evicting[k].job \in Jobs /\ Marked(job[evicting[k].job])
              /\ owner[evicting[k].job] \notin Removing
          BY <1>20, <2>4, <4>2 DEF CleaningInv
        <5> QED BY <1>4, <1>15, <2>1, <4>2, <5>1
      <4> QED BY <4>1, <4>2
    <3>3. \A k, i \in Jobs : Evicting(k)' /\ Evicting(i)' /\ evicting'[k].job = evicting'[i].job
            => k = i
      BY <1>14, <1>15, <1>20, <2>2, <2>4, <2>5 DEF CleaningInv
    <3>4. \A k \in Jobs : owner'[k] \in Removing /\ Present(job', k) => Marked(job'[k])
      BY <1>4, <1>20, <2>1 DEF CleaningInv
    <3> QED BY <3>2, <3>3, <3>4 DEF CleaningInv
  <2>6. CASE evicting'[n] = NotEvicting
    <3>1. Settled
      BY <1>4, <1>13, <1>14, <1>15, <2>4, <2>6 DEF Settled, Evicting
    <3> QED BY <1>20, <2>1, <3>1, CalmKeeps
  <2> QED BY <1>15, <2>5, <2>6
<1> QED BY <1>19, <1>20 DEF Good

\* A request of the ledger alone: what is left to show.
LEMMA LedgerKeeps ==
  ASSUME RunInv, LedgerSound, worker' = worker, current' = current, Rest', scene' = scene,
         consent' = consent, Named', \A j \in Moves : owner'[j] \notin Removing,
         \A j \in Jobs : /\ job'[j].status = "running" => job[j].status = "running"
                         /\ job'[j].status = "running" => job'[j].problem = job[j].problem,
         CleaningInv => CleaningInv'
  PROVE  Good
<1>1. LedgerSoundFor(consent') /\ Grows(consent') BY DEF LedgerSound, Grows
<1>2. Like(worker', worker) BY SignalLike
<1>3. \A j \in Moves : j \in Jobs BY DEF Jobs, Remote
<1>4. RunInv' /\ NoMarkPassed /\ (Tallied => Counted')
  BY <1>1, <1>2, <1>3, RequestKeeps
<1> QED BY <1>4 DEF Good

\* A record with the status of the one it follows.
LEMMA SameStatusSound ==
  ASSUME RunInv, NEW j \in Jobs, NEW r \in Records, r.status = job[j].status,
         j \in Moves => r.held = job[j].held,
         r.problem = job[j].problem \/ (~HasSlot(r) /\ r.status # "queued")
           \/ j \notin Moves
  PROVE  Sound([job EXCEPT ![j] = r], active)
<1>1. Sound(job, active) /\ AllCalm(job) /\ active \in Nat BY SameSound DEF RunInv, Shapes
<1>2. HasSlot(r) <=> HasSlot(job[j]) BY DEF HasSlot
<1>3. j \in Moves => HonestRecord(r, consent[j])
  <2>1. j \in Moves => HonestRecord(job[j], consent[j]) BY DEF RunInv, Honest
  <2> QED BY <2>1 DEF HonestRecord, HasSlot
<1> QED BY <1>1, <1>2, <1>3, PutSound

LEMMA EvictEndsStep == ASSUME RunInv, NEW n \in Jobs, EvictEnds(n) PROVE Good
<1>1. Shapes /\ Named BY DEF RunInv
<1> DEFINE j == evicting[n].job
           same == Present(job, j) /\ n \notin replaced
           r == [job[j] EXCEPT !.cleaning = FALSE]
           kept == [job EXCEPT ![j] = r]
           gone == [job EXCEPT ![j] = Absent]
           over(phase) == [job |-> NoJob, phase |-> phase]
<1>2. evicting[n].phase \in Cleans BY DEF EvictEnds, Cleans
<1>3. j \in Jobs
  <2>1. evicting[n] \in [job : Jobs \cup {NoJob}, phase : Phases]
    BY <1>1 DEF Shapes, Phases
  <2> QED BY <1>1, <1>2, <2>1 DEF Named
<1>4. job \in [Jobs -> Records] /\ job[j] \in Records BY <1>1, <1>3 DEF Shapes
<1>5. [job EXCEPT ![j].cleaning = FALSE] = kept BY <1>3, <1>4
<1>6. /\ UNCHANGED <<active, settings, silent, open, worker, current, due, owner, replaced,
                     worldVars, scene, requests, restarts>>
      /\ \E phase \in {"no", "again"} : evicting' = [evicting EXCEPT ![n] = over(phase)]
      /\ \/ same /\ job' = kept /\ UNCHANGED <<disk, trouble>>
         \/ same /\ job' = gone /\ Saved(gone)
         \/ same /\ job' = kept /\ NotSaved(disk, gone)
         \/ UNCHANGED <<job, disk, trouble>>
  BY <1>5 DEF EvictEnds
<1>7. r \in Records /\ r.status = job[j].status /\ r.problem = job[j].problem
      /\ r.held = job[j].held
  BY <1>4 DEF Records
<1>8. kept[j] = r /\ gone[j] = Absent
      /\ \A k \in Jobs : k # j => kept[k] = job[k] /\ gone[k] = job[k]
  BY <1>3, <1>4
<1>9. Sound(kept, active)
  <2> HIDE DEF r, j
  <2> QED BY <1>3, <1>7, SameStatusSound
<1> HIDE DEF r
<1>10. LedgerSound
  <2>1. CASE UNCHANGED <<job, disk, trouble>> BY <1>6, <2>1, AloneSound
  <2>2. CASE same
    <3>1. Tallied => ~HasSlot(job[j])
      BY <1>2, <2>2 DEF Tallied, CleaningInv, Evicting, Marked
    <3>2. Sound(gone, active) BY <1>3, <3>1, GoneSound
    <3> HIDE DEF kept, gone
    <3>3. trouble' \in 0 .. scene.trouble /\ disk' \in {disk, Durable(gone)}
      <4>1. CASE UNCHANGED <<disk, trouble>> BY <1>1, <4>1 DEF Shapes
      <4>2. CASE Saved(gone) \/ NotSaved(disk, gone) BY <1>1, <4>2, DiskOf
      <4> QED BY <1>6, <4>1, <4>2
    <3> QED BY <1>6, <1>9, <3>2, <3>3, SwapSound
  <2> QED BY <1>6, <2>1, <2>2
<1>11. job' \in {job, kept, gone} BY <1>6
<1>12. \A k \in Jobs : k # j => job'[k] = job[k] BY <1>8, <1>11
<1>13. ASSUME NEW k \in Jobs
       PROVE  job'[k].status = "running" =>
                job[k].status = "running" /\ job'[k].problem = job[k].problem
  <2>1. CASE k # j BY <1>12, <2>1
  <2>2. kept[j].status = job[j].status /\ kept[j].problem = job[j].problem BY <1>7, <1>8
  <2>3. gone[j].status = "none" BY <1>8, RecordFacts
  <2> HIDE DEF kept, gone, j
  <2> QED BY <1>11, <2>1, <2>2, <2>3
<1> HIDE DEF kept, gone
<1>14. /\ evicting' \in [Jobs -> [job : Jobs \cup {NoJob}, phase : Phases]]
       /\ \A k \in Jobs : k # n => evicting'[k] = evicting[k]
       /\ evicting'[n].phase \notin Cleans /\ evicting'[n].job = NoJob
  <2>1. PICK phase \in {"no", "again"} : evicting' = [evicting EXCEPT ![n] = over(phase)]
    BY <1>6
  <2>2. over(phase).phase \notin Cleans /\ over(phase).job = NoJob
        /\ over(phase) \in [job : Jobs \cup {NoJob}, phase : Phases]
    BY DEF Cleans, Phases
  <2> HIDE DEF over
  <2>3. evicting \in [Jobs -> [job : Jobs \cup {NoJob}, phase : Phases]]
    BY <1>1 DEF Shapes, Phases
  <2> QED BY <2>1, <2>2, <2>3
<1>15. Named' BY <1>1, <1>14 DEF Named
<1>16. Rest' BY <1>1, <1>6, <1>14 DEF Shapes, Rest, worldVars, Phases
<1>17. CleaningInv => CleaningInv'
  <2> SUFFICES ASSUME CleaningInv PROVE CleaningInv' OBVIOUS
  <2>1. job' = job \/ Evicting(n) BY <1>2, <1>6 DEF Evicting
  <2>2. ASSUME NEW k \in Jobs, owner[k] \in Removing PROVE job'[k] = job[k]
    <3>1. Evicting(n) => k # j BY <2>2 DEF CleaningInv
    <3> QED BY <1>12, <2>1, <3>1
  <2>3. ASSUME NEW k \in Jobs, Evicting(k)'
        PROVE  /\ Evicting(k) /\ evicting'[k].job = evicting[k].job
               /\ job'[evicting[k].job] = job[evicting[k].job]
    <3>1. k # n BY <1>14, <2>3 DEF Evicting
    <3>2. Evicting(k) /\ evicting'[k] = evicting[k]
      BY <1>6, <1>14, <2>3, <3>1 DEF Evicting
    <3>3. evicting[k].job \in Jobs BY <3>2 DEF CleaningInv
    <3>4. Evicting(n) => evicting[k].job # j BY <3>1, <3>2 DEF CleaningInv
    <3> QED BY <1>12, <2>1, <3>2, <3>3, <3>4
  <2>4. \A k \in Jobs : owner'[k] \in Removing /\ Present(job', k) => Marked(job'[k])
    BY <1>6, <2>2 DEF CleaningInv, Present
  <2>5. \A k \in Jobs : Evicting(k)' =>
          /\ evicting'[k].job \in Jobs /\ Marked(job'[evicting'[k].job])
          /\ owner'[evicting'[k].job] \notin Removing
    BY <1>6, <2>3 DEF CleaningInv
  <2>6. \A k, i \in Jobs : Evicting(k)' /\ Evicting(i)' /\ evicting'[k].job = evicting'[i].job
          => k = i
    BY <2>3 DEF CleaningInv
  <2> QED BY <2>4, <2>5, <2>6 DEF CleaningInv
<1>18. consent' = consent /\ \A k \in Moves : owner'[k] \notin Removing
  BY <1>6 DEF RunInv, NothingHeld, worldVars
<1> QED BY <1>6, <1>10, <1>13, <1>15, <1>16, <1>17, <1>18, LedgerKeeps

\* The clean-ups under way, when one record that no admission cleans up is changed or
\* taken away, and its removal begins or ends.
LEMMA RemovalKeeps ==
  ASSUME RunInv, CleaningInv, NEW j \in Jobs, evicting' = evicting, replaced' = replaced,
         \A k \in Jobs : k # j => job'[k] = job[k] /\ owner'[k] = owner[k],
         \A n \in Jobs : Evicting(n) => evicting[n].job # j,
         owner'[j] \in Removing /\ Present(job', j) => Marked(job'[j])
  PROVE  CleaningInv'
<1>1. \A k \in Jobs : owner'[k] \in Removing /\ Present(job', k) => Marked(job'[k])
  BY DEF CleaningInv, Present
<1>2. \A n \in Jobs : Evicting(n)' <=> Evicting(n) BY DEF Evicting
<1>3. \A n \in Jobs : Evicting(n)' =>
        /\ evicting'[n].job \in Jobs /\ Marked(job'[evicting'[n].job])
        /\ owner'[evicting'[n].job] \notin Removing
  BY <1>2 DEF CleaningInv
<1>4. \A n, k \in Jobs : Evicting(n)' /\ Evicting(k)' /\ evicting'[n].job = evicting'[k].job
        => n = k
  BY <1>2 DEF CleaningInv
<1> QED BY <1>1, <1>3, <1>4 DEF CleaningInv

LEMMA RemoveStep == ASSUME RunInv, NEW j \in Jobs, Remove(j) PROVE Good
<1>1. Shapes /\ Named BY DEF RunInv
<1>2. /\ Asked /\ Removable(j)
      /\ UNCHANGED <<active, settings, silent, open, worker, current, due, evicting,
                     replaced, worldVars, scene, restarts>>
  BY DEF Remove
<1>3. job \in [Jobs -> Records] /\ job[j] \in Records BY <1>1 DEF Shapes
<1>4. owner[j] = "free" /\ Retained(job[j]) /\ job[j].cleaning = FALSE
  BY <1>2, <1>3 DEF Removable, Records
<1>5. /\ ~HasSlot(job[j]) /\ job[j].status # "none" /\ job[j].status # "running"
      /\ job[j].status # "queued"
  BY <1>4 DEF Retained, Terminal, HasSlot
<1> DEFINE r == [job[j] EXCEPT !.cleaning = TRUE]
           marked == [job EXCEPT ![j] = r]
           gone == [job EXCEPT ![j] = Absent]
<1>6. [job EXCEPT ![j].cleaning = TRUE] = marked BY <1>3
<1>7. \/ /\ MayHold(j, job[j])
         /\ \/ Saved(marked) /\ job' = marked /\ owner' = [owner EXCEPT ![j] = "removing"]
            \/ NotSaved(disk, marked) /\ UNCHANGED <<job, owner>>
      \/ /\ \/ Saved(gone) /\ job' = gone
            \/ NotSaved(disk, gone) /\ UNCHANGED job
         /\ UNCHANGED owner
  BY <1>6 DEF Remove
<1>8. r \in Records /\ r.status = job[j].status /\ r.problem = job[j].problem
      /\ r.held = job[j].held /\ r.cleaning = TRUE
  BY <1>3 DEF Records
<1> HIDE DEF r
<1>9. marked[j] = r /\ gone[j] = Absent
      /\ \A k \in Jobs : k # j => marked[k] = job[k] /\ gone[k] = job[k]
  BY <1>3
<1>10. Sound(marked, active) /\ Sound(gone, active)
  <2>1. Sound(marked, active) BY <1>8, SameStatusSound
  <2>2. Sound(gone, active) BY <1>5, GoneSound
  <2> QED BY <2>1, <2>2
<1> HIDE DEF marked, gone
<1>11. disk' \in {disk, Durable(marked), Durable(gone)} /\ trouble' \in 0 .. scene.trouble
  <2>1. CASE Saved(marked) \/ NotSaved(disk, marked) BY <1>1, <2>1, DiskOf
  <2>2. CASE Saved(gone) \/ NotSaved(disk, gone) BY <1>1, <2>2, DiskOf
  <2> QED BY <1>7, <2>1, <2>2
<1>12. job' \in {job, marked, gone} BY <1>7
<1>13. LedgerSound BY <1>2, <1>10, <1>11, <1>12, SwapSound
<1>14. /\ \A k \in Jobs : k # j => job'[k] = job[k] /\ owner'[k] = owner[k]
       /\ owner'[j] = "free" \/ (owner'[j] = "removing" /\ job' = marked /\ j \notin Moves)
       /\ owner' \in [Jobs -> Requesting \cup {"free", "removing", "removed", "unremoved"}]
  <2>1. j \in Moves => ~MayHold(j, job[j])
    BY <1>1 DEF RunInv, Honest, HonestRecord, MayHold
  <2>2. owner \in [Jobs -> Requesting \cup {"free", "removing", "removed", "unremoved"}]
    BY <1>1 DEF Shapes
  <2>3. CASE owner' = [owner EXCEPT ![j] = "removing"] /\ job' = marked /\ MayHold(j, job[j])
    BY <1>9, <2>1, <2>2, <2>3
  <2>4. CASE owner' = owner BY <1>4, <1>9, <1>12, <2>2, <2>4
  <2> QED BY <1>7, <2>3, <2>4
<1>15. ASSUME NEW k \in Jobs
       PROVE  job'[k].status = "running" =>
                job[k].status = "running" /\ job'[k].problem = job[k].problem
  <2>1. CASE k = j BY <1>5, <1>8, <1>9, <1>12, <2>1, RecordFacts
  <2>2. CASE k # j BY <1>14, <2>2
  <2> QED BY <2>1, <2>2
<1>16. requests' \in 0 .. scene.requests BY <1>1, <1>2, AskedBound
<1>17. Rest' BY <1>1, <1>2, <1>14, <1>16 DEF Shapes, Rest, worldVars
<1>18. Named' BY <1>1, <1>2 DEF Named
<1>19. consent' = consent /\ \A k \in Moves : owner'[k] \notin Removing
  <2>1. ASSUME NEW k \in Moves PROVE owner'[k] \notin Removing
    <3>1. k \in Jobs /\ owner[k] \notin Removing BY DEF RunInv, NothingHeld, Jobs, Remote
    <3>2. CASE k = j BY <1>14, <3>2 DEF Removing
    <3>3. CASE k # j BY <1>14, <3>1, <3>3
    <3> QED BY <3>2, <3>3
  <2> QED BY <1>2, <2>1 DEF worldVars
<1>20. CleaningInv => CleaningInv'
  <2> SUFFICES ASSUME CleaningInv PROVE CleaningInv' OBVIOUS
  <2>1. \A n \in Jobs : Evicting(n) => evicting[n].job # j
    BY <1>4 DEF CleaningInv, Marked
  <2>2. owner'[j] \in Removing => Marked(job'[j])
    <3>1. HasSlot(r) <=> HasSlot(job[j]) BY <1>8 DEF HasSlot
    <3> QED BY <1>5, <1>8, <1>9, <1>14, <3>1 DEF Removing, Marked
  <2> QED BY <1>2, <1>14, <2>1, <2>2, RemovalKeeps
<1> QED BY <1>2, <1>13, <1>15, <1>17, <1>18, <1>19, <1>20, LedgerKeeps

LEMMA RemoveEndsStep == ASSUME RunInv, NEW j \in Jobs, RemoveEnds(j) PROVE Good
<1>1. Shapes /\ Named BY DEF RunInv
<1> DEFINE r == [job[j] EXCEPT !.cleaning = FALSE]
           s == [job[j] EXCEPT !.cleaning = FALSE, !.tombstone = TRUE, !.problem = "cleanup"]
           kept == [job EXCEPT ![j] = r]
           marked == [job EXCEPT ![j] = s]
           gone == [job EXCEPT ![j] = Absent]
<1>2. /\ owner[j] \in {"removed", "unremoved"}
      /\ owner' = [owner EXCEPT ![j] = "free"]
      /\ UNCHANGED <<active, settings, silent, open, worker, current, due, evicting,
                     replaced, worldVars, scene, requests, restarts>>
  BY DEF RemoveEnds
<1>3. job \in [Jobs -> Records] /\ job[j] \in Records BY <1>1 DEF Shapes
<1>4. [job EXCEPT ![j].cleaning = FALSE] = kept
      /\ [kept EXCEPT ![j].tombstone = TRUE, ![j].problem = "cleanup"] = marked
  BY <1>3
<1>5. PICK q \in {marked, gone} :
        \/ Present(job, j) /\ job' = q /\ Saved(q)
        \/ Present(job, j) /\ job' = kept /\ NotSaved(disk, q)
        \/ ~Present(job, j) /\ UNCHANGED <<job, disk, trouble>>
  BY <1>4 DEF RemoveEnds
<1>6. j \notin Moves BY <1>2 DEF RunInv, NothingHeld, Removing
<1>7. /\ r \in Records /\ r.status = job[j].status /\ r.problem = job[j].problem
      /\ s \in Records /\ s.status = job[j].status
  BY <1>3 DEF Records
<1>8. kept[j] = r /\ marked[j] = s /\ gone[j] = Absent
      /\ \A k \in Jobs : k # j => kept[k] = job[k] /\ marked[k] = job[k] /\ gone[k] = job[k]
  BY <1>3
<1> HIDE DEF r, s
<1>9. Sound(kept, active) /\ Sound(marked, active) BY <1>6, <1>7, SameStatusSound
<1>10. LedgerSound
  <2>1. CASE UNCHANGED <<job, disk, trouble>> BY <1>2, <2>1, AloneSound
  <2>2. CASE /\ Present(job, j)
             /\ \/ job' = q /\ Saved(q)
                \/ job' = kept /\ NotSaved(disk, q)
    <3>1. Tallied => ~HasSlot(job[j])
      BY <1>2, <2>2 DEF Tallied, CleaningInv, Marked, Removing
    <3>2. Sound(gone, active) BY <3>1, GoneSound
    <3> HIDE DEF kept, marked, gone
    <3>3. Sound(q, active) BY <1>9, <3>2
    <3>4. trouble' \in 0 .. scene.trouble /\ disk' \in {disk, Durable(q)}
      BY <1>1, <2>2, DiskOf
    <3>5. active' = active /\ silent' = silent /\ job' \in {job, kept, q} BY <1>2, <2>2
    <3> QED BY <1>9, <3>3, <3>4, <3>5, SwapSound
  <2> QED BY <1>5, <2>1, <2>2
<1>11. job' \in {job, kept, marked, gone} BY <1>5
<1>12. \A k \in Jobs : k # j => job'[k] = job[k] /\ owner'[k] = owner[k]
  <2>1. \A k \in Jobs : k # j => job'[k] = job[k] BY <1>8, <1>11
  <2>2. \A k \in Jobs : k # j => owner'[k] = owner[k] BY <1>1, <1>2 DEF Shapes
  <2> QED BY <2>1, <2>2
<1>13. owner'[j] = "free"
       /\ owner' \in [Jobs -> Requesting \cup {"free", "removing", "removed", "unremoved"}]
  BY <1>1, <1>2 DEF Shapes
<1>14. \A k \in Jobs : job'[k].status = "running" => job[k].status = "running"
  <2>1. job'[j] \in {job[j], r, s, Absent} BY <1>8, <1>11
  <2>2. job'[j].status = "running" => job[j].status = "running" BY <1>7, <2>1, RecordFacts
  <2> QED BY <1>12, <2>2
<1> HIDE DEF kept, marked, gone
<1>15. Rest' BY <1>1, <1>2, <1>13 DEF Shapes, Rest, worldVars
<1>16. Named' BY <1>1, <1>2 DEF Named
<1>17. consent' = consent /\ \A k \in Moves : owner'[k] \notin Removing
  <2>1. \A k \in Moves : k \in Jobs /\ k # j BY <1>6 DEF Jobs, Remote
  <2> QED BY <1>2, <1>12, <2>1 DEF RunInv, NothingHeld, worldVars
<1>18. CleaningInv => CleaningInv'
  <2> SUFFICES ASSUME CleaningInv PROVE CleaningInv' OBVIOUS
  <2>1. \A n \in Jobs : Evicting(n) => evicting[n].job # j
    BY <1>2 DEF CleaningInv, Removing
  <2> QED BY <1>2, <1>12, <1>13, <2>1, RemovalKeeps DEF Removing
<1>19. RunInv' /\ NoMarkPassed /\ (Tallied => Counted')
  <2>1. \A k \in Moves : k \in Jobs /\ k # j BY <1>6 DEF Jobs, Remote
  <2>2. LedgerSoundFor(consent') /\ Grows(consent')
    BY <1>10, <1>17 DEF LedgerSound, Grows
  <2>3. Like(worker', worker) BY <1>2, SignalLike
  <2>4. \A k \in Moves : job'[k] = job[k] BY <1>12, <2>1
  <2> QED BY <1>2, <1>15, <1>16, <1>17, <2>2, <2>3, <2>4, RequestKeeps
<1> QED BY <1>18, <1>19 DEF Good

LEMMA ClearStep == ASSUME RunInv, NEW S \in SUBSET Jobs, Clear(S) PROVE Good
<1>1. Shapes /\ Named BY DEF RunInv
<1> DEFINE q == [j \in Jobs |-> IF j \in S THEN Absent ELSE job[j]]
<1>2. /\ Asked /\ \A j \in S : Terminal(job[j])
      /\ \/ /\ Saved(q) /\ job' = q
            /\ replaced' = replaced \cup {n \in Jobs : evicting[n].job \in S}
         \/ /\ NotSaved(disk, q) /\ UNCHANGED job
            /\ replaced' = replaced \cup Cleaners
      /\ UNCHANGED <<active, settings, silent, open, worker, current, due, owner, evicting,
                     worldVars, scene, restarts>>
  BY DEF Clear
<1>3. job \in [Jobs -> Records] /\ active \in Nat BY <1>1 DEF Shapes
<1>4. q \in [Jobs -> Records]
      /\ \A j \in Jobs : q[j] = IF j \in S THEN Absent ELSE job[j]
  BY <1>3, RecordFacts
<1>5. Sound(q, active)
  <2>1. Slots(q) = Slots(job)
    <3>1. ~HasSlot(Absent) BY RecordFacts DEF HasSlot
    <3>2. \A j \in S : ~HasSlot(job[j]) BY <1>2 DEF Terminal, HasSlot
    <3> HIDE DEF q
    <3> QED BY <1>4, <3>1, <3>2 DEF Slots
  <2>2. Honest(q, consent)
    <3> HIDE DEF q
    <3> SUFFICES ASSUME NEW k \in Moves PROVE HonestRecord(q[k], consent[k]) BY DEF Honest
    <3>1. HonestRecord(job[k], consent[k]) /\ k \in Jobs
      BY DEF RunInv, Honest, Jobs, Remote
    <3>2. HonestRecord(Absent, consent[k]) BY RecordFacts DEF HonestRecord
    <3> QED BY <1>4, <3>1, <3>2
  <2>3. Tallied => active = Cardinality(Slots(q)) BY <2>1 DEF Tallied, Counted
  <2> QED BY <1>3, <1>4, <2>2, <2>3 DEF Sound, SoundFor
<1> HIDE DEF q
<1>6. disk' \in {disk, Durable(q)} /\ trouble' \in 0 .. scene.trouble
  BY <1>1, <1>2, DiskOf
<1>7. LedgerSound BY <1>2, <1>5, <1>6, SwapSound
<1>8. /\ \A j \in Jobs : job'[j] = job[j] \/ job'[j] = Absent
      /\ \A j \in Jobs : j \notin S => job'[j] = job[j]
  BY <1>2, <1>4
<1>9. ASSUME NEW k \in Jobs
      PROVE  job'[k].status = "running" =>
               job[k].status = "running" /\ job'[k].problem = job[k].problem
  BY <1>8, RecordFacts
<1>10. requests' \in 0 .. scene.requests BY <1>1, <1>2, AskedBound
<1>11. replaced' \in SUBSET Jobs BY <1>1, <1>2 DEF Shapes, Cleaners
<1>12. Rest' BY <1>1, <1>2, <1>10, <1>11 DEF Shapes, Rest, worldVars
<1>13. Named' BY <1>1, <1>2 DEF Named
<1>14. consent' = consent /\ \A k \in Moves : owner'[k] \notin Removing
  BY <1>2 DEF RunInv, NothingHeld, worldVars
<1>15. CleaningInv => CleaningInv'
  <2> SUFFICES ASSUME CleaningInv PROVE CleaningInv' OBVIOUS
  <2>1. ASSUME NEW k \in Jobs, Evicting(k)'
        PROVE  Evicting(k) /\ job'[evicting[k].job] = job[evicting[k].job]
    <3>1. Evicting(k) BY <1>2, <2>1 DEF Evicting
    <3>2. job' = job \/ evicting[k].job \notin S BY <1>2, <2>1 DEF Evicting
    <3>3. evicting[k].job \in Jobs BY <3>1 DEF CleaningInv
    <3> QED BY <1>8, <3>1, <3>2, <3>3
  <2>2. \A k \in Jobs : owner'[k] \in Removing /\ Present(job', k) => Marked(job'[k])
    BY <1>2, <1>8, RecordFacts DEF CleaningInv, Present
  <2>3. \A k \in Jobs : Evicting(k)' =>
          /\ evicting'[k].job \in Jobs /\ Marked(job'[evicting'[k].job])
          /\ owner'[evicting'[k].job] \notin Removing
    BY <1>2, <2>1 DEF CleaningInv
  <2>4. \A k, i \in Jobs : Evicting(k)' /\ Evicting(i)' /\ evicting'[k].job = evicting'[i].job
          => k = i
    BY <1>2, <2>1 DEF CleaningInv
  <2> QED BY <2>2, <2>3, <2>4 DEF CleaningInv
<1> QED BY <1>2, <1>7, <1>9, <1>12, <1>13, <1>14, <1>15, LedgerKeeps

\* The next engine finds no slot taken, no goroutine, and no move it may not begin.
LEMMA RestoredFacts ==
  ASSUME NEW j \in Jobs, NEW r \in Records
  PROVE  /\ Restored(j, r) \in Records /\ ~HasSlot(Restored(j, r))
         /\ \A asked : j \in Moves /\ HonestRecord(r, asked)
                         => HonestRecord(Restored(j, r), asked)
<1> DEFINE cause == IF r.problem = "uncertain" THEN "uncertain" ELSE "other"
<1>1. cause \in {"uncertain", "other"} /\ (cause = "uncertain" <=> r.problem = "uncertain")
  OBVIOUS
<1>2. ASSUME NEW status \in {"reattach", "paused", "queued"}
      PROVE  /\ Becomes(r, status, cause) \in Records
             /\ Becomes(r, status, cause).status = status
             /\ Becomes(r, status, cause).problem = cause
             /\ Becomes(r, status, cause).held = r.held
  <2> HIDE DEF cause
  <2> QED BY <1>1 DEF Becomes, Records, Statuses
<1>3. \/ ~HasSlot(r) /\ Restored(j, r) = r
      \/ Restored(j, r) = Becomes(r, "reattach", cause)
      \/ Restored(j, r) = Becomes(r, "paused", cause)
      \/ /\ j \notin Uploads /\ r.status = "running" /\ r.problem # "uncertain"
         /\ Restored(j, r) = Becomes(r, "queued", cause)
  BY DEF Restored, HasSlot
<1> HIDE DEF cause
<1>4. CASE ~HasSlot(r) /\ Restored(j, r) = r BY <1>4
<1>5. CASE Restored(j, r) = Becomes(r, "reattach", cause)
  <2>1. /\ Restored(j, r) \in Records /\ Restored(j, r).status = "reattach"
        /\ Restored(j, r).held = r.held
    BY <1>2, <1>5
  <2> QED BY <2>1 DEF HasSlot, HonestRecord
<1>6. CASE Restored(j, r) = Becomes(r, "paused", cause)
  <2>1. /\ Restored(j, r) \in Records /\ Restored(j, r).status = "paused"
        /\ Restored(j, r).held = r.held
    BY <1>2, <1>6
  <2> QED BY <2>1 DEF HasSlot, HonestRecord
<1>7. CASE /\ r.status = "running" /\ r.problem # "uncertain"
           /\ Restored(j, r) = Becomes(r, "queued", cause)
  <2>1. /\ Restored(j, r) \in Records /\ Restored(j, r).status = "queued"
        /\ Restored(j, r).held = r.held /\ Restored(j, r).problem # "uncertain"
    BY <1>1, <1>2, <1>7
  <2> QED BY <1>7, <2>1 DEF HasSlot, HonestRecord
<1> QED BY <1>3, <1>4, <1>5, <1>6, <1>7

LEMMA NoSlots == ASSUME NEW q, \A j \in Jobs : ~HasSlot(q[j]) PROVE Cardinality(Slots(q)) = 0
<1>1. Slots(q) = {} BY DEF Slots
<1> QED BY <1>1, FS_EmptySet

LEMMA IdleFacts ==
  /\ Idle \in Goroutines /\ Idle.ended = TRUE /\ Idle.pc = "none"
  /\ NotEvicting.job = NoJob /\ NotEvicting.phase = "no"
  /\ NotEvicting \in [job : Jobs \cup {NoJob}, phase : Phases]
BY DEF Idle, Goroutines, NotEvicting, Phases

\* Nobody works: what is left of the invariants is about the records.
Quiescent ==
  /\ Shapes /\ Honest(job, consent) /\ Honest(disk, consent) /\ active = 0
  /\ \A j \in Jobs : ~HasSlot(job[j])
  /\ \A w \in Workers : worker[w] = Idle
  /\ \A j \in Jobs : owner[j] = "free" /\ evicting[j] = NotEvicting

LEMMA QuiescentHolds == Quiescent => RunInv /\ Counted /\ CleaningInv
<1> SUFFICES ASSUME Quiescent PROVE RunInv /\ Counted /\ CleaningInv OBVIOUS
<1> USE DEF Quiescent
<1>1. \A j \in Remote, r \in Runs : worker[<<j, r>>] = Idle BY DEF Workers
<1>2. OneReporter /\ MarksOnce
  <2>1. Moves \subseteq Remote BY DEF Remote
  <2> QED BY <1>1, <2>1, IdleFacts DEF OneReporter, MarksOnce
<1>3. Named BY IdleFacts DEF Named, Cleans
<1>4. NothingHeld
  <2>1. Moves \subseteq Remote /\ Moves \subseteq Jobs BY DEF Remote, Jobs
  <2> QED BY <1>1, <2>1, IdleFacts DEF NothingHeld, Removing
<1>5. Counted BY NoSlots DEF Counted
<1>6. CleaningInv BY IdleFacts DEF CleaningInv, Removing, Evicting, Cleans
<1> QED BY <1>2, <1>3, <1>4, <1>5, <1>6 DEF RunInv

LEMMA QuiescentNext == Quiescent' => (RunInv /\ Counted /\ CleaningInv)'
BY QuiescentHolds, PTL

LEMMA RestartStep == ASSUME RunInv, Restart PROVE Good
<1>1. Shapes BY DEF RunInv
<1>2. /\ restarts < scene.restarts /\ restarts' = restarts + 1
      /\ job' = [j \in Jobs |-> Restored(j, disk[j])] /\ disk' = job'
      /\ active' = 0 /\ open' = TRUE
      /\ silent' = [j \in Jobs |-> FALSE]
      /\ worker' = [w \in Workers |-> Idle]
      /\ current' = [j \in Remote |-> NoRun]
      /\ due' = [j \in Remote |-> IF job'[j].status = "queued" THEN "created" ELSE "no"]
      /\ owner' = [j \in Jobs |-> "free"]
      /\ evicting' = [j \in Jobs |-> NotEvicting]
      /\ replaced' = {}
      /\ UNCHANGED <<settings, worldVars, scene, requests, trouble>>
  BY DEF Restart
<1>3. \A j \in Jobs : disk[j] \in Records BY <1>1 DEF Shapes
<1>4. job' \in [Jobs -> Records] /\ \A j \in Jobs : ~HasSlot(job'[j])
  BY <1>2, <1>3, RestoredFacts
<1>5. Honest(job', consent)
  <2> SUFFICES ASSUME NEW j \in Moves PROVE HonestRecord(job'[j], consent[j]) BY DEF Honest
  <2>1. j \in Jobs /\ HonestRecord(disk[j], consent[j])
    BY DEF RunInv, Honest, Jobs, Remote
  <2> QED BY <1>2, <1>3, <2>1, RestoredFacts
<1>6. Shapes'
  <2>1. restarts' \in 0 .. scene'.restarts
    <3>1. restarts \in 0 .. scene.restarts /\ scene.restarts \in Nat
      BY <1>1, LedgerAssumption DEF Shapes
    <3> QED BY <1>2, <3>1
  <2>2. /\ worker' \in [Workers -> Goroutines]
        /\ evicting' \in [Jobs -> [job : Jobs \cup {NoJob}, phase : Phases]]
        /\ current' \in [Remote -> Runs \cup {NoRun}]
        /\ due' \in [Remote -> {"no", "created", "resumed"}]
    BY <1>2, IdleFacts
  <2>3. /\ owner' \in [Jobs -> Requesting \cup {"free", "removing", "removed", "unremoved"}]
        /\ silent' \in [Jobs -> BOOLEAN] /\ open' \in BOOLEAN /\ active' \in Nat
        /\ replaced' \in SUBSET Jobs
    BY <1>2
  <2> QED BY <1>1, <1>2, <1>4, <2>1, <2>2, <2>3 DEF Shapes, worldVars, Phases
<1>7. RunInv' /\ Counted' /\ CleaningInv'
  <2>1. Honest(job, consent)' /\ Honest(disk, consent)'
    BY <1>2, <1>5 DEF worldVars, Honest
  <2>2. \A w \in Workers : worker'[w] = Idle BY <1>2
  <2>3. \A j \in Jobs : owner'[j] = "free" /\ evicting'[j] = NotEvicting BY <1>2
  <2> QED BY <1>2, <1>4, <1>6, <2>1, <2>2, <2>3, QuiescentNext DEF Quiescent
<1>8. NoMarkPassed BY <1>2, IdleFacts DEF NoMarkPassed
<1> QED BY <1>7, <1>8 DEF Good

LEMMA InitHolds == Init => RunInv /\ Counted /\ CleaningInv
<1> SUFFICES ASSUME Init PROVE RunInv /\ Counted /\ CleaningInv OBVIOUS
<1> DEFINE queued == [Absent EXCEPT !.status = "queued"]
           failed == [Absent EXCEPT !.status = "failed", !.held = TRUE]
<1>1. /\ queued \in Records /\ queued.status = "queued" /\ queued.problem = "none"
      /\ queued.held = FALSE /\ failed \in Records /\ failed.status = "failed"
  BY DEF Absent, Records, Statuses
<1>2. \A j \in Jobs : job[j] = IF j \in scene.queued THEN queued
                               ELSE IF j \in scene.failed THEN failed ELSE Absent
  BY DEF Init
<1>3. /\ scene.queued \subseteq Remote /\ scene.failed \subseteq Uploads
      /\ scene.settings \subseteq Settings /\ scene.requests \in Nat
      /\ scene.trouble \in Nat /\ scene.restarts \in Nat
  <2>1. scene \in Scenarios BY DEF Init
  <2> QED BY <2>1, LedgerAssumption
<1> HIDE DEF queued, failed
<1>4. job \in [Jobs -> Records] /\ \A j \in Jobs : ~HasSlot(job[j])
  <2>1. \A j \in Jobs : job[j] \in Records /\ ~HasSlot(job[j])
    BY <1>1, <1>2, RecordFacts DEF HasSlot
  <2>2. job = [j \in Jobs |-> job[j]] BY DEF Init
  <2> QED BY <2>1, <2>2
<1>5. Honest(job, consent)
  <2> SUFFICES ASSUME NEW j \in Moves PROVE HonestRecord(job[j], consent[j]) BY DEF Honest
  <2>1. j \in Jobs /\ j \notin scene.failed
    BY <1>3, LedgerAssumption DEF Jobs, Remote
  <2>2. j \in scene.queued => consent[j] = TRUE BY DEF Init
  <2> QED BY <1>1, <1>2, <2>1, <2>2, RecordFacts DEF HonestRecord
<1>6. Shapes
  <2>1. /\ worker \in [Workers -> Goroutines]
        /\ evicting \in [Jobs -> [job : Jobs \cup {NoJob}, phase : Phases]]
    BY IdleFacts DEF Init, NotEvicting
  <2>2. /\ current \in [Remote -> Runs \cup {NoRun}]
        /\ due \in [Remote -> {"no", "created", "resumed"}]
        /\ owner \in [Jobs -> Requesting \cup {"free", "removing", "removed", "unremoved"}]
        /\ replaced \in SUBSET Jobs
    BY DEF Init
  <2>3. /\ silent \in [Jobs -> BOOLEAN] /\ part \in [Jobs -> Parts]
        /\ effect \in [Moves -> BOOLEAN] /\ consent \in [Moves -> BOOLEAN]
        /\ open \in BOOLEAN
    <3>1. /\ silent = [j \in Jobs |-> FALSE]
          /\ part = [j \in Jobs |-> IF j \in scene.failed THEN "made" ELSE "none"]
          /\ effect = [j \in Moves |-> FALSE] /\ open = TRUE
          /\ consent = [j \in Moves |-> j \in scene.queued]
      BY DEF Init
    <3>2. consent \in [Moves -> BOOLEAN]
      <4>1. \A S, T : [j \in S |-> j \in T] \in [S -> BOOLEAN] OBVIOUS
      <4> QED BY <3>1, <4>1, Zenon
    <3>3. silent \in [Jobs -> BOOLEAN] /\ effect \in [Moves -> BOOLEAN] BY <3>1
    <3>4. part \in [Jobs -> Parts] BY <3>1 DEF Parts
    <3> QED BY <3>1, <3>2, <3>3, <3>4
  <2>4. disk \in [Jobs -> Records] /\ scene \in Scenarios /\ active \in Nat
    BY <1>4 DEF Init
  <2>5. settings \in Settings BY <1>3 DEF Init
  <2>6. /\ requests \in 0 .. scene.requests /\ trouble \in 0 .. scene.trouble
        /\ restarts \in 0 .. scene.restarts
    <3>1. requests = 0 /\ trouble = 0 /\ restarts = 0 BY DEF Init
    <3> QED BY <1>3, <3>1
  <2> QED BY <1>4, <2>1, <2>2, <2>3, <2>4, <2>5, <2>6 DEF Shapes, Phases
<1>7. \A w \in Workers : worker[w] = Idle BY DEF Init
<1>8. \A n \in Jobs : owner[n] = "free" /\ evicting[n] = NotEvicting
  BY DEF Init, NotEvicting
<1>9. Honest(disk, consent) /\ active = 0 BY <1>5 DEF Init
<1> QED BY <1>4, <1>5, <1>6, <1>7, <1>8, <1>9, QuiescentHolds DEF Quiescent

-----------------------------------------------------------------------------
(* Every step, and the theorems *)

LEMMA RequestSteps == ASSUME RunInv, RequestStep PROVE Good
<1>1. ASSUME NEW j \in Jobs, NEW what \in Controls, ClientUpdate(j, what) PROVE Good
  BY <1>1, ClientUpdateStep, OrdinaryKeeps
<1>2. ASSUME NEW j \in Jobs, Silence(j) \/ Resend(j) PROVE Good
  BY <1>2, PlainRequests, OrdinaryKeeps
<1>3. ASSUME NEW j \in Jobs, Admit(j) PROVE Good BY <1>3, AdmitStep
<1>4. ASSUME NEW j \in Jobs, AdmitRefused(j) PROVE Good
  BY <1>4, CleanRequests, OrdinaryKeeps
<1>5. ASSUME NEW j \in Jobs, NEW ok \in BOOLEAN, EvictCleans(j, ok) \/ RemoveCleans(j, ok)
      PROVE  Good
  BY <1>5, CleanRequests, OrdinaryKeeps
<1>6. ASSUME NEW j \in Jobs, NEW k \in Jobs, EvictBegins(j, k) PROVE Good
  BY <1>6, EvictBeginsStep
<1>7. ASSUME NEW j \in Jobs, EvictEnds(j) \/ Remove(j) \/ RemoveEnds(j) PROVE Good
  BY <1>7, EvictEndsStep, RemoveStep, RemoveEndsStep
<1>8. ASSUME NEW S \in SUBSET Jobs, Clear(S) PROVE Good BY <1>8, ClearStep
<1>9. ASSUME List \/ Close \/ \E new \in Settings : Set(new) PROVE Good
  BY <1>9, PlainRequests, OrdinaryKeeps
<1>10. ASSUME Restart PROVE Good BY <1>10, RestartStep
<1> QED BY <1>1, <1>2, <1>3, <1>4, <1>5, <1>6, <1>7, <1>8, <1>9, <1>10 DEF RequestStep

LEMMA NextKeeps == ASSUME RunInv, [Next]_vars PROVE Good
<1>1. CASE RequestStep BY <1>1, RequestSteps
<1>2. CASE \E j \in Remote : Schedule(j) BY <1>2, ScheduleStep
<1>3. CASE \E w \in Workers : RunStep(w) BY <1>3, RunSteps
<1>4. CASE \E j \in Uploads : UploadStep(j) BY <1>4, UploadSteps, OrdinaryKeeps
<1>5. CASE UNCHANGED vars
  <2> USE <1>5 DEF vars, ledgerVars, actorVars, worldVars, boundVars
  <2>1. Shapes' BY DEF RunInv, Shapes
  <2>2. Honest(job, consent)' /\ Honest(disk, consent)' BY DEF RunInv, Honest
  <2>3. OneReporter' /\ MarksOnce' /\ Named' /\ NothingHeld'
    BY DEF RunInv, OneReporter, MarksOnce, Named, NothingHeld
  <2>4. NoMarkPassed BY DEF NoMarkPassed
  <2>5. Tallied => Counted' BY DEF Tallied, Counted
  <2>6. CleaningInv => CleaningInv' BY DEF CleaningInv, Evicting, Present
  <2> QED BY <2>1, <2>2, <2>3, <2>4, <2>5, <2>6 DEF Good, RunInv
<1> QED BY <1>1, <1>2, <1>3, <1>4, <1>5 DEF Next

\* RunInv holds whatever happens: the records keep their types, a move waits only with
\* the user's consent, and one run of a job reports (markRemoteCommitPending,
\* EnableQueuePersistence, finishRemoteWorker).
THEOREM RunsAreHonest == Spec => []RunInv
<1>1. Init => RunInv BY InitHolds
<1>2. RunInv /\ [Next]_vars => RunInv' BY NextKeeps DEF Good
<1> QED BY <1>1, <1>2, PTL DEF Spec

\* The action of NeverRepeated.
AskedFor ==
  \A w \in Workers :
    (/\ w[1] \in Moves
     /\ worker[w].pc = "marking" /\ worker'[w].pc = "operating"
     /\ effect[w[1]])
    => consent[w[1]]

\* A move that may have changed a host never begins again without the user, across any
\* number of restarts, sweeps and saves that failed (markRemoteCommitPending).
THEOREM MovesAreNotRepeated == Spec => NeverRepeated
<1>1. RunInv /\ [Next]_vars => [AskedFor]_vars
  <2> SUFFICES ASSUME RunInv, [Next]_vars PROVE AskedFor OBVIOUS
  <2>1. NoMarkPassed BY NextKeeps DEF Good
  <2> QED BY <2>1 DEF NoMarkPassed, AskedFor
<1>2. Spec => [][Next]_vars BY DEF Spec
<1> QED BY <1>1, <1>2, RunsAreHonest, PTL DEF NeverRepeated, AskedFor

\* As long as no name is used again while its removal is under way, a record that is
\* cleaned up holds no slot and is known to the one that cleans it (removeFinishedJob,
\* evictForAdmissionLocked), and activeJobs is the number of the jobs that hold a slot.
THEOREM CleaningIsKnown == Spec /\ [][NoReadmission]_vars => [](RunInv /\ Tallied)
<1>1. Init => RunInv /\ Tallied BY InitHolds DEF Tallied
<1>2. RunInv /\ Tallied /\ [Next]_vars /\ [NoReadmission]_vars => (RunInv /\ Tallied)'
  <2> SUFFICES ASSUME RunInv, Tallied, [Next]_vars, [NoReadmission]_vars
               PROVE  RunInv' /\ Tallied'
    OBVIOUS
  <2>1. NoReadmission
    BY DEF NoReadmission, Present, vars, ledgerVars
  <2> QED BY <2>1, NextKeeps DEF Good, Tallied
<1>3. Spec => Init /\ [][Next]_vars BY DEF Spec
<1> QED BY <1>1, <1>2, <1>3, PTL

\* activeJobs counts the slots (releaseJobLocked).
THEOREM SlotsStayCounted == Spec /\ [][NoReadmission]_vars => []SlotsAreCounted
<1>1. Tallied => SlotsAreCounted BY DEF Tallied, Counted, Slots, SlotsAreCounted
<1> QED BY <1>1, CleaningIsKnown, PTL

\* The types, with activeJobs never above the number of the jobs.
THEOREM TypesHold == Spec /\ [][NoReadmission]_vars => []TypeOK
<1>1. RunInv /\ Tallied => TypeOK
  <2> SUFFICES ASSUME RunInv, Tallied PROVE TypeOK OBVIOUS
  <2>1. active \in 0 .. Cardinality(Jobs)
    <3>1. Slots(job) \subseteq Jobs /\ IsFiniteSet(Jobs) BY LedgerAssumption DEF Slots
    <3>2. Cardinality(Slots(job)) <= Cardinality(Jobs) /\ Cardinality(Jobs) \in Nat
      BY <3>1, FS_Subset, FS_CardinalityType
    <3> QED BY <3>2 DEF RunInv, Shapes, Tallied, Counted
  <2> QED BY <2>1 DEF RunInv, Shapes, TypeOK
<1> QED BY <1>1, CleaningIsKnown, PTL

-----------------------------------------------------------------------------
(* What is known of the parts *)

\* The file the next engine reads says what the ledger said, or no engine follows.
Trusted == trouble = 0 \/ restarts = 0

\* Record r of job j says that it knew of a part, and that nothing is left of it.
SaysGone(j, r) ==
  r.held = TRUE /\ (r.status = "completed" \/ (j \in Uploads /\ r.status = "cancelled"))

\* A run that goes on and may make a part finds the record running, and who is about to
\* report that it is gone has seen it go.  "late" is what no record need speak of.
Acting == {"operating", "copying", "creating", "publishing"}
RunSafe(j) ==
  j \in Remote => \A r \in Runs : worker[<<j, r>>].ended = FALSE =>
    /\ worker[<<j, r>>].pc \in Acting => job[j].status = "running"
    /\ worker[<<j, r>>].pc = "done" => part[j] # "made" \/ job[j].held = FALSE
UploadSafe(j) ==
  j \in Uploads => /\ owner[j] = "preparing" => job[j].status = "running"
                   /\ owner[j] \in {"published", "cancelled"} => part[j] # "made"

\* A removal, or an admission, that says it has cleaned up has seen the part go.
RemovalSafe(j) == owner[j] = "removed" /\ Present(job, j) => part[j] # "made"
EvictionSafe(j) ==
  \A n \in Jobs : Evicting(n) /\ evicting[n].phase = "cleaned" /\ evicting[n].job = j
    => part[j] # "made"

PartSafe(j) == /\ Trusted /\ SaysGone(j, job[j]) => part[j] # "made"
               /\ RunSafe(j) /\ UploadSafe(j) /\ RemovalSafe(j) /\ EvictionSafe(j)

\* What the file says of a part, the record says.
FileFollows ==
  trouble = 0 => \A j \in Jobs :
    /\ disk[j].held = job[j].held
    /\ disk[j].status = job[j].status \/ ~Terminal(disk[j])

PartInv == (\A j \in Jobs : PartSafe(j)) /\ FileFollows

\* A record that disappears leaves no part but a late one.
Vanishes(j) ==
  Present(job, j) /\ job[j].held = TRUE /\ ~Present(job', j) /\ restarts' = restarts /\ Trusted
    => part[j] # "made"

Kept(j) == PartSafe(j)' /\ Vanishes(j)

\* A save that succeeded, or a change that the file need not know.
Filed ==
  trouble' = 0 =>
    /\ trouble = 0
    /\ \/ disk' = Durable(job')
       \/ /\ disk' = disk
          /\ \A j \in Jobs : /\ job'[j].held = job[j].held
                             /\ job'[j].status = job[j].status \/ ~Terminal(job[j])

Harmless == Filed /\ restarts' = restarts /\ \A j \in Jobs : Kept(j)

PartsKnown == RunInv /\ CleaningInv /\ PartInv

-----------------------------------------------------------------------------
(* What every step may do with a job it is not about *)

\* The runs of j that act, or are about to report, are those that did.
RunsAsBefore(j) ==
  j \in Remote => \A r \in Runs :
    worker'[<<j, r>>].ended = FALSE /\ worker'[<<j, r>>].pc \in Acting \cup {"done"} =>
      worker[<<j, r>>].ended = FALSE /\ worker'[<<j, r>>].pc = worker[<<j, r>>].pc

\* Who may make a part of j is who might, and who says that it is gone has seen it go.
OwnerAsBefore(j) ==
  /\ owner'[j] = "preparing" => owner[j] = "preparing"
  /\ owner'[j] \in {"published", "cancelled", "removed"}
       => owner'[j] = owner[j] \/ part'[j] # "made"
CleanedAsBefore(j) ==
  \A n \in Jobs : Evicting(n)' /\ evicting'[n].phase = "cleaned" /\ evicting'[n].job = j =>
    part'[j] # "made" \/ (Evicting(n) /\ evicting'[n] = evicting[n])

\* Who trusts the file after a step trusted it before.
LEMMA TrustGoes == ASSUME Filed, restarts' = restarts, Trusted' PROVE Trusted
BY DEF Filed, Trusted

\* What a step owes a job in whose place it makes no part.
LEMMA KeptBy ==
  ASSUME PartsKnown, Filed, restarts' = restarts, NEW j \in Jobs,
         part'[j] \in {part[j], "none", "late"}, CleanedAsBefore(j),
         SaysGone(j, job'[j]) => SaysGone(j, job[j]) \/ part'[j] # "made",
         Vanishes(j), RunSafe(j)',
         j \in Uploads =>
           /\ owner'[j] = "preparing" => job'[j].status = "running"
           /\ owner'[j] \in {"published", "cancelled"}
                => owner'[j] = owner[j] \/ part'[j] # "made",
         owner'[j] = "removed" /\ Present(job', j)
           => part'[j] # "made" \/ (owner[j] = "removed" /\ Present(job, j))
  PROVE  Kept(j)
<1>1. PartSafe(j) BY DEF PartsKnown, PartInv
<1>2. Trusted' /\ SaysGone(j, job'[j]) => part'[j] # "made"
  BY <1>1, TrustGoes DEF PartSafe
<1>3. UploadSafe(j)' BY <1>1 DEF PartSafe, UploadSafe
<1>4. RemovalSafe(j)' BY <1>1 DEF PartSafe, RemovalSafe
<1>5. EvictionSafe(j)'
  <2> SUFFICES ASSUME NEW n \in Jobs, Evicting(n)', evicting'[n].phase = "cleaned",
                      evicting'[n].job = j
               PROVE  part'[j] # "made"
    BY DEF EvictionSafe
  <2>1. \/ part'[j] # "made"
        \/ Evicting(n) /\ evicting[n].phase = "cleaned" /\ evicting[n].job = j
    BY DEF CleanedAsBefore
  <2> QED BY <1>1, <2>1 DEF PartSafe, EvictionSafe
<1> QED BY <1>2, <1>3, <1>4, <1>5 DEF Kept, PartSafe

\* A silent job has no run that acts and no upload that goes on.
LEMMA SweptIdle ==
  ASSUME RunInv, NEW j \in Jobs, Swept[j] # job[j]
  PROVE  /\ owner[j] # "preparing"
         /\ j \in Remote => \A r \in Runs : worker[<<j, r>>].pc \notin Acting \cup {"done"}
<1>1. j \in Stale BY DEF Swept
<1>2. ~InUse(j) BY <1>1 DEF Stale
<1> QED BY <1>2 DEF InUse, Keeping, Requesting, Acting

\* The record says what it said, or forgets that it knew of a part.
SaysLike(j, r) == job'[j].status = r.status /\ job'[j].held \in {r.held, FALSE}
SaysAsBefore(j) == SaysLike(j, job[j])

\* What a step owes a job whose record says what it said.
LEMMA Alike ==
  ASSUME PartsKnown, Filed, restarts' = restarts, NEW j \in Jobs,
         SaysAsBefore(j) \/ SaysLike(j, Swept[j]), part'[j] \in {part[j], "none", "late"},
         RunsAsBefore(j), OwnerAsBefore(j), CleanedAsBefore(j)
  PROVE  Kept(j)
<1>1. PartSafe(j) /\ Shapes BY DEF PartsKnown, PartInv, RunInv
<1>2. job[j] \in Records BY <1>1 DEF Shapes
<1>3. \/ /\ job[j].status = "running" /\ job'[j].status = "failed"
         /\ job'[j].held \in {job[j].held, FALSE} /\ Swept[j] # job[j]
      \/ SaysAsBefore(j)
  BY <1>1, <1>2, SweptShape DEF SaysAsBefore, SaysLike
<1>4. SaysGone(j, job'[j]) => SaysGone(j, job[j]) BY <1>3 DEF SaysGone, SaysAsBefore, SaysLike
<1>5. Vanishes(j) /\ (Present(job', j) => Present(job, j))
  BY <1>3 DEF Vanishes, Present, SaysAsBefore, SaysLike
<1>6. RunSafe(j)'
  <2> SUFFICES ASSUME j \in Remote, NEW r \in Runs, worker'[<<j, r>>].ended = FALSE,
                      worker'[<<j, r>>].pc \in Acting \cup {"done"}
               PROVE  /\ worker'[<<j, r>>].pc \in Acting => job'[j].status = "running"
                      /\ worker'[<<j, r>>].pc = "done" => part'[j] # "made" \/ job'[j].held = FALSE
    BY DEF RunSafe
  <2>1. worker[<<j, r>>].ended = FALSE /\ worker'[<<j, r>>].pc = worker[<<j, r>>].pc
    BY DEF RunsAsBefore
  <2>2. SaysAsBefore(j)
    <3>1. Swept[j] # job[j] => worker[<<j, r>>].pc \notin Acting \cup {"done"}
      BY SweptIdle DEF PartsKnown
    <3> QED BY <1>3, <2>1, <3>1
  <2> QED BY <1>1, <2>1, <2>2 DEF PartSafe, RunSafe, SaysAsBefore, SaysLike
<1>7. owner'[j] = "preparing" /\ j \in Uploads => job'[j].status = "running"
  <2> SUFFICES ASSUME owner'[j] = "preparing", j \in Uploads PROVE job'[j].status = "running"
    OBVIOUS
  <2>1. owner[j] = "preparing" BY DEF OwnerAsBefore
  <2>2. SaysAsBefore(j) BY <1>3, <2>1, SweptIdle DEF PartsKnown
  <2> QED BY <1>1, <2>1, <2>2 DEF PartSafe, UploadSafe, SaysAsBefore, SaysLike
<1>8. owner'[j] \in {"published", "cancelled"} => owner'[j] = owner[j] \/ part'[j] # "made"
  BY DEF OwnerAsBefore
<1>9. owner'[j] = "removed" /\ Present(job', j)
        => part'[j] # "made" \/ (owner[j] = "removed" /\ Present(job, j))
  BY <1>5 DEF OwnerAsBefore
<1> QED BY <1>4, <1>5, <1>6, <1>7, <1>8, <1>9, KeptBy

\* The same, where the record is as it was or swept.
LEMMA Passive ==
  ASSUME PartsKnown, Filed, restarts' = restarts, NEW j \in Jobs,
         job'[j] \in {job[j], Swept[j]}, part'[j] \in {part[j], "none", "late"},
         RunsAsBefore(j), OwnerAsBefore(j), CleanedAsBefore(j)
  PROVE  Kept(j)
BY Alike DEF SaysAsBefore, SaysLike

\* The goroutines after a step of w, or of none.
LEMMA NearRuns ==
  ASSUME NEW w, NEW pc, Near(worker', w, pc), NEW j \in Jobs,
         j # w[1] \/ pc \notin Acting \cup {"done"}
  PROVE  RunsAsBefore(j)
<1> SUFFICES ASSUME j \in Remote, NEW r \in Runs, worker'[<<j, r>>].ended = FALSE,
                    worker'[<<j, r>>].pc \in Acting \cup {"done"}
             PROVE  worker[<<j, r>>].ended = FALSE
                    /\ worker'[<<j, r>>].pc = worker[<<j, r>>].pc
  BY DEF RunsAsBefore
<1>1. <<j, r>> \in Workers BY DEF Workers
<1>2. <<j, r>> # w
  <2>1. CASE j # w[1] BY <2>1
  <2>2. CASE pc \notin Acting \cup {"done"} BY <1>1, <2>2 DEF Near
  <2> QED BY <2>1, <2>2
<1> QED BY <1>1, <1>2 DEF Near

\* Goroutines that are only woken or ended do nothing new.
LEMMA LikeRuns ==
  ASSUME Shapes, Like(worker', worker), NEW j \in Jobs PROVE RunsAsBefore(j)
<1>1. worker \in Gang BY DEF Shapes, Gang
<1>2. \A r \in Runs : j \in Remote => <<j, r>> \in Workers BY DEF Workers
<1> QED BY <1>1, <1>2 DEF Like, RunsAsBefore

\* A step of run w leaves no other run of its job that could report, if w has not ended.
LEMMA OnlyRun ==
  ASSUME RunInv, NEW w \in Workers, worker[w].ended = FALSE,
         NEW r \in Runs, worker[<<w[1], r>>].ended = FALSE
  PROVE  <<w[1], r>> = w
<1>1. w[1] \in Remote /\ w[2] \in Runs /\ w = <<w[1], w[2]>> BY DEF Workers
<1>2. worker[<<w[1], w[2]>>].ended = FALSE BY <1>1
<1>3. current[w[1]] = w[2] /\ current[w[1]] = r
  BY <1>1, <1>2 DEF RunInv, OneReporter
<1> QED BY <1>1, <1>3

\* The run of job j that was current has ended.
LEMMA EndedRuns ==
  ASSUME RunInv, NEW j \in Jobs, Like(worker', EndRun(j, worker))
  PROVE  j \in Remote => \A r \in Runs : worker'[<<j, r>>].ended # FALSE
<1> SUFFICES ASSUME j \in Remote, NEW r \in Runs, worker'[<<j, r>>].ended = FALSE
             PROVE  FALSE
  OBVIOUS
<1>1. worker \in Gang /\ current \in [Remote -> Runs \cup {NoRun}] BY DEF RunInv, Shapes, Gang
<1>2. <<j, r>> \in Workers BY DEF Workers
<1>3. Like(EndRun(j, worker), worker) BY EndRunLike DEF RunInv
<1>4. EndRun(j, worker) \in Gang BY <1>1, <1>3 DEF Like
<1>5. EndRun(j, worker)[<<j, r>>].ended = FALSE BY <1>2, <1>4 DEF Like
<1>6. worker[<<j, r>>].ended = FALSE BY <1>1, <1>2, <1>3, <1>5 DEF Like
<1>7. current[j] = r /\ current[j] # NoRun
  BY <1>6, LedgerAssumption DEF RunInv, OneReporter
<1>8. worker[<<j, r>>] \in Goroutines BY <1>1, <1>2 DEF Gang
<1>9. EndRun(j, worker) = [worker EXCEPT ![<<j, r>>].ended = TRUE] BY <1>7 DEF EndRun
<1>10. EndRun(j, worker)[<<j, r>>].ended = TRUE
  BY <1>1, <1>2, <1>8, <1>9 DEF Gang, Goroutines
<1> QED BY <1>5, <1>10

-----------------------------------------------------------------------------
(* What the saves leave in the file, and in the records they are not about *)

\* A save that reported a failure leaves nothing to trust.
LEMMA NotFiled ==
  ASSUME Shapes, NEW base, NEW q, NotSaved(base, q) PROVE trouble' # 0 /\ Filed
<1>1. trouble \in Nat BY DEF Shapes
<1> QED BY <1>1 DEF NotSaved, Filed

\* A save that succeeded leaves the file saying what the ledger says.
LEMMA SavedFiled == ASSUME NEW q, Saved(q), job' = q PROVE Filed
BY DEF Saved, Filed

\* A step that leaves the ledger alone leaves the file right.
LEMMA StillFiled == ASSUME UNCHANGED <<job, disk, trouble>> PROVE Filed
BY DEF Filed

\* The records of S may change as they like, the others are as they were or swept.
Others(S) == \A j \in Jobs : j \notin S => job'[j] \in {job[j], Swept[j]}

\* A sweep whose save fails changes no record.
LEMMA SweepFailsOthers == ASSUME Shapes, NEW ws, SweepFails(ws)
                          PROVE Filed /\ Others({}) /\ Like(worker', ws)
BY NotFiled, SignalLike DEF SweepFails, Others

\* A sweep changes the records of the silent jobs.
LEMMA SweepOthers ==
  ASSUME Shapes, NEW ws, SweepOnly(ws) PROVE Filed /\ Others({}) /\ Like(worker', ws)
<1>1. CASE SweepFails(ws) BY <1>1, SweepFailsOthers
<1>2. CASE SweepSaved(ws)
  <2>1. job' = Swept /\ Like(worker', ws) BY <1>2, SignalIfLike DEF SweepSaved
  <2>2. CASE Stale = {}
    <3>1. UNCHANGED <<job, disk, trouble>> BY <1>2, <2>1, <2>2, SweptShape DEF SweepSaved
    <3> QED BY <2>1, <3>1, StillFiled DEF Others
  <2>3. CASE Stale # {}
    <3>1. Saved(Swept) BY <1>2, <2>3 DEF SweepSaved
    <3> QED BY <2>1, <3>1, SavedFiled DEF Others
  <2> QED BY <2>2, <2>3
<1> QED BY <1>1, <1>2 DEF SweepOnly

\* So does a request whose own save fails.
LEMMA SaveFailsOthers ==
  ASSUME Shapes, NEW q, NEW freed, NEW ws, SaveFails(q, freed, ws)
  PROVE  Filed /\ Others({}) /\ Like(worker', ws)
<1>1. CASE SweepFails(ws) BY <1>1, SweepFailsOthers
<1>2. CASE ~SweepFails(ws)
  <2>1. /\ NotSaved(IF Stale = {} THEN disk ELSE Durable(Swept), q) /\ job' = Swept
        /\ worker' = SignalIf(Stale # {} \/ freed, ws)
    BY <1>2 DEF SaveFails
  <2> QED BY <2>1, NotFiled, SignalIfLike DEF Others
<1> QED BY <1>1, <1>2

\* An update changes the record of its job, and sweeps.
LEMMA UpdateOthers ==
  ASSUME Shapes, NEW j \in Jobs, NEW r, NEW n, NEW ok, NEW no, Update(j, r, n, ok, no)
  PROVE  /\ Filed /\ Others({j})
         /\ \/ /\ job'[j] = r /\ Like(worker', ok)
               /\ HasSlot(r) \/ r.status = "queued" \/ Like(worker', EndRun(j, ok))
            \/ Others({}) /\ Like(worker', no)
<1> DEFINE q == [Swept EXCEPT ![j] = r]
           freed == n < sweptActive
           going == HasSlot(r) \/ r.status = "queued"
           after == IF going THEN ok ELSE EndRun(j, ok)
<1>1. \/ job' = q /\ Saved(q) /\ worker' = SignalIf(Stale # {} \/ freed, after)
      \/ SaveFails(q, freed, no)
  BY DEF Update
<1>2. q[j] = r /\ \A k \in Jobs : k # j => q[k] = Swept[k]
  <2>1. DOMAIN Swept = Jobs BY DEF Swept
  <2> QED BY <2>1
<1>3. Like(after, ok) /\ (going \/ after = EndRun(j, ok))
  <2>1. Like(EndRun(j, ok), ok) /\ Like(ok, ok) BY EndRunLike, SignalLike
  <2> QED BY <2>1
<1> HIDE DEF q, freed, going, after
<1>4. CASE SaveFails(q, freed, no) BY <1>4, SaveFailsOthers DEF Others
<1>5. CASE job' = q /\ Saved(q) /\ worker' = SignalIf(Stale # {} \/ freed, after)
  <2>1. Filed BY <1>5, SavedFiled
  <2>2. Like(worker', after) BY <1>5, SignalIfLike
  <2>3. Like(worker', ok) BY <1>3, <2>2, LikeChain
  <2> QED BY <1>2, <1>3, <1>5, <2>1, <2>2, <2>3 DEF Others, going
<1> QED BY <1>1, <1>4, <1>5

\* A rewrite changes the record of its job.
LEMMA RewriteOthers ==
  ASSUME Shapes, NEW j \in Jobs, NEW r, NEW ok, NEW no, Rewrite(j, r, ok, no)
  PROVE  /\ Filed /\ Others({j})
         /\ \/ job'[j] = r /\ worker' = ok
            \/ job' = job /\ Others({}) /\ worker' = no
<1> DEFINE q == [job EXCEPT ![j] = r]
<1>1. \/ job' = q /\ Saved(q) /\ worker' = ok
      \/ NotSaved(disk, q) /\ worker' = no /\ job' = job
  BY DEF Rewrite
<1>2. q[j] = r /\ \A k \in Jobs : k # j => q[k] = job[k] BY DEF Shapes
<1> HIDE DEF q
<1>3. CASE job' = q /\ Saved(q) /\ worker' = ok BY <1>2, <1>3, SavedFiled DEF Others
<1>4. CASE NotSaved(disk, q) /\ worker' = no /\ job' = job BY <1>4, NotFiled DEF Others
<1> QED BY <1>1, <1>3, <1>4

\* A ledger that stays has changed no record.
LEMMA StayOthers == ASSUME job' = job PROVE Others({})
BY DEF Others

-----------------------------------------------------------------------------
(* The steps of a goroutine *)

\* The actors a step of a goroutine leaves alone.
LEMMA ActorsStay ==
  ASSUME UNCHANGED <<owner, evicting, replaced, restarts>>
  PROVE  restarts' = restarts /\ \A j \in Jobs : CleanedAsBefore(j) /\ OwnerAsBefore(j)
BY DEF CleanedAsBefore, Evicting, OwnerAsBefore

\* Everybody else's jobs.
LEMMA Bystanders ==
  ASSUME PartsKnown, Filed, NEW S, Others(S),
         UNCHANGED <<owner, evicting, replaced, restarts>>,
         \A j \in Jobs : j \notin S => RunsAsBefore(j) /\ part'[j] \in {part[j], "none", "late"}
  PROVE  \A j \in Jobs : j \notin S => Kept(j)
<1>1. restarts' = restarts /\ \A j \in Jobs : CleanedAsBefore(j) /\ OwnerAsBefore(j)
  BY ActorsStay
<1> SUFFICES ASSUME NEW j \in Jobs, j \notin S PROVE Kept(j) OBVIOUS
<1>2. job'[j] \in {job[j], Swept[j]} BY DEF Others
<1> QED BY <1>1, <1>2, Passive

\* The job of the goroutine, whose record is there and stays.
LEMMA OwnJob ==
  ASSUME PartsKnown, Filed, NEW w \in Workers, Present(job', w[1]),
         UNCHANGED <<owner, evicting, replaced, restarts>>,
         part'[w[1]] \in {part[w[1]], "none", "late"}, Present(job, w[1]),
         SaysGone(w[1], job'[w[1]]) => SaysGone(w[1], job[w[1]]) \/ part'[w[1]] # "made",
         RunSafe(w[1])'
  PROVE  Kept(w[1])
<1>1. w[1] \in Jobs /\ w[1] \in Remote /\ w[1] \notin Uploads
  BY LedgerAssumption DEF Workers, Jobs
<1>2. CleanedAsBefore(w[1]) /\ OwnerAsBefore(w[1]) /\ Vanishes(w[1])
  BY <1>1, ActorsStay DEF Vanishes
<1>3. owner'[w[1]] = "removed" => owner[w[1]] = "removed" OBVIOUS
<1> QED BY <1>1, <1>2, <1>3, KeptBy

\* No run of the job is left that acts or is about to report.
LEMMA RunsAway ==
  ASSUME RunInv, NEW w \in Workers, NEW pc, Near(worker', w, pc), pc \notin Acting \cup {"done"},
         worker[w].ended = FALSE
  PROVE  RunSafe(w[1])'
<1> SUFFICES ASSUME w[1] \in Remote, NEW r \in Runs, worker'[<<w[1], r>>].ended = FALSE
             PROVE  worker'[<<w[1], r>>].pc \notin Acting \cup {"done"}
  BY DEF RunSafe
<1>1. <<w[1], r>> \in Workers BY DEF Workers
<1>2. worker[<<w[1], r>>].ended = FALSE BY <1>1 DEF Near
<1>3. <<w[1], r>> = w BY <1>2, OnlyRun
<1> QED BY <1>1, <1>3 DEF Near

\* A step of w alone, that acts only after it has acted, and is done with a part only where
\* the record knows of none.
LEMMA AloneHarmless ==
  ASSUME PartsKnown, NEW w \in Workers, NEW ws, NEW pc, Alone(w, ws), Near(ws, w, pc),
         pc \in Acting => worker[w].pc \in Acting,
         pc = "done" => job[w[1]].held = FALSE
  PROVE  Harmless
<1>1. /\ worker' = ws /\ UNCHANGED <<job, disk, trouble, owner, part>>
      /\ UNCHANGED <<owner, evicting, replaced, restarts>>
  BY DEF Alone, still
<1>2. Filed BY <1>1, StillFiled
<1>3. Others({w[1]}) BY <1>1 DEF Others
<1>4. \A j \in Jobs : j \notin {w[1]} => RunsAsBefore(j) /\ part'[j] \in {part[j], "none", "late"}
  BY <1>1, NearRuns
<1>5. \A j \in Jobs : j # w[1] => Kept(j) BY <1>1, <1>2, <1>3, <1>4, Bystanders
<1>6. w[1] \in Jobs /\ w[1] \in Remote /\ w[1] \notin Uploads
  BY LedgerAssumption DEF Workers, Jobs
<1>7. RunSafe(w[1])'
  <2> SUFFICES ASSUME NEW r \in Runs, worker'[<<w[1], r>>].ended = FALSE
               PROVE  /\ worker'[<<w[1], r>>].pc \in Acting => job'[w[1]].status = "running"
                      /\ worker'[<<w[1], r>>].pc = "done" =>
                           part'[w[1]] # "made" \/ job'[w[1]].held = FALSE
    BY DEF RunSafe
  <2>1. <<w[1], r>> \in Workers BY <1>6 DEF Workers
  <2>2. worker[<<w[1], r>>].ended = FALSE BY <1>1, <2>1 DEF Near
  <2>3. RunSafe(w[1]) BY <1>6 DEF PartsKnown, PartInv, PartSafe
  <2>4. CASE <<w[1], r>> = w
    <3>1. worker'[<<w[1], r>>].pc = pc BY <1>1, <2>4 DEF Near
    <3> QED BY <1>1, <1>6, <2>2, <2>3, <2>4, <3>1 DEF RunSafe
  <2>5. CASE <<w[1], r>> # w
    <3>1. worker'[<<w[1], r>>].pc = worker[<<w[1], r>>].pc BY <1>1, <2>1, <2>5 DEF Near
    <3> QED BY <1>1, <1>6, <2>2, <2>3, <3>1 DEF RunSafe
  <2> QED BY <2>4, <2>5
<1>8. CleanedAsBefore(w[1]) /\ OwnerAsBefore(w[1]) BY <1>1, <1>6, ActorsStay
<1>9. Vanishes(w[1]) BY <1>1 DEF Vanishes, Present
<1>10. Present(job', w[1]) => Present(job, w[1]) BY <1>1 DEF Present
<1>11. Kept(w[1])
  BY <1>1, <1>2, <1>6, <1>7, <1>8, <1>9, <1>10, KeptBy
<1> QED BY <1>1, <1>2, <1>5, <1>11 DEF Harmless

\* The steps of a goroutine that only move it.
LEMMA QuietHarmless ==
  ASSUME PartsKnown, NEW w \in Workers,
         SlotWait(w) \/ Wake(w) \/ Keep(w) \/ CopyBegins(w) \/ Interrupted(w) \/ Ending(w)
  PROVE  Harmless
<1>1. Shapes BY DEF PartsKnown, RunInv
<1> USE DEF PCs, Keeping, Errors, Acting
<1>2. CASE SlotWait(w)
  <2>1. CASE worker[w].ended
    <3>1. Alone(w, Leave(w, "ending")) BY <1>2, <2>1 DEF SlotWait
    <3>2. Near(Leave(w, "ending"), w, "ending") BY <1>1, MoveTo
    <3> QED BY <3>1, <3>2, AloneHarmless
  <2>2. CASE ~worker[w].ended
    <3> DEFINE timer == \E j \in Jobs : job[j].status = "running" /\ ~InUse(j)
               ws == [worker EXCEPT ![w].pc = "asked", ![w].woken = FALSE,
                                    ![w].timer = timer]
               g == [worker[w] EXCEPT !.pc = "asked", !.woken = FALSE, !.timer = timer]
    <3>1. Alone(w, ws) BY <1>2, <2>2 DEF SlotWait
    <3>2. worker \in Gang /\ worker[w] \in Goroutines BY <1>1 DEF Shapes, Gang
    <3>3. timer \in BOOLEAN OBVIOUS
    <3> HIDE DEF timer
    <3>4. g \in Goroutines /\ g.pc = "asked" /\ g.ended = worker[w].ended
      BY <3>2, <3>3 DEF Goroutines
    <3>5. ws = [worker EXCEPT ![w] = g] BY <3>2 DEF Gang, Goroutines
    <3> HIDE DEF g, ws
    <3>6. Near(ws, w, "asked") BY <3>2, <3>4, <3>5 DEF Near, Gang
    <3> QED BY <3>1, <3>6, AloneHarmless
  <2> QED BY <2>1, <2>2
<1>3. CASE Wake(w)
  <2>1. \E pc \in {"ending", "asking"} : Alone(w, Leave(w, pc)) BY <1>3 DEF Wake
  <2>2. PICK pc \in {"ending", "asking"} : Alone(w, Leave(w, pc)) BY <2>1
  <2>3. Near(Leave(w, pc), w, pc) BY <1>1, MoveTo
  <2> QED BY <2>2, <2>3, AloneHarmless
<1>4. CASE Keep(w)
  <2>1. PICK pc \in {"ending", "planning"} : Alone(w, Leave(w, pc)) BY <1>4 DEF Keep
  <2>2. Near(Leave(w, pc), w, pc) BY <1>1, MoveTo
  <2> QED BY <2>1, <2>2, AloneHarmless
<1>5. CASE CopyBegins(w)
  <2>1. Near(Errs(w, "refused", FALSE), w, "failing") /\ Near(To(w, "copying"), w, "copying")
    BY <1>1, MoveTo
  <2>2. CASE Alone(w, Errs(w, "refused", FALSE)) BY <2>1, <2>2, AloneHarmless
  <2>3. worker[w].pc = "operating" BY <1>5 DEF CopyBegins
  <2>4. CASE Alone(w, To(w, "copying")) BY <2>1, <2>3, <2>4, AloneHarmless
  <2> QED BY <1>5, <2>2, <2>4 DEF CopyBegins
<1>6. CASE Interrupted(w)
  <2>1. PICK pc \in {"interrupted", "reporting"} : Alone(w, To(w, pc))
    BY <1>6 DEF Interrupted
  <2>2. Near(To(w, pc), w, pc) BY <1>1, MoveTo
  <2> QED BY <2>1, <2>2, AloneHarmless
<1>7. CASE Ending(w)
  <2>1. PICK pc \in {"cleaning", "finishing"} : Alone(w, To(w, pc))
    BY <1>7 DEF Ending
  <2>2. Near(To(w, pc), w, pc) BY <1>1, MoveTo
  <2> QED BY <2>1, <2>2, AloneHarmless
<1> QED BY <1>2, <1>3, <1>4, <1>5, <1>6, <1>7

\* The reports: one that is accepted leaves a record that says nothing of a part, or is
\* made by who has seen it go.
LEMMA ReportHarmless ==
  ASSUME PartsKnown, NEW w \in Workers, NEW can, NEW r, NEW n, NEW ok, NEW no,
         NEW pc, NEW bad,
         Report(w, can, r, n, ok, no), UNCHANGED <<current, owner, worldVars, still>>,
         Near(ok, w, pc), Near(no, w, bad),
         pc \notin Acting \cup {"done"}, bad \notin Acting \cup {"done"},
         can => r.status # "none",
         worker[w].ended = FALSE /\ can /\ SaysGone(w[1], r) => part[w[1]] # "made"
  PROVE  Harmless
<1>1. Shapes /\ RunInv BY DEF PartsKnown, RunInv
<1>2. w[1] \in Jobs BY DEF Workers, Jobs
<1>3. worker[w].ended \in BOOLEAN BY <1>1 DEF Shapes, Goroutines
<1>4. UNCHANGED <<owner, evicting, replaced, restarts, part>> BY DEF still, worldVars
<1>5. \/ Filed /\ Others({}) /\ Like(worker', no)
      \/ /\ Filed /\ Others({w[1]}) /\ job'[w[1]] = r /\ Like(worker', ok)
         /\ worker[w].ended = FALSE /\ can /\ Open(w[1])
  <2>1. CASE worker' = no /\ UNCHANGED <<job, active, silent, disk, trouble>>
    BY <2>1, StillFiled, StayOthers, SignalLike
  <2>2. CASE SweepOnly(no) BY <1>1, <2>2, SweepOthers
  <2>3. CASE Open(w[1]) /\ ~worker[w].ended /\ can /\ Update(w[1], r, n, ok, no)
    <3>1. /\ Filed /\ Others({w[1]})
          /\ (job'[w[1]] = r /\ Like(worker', ok)) \/ (Others({}) /\ Like(worker', no))
      BY <1>1, <1>2, <2>3, UpdateOthers
    <3> QED BY <1>3, <2>3, <3>1
  <2> QED BY <2>1, <2>2, <2>3 DEF Report
<1>6. CASE Filed /\ Others({}) /\ Like(worker', no)
  <2>1. Near(worker', w, bad) BY <1>6, LikeNear
  <2>2. \A j \in Jobs : j \notin {} => RunsAsBefore(j) /\ part'[j] \in {part[j], "none", "late"}
    BY <1>4, <2>1, NearRuns
  <2> QED BY <1>4, <1>6, <2>2, Bystanders DEF Harmless
<1>7. CASE /\ Filed /\ Others({w[1]}) /\ job'[w[1]] = r /\ Like(worker', ok)
           /\ worker[w].ended = FALSE /\ can /\ Open(w[1])
  <2>1. Near(worker', w, pc) BY <1>7, LikeNear
  <2>2. \A j \in Jobs : j \notin {w[1]} => RunsAsBefore(j) /\ part'[j] \in {part[j], "none", "late"}
    BY <1>4, <2>1, NearRuns
  <2>3. \A j \in Jobs : j # w[1] => Kept(j) BY <1>4, <1>7, <2>2, Bystanders
  <2>4. RunSafe(w[1])' BY <1>1, <1>7, <2>1, RunsAway
  <2>5. Present(job, w[1]) /\ Present(job', w[1])
    <3>1. Present(Swept, w[1]) BY <1>7 DEF Open
    <3>2. Present(job, w[1]) BY <1>1, <1>2, <3>1, SweptShape DEF Present
    <3> QED BY <1>7, <3>2 DEF Present
  <2>6. Kept(w[1]) BY <1>4, <1>7, <2>4, <2>5, OwnJob
  <2> QED BY <1>4, <1>7, <2>3, <2>6 DEF Harmless
<1> QED BY <1>5, <1>6, <1>7

\* A step of w that is about its own job: everybody else's are as they were.
LEMMA SavingHarmless ==
  ASSUME PartsKnown, NEW w \in Workers, NEW pc, Near(worker', w, pc), Filed, Others({w[1]}),
         UNCHANGED <<owner, evicting, replaced, restarts>>,
         \A j \in Jobs : j # w[1] => part'[j] \in {part[j], "none", "late"},
         Kept(w[1])
  PROVE  Harmless
<1>1. \A j \in Jobs : j \notin {w[1]} => RunsAsBefore(j) /\ part'[j] \in {part[j], "none", "late"}
  BY NearRuns
<1>2. \A j \in Jobs : j \notin {w[1]} => Kept(j) BY <1>1, Bystanders
<1> QED BY <1>2 DEF Harmless

\* The same, where the record says what it said.
LEMMA AlikeHarmless ==
  ASSUME PartsKnown, NEW w \in Workers, NEW pc, Near(worker', w, pc), Filed, Others({w[1]}),
         UNCHANGED <<owner, evicting, replaced, restarts>>,
         \A j \in Jobs : part'[j] \in {part[j], "none", "late"},
         SaysAsBefore(w[1]), pc \notin Acting \cup {"done"}
  PROVE  Harmless
<1>1. w[1] \in Jobs BY DEF Workers, Jobs
<1>2. RunsAsBefore(w[1]) BY <1>1, NearRuns
<1>3. CleanedAsBefore(w[1]) /\ restarts' = restarts /\ OwnerAsBefore(w[1]) BY <1>1, ActorsStay
<1>4. Kept(w[1]) BY <1>1, <1>2, <1>3, Alike
<1> QED BY <1>4, SavingHarmless

\* A step that sweeps, and moves a goroutine to where it cannot act.
LEMMA SweepHarmless ==
  ASSUME PartsKnown, NEW w \in Workers, NEW ws, NEW pc, SweepOnly(ws), Near(ws, w, pc),
         pc \notin Acting \cup {"done"}, UNCHANGED <<current, owner, worldVars, still>>
  PROVE  Harmless
<1>1. Shapes BY DEF PartsKnown, RunInv
<1>2. UNCHANGED <<owner, evicting, replaced, restarts, part>> BY DEF still, worldVars
<1>3. Filed /\ Others({}) /\ Like(worker', ws) BY <1>1, SweepOthers
<1>4. Near(worker', w, pc) BY <1>3, LikeNear
<1>5. \A j \in Jobs : j \notin {} => RunsAsBefore(j) /\ part'[j] \in {part[j], "none", "late"}
  BY <1>2, <1>4, NearRuns
<1> QED BY <1>2, <1>3, <1>5, Bystanders DEF Harmless

\* The start report gives the goroutine a running record before it acts.
LEMMA StartHarmless ==
  ASSUME PartsKnown, NEW w \in Workers, NEW ok, NEW no, NEW pc, NEW bad,
         StartReport(w, ok, no), UNCHANGED <<current, owner, worldVars, still>>,
         Near(ok, w, pc), Near(no, w, bad),
         pc \notin Acting \cup {"done"}, bad \notin Acting \cup {"done"}
  PROVE  Harmless
<1> DEFINE r == Swept[w[1]]
           s == Started(r)
<1>1. w[1] \in Jobs BY DEF Workers, Jobs
<1>2. Report(w, CanControl(r, "start"), s, SlotsAfter(r, "start"), ok, no)
  BY DEF StartReport
<1>3. s.status = "running"
  <2>1. r \in Records BY <1>1, SweptShape DEF PartsKnown, RunInv
  <2> HIDE DEF r
  <2> QED BY <2>1 DEF Started, Becomes, Records
<1>4. s.status # "none" /\ ~SaysGone(w[1], s) BY <1>3 DEF SaysGone
<1> HIDE DEF s, r
<1> QED BY <1>2, <1>4, ReportHarmless

\* The two steps that send it, AskSlot and Backoff.
LEMMA SlotHarmless ==
  ASSUME PartsKnown, NEW w \in Workers, AskSlot(w) \/ Backoff(w) PROVE Harmless
<1>1. Shapes BY DEF PartsKnown, RunInv
<1> USE DEF PCs, Keeping, Errors, Acting
<1>2. /\ Near(To(w, "waiting"), w, "waiting") /\ Near(Leave(w, "ending"), w, "ending")
      /\ Near(Leave(w, "started"), w, "started") /\ Near(Leave(w, "planning"), w, "planning")
      /\ Near(GivesUp(w), w, "reporting")
  BY <1>1, MoveTo, GivesUpNear
<1>3. CASE AskSlot(w)
  <2>1. UNCHANGED <<current, owner, worldVars, still>> BY <1>3 DEF AskSlot
  <2>2. CASE SweepSaved(To(w, "waiting")) BY <1>2, <2>1, <2>2, SweepHarmless DEF SweepOnly
  <2>3. CASE SweepFails(Leave(w, "ending")) BY <1>2, <2>1, <2>3, SweepHarmless DEF SweepOnly
  <2>4. CASE StartReport(w, Leave(w, "started"), Leave(w, "ending"))
    BY <1>2, <2>1, <2>4, StartHarmless
  <2> QED BY <1>3, <2>2, <2>3, <2>4 DEF AskSlot
<1>4. CASE Backoff(w)
  <2>1. CASE Alone(w, GivesUp(w)) BY <1>2, <2>1, AloneHarmless
  <2>2. CASE /\ StartReport(w, Leave(w, "planning"), GivesUp(w))
             /\ UNCHANGED <<current, owner, worldVars, still>>
    BY <1>2, <2>2, StartHarmless
  <2> QED BY <1>4, <2>1, <2>2 DEF Backoff
<1> QED BY <1>3, <1>4

\* The reports: a job that is completed has no part left, the others say nothing of it.
LEMMA ReportsHarmless ==
  ASSUME PartsKnown, NEW w \in Workers,
         Plan(w) \/ Complete(w) \/ Reconnect(w) \/ Fail(w)
  PROVE  Harmless
<1>1. Shapes /\ RunInv BY DEF PartsKnown, RunInv
<1>0. w[1] \in Remote /\ w[1] \in Jobs /\ w[1] \notin Uploads
  BY LedgerAssumption DEF Workers, Jobs
<1> DEFINE j == w[1]
           r == Swept[j]
<1> USE DEF PCs, Keeping, Errors, Acting
<1>r. r \in Records BY <1>0, <1>1, SweptShape
<1>2. CASE Plan(w)
  <2>1. ASSUME NEW err \in {"lost", "refused"}, Alone(w, Errs(w, err, TRUE))
        PROVE  Harmless
    <3>1. Near(Errs(w, err, TRUE), w, "failing") BY <1>1, MoveTo
    <3> QED BY <2>1, <3>1, AloneHarmless
  <2>2. Near(To(w, "marking"), w, "marking") /\ Near(Errs(w, "refused", TRUE), w, "failing")
    BY <1>1, MoveTo
  <2>3. CASE Alone(w, To(w, "marking")) BY <2>2, <2>3, AloneHarmless
  <2>4. CASE /\ Report(w, r.status = "running", r, sweptActive, To(w, "marking"),
                       Errs(w, "refused", TRUE))
             /\ UNCHANGED <<current, owner, worldVars, still>>
    <3>1. r.status = "running" => r.status # "none" /\ ~SaysGone(j, r) BY DEF SaysGone
    <3> QED BY <2>2, <2>4, <3>1, ReportHarmless
  <2> QED BY <1>2, <2>1, <2>3, <2>4 DEF Plan
<1>3. CASE Complete(w)
  <2> DEFINE s == Becomes(r, "completed", "none")
  <2>1. s.status = "completed" /\ s.held = r.held
    BY <1>0, <1>1, SweptRecord DEF Statuses
  <2>0. r.held = job[j].held BY <1>0, <1>1, SweptShape
  <2>2. /\ Report(w, r.status = "running", s, Released(sweptActive, r), Leave(w, "ending"),
                  To(w, "unrecorded"))
        /\ UNCHANGED <<current, owner, worldVars, still>> /\ worker[w].pc = "done"
    BY <1>3 DEF Complete
  <2>3. Near(Leave(w, "ending"), w, "ending") /\ Near(To(w, "unrecorded"), w, "unrecorded")
    BY <1>1, MoveTo
  <2> HIDE DEF s, r
  <2>4. worker[w].ended = FALSE /\ SaysGone(j, s) => part[j] # "made"
    <3>1. RunSafe(j) BY <1>0 DEF PartsKnown, PartInv, PartSafe
    <3>2. w[2] \in Runs /\ w = <<j, w[2]>> BY DEF Workers
    <3>3. worker[w].ended = FALSE => part[j] # "made" \/ job[j].held = FALSE
      BY <1>0, <2>2, <3>1, <3>2 DEF RunSafe
    <3> QED BY <2>0, <2>1, <3>3 DEF SaysGone
  <2> QED BY <2>1, <2>2, <2>3, <2>4, ReportHarmless
<1>4. CASE Reconnect(w)
  <2> DEFINE s == Reconnecting(r)
  <2>1. s.status = "reconnecting"
    <3>1. Becomes(r, "reconnecting", "other") \in Records
          /\ Becomes(r, "reconnecting", "other").status = "reconnecting"
      BY <1>0, <1>1, SweptRecord DEF Statuses
    <3> HIDE DEF r
    <3> QED BY <3>1 DEF Reconnecting, Records
  <2>2. /\ Report(w, CanReconnect(r), s, sweptActive, To(w, "backoff"), GivesUp(w))
        /\ UNCHANGED <<current, owner, worldVars, still>>
    BY <1>4 DEF Reconnect
  <2>3. Near(To(w, "backoff"), w, "backoff") /\ Near(GivesUp(w), w, "reporting")
    BY <1>1, MoveTo, GivesUpNear
  <2> HIDE DEF s, r
  <2>4. ~SaysGone(j, s) BY <2>1 DEF SaysGone
  <2> QED BY <2>1, <2>2, <2>3, <2>4, ReportHarmless
<1>5. CASE Fail(w)
  <2> DEFINE e == worker[w].err
             s == IF e = "exists" THEN Becomes(r, "needs_overwrite", "other")
                  ELSE Becomes(r, "failed", IF e = "unsure" THEN "uncertain" ELSE "other")
             bad == IF worker[w].before THEN "ending" ELSE "unrecorded"
  <2>1. s.status \in {"needs_overwrite", "failed"}
    BY <1>0, <1>1, SweptRecord DEF Statuses
  <2>2. /\ Report(w, CanFail(r), s, Released(sweptActive, r), Leave(w, "ending"),
                  Leave(w, bad))
        /\ UNCHANGED <<current, owner, worldVars, still>>
    BY <1>5 DEF Fail
  <2>b. bad \in {"ending", "unrecorded"} OBVIOUS
  <2> HIDE DEF s, bad, r
  <2>3. Near(Leave(w, "ending"), w, "ending") /\ Near(Leave(w, bad), w, bad)
    BY <1>1, <2>b, MoveTo
  <2>4. ~SaysGone(j, s) BY <2>1 DEF SaysGone
  <2> QED BY <2>1, <2>2, <2>3, <2>4, <2>b, ReportHarmless
<1> QED BY <1>2, <1>3, <1>4, <1>5

\* The record of the goroutine's own job, put down as running or as forgetting its part.
LEMMA OwnPut ==
  ASSUME PartsKnown, Filed, NEW w \in Workers, NEW pc, Near(worker', w, pc),
         worker[w].ended = FALSE, pc # "done",
         UNCHANGED <<owner, evicting, replaced, restarts, part>>,
         job[w[1]].status = "running",
         \/ job'[w[1]].status = "running"
         \/ pc \notin Acting /\ job'[w[1]].status = "reattach"
  PROVE  Kept(w[1])
<1>1. w[1] \in Jobs /\ w[1] \in Remote /\ RunInv
  BY DEF Workers, Jobs, PartsKnown
<1>2. RunSafe(w[1])'
  <2> SUFFICES ASSUME NEW r \in Runs, worker'[<<w[1], r>>].ended = FALSE
               PROVE  /\ worker'[<<w[1], r>>].pc \in Acting => job'[w[1]].status = "running"
                      /\ worker'[<<w[1], r>>].pc # "done"
    BY DEF RunSafe
  <2>1. <<w[1], r>> \in Workers BY <1>1 DEF Workers
  <2>2. worker[<<w[1], r>>].ended = FALSE BY <2>1 DEF Near
  <2>3. <<w[1], r>> = w BY <1>1, <2>2, OnlyRun
  <2>4. worker'[<<w[1], r>>].pc = pc BY <2>1, <2>3 DEF Near
  <2> QED BY <2>4
<1>3. Present(job, w[1]) /\ Present(job', w[1]) BY DEF Present
<1>4. ~SaysGone(w[1], job'[w[1]]) BY DEF SaysGone
<1> QED BY <1>1, <1>2, <1>3, <1>4, OwnJob

\* The rewrites of the mark.
LEMMA MarkHarmless ==
  ASSUME PartsKnown, NEW w \in Workers, Mark(w) \/ ClearPending(w) PROVE Harmless
<1>1. Shapes /\ RunInv BY DEF PartsKnown, RunInv
<1>0. w[1] \in Jobs BY DEF Workers, Jobs
<1> DEFINE j == w[1]
<1>r. job[j] \in Records BY <1>0, <1>1 DEF Shapes
<1> USE DEF PCs, Keeping, Errors, Acting
<1>2. CASE Mark(w)
  <2> DEFINE r == [job[j] EXCEPT !.problem = "uncertain"]
  <2>1. Near(Errs(w, "refused", TRUE), w, "failing") /\ Near(To(w, "operating"), w, "operating")
    BY <1>1, MoveTo
  <2>2. CASE Alone(w, Errs(w, "refused", TRUE)) BY <2>1, <2>2, AloneHarmless
  <2>3. CASE /\ ~worker[w].ended /\ job[j].status = "running"
             /\ Rewrite(j, r, To(w, "operating"), Errs(w, "refused", TRUE))
             /\ UNCHANGED <<active, current, owner, part, effect, still>>
    <3>1. worker[w].ended = FALSE BY <1>1, <2>3 DEF Shapes, Goroutines
    <3>2. r.status = "running" BY <1>r, <2>3 DEF Records
    <3>3. UNCHANGED <<owner, evicting, replaced, restarts, part>> BY <2>3 DEF still
    <3> HIDE DEF r
    <3>4. /\ Filed /\ Others({j})
          /\ \/ job'[j] = r /\ worker' = To(w, "operating")
             \/ job' = job /\ Others({}) /\ worker' = Errs(w, "refused", TRUE)
      BY <1>0, <1>1, <2>3, RewriteOthers
    <3>5. CASE job'[j] = r /\ worker' = To(w, "operating")
      <4>1. Near(worker', w, "operating") BY <2>1, <3>5
      <4>2. Kept(j) BY <2>3, <3>1, <3>2, <3>3, <3>4, <3>5, <4>1, OwnPut
      <4> QED BY <3>3, <3>4, <4>1, <4>2, SavingHarmless
    <3>6. CASE job' = job /\ worker' = Errs(w, "refused", TRUE)
      <4>1. Near(worker', w, "failing") /\ SaysAsBefore(j) BY <2>1, <3>6 DEF SaysAsBefore, SaysLike
      <4> QED BY <3>3, <3>4, <4>1, AlikeHarmless
    <3> QED BY <3>4, <3>5, <3>6
  <2> QED BY <1>2, <2>2, <2>3 DEF Mark
<1>3. CASE ClearPending(w)
  <2> DEFINE r == [job[j] EXCEPT !.problem = "none"]
  <2>1. Near(Leave(w, "ending"), w, "ending") BY <1>1, MoveTo
  <2>2. CASE Alone(w, Leave(w, "ending")) BY <2>1, <2>2, AloneHarmless
  <2>3. CASE /\ Rewrite(j, r, Leave(w, "ending"), Leave(w, "ending"))
             /\ UNCHANGED <<active, current, owner, worldVars, still>>
    <3>1. r.status = job[j].status /\ r.held = job[j].held BY <1>r DEF Records
    <3>2. UNCHANGED <<owner, evicting, replaced, restarts, part>> BY <2>3 DEF still, worldVars
    <3> HIDE DEF r
    <3>3. /\ Filed /\ Others({j}) /\ worker' = Leave(w, "ending")
          /\ job'[j] = r \/ job' = job
      BY <1>0, <1>1, <2>3, RewriteOthers
    <3>4. SaysAsBefore(j) BY <3>1, <3>3 DEF SaysAsBefore, SaysLike
    <3>5. Near(worker', w, "ending") BY <2>1, <3>3
    <3> QED BY <3>2, <3>3, <3>4, <3>5, AlikeHarmless
  <2> QED BY <1>3, <2>2, <2>3 DEF ClearPending
<1> QED BY <1>2, <1>3

\* A copy is known to have a part before it makes one.
LEMMA CheckpointHarmless ==
  ASSUME PartsKnown, NEW w \in Workers, Checkpoint(w) PROVE Harmless
<1>1. Shapes /\ RunInv BY DEF PartsKnown, RunInv
<1>0. w[1] \in Jobs BY DEF Workers, Jobs
<1> DEFINE j == w[1]
           q == [job EXCEPT ![j].held = TRUE]
<1>r. job \in [Jobs -> Records] /\ job[j] \in Records BY <1>0, <1>1 DEF Shapes
<1> USE DEF PCs, Keeping, Errors, Acting
<1>2. worker[w].pc = "copying" BY DEF Checkpoint
<1>3. ASSUME NEW err \in {"lost", "refused", "exists"}, Alone(w, Errs(w, err, FALSE))
      PROVE  Harmless
  <2>1. Near(Errs(w, err, FALSE), w, "failing") BY <1>1, MoveTo
  <2> QED BY <1>3, <2>1, AloneHarmless
<1>4. Near(To(w, "creating"), w, "creating") BY <1>1, MoveTo
<1>5. CASE Alone(w, To(w, "creating")) BY <1>2, <1>4, <1>5, AloneHarmless
<1>6. CASE /\ \/ Saved(q) /\ job' = q /\ worker' = To(w, "creating")
              \/ NotSaved(disk, q) /\ job' = job /\ worker' = Errs(w, "refused", FALSE)
           /\ ~worker[w].ended /\ job[j].status = "running"
           /\ UNCHANGED <<active, silent, current, owner, worldVars, still>>
  <2>1. UNCHANGED <<owner, evicting, replaced, restarts, part>> BY <1>6 DEF still, worldVars
  <2>2. q[j].status = "running" /\ \A k \in Jobs : k # j => q[k] = job[k]
    BY <1>0, <1>r, <1>6 DEF Records
  <2> HIDE DEF q
  <2>3. CASE Saved(q) /\ job' = q /\ worker' = To(w, "creating")
    <3>1. Filed /\ Others({j}) /\ Near(worker', w, "creating")
      BY <1>4, <2>2, <2>3, SavedFiled DEF Others
    <3>2. worker[w].ended = FALSE BY <1>1, <1>6 DEF Shapes, Goroutines
    <3>3. Kept(j) BY <1>6, <2>1, <2>2, <2>3, <3>1, <3>2, OwnPut
    <3> QED BY <2>1, <3>1, <3>3, SavingHarmless
  <2>4. CASE NotSaved(disk, q) /\ job' = job /\ worker' = Errs(w, "refused", FALSE)
    <3>1. Near(worker', w, "failing") BY <1>1, <2>4, MoveTo
    <3>2. Filed /\ Others({j}) /\ SaysAsBefore(j)
      BY <1>1, <2>4, NotFiled DEF Others, SaysAsBefore, SaysLike
    <3> QED BY <2>1, <3>1, <3>2, AlikeHarmless
  <2> QED BY <1>6, <2>3, <2>4
<1> QED BY <1>3, <1>5, <1>6 DEF Checkpoint

\* A cancelled copy forgets its part once it has cleaned it up.
LEMMA CleanedHarmless ==
  ASSUME PartsKnown, NEW w \in Workers, Cleaned(w) PROVE Harmless
<1>1. Shapes /\ RunInv BY DEF PartsKnown, RunInv
<1>0. w[1] \in Jobs BY DEF Workers, Jobs
<1> DEFINE j == w[1]
           q == IF worker[w].pc = "cleaned" THEN [job EXCEPT ![j].held = FALSE]
                ELSE [job EXCEPT ![j].problem = "cleanup"]
<1>r. job \in [Jobs -> Records] /\ job[j] \in Records BY <1>0, <1>1 DEF Shapes
<1>2. Near(To(w, "finishing"), w, "finishing") BY <1>1, MoveTo DEF PCs, Errors
<1>3. CASE Alone(w, To(w, "finishing")) BY <1>2, <1>3, AloneHarmless DEF Acting
<1>4. CASE /\ \/ job' = q /\ Saved(q)
              \/ job' = job /\ NotSaved(disk, q)
           /\ worker' = To(w, "finishing")
           /\ UNCHANGED <<active, silent, current, owner, worldVars, still>>
  <2>1. UNCHANGED <<owner, evicting, replaced, restarts, part>> BY <1>4 DEF still, worldVars
  <2>2. q[j].status = job[j].status /\ q[j].held \in {job[j].held, FALSE}
        /\ \A k \in Jobs : k # j => q[k] = job[k]
    BY <1>0, <1>r DEF Records
  <2> HIDE DEF q
  <2>3. Filed BY <1>1, <1>4, SavedFiled, NotFiled
  <2>4. SaysAsBefore(j) /\ Others({j}) BY <1>4, <2>2 DEF SaysAsBefore, SaysLike, Others
  <2> QED BY <1>2, <1>4, <2>1, <2>3, <2>4, AlikeHarmless DEF Acting
<1> QED BY <1>3, <1>4 DEF Cleaned

\* A job that is marked as one whose outcome nobody recorded.
LEMMA ReconcileOthers ==
  ASSUME Shapes, NEW j \in Jobs, NEW ended, NEW ws, Reconcile(j, ended, ws),
         UNCHANGED <<disk, trouble>>
  PROVE  /\ Filed /\ Like(worker', ws)
         /\ \/ job' = job
            \/ /\ job[j].status = "running" /\ ~ended /\ job'[j].status = "reattach"
               /\ Others({j})
<1>1. CASE job[j].status # "running" \/ ended
  <2>1. worker' = ws /\ job' = job BY <1>1 DEF Reconcile
  <2> QED BY <2>1, StillFiled, SignalLike
<1>2. CASE ~(job[j].status # "running" \/ ended)
  <2> DEFINE r == Becomes(job[j], "reattach", "uncertain")
  <2>1. job \in [Jobs -> Records] /\ job[j] \in Records BY DEF Shapes
  <2>2. job' = [job EXCEPT ![j] = r] /\ worker' = SignalIf(active' < active, ws)
    BY <1>2 DEF Reconcile
  <2>3. r.status = "reattach" /\ r.held = job[j].held BY <2>1 DEF Becomes, Records
  <2> HIDE DEF r
  <2>4. /\ job'[j].status = "reattach" /\ job'[j].held = job[j].held
        /\ \A k \in Jobs : k # j => job'[k] = job[k]
    BY <2>1, <2>2, <2>3
  <2>5. Like(worker', ws) BY <2>2, SignalIfLike
  <2>6. Filed BY <1>2, <2>4 DEF Filed, Terminal
  <2> QED BY <1>2, <2>4, <2>5, <2>6 DEF Others
<1> QED BY <1>1, <1>2

\* A report that could not be recorded says nothing of the part.
LEMMA UnrecordHarmless ==
  ASSUME PartsKnown, NEW w \in Workers, Unrecord(w) PROVE Harmless
<1>1. Shapes /\ RunInv BY DEF PartsKnown, RunInv
<1>0. w[1] \in Jobs BY DEF Workers, Jobs
<1>2. UNCHANGED <<owner, evicting, replaced, restarts, part, disk, trouble>>
  BY DEF Unrecord, still, worldVars
<1>3. /\ Filed /\ Like(worker', Leave(w, "ending"))
      /\ \/ job' = job
         \/ /\ job[w[1]].status = "running" /\ ~worker[w].ended
            /\ job'[w[1]].status = "reattach" /\ Others({w[1]})
  BY <1>0, <1>1, <1>2, ReconcileOthers DEF Unrecord
<1>4. Near(Leave(w, "ending"), w, "ending") BY <1>1, MoveTo DEF PCs, Errors
<1>5. Near(worker', w, "ending") BY <1>3, <1>4, LikeNear
<1>6. CASE job' = job
  <2>1. Others({w[1]}) /\ SaysAsBefore(w[1]) BY <1>6 DEF Others, SaysAsBefore, SaysLike
  <2> QED BY <1>2, <1>3, <1>5, <2>1, AlikeHarmless DEF Acting
<1>7. CASE /\ job[w[1]].status = "running" /\ ~worker[w].ended
           /\ job'[w[1]].status = "reattach" /\ Others({w[1]})
  <2>1. worker[w].ended = FALSE BY <1>1, <1>7 DEF Shapes, Goroutines
  <2>2. Kept(w[1]) BY <1>2, <1>3, <1>5, <1>7, <2>1, OwnPut DEF Acting
  <2> QED BY <1>2, <1>3, <1>5, <1>7, <2>2, SavingHarmless
<1> QED BY <1>3, <1>6, <1>7

\* A part is made for a job that runs: it is not being cleaned up.
LEMMA MakesPart ==
  ASSUME PartsKnown, Filed, restarts' = restarts, NEW j \in Jobs, job' = job,
         job[j].status = "running", UNCHANGED <<evicting, replaced>>,
         owner'[j] = "removed" => owner[j] = "removed",
         j \in Uploads => owner'[j] \notin {"published", "cancelled"}, RunSafe(j)'
  PROVE  Kept(j)
<1>1. ~Marked(job[j]) /\ Present(job, j) BY DEF Marked, HasSlot, Present
<1>2. owner[j] # "removed" BY <1>1 DEF PartsKnown, CleaningInv, Removing
<1>3. \A n \in Jobs : Evicting(n) => evicting[n].job # j
  BY <1>1 DEF PartsKnown, CleaningInv
<1>4. EvictionSafe(j)' BY <1>3 DEF EvictionSafe, Evicting
<1>5. RemovalSafe(j)' BY <1>2 DEF RemovalSafe
<1>6. UploadSafe(j)' BY DEF UploadSafe
<1>7. ~SaysGone(j, job'[j]) BY DEF SaysGone
<1>8. Vanishes(j) BY DEF Vanishes, Present
<1> QED BY <1>4, <1>5, <1>6, <1>7, <1>8 DEF Kept, PartSafe

\* The operation itself.
LEMMA OperateHarmless == ASSUME PartsKnown, NEW w \in Workers, Operate(w) PROVE Harmless
<1>1. Shapes /\ RunInv BY DEF PartsKnown, RunInv
<1>0. w[1] \in Jobs /\ w[1] \in Remote BY DEF Workers, Jobs
<1> USE DEF PCs, Keeping, Errors, Acting
<1>2. worker[w].pc = "operating" /\ ~Recoverable(w[1]) BY DEF Operate
<1>3. CASE Alone(w, To(w, "done"))
  <2>1. Near(To(w, "done"), w, "done") BY <1>1, MoveTo
  <2>2. job[w[1]].held = FALSE
    <3>1. job[w[1]] \in Records BY <1>0, <1>1 DEF Shapes
    <3>2. CASE w[1] \in Moves BY <1>1, <3>2 DEF RunInv, Honest, HonestRecord
    <3>3. CASE w[1] \in Copies BY <1>2, <3>1, <3>3 DEF Recoverable, Records
    <3> QED BY <1>0, <3>2, <3>3 DEF Remote
  <2> QED BY <1>3, <2>1, <2>2, AloneHarmless
<1>4. ASSUME NEW err \in {"lost", "refused", "exists", "unsure"}, Alone(w, Errs(w, err, FALSE))
      PROVE  Harmless
  <2>1. Near(Errs(w, err, FALSE), w, "failing") BY <1>1, MoveTo
  <2> QED BY <1>4, <2>1, AloneHarmless
<1>5. CASE UNCHANGED <<ledgerVars, actorVars, part, consent, boundVars>>
  <2>1. /\ UNCHANGED <<job, disk, trouble, worker, part>>
        /\ UNCHANGED <<owner, evicting, replaced, restarts>>
    BY <1>5 DEF ledgerVars, actorVars, boundVars
  <2>2. Filed /\ Others({}) BY <2>1, StillFiled, StayOthers
  <2>3. \A j \in Jobs : j \notin {} => RunsAsBefore(j) /\ part'[j] \in {part[j], "none", "late"}
    BY <1>1, <2>1, SignalLike, LikeRuns
  <2> QED BY <2>1, <2>2, <2>3, Bystanders DEF Harmless
<1> QED BY <1>3, <1>4, <1>5 DEF Operate

\* A part is opened or made by a run that goes on, which finds its job running; one that is
\* over makes a part nobody spoke of, or a late one.
LEMMA CreateHarmless == ASSUME PartsKnown, NEW w \in Workers, Create(w) PROVE Harmless
<1>1. Shapes /\ RunInv BY DEF PartsKnown, RunInv
<1>0. w[1] \in Jobs /\ w[1] \in Remote /\ w[1] \notin Uploads
  BY LedgerAssumption DEF Workers, Jobs
<1> DEFINE j == w[1]
           late == worker[w].ended /\ part[j] # "made" /\ SeenGone(j)
<1> USE DEF PCs, Keeping, Errors, Acting
<1>2. /\ worker[w].pc = "creating" /\ part \in [Jobs -> Parts]
      /\ UNCHANGED <<job, disk, trouble>> /\ UNCHANGED <<owner, evicting, replaced, restarts>>
  BY <1>1 DEF Create, OnHost, Shapes, ledgerVars, boundVars
<1>3. Filed /\ Others({j}) BY <1>2, StillFiled DEF Others
<1>4. w[2] \in Runs /\ w = <<j, w[2]>> BY DEF Workers
<1>5. PartSafe(j) /\ RunSafe(j) BY <1>0 DEF PartsKnown, PartInv, PartSafe
<1>6. CASE ~worker[w].ended /\ part' = [part EXCEPT ![j] = "made"] /\ worker' = To(w, "publishing")
  <2>1. worker[w].ended = FALSE BY <1>1, <1>6 DEF Shapes, Goroutines
  <2>2. job[j].status = "running" BY <1>0, <1>2, <1>4, <1>5, <2>1 DEF RunSafe
  <2>3. Near(worker', w, "publishing") BY <1>1, <1>6, MoveTo
  <2>4. RunSafe(j)'
    <3> SUFFICES ASSUME NEW r \in Runs, worker'[<<j, r>>].ended = FALSE
                 PROVE  worker'[<<j, r>>].pc # "done" /\ job'[j].status = "running"
      BY DEF RunSafe
    <3>1. <<j, r>> \in Workers BY <1>0 DEF Workers
    <3>2. <<j, r>> = w BY <1>1, <2>1, <2>3, <3>1, OnlyRun DEF Near
    <3> QED BY <1>2, <2>2, <2>3, <3>2 DEF Near
  <2>5. Kept(j) BY <1>0, <1>2, <1>3, <2>2, <2>4, MakesPart
  <2>6. \A k \in Jobs : k # j => part'[k] \in {part[k], "none", "late"} BY <1>2, <1>6
  <2> QED BY <1>2, <1>3, <2>3, <2>5, <2>6, SavingHarmless
<1>7. CASE worker[w].ended /\ worker' = Errs(w, "refused", FALSE) /\ ~SeenGone(j)
           /\ part' = [part EXCEPT ![j] = "made"]
  <2>1. Near(worker', w, "failing") BY <1>1, <1>7, MoveTo
  <2>2. RunSafe(j)'
    <3> SUFFICES ASSUME NEW r \in Runs, worker'[<<j, r>>].ended = FALSE
                 PROVE  /\ worker'[<<j, r>>].pc \in Acting => job[j].status = "running"
                        /\ worker'[<<j, r>>].pc # "done"
      BY <1>2 DEF RunSafe
    <3>1. <<j, r>> \in Workers BY <1>0 DEF Workers
    <3>2. worker[<<j, r>>].ended = FALSE BY <2>1, <3>1 DEF Near
    <3>3. worker'[<<j, r>>].pc = worker[<<j, r>>].pc
      BY <1>7, <2>1, <3>1, <3>2 DEF Near
    <3>4. worker[<<j, r>>].pc # "done" BY <1>7, <3>2 DEF SeenGone
    <3> QED BY <1>0, <1>5, <3>2, <3>3, <3>4 DEF RunSafe
  <2>3. EvictionSafe(j)' BY <1>2, <1>7 DEF EvictionSafe, Evicting, SeenGone
  <2>4. RemovalSafe(j)' BY <1>2, <1>7 DEF RemovalSafe, SeenGone
  <2>5. UploadSafe(j)' BY <1>0 DEF UploadSafe
  <2>6. ~SaysGone(j, job'[j]) BY <1>0, <1>2, <1>7 DEF SaysGone, SeenGone
  <2>7. Vanishes(j) BY <1>2 DEF Vanishes, Present
  <2>8. Kept(j) BY <2>2, <2>3, <2>4, <2>5, <2>6, <2>7 DEF Kept, PartSafe
  <2>9. \A k \in Jobs : k # j => part'[k] \in {part[k], "none", "late"} BY <1>2, <1>7
  <2> QED BY <1>2, <1>3, <2>1, <2>8, <2>9, SavingHarmless
<1>8. ASSUME NEW err \in {"lost", "refused"}, worker' = Errs(w, err, FALSE),
             \/ part' = part \/ part' = [part EXCEPT ![j] = "late"]
             \/ part[j] = "made" /\ part' = [part EXCEPT ![j] = "made"]
      PROVE  Harmless
  <2>1. Near(worker', w, "failing") BY <1>1, <1>8, MoveTo
  <2>2. \A k \in Jobs : part'[k] \in {part[k], "none", "late"} BY <1>2, <1>8
  <2>3. SaysAsBefore(j) BY <1>2 DEF SaysAsBefore, SaysLike
  <2> QED BY <1>2, <1>3, <2>1, <2>2, <2>3, AlikeHarmless
<1>9. CASE part' = [part EXCEPT ![j] = IF late THEN "late" ELSE "made"]
           /\ worker' = IF worker[w].ended THEN Errs(w, "refused", FALSE) ELSE To(w, "publishing")
  <2>1. CASE ~worker[w].ended BY <1>6, <1>9, <2>1
  <2>2. CASE late BY <1>8, <1>9, <2>2
  <2>3. CASE worker[w].ended /\ part[j] = "made" BY <1>8, <1>9, <2>3
  <2>4. CASE worker[w].ended /\ ~SeenGone(j) BY <1>7, <1>9, <2>4
  <2> QED BY <2>1, <2>2, <2>3, <2>4
<1> QED BY <1>8, <1>9 DEF Create

\* A copy fills its part and publishes it.
LEMMA CopyHarmless == ASSUME PartsKnown, NEW w \in Workers, Copy(w) PROVE Harmless
<1>1. Shapes /\ RunInv BY DEF PartsKnown, RunInv
<1>0. w[1] \in Jobs /\ w[1] \in Remote /\ w[1] \notin Uploads
  BY LedgerAssumption DEF Workers, Jobs
<1> DEFINE j == w[1]
<1> USE DEF PCs, Keeping, Errors, Acting
<1>2. /\ worker[w].pc = "publishing" /\ part \in [Jobs -> Parts]
      /\ UNCHANGED <<job, disk, trouble>> /\ UNCHANGED <<owner, evicting, replaced, restarts>>
  BY <1>1 DEF Copy, OnHost, Shapes, ledgerVars, boundVars
<1>3. Filed /\ Others({j}) BY <1>2, StillFiled DEF Others
<1>4. w[2] \in Runs /\ w = <<j, w[2]>> BY DEF Workers
<1>5. RunSafe(j) BY <1>0 DEF PartsKnown, PartInv, PartSafe
<1>7. CASE part' = [part EXCEPT ![j] = "none"] /\ worker' = To(w, "done")
  <2>1. Near(worker', w, "done") BY <1>1, <1>7, MoveTo
  <2>2. part'[j] # "made" /\ \A k \in Jobs : part'[k] \in {part[k], "none", "late"}
    BY <1>0, <1>2, <1>7
  <2>3. RunSafe(j)'
    <3> SUFFICES ASSUME NEW r \in Runs, worker'[<<j, r>>].ended = FALSE,
                        worker'[<<j, r>>].pc \in Acting
                 PROVE  job'[j].status = "running"
      BY <2>2 DEF RunSafe
    <3>1. <<j, r>> \in Workers BY <1>0 DEF Workers
    <3>2. worker[<<j, r>>].ended = FALSE /\ worker'[<<j, r>>].pc = worker[<<j, r>>].pc
      BY <2>1, <3>1 DEF Near
    <3> QED BY <1>0, <1>2, <1>5, <3>2 DEF RunSafe
  <2>4. CleanedAsBefore(j) /\ restarts' = restarts /\ OwnerAsBefore(j)
    BY <1>0, <1>2, ActorsStay
  <2>5. SaysGone(j, job'[j]) => SaysGone(j, job[j]) BY <1>2
  <2>6. Vanishes(j) BY <1>2 DEF Vanishes, Present
  <2>7. Kept(j) BY <1>0, <1>2, <1>3, <2>2, <2>3, <2>4, <2>5, <2>6, KeptBy
  <2> QED BY <1>2, <1>3, <2>1, <2>2, <2>7, SavingHarmless
<1>8. ASSUME NEW err \in {"lost", "refused", "exists", "unsure"}, worker' = Errs(w, err, FALSE),
             part' = part \/ part' = [part EXCEPT ![j] = "none"]
      PROVE  Harmless
  <2>1. Near(worker', w, "failing") BY <1>1, <1>8, MoveTo
  <2>2. \A k \in Jobs : part'[k] \in {part[k], "none", "late"} BY <1>2, <1>8
  <2>3. SaysAsBefore(j) BY <1>2 DEF SaysAsBefore, SaysLike
  <2> QED BY <1>2, <1>3, <2>1, <2>2, <2>3, AlikeHarmless
<1> QED BY <1>7, <1>8 DEF Copy

\* A cancelled copy cleans up.
LEMMA CleanHarmless ==
  ASSUME PartsKnown, NEW w \in Workers, NEW ok \in BOOLEAN, Clean(w, ok) PROVE Harmless
<1>1. Shapes /\ RunInv BY DEF PartsKnown, RunInv
<1>0. w[1] \in Jobs BY DEF Workers, Jobs
<1>2. /\ part \in [Jobs -> Parts] /\ UNCHANGED <<job, disk, trouble>>
      /\ UNCHANGED <<owner, evicting, replaced, restarts>>
      /\ part' = part \/ part' = [part EXCEPT ![w[1]] = "none"]
      /\ worker' = To(w, IF ok THEN "cleaned" ELSE "uncleaned")
  BY <1>1 DEF Clean, OnHost, Shapes, ledgerVars, boundVars
<1>3. PICK pc \in {"cleaned", "uncleaned"} : worker' = To(w, pc) BY <1>2
<1>4. Near(worker', w, pc) BY <1>1, <1>3, MoveTo DEF PCs, Errors
<1>5. Filed /\ Others({w[1]}) /\ SaysAsBefore(w[1])
  BY <1>2, StillFiled DEF Others, SaysAsBefore, SaysLike
<1>6. \A j \in Jobs : part'[j] \in {part[j], "none", "late"} BY <1>2
<1> QED BY <1>2, <1>4, <1>5, <1>6, AlikeHarmless DEF Acting

\* A run that begins asks, and one that is over does nothing.
LEMMA ComesAndGoes ==
  ASSUME PartsKnown, (\E j \in Remote : Schedule(j)) \/ \E w \in Workers : Finish(w)
  PROVE  Harmless
<1>1. Shapes /\ RunInv BY DEF PartsKnown, RunInv
<1>2. /\ UNCHANGED <<job, disk, trouble, part>> /\ UNCHANGED <<owner, evicting, replaced, restarts>>
  BY DEF Schedule, Finish, ledgerVars, worldVars, boundVars
<1>3. \A v \in Workers : \/ worker'[v] = worker[v]
                         \/ worker'[v].pc \in {"asking", "none"}
  <2>1. ASSUME NEW j \in Remote, Schedule(j)
        PROVE  \A v \in Workers : worker'[v] = worker[v] \/ worker'[v].pc = "asking"
    <3> DEFINE idle == {r \in Runs : worker[<<j, r>>].pc = "none"}
               run == CHOOSE r \in idle : TRUE
               g == [Idle EXCEPT !.pc = "asking", !.ended = FALSE]
    <3>1. worker' = worker \/ worker' = [worker EXCEPT ![<<j, run>>] = g]
      BY <2>1 DEF Schedule
    <3>2. g.pc = "asking" BY DEF Idle
    <3> HIDE DEF g, run
    <3> QED BY <1>1, <3>1, <3>2 DEF Shapes
  <2>2. ASSUME NEW w \in Workers, Finish(w)
        PROVE  \A v \in Workers : worker'[v] = worker[v] \/ worker'[v].pc = "none"
    <3>1. worker' = [worker EXCEPT ![w] = Idle] BY <2>2 DEF Finish
    <3> QED BY <1>1, <3>1, IdleFacts DEF Shapes
  <2> QED BY <2>1, <2>2
<1>4. \A j \in Jobs : RunsAsBefore(j)
  <2> SUFFICES ASSUME NEW j \in Remote, NEW r \in Runs, worker'[<<j, r>>].ended = FALSE,
                      worker'[<<j, r>>].pc \in Acting \cup {"done"}
               PROVE  worker'[<<j, r>>] = worker[<<j, r>>]
    BY DEF RunsAsBefore
  <2>1. <<j, r>> \in Workers BY DEF Workers
  <2> QED BY <1>3, <2>1 DEF Acting
<1>5. Filed /\ Others({}) BY <1>2, StillFiled, StayOthers
<1>6. \A j \in Jobs : j \notin {} => RunsAsBefore(j) /\ part'[j] \in {part[j], "none", "late"}
  BY <1>2, <1>4
<1> QED BY <1>2, <1>5, <1>6, Bystanders DEF Harmless

\* Every step of a goroutine.
LEMMA RunHarmless == ASSUME PartsKnown, NEW w \in Workers, RunStep(w) PROVE Harmless
<1>1. ASSUME SlotWait(w) \/ Wake(w) \/ Keep(w) \/ CopyBegins(w) \/ Interrupted(w) \/ Ending(w)
      PROVE  Harmless
  BY <1>1, QuietHarmless
<1>2. ASSUME AskSlot(w) \/ Backoff(w) PROVE Harmless BY <1>2, SlotHarmless
<1>3. ASSUME Plan(w) \/ Complete(w) \/ Reconnect(w) \/ Fail(w) PROVE Harmless
  BY <1>3, ReportsHarmless
<1>4. ASSUME Mark(w) \/ ClearPending(w) PROVE Harmless BY <1>4, MarkHarmless
<1>5. ASSUME Checkpoint(w) \/ Cleaned(w) \/ Unrecord(w) PROVE Harmless
  BY <1>5, CheckpointHarmless, CleanedHarmless, UnrecordHarmless
<1>6. ASSUME Operate(w) \/ Create(w) \/ Copy(w) \/ Clean(w, TRUE) \/ Clean(w, FALSE)
      PROVE  Harmless
  BY <1>6, OperateHarmless, CreateHarmless, CopyHarmless, CleanHarmless
<1>7. ASSUME Finish(w) PROVE Harmless BY <1>7, ComesAndGoes
<1> QED BY <1>1, <1>2, <1>3, <1>4, <1>5, <1>6, <1>7 DEF RunStep

-----------------------------------------------------------------------------
(* The requests of an upload *)

\* Upload j, whose owner goes on to at.
LEMMA UploadHarmless ==
  ASSUME PartsKnown, Filed, NEW j \in Uploads, Others({j}), Like(worker', worker),
         UNCHANGED <<evicting, replaced, restarts>>, NEW at,
         owner' = [owner EXCEPT ![j] = at],
         \A k \in Jobs : k # j => part'[k] \in {part[k], "none", "late"},
         Kept(j)
  PROVE  Harmless
<1>1. j \in Jobs /\ Shapes BY DEF Jobs, PartsKnown, RunInv
<1>2. \A k \in Jobs : CleanedAsBefore(k) BY DEF CleanedAsBefore, Evicting
<1> SUFFICES ASSUME NEW k \in Jobs, k # j PROVE Kept(k) BY DEF Harmless
<1>3. RunsAsBefore(k) BY <1>1, LikeRuns
<1>4. OwnerAsBefore(k) BY <1>1 DEF OwnerAsBefore, Shapes
<1>5. job'[k] \in {job[k], Swept[k]} BY DEF Others
<1> QED BY <1>2, <1>3, <1>4, <1>5, Passive

\* The same, where it makes no part: what it owes.
LEMMA UploadPut ==
  ASSUME PartsKnown, Filed, NEW j \in Uploads, Others({j}), Like(worker', worker),
         UNCHANGED <<evicting, replaced, restarts>>,
         NEW at, owner' = [owner EXCEPT ![j] = at], at # "removed",
         \A k \in Jobs : part'[k] \in {part[k], "none", "late"},
         at = "preparing" => job'[j].status = "running",
         at \in {"published", "cancelled"} => part'[j] # "made",
         SaysGone(j, job'[j]) => SaysGone(j, job[j]) \/ part'[j] # "made",
         Present(job', j) \/ job'[j] = job[j]
  PROVE  Harmless
<1>1. j \in Jobs /\ j \notin Remote /\ Shapes
  BY LedgerAssumption DEF Jobs, PartsKnown, RunInv
<1>2. \A k \in Jobs : CleanedAsBefore(k) BY DEF CleanedAsBefore, Evicting
<1>3. owner'[j] = at BY <1>1 DEF Shapes
<1>4. RunSafe(j)' BY <1>1 DEF RunSafe
<1>5. Vanishes(j) BY DEF Vanishes, Present
<1>6. Kept(j) BY <1>1, <1>2, <1>3, <1>4, <1>5, KeptBy
<1> QED BY <1>6, UploadHarmless

\* An upload whose record stays what it is.
LEMMA UploadAlone ==
  ASSUME PartsKnown, NEW j \in Uploads, UNCHANGED <<job, disk, trouble, worker>>,
         UNCHANGED <<evicting, replaced, restarts>>,
         NEW at, owner' = [owner EXCEPT ![j] = at], at # "removed",
         \A k \in Jobs : part'[k] \in {part[k], "none", "late"},
         at = "preparing" => job[j].status = "running",
         at \in {"published", "cancelled"} => part'[j] # "made"
  PROVE  Harmless
<1>1. Filed /\ Others({j}) BY StillFiled DEF Others
<1>2. Like(worker', worker) BY SignalLike
<1> QED BY <1>1, <1>2, UploadPut

\* The steps of an upload that leave the ledger alone.
LEMMA UploadTurns ==
  ASSUME PartsKnown, NEW j \in Uploads,
         UploadBegins(j) \/ UploadWorks(j) \/ CancelCleans(j, TRUE) \/ CancelCleans(j, FALSE)
  PROVE  Harmless
<1>1. j \in Jobs /\ j \notin Remote /\ Shapes
  BY LedgerAssumption DEF Jobs, PartsKnown, RunInv
<1>2. /\ UNCHANGED <<job, disk, trouble, worker>> /\ UNCHANGED <<evicting, replaced, restarts>>
      /\ part \in [Jobs -> Parts]
  BY <1>1 DEF UploadBegins, UploadWorks, CancelCleans, LedgerAlone, Quiet, still, Shapes
<1>3. UploadSafe(j) BY <1>1 DEF PartsKnown, PartInv, PartSafe
<1>4. ASSUME NEW at, at \in {"appending", "completing", "prepared", "free", "unsure",
                             "uncancelled"},
             OwnerAt(j, at), part' = part \/ part' = [part EXCEPT ![j] = "none"]
      PROVE  Harmless
  <2>1. \A k \in Jobs : part'[k] \in {part[k], "none", "late"} BY <1>2, <1>4
  <2> QED BY <1>2, <1>4, <2>1, UploadAlone DEF OwnerAt
<1>5. CASE UploadBegins(j)
  <2>1. CASE OwnerAt(j, "preparing")
    <3>1. job[j].status = "running" /\ part' = part BY <1>5 DEF UploadBegins
    <3>2. \A k \in Jobs : part'[k] \in {part[k], "none", "late"} BY <3>1
    <3> QED BY <1>2, <2>1, <3>1, <3>2, UploadAlone DEF OwnerAt
  <2> QED BY <1>4, <1>5, <2>1 DEF UploadBegins
<1>6. CASE UploadWorks(j)
  <2>1. ASSUME owner[j] = "preparing", part' = [part EXCEPT ![j] = "made"],
               NEW at \in {"prepared", "free"}, OwnerAt(j, at)
        PROVE  Harmless
    <3>1. job[j].status = "running" BY <1>3, <2>1 DEF UploadSafe
    <3>2. owner' = [owner EXCEPT ![j] = at] /\ owner'[j] = at
      BY <1>1, <2>1 DEF OwnerAt, Shapes
    <3>3. Filed /\ Others({j}) /\ Like(worker', worker) /\ restarts' = restarts
      BY <1>2, StillFiled, SignalLike DEF Others
    <3>4. RunSafe(j)' BY <1>1 DEF RunSafe
    <3>5. Kept(j) BY <1>1, <1>2, <3>1, <3>2, <3>3, <3>4, MakesPart
    <3>6. \A k \in Jobs : k # j => part'[k] \in {part[k], "none", "late"} BY <1>2, <2>1
    <3> QED BY <1>2, <3>2, <3>3, <3>5, <3>6, UploadHarmless
  <2>2. CASE part' = [part EXCEPT ![j] = "none"] /\ OwnerAt(j, "published")
    <3>1. part'[j] # "made" /\ \A k \in Jobs : part'[k] \in {part[k], "none", "late"}
      BY <1>1, <1>2, <2>2
    <3> QED BY <1>2, <2>2, <3>1, UploadAlone DEF OwnerAt
  <2> QED BY <1>4, <1>6, <2>1, <2>2 DEF UploadWorks
<1>7. CASE CancelCleans(j, TRUE)
  <2>1. part' = [part EXCEPT ![j] = "none"] /\ OwnerAt(j, "cancelled")
    BY <1>7 DEF CancelCleans
  <2>2. part'[j] # "made" /\ \A k \in Jobs : part'[k] \in {part[k], "none", "late"}
    BY <1>1, <1>2, <2>1
  <2> QED BY <1>2, <2>1, <2>2, UploadAlone DEF OwnerAt
<1>8. CASE CancelCleans(j, FALSE)
  <2>1. part' = part /\ OwnerAt(j, "uncancelled") BY <1>8 DEF CancelCleans
  <2> QED BY <1>4, <2>1
<1> QED BY <1>5, <1>6, <1>7, <1>8

\* A prepared part is recorded, or the record is marked.
LEMMA UploadPreparedHarmless ==
  ASSUME PartsKnown, NEW j \in Uploads, UploadPrepared(j) \/ UploadUnrecord(j) PROVE Harmless
<1>1. j \in Jobs /\ Shapes BY DEF Jobs, PartsKnown, RunInv
<1>2. /\ UNCHANGED <<evicting, replaced, restarts, part>> /\ job[j] \in Records
      /\ owner' = [owner EXCEPT ![j] = "free"]
      /\ \A k \in Jobs : part'[k] \in {part[k], "none", "late"}
  BY <1>1 DEF UploadPrepared, UploadUnrecord, OwnerAt, still, worldVars, Shapes
<1>3. CASE UploadPrepared(j)
  <2> DEFINE r == [job[j] EXCEPT !.held = TRUE]
  <2>1. CASE LedgerAlone /\ UNCHANGED worker
    BY <1>2, <2>1, UploadAlone DEF LedgerAlone
  <2>2. CASE job[j].status = "running" /\ Rewrite(j, r, worker, worker)
    <3>1. r.status = "running" BY <1>2, <2>2 DEF Records
    <3> HIDE DEF r
    <3>2. Filed /\ Others({j}) /\ worker' = worker /\ (job'[j] = r \/ job' = job)
      BY <1>1, <2>2, RewriteOthers
    <3>3. job'[j].status = "running" BY <2>2, <3>1, <3>2
    <3>4. Present(job', j) /\ ~SaysGone(j, job'[j]) BY <3>3 DEF Present, SaysGone
    <3>5. Like(worker', worker) BY <3>2, SignalLike
    <3> QED BY <1>2, <3>2, <3>4, <3>5, UploadPut
  <2> QED BY <1>3, <2>1, <2>2 DEF UploadPrepared
<1>4. CASE UploadUnrecord(j)
  <2>1. /\ Filed /\ Like(worker', worker)
        /\ job' = job \/ (job'[j].status = "reattach" /\ Others({j}))
    BY <1>1, <1>4, ReconcileOthers DEF UploadUnrecord
  <2>2. Others({j}) BY <2>1 DEF Others
  <2>3. /\ SaysGone(j, job'[j]) => SaysGone(j, job[j])
        /\ Present(job', j) \/ job'[j] = job[j]
    BY <2>1 DEF SaysGone, Present
  <2> QED BY <1>2, <2>1, <2>2, <2>3, UploadPut
<1> QED BY <1>3, <1>4

\* updateUploadJob: the record becomes r, where that says nothing of a part that is there.
LEMMA UploadUpdateHarmless ==
  ASSUME PartsKnown, NEW j \in Uploads, NEW can, NEW r, UploadUpdate(j, can, r),
         can => /\ r.status # "none" /\ Present(Swept, j)
                /\ SaysGone(j, r) => part[j] # "made",
         UNCHANGED <<evicting, replaced, restarts, part>>,
         NEW at, owner' = [owner EXCEPT ![j] = at],
         at \notin {"removed", "preparing", "published", "cancelled"}
  PROVE  Harmless
<1>1. j \in Jobs /\ RunInv /\ Shapes BY DEF Jobs, PartsKnown, RunInv
<1>2. /\ Filed /\ Others({j}) /\ Like(worker', worker)
      /\ (can /\ job'[j] = r) \/ job'[j] \in {job[j], Swept[j]}
  <2>1. CASE ~can /\ SweepOnly(worker) BY <1>1, <2>1, SweepOthers DEF Others
  <2>2. ASSUME can, NEW n, Update(j, r, n, worker, worker)
        PROVE  /\ Filed /\ Others({j}) /\ Like(worker', worker)
               /\ job'[j] = r \/ job'[j] \in {job[j], Swept[j]}
    <3>1. /\ Filed /\ Others({j}) /\ Like(worker', worker)
          /\ job'[j] = r \/ Others({})
      BY <1>1, <2>2, UpdateOthers
    <3> QED BY <1>1, <3>1 DEF Others
  <2> QED BY <2>1, <2>2 DEF UploadUpdate
<1>3. job[j] \in Records BY <1>1 DEF Shapes
<1>4. CASE can /\ job'[j] = r
  <2>1. /\ SaysGone(j, job'[j]) => part'[j] # "made"
        /\ Present(job', j)
    BY <1>4 DEF Present
  <2> QED BY <1>2, <2>1, UploadPut
<1>5. CASE job'[j] \in {job[j], Swept[j]}
  <2>1. \/ job'[j].status = "failed"
        \/ job'[j] = job[j]
    BY <1>1, <1>5, SweptShape
  <2>2. /\ SaysGone(j, job'[j]) => SaysGone(j, job[j])
        /\ Present(job', j) \/ job'[j] = job[j]
    BY <2>1 DEF SaysGone, Present
  <2> QED BY <1>2, <2>2, UploadPut
<1> QED BY <1>2, <1>4, <1>5

\* An upload is recorded as completed when its part has been published.
LEMMA UploadReportsHarmless ==
  ASSUME PartsKnown, NEW j \in Uploads, UploadReports(j) PROVE Harmless
<1>1. j \in Jobs /\ RunInv /\ UploadSafe(j)
  BY DEF Jobs, PartsKnown, PartInv, PartSafe
<1> DEFINE r == Swept[j]
           from == owner[j]
           status == IF from = "appending" THEN r.status
                     ELSE IF from = "published" THEN "completed" ELSE "failed"
           next == IF from = "appending" THEN r
                   ELSE Becomes(r, status, IF from = "unsure" THEN "uncertain" ELSE "none")
           can == Open(j) /\ r.status = "running"
<1>2. /\ from \in {"appending", "published", "unsure"} /\ UploadUpdate(j, can, next)
      /\ UNCHANGED <<evicting, replaced, restarts, part>>
      /\ \E at \in {"free", "unrecorded"} : owner' = [owner EXCEPT ![j] = at]
  BY DEF UploadReports, OwnerAt, still, worldVars
<1>3. PICK at \in {"free", "unrecorded"} : owner' = [owner EXCEPT ![j] = at] BY <1>2
<1>4. can => Present(Swept, j) BY DEF Open
<1>5. CASE from = "appending"
  <2>1. can => next.status # "none" /\ ~SaysGone(j, next) BY <1>5 DEF SaysGone
  <2> HIDE DEF can, next
  <2> QED BY <1>2, <1>3, <1>4, <2>1, UploadUpdateHarmless
<1>6. CASE from = "published"
  <2>1. next.status = "completed" BY <1>1, <1>6, SweptRecord DEF Statuses
  <2>2. part[j] # "made" BY <1>1, <1>6 DEF UploadSafe
  <2> HIDE DEF can, next
  <2> QED BY <1>2, <1>3, <1>4, <2>1, <2>2, UploadUpdateHarmless
<1>7. CASE from = "unsure"
  <2>1. next.status = "failed" BY <1>1, <1>7, SweptRecord DEF Statuses
  <2>2. ~SaysGone(j, next) BY <2>1 DEF SaysGone
  <2> HIDE DEF can, next
  <2> QED BY <1>2, <1>3, <1>4, <2>1, <2>2, UploadUpdateHarmless
<1> QED BY <1>2, <1>5, <1>6, <1>7

\* An upload is recorded as cancelled when it knew of no part, or the part has gone.
LEMMA CancelHarmless ==
  ASSUME PartsKnown, NEW j \in Uploads, CancelBegins(j) \/ CancelEnds(j) PROVE Harmless
<1>1. j \in Jobs /\ RunInv /\ Shapes /\ UploadSafe(j)
  BY DEF Jobs, PartsKnown, PartInv, PartSafe, RunInv
<1> DEFINE r == Swept[j]
           s == Cancelled(r)
<1>2. s.status = "cancelled" /\ s.held = r.held /\ r.held = job[j].held
  <2>1. r.held = job[j].held BY <1>1, SweptShape
  <2>2. /\ Becomes(r, "cancelled", "none") \in Records
        /\ Becomes(r, "cancelled", "none").status = "cancelled"
        /\ Becomes(r, "cancelled", "none").held = r.held
    BY <1>1, SweptRecord DEF Statuses
  <2> HIDE DEF r
  <2>3. s.status = "cancelled" /\ s.held = r.held BY <2>2 DEF Cancelled, Records
  <2> QED BY <2>1, <2>3
<1> HIDE DEF s
<1>3. CASE CancelBegins(j)
  <2>1. UNCHANGED <<evicting, replaced, restarts, part>> /\ owner[j] = "free"
    BY <1>3 DEF CancelBegins, worldVars
  <2>2. CASE OwnerAt(j, "cancelling") /\ LedgerAlone /\ UNCHANGED worker
    <3>1. \A k \in Jobs : part'[k] \in {part[k], "none", "late"} BY <2>1
    <3> QED BY <2>1, <2>2, <3>1, UploadAlone DEF OwnerAt, LedgerAlone
  <2>3. CASE /\ ~job[j].held /\ owner' = owner
             /\ UploadUpdate(j, Present(Swept, j) /\ ~r.cleaning, s)
    <3>1. owner' = [owner EXCEPT ![j] = "free"] BY <1>1, <2>1, <2>3 DEF Shapes
    <3>2. ~SaysGone(j, s) BY <1>2, <2>3 DEF SaysGone
    <3> QED BY <1>2, <2>1, <2>3, <3>1, <3>2, UploadUpdateHarmless
  <2> QED BY <1>3, <2>2, <2>3 DEF CancelBegins, s
<1>4. CASE CancelEnds(j)
  <2>1. /\ UNCHANGED <<evicting, replaced, restarts, part>>
        /\ owner' = [owner EXCEPT ![j] = "free"]
    BY <1>4 DEF CancelEnds, OwnerAt, still, worldVars
  <2>2. CASE /\ owner[j] = "cancelled"
             /\ UploadUpdate(j, Present(Swept, j) /\ ~r.cleaning /\ ~Terminal(r), s)
    <3>1. part[j] # "made" BY <1>1, <2>2 DEF UploadSafe
    <3> QED BY <1>2, <2>1, <2>2, <3>1, UploadUpdateHarmless
  <2> DEFINE f == Becomes(r, "failed", "cleanup")
  <2>3. CASE UploadUpdate(j, Open(j) /\ CanFail(r), f)
    <3>1. f.status = "failed" BY <1>1, SweptRecord DEF Statuses
    <3>2. ~SaysGone(j, f) BY <3>1 DEF SaysGone
    <3> HIDE DEF f
    <3> QED BY <2>1, <2>3, <3>1, <3>2, UploadUpdateHarmless DEF Open
  <2> QED BY <1>4, <2>2, <2>3 DEF CancelEnds, s
<1> QED BY <1>3, <1>4

\* Every step of an upload.
LEMMA UploadStepHarmless == ASSUME PartsKnown, NEW j \in Uploads, UploadStep(j) PROVE Harmless
BY UploadTurns, UploadPreparedHarmless, UploadReportsHarmless, CancelHarmless DEF UploadStep

-----------------------------------------------------------------------------
(* The requests *)

\* What a control makes of a record.
LEMMA ControlSays ==
  ASSUME RunInv, NEW j \in Jobs, NEW what \in Controls
  PROVE  LET s == Controlled(Swept[j], what) IN
         /\ s.held = Swept[j].held
         /\ what = "start" => s.status = "running"
         /\ what = "reconnect" => s.status = "reconnecting"
         /\ what \in {"resume", "retry"} => s.status = "queued"
         /\ what \in {"pause", "fail", "exists"} =>
              s.status \in {"paused", "failed", "needs_overwrite"}
         /\ what = "cancel" => s.status = "cancelled"
<1> DEFINE r == Swept[j]
           s == Controlled(r, what)
<1>1. r \in Records BY SweptRecord DEF Statuses
<1>2. \A status \in Statuses, problem \in {"none", "other"} :
        LET b == Becomes(r, status, problem) IN
        b \in Records /\ b.status = status /\ b.held = r.held
  BY SweptRecord
<1>3. CASE what = "start"
  <2>1. s = Started(r) BY <1>3 DEF Controlled
  <2> HIDE DEF r, s
  <2>2. s.status = "running" /\ s.held = r.held
    BY <1>1, <2>1 DEF Started, Becomes, Records
  <2> QED BY <1>3, <2>2 DEF r, s
<1>4. CASE what = "reconnect"
  <2>1. s = Reconnecting(r) BY <1>4 DEF Controlled
  <2>2. LET b == Becomes(r, "reconnecting", "other") IN
        b \in Records /\ b.status = "reconnecting" /\ b.held = r.held
    BY <1>2 DEF Statuses
  <2> HIDE DEF r, s
  <2>3. s.status = "reconnecting" /\ s.held = r.held
    BY <2>1, <2>2 DEF Reconnecting, Records
  <2> QED BY <1>4, <2>3 DEF r, s
<1>5. CASE what \in {"resume", "retry"}
  <2>1. s = Requeued(r) BY <1>5 DEF Controlled
  <2>2. LET b == Becomes(r, "queued", "none") IN
        b \in Records /\ b.status = "queued" /\ b.held = r.held
    BY <1>2 DEF Statuses
  <2> HIDE DEF r, s
  <2>3. s.status = "queued" /\ s.held = r.held BY <2>1, <2>2 DEF Requeued, Records
  <2> QED BY <1>5, <2>3 DEF r, s
<1>6. CASE what = "pause"
  <2>1. s = [r EXCEPT !.status = "paused"] BY <1>6 DEF Controlled
  <2> HIDE DEF r, s
  <2>2. s.status = "paused" /\ s.held = r.held BY <1>1, <2>1 DEF Records
  <2> QED BY <1>6, <2>2 DEF r, s
<1>7. CASE what = "cancel"
  <2>1. s = Cancelled(r) BY <1>7 DEF Controlled
  <2>2. LET b == Becomes(r, "cancelled", "none") IN
        b \in Records /\ b.status = "cancelled" /\ b.held = r.held
    BY <1>2 DEF Statuses
  <2> HIDE DEF r, s
  <2>3. s.status = "cancelled" /\ s.held = r.held BY <2>1, <2>2 DEF Cancelled, Records
  <2> QED BY <1>7, <2>3 DEF r, s
<1>8. CASE what = "fail"
  <2>1. s = Becomes(r, "failed", "other") BY <1>8 DEF Controlled
  <2> QED BY <1>2, <1>8, <2>1 DEF Statuses
<1>9. CASE what = "exists"
  <2>1. s = Becomes(r, "needs_overwrite", "other") BY <1>9 DEF Controlled
  <2> QED BY <1>2, <1>9, <2>1 DEF Statuses
<1> QED BY <1>3, <1>4, <1>5, <1>6, <1>7, <1>8, <1>9 DEF Controls

\* A request about job j: everybody else's jobs are as they were.
LEMMA RequestHarmless ==
  ASSUME PartsKnown, Filed, restarts' = restarts, NEW S, Others(S), Like(worker', worker),
         part' = part,
         \A k \in Jobs : OwnerAsBefore(k) /\ CleanedAsBefore(k),
         \A k \in Jobs : k \in S => Kept(k)
  PROVE  Harmless
<1>1. Shapes BY DEF PartsKnown, RunInv
<1> SUFFICES ASSUME NEW k \in Jobs, k \notin S PROVE Kept(k) BY DEF Harmless
<1>2. RunsAsBefore(k) BY <1>1, LikeRuns
<1>3. job'[k] \in {job[k], Swept[k]} BY DEF Others
<1> QED BY <1>2, <1>3, Passive

\* The requests that only sweep, or leave the ledger alone.
LEMMA OwnersStay ==
  ASSUME owner' = owner, \A n \in Jobs : Evicting(n)' /\ evicting'[n].phase = "cleaned" =>
                                           Evicting(n) /\ evicting'[n] = evicting[n]
  PROVE  \A k \in Jobs : OwnerAsBefore(k) /\ CleanedAsBefore(k)
BY DEF OwnerAsBefore, CleanedAsBefore

\* They do no harm.
LEMMA PlainHarmless ==
  ASSUME PartsKnown,
         \/ \E j \in Jobs : Silence(j) \/ Resend(j) \/ AdmitRefused(j)
         \/ List \/ Close \/ \E new \in Settings : Set(new)
  PROVE  Harmless
<1>1. Shapes BY DEF PartsKnown, RunInv
<1>2. /\ part' = part /\ owner' = owner /\ restarts' = restarts /\ replaced' = replaced
      /\ \A n \in Jobs : evicting'[n] = evicting[n] \/ evicting'[n] = NotEvicting
  BY <1>1 DEF Silence, Resend, AdmitRefused, List, Close, Set, worldVars, boundVars, actorVars,
              Shapes
<1>3. \A n \in Jobs : Evicting(n)' /\ evicting'[n].phase = "cleaned" =>
                        Evicting(n) /\ evicting'[n] = evicting[n]
  BY <1>2, IdleFacts DEF Evicting
<1>4. \A k \in Jobs : OwnerAsBefore(k) /\ CleanedAsBefore(k) BY <1>2, <1>3, OwnersStay
<1>5. Filed /\ Others({}) /\ Like(worker', worker)
  <2>1. CASE SweepOnly(worker) BY <1>1, <2>1, SweepOthers
  <2>2. CASE /\ UNCHANGED <<job, disk, trouble>>
             /\ worker' = worker \/ worker' = Signal(worker)
    BY <2>2, StillFiled, StayOthers, SignalLike
  <2>3. CASE Close
    <3>1. /\ UNCHANGED <<job, disk, trouble>>
          /\ worker' = [w \in Workers |-> IF current[w[1]] = w[2]
                                          THEN [worker[w] EXCEPT !.ended = TRUE] ELSE worker[w]]
      BY <2>3 DEF Close, boundVars
    <3>2. worker \in Gang BY <1>1 DEF Shapes, Gang
    <3>3. ASSUME NEW v \in Workers
          PROVE  /\ worker'[v] \in Goroutines /\ worker'[v].pc = worker[v].pc
                 /\ worker'[v].ended = FALSE => worker[v].ended = FALSE
      <4>1. worker[v] \in Goroutines BY <3>2 DEF Gang
      <4> QED BY <3>1, <4>1 DEF Goroutines
    <3>4. worker' \in Gang BY <3>1, <3>3 DEF Gang
    <3>5. Like(worker', worker) BY <3>3, <3>4 DEF Like
    <3> QED BY <3>1, <3>5, StillFiled, StayOthers
  <2>4. ASSUME NEW j \in Jobs, Resend(j) PROVE SweepOnly(worker)
    BY <2>4 DEF Resend, SweepOnly
  <2>5. ASSUME NEW j \in Jobs, AdmitRefused(j) PROVE SweepOnly(worker)
    BY <2>5 DEF AdmitRefused
  <2>6. List => SweepOnly(worker) BY DEF List
  <2>7. ASSUME NEW j \in Jobs, Silence(j) PROVE UNCHANGED <<job, disk, trouble, worker>>
    BY <2>7 DEF Silence, actorVars, boundVars
  <2>8. ASSUME NEW new \in Settings, Set(new)
        PROVE  UNCHANGED <<job, disk, trouble>> /\ worker' = Signal(worker)
    BY <2>8 DEF Set
  <2> QED BY <2>1, <2>2, <2>3, <2>4, <2>5, <2>6, <2>7, <2>8
<1>6. \A k \in Jobs : k \in {} => Kept(k) OBVIOUS
<1> QED BY <1>2, <1>4, <1>5, <1>6, RequestHarmless

\* A client's control of job j.
LEMMA ClientHarmless ==
  ASSUME PartsKnown, NEW j \in Jobs, NEW what \in Controls, ClientUpdate(j, what)
  PROVE  Harmless
<1>1. Shapes /\ RunInv /\ PartSafe(j) BY DEF PartsKnown, PartInv, RunInv
<1> DEFINE r == Swept[j]
           s == Controlled(r, what)
<1>2. /\ part' = part /\ owner' = owner /\ restarts' = restarts /\ owner[j] = "free"
      /\ UNCHANGED <<evicting, replaced>>
      /\ Update(j, s, SlotsAfter(r, what), worker, worker)
      /\ what \in ControlsOf(j) /\ Open(j) /\ CanControl(r, what)
  BY DEF ClientUpdate
<1>3. \A k \in Jobs : OwnerAsBefore(k) /\ CleanedAsBefore(k)
  <2>1. \A n \in Jobs : Evicting(n)' => Evicting(n) /\ evicting'[n] = evicting[n]
    BY <1>2 DEF Evicting
  <2> QED BY <1>2, <2>1, OwnersStay
<1>4. /\ s.held = r.held
      /\ what = "start" => s.status = "running"
      /\ what = "reconnect" => s.status = "reconnecting"
      /\ what \in {"resume", "retry"} => s.status = "queued"
      /\ what \in {"pause", "fail", "exists"} =>
           s.status \in {"paused", "failed", "needs_overwrite"}
      /\ what = "cancel" => s.status = "cancelled"
  BY <1>1, ControlSays
<1>5. r.held = job[j].held BY <1>1, SweptShape
<1>6. ~SaysGone(j, s)
  <2>1. what = "cancel" => j \notin Uploads BY <1>2 DEF ControlsOf
  <2> QED BY <1>4, <2>1 DEF SaysGone, Controls
<1>7. Present(job, j) /\ s.status # "none"
  <2>1. Present(Swept, j) BY <1>2 DEF Open
  <2>2. Present(job, j) BY <1>1, <2>1, SweptShape DEF Present
  <2> QED BY <1>4, <2>2 DEF Controls
<1> HIDE DEF s
<1>8. /\ Filed /\ Others({j})
      /\ \/ /\ job'[j] = s /\ Like(worker', worker)
            /\ HasSlot(s) \/ s.status = "queued" \/ Like(worker', EndRun(j, worker))
         \/ Others({}) /\ Like(worker', worker)
  BY <1>1, <1>2, UpdateOthers
<1>9. CASE Others({}) /\ Like(worker', worker)
  <2>1. \A k \in Jobs : k \in {} => Kept(k) OBVIOUS
  <2> QED BY <1>2, <1>3, <1>8, <1>9, <2>1, RequestHarmless
<1>10. CASE /\ job'[j] = s /\ Like(worker', worker)
            /\ HasSlot(s) \/ s.status = "queued" \/ Like(worker', EndRun(j, worker))
  <2>1. RunSafe(j)'
    <3> SUFFICES ASSUME j \in Remote, NEW i \in Runs, worker'[<<j, i>>].ended = FALSE
                 PROVE  /\ worker'[<<j, i>>].pc \notin Acting
                        /\ worker'[<<j, i>>].pc = "done" => part[j] # "made" \/ s.held = FALSE
      BY <1>2, <1>10 DEF RunSafe
    <3>1. <<j, i>> \in Workers /\ worker \in Gang BY <1>1 DEF Workers, Shapes, Gang
    <3>2. worker[<<j, i>>].ended = FALSE /\ worker'[<<j, i>>].pc = worker[<<j, i>>].pc
      BY <1>10, <3>1 DEF Like
    <3>3. worker[<<j, i>>].pc = "done" => part[j] # "made" \/ s.held = FALSE
      BY <1>1, <1>4, <1>5, <3>2 DEF PartSafe, RunSafe
    <3>4. what \in {"start", "pause", "resume", "retry", "cancel", "fail", "exists"}
      BY <1>2, LedgerAssumption DEF ControlsOf, Controls
    <3>5. CASE what \in {"pause", "cancel", "fail", "exists"}
      <4>1. ~HasSlot(s) /\ s.status # "queued" BY <1>4, <3>5 DEF HasSlot
      <4> QED BY <1>1, <1>10, <4>1, EndedRuns
    <3>6. CASE what \in {"start", "resume", "retry"}
      <4>1. r.status # "running"
        BY <1>2, <3>6 DEF CanControl, CanResume, CanRetry, CanStart, CanRestart
      <4>2. worker[<<j, i>>].pc \notin Acting
        <5> SUFFICES ASSUME worker[<<j, i>>].pc \in Acting PROVE FALSE OBVIOUS
        <5>1. job[j].status = "running" BY <1>1, <3>2 DEF PartSafe, RunSafe
        <5>2. Swept[j] # job[j] BY <4>1, <5>1
        <5> QED BY <1>1, <5>2, SweptIdle
      <4> QED BY <3>2, <3>3, <4>2
    <3> QED BY <3>4, <3>5, <3>6
  <2>2. Vanishes(j) BY <1>7, <1>10 DEF Vanishes, Present
  <2>3. CleanedAsBefore(j) /\ owner'[j] = "free" BY <1>2, <1>3
  <2>4. Kept(j) BY <1>2, <1>6, <1>8, <1>10, <2>1, <2>2, <2>3, KeptBy
  <2>5. \A k \in Jobs : k \in {j} => Kept(k) BY <2>4
  <2> QED BY <1>2, <1>3, <1>8, <1>10, <2>5, RequestHarmless
<1> QED BY <1>8, <1>9, <1>10

\* Who cleans a part up has seen it go when it says so.
LEMMA CleansHarmless ==
  ASSUME PartsKnown, NEW n \in Jobs, NEW ok \in BOOLEAN,
         EvictCleans(n, ok) \/ RemoveCleans(n, ok)
  PROVE  Harmless
<1>1. Shapes BY DEF PartsKnown, RunInv
<1>2. UNCHANGED <<job, disk, trouble, worker, replaced, restarts>>
  BY DEF EvictCleans, RemoveCleans, ledgerVars, boundVars
<1>3. Filed BY <1>2, StillFiled
<1>4. /\ \A k \in Jobs : part'[k] \in {part[k], "none", "late"}
      /\ \A k \in Jobs : OwnerAsBefore(k) /\ CleanedAsBefore(k)
  <2>1. CASE EvictCleans(n, ok)
    <3> DEFINE i == evicting[n].job
               phase == IF ok THEN "cleaned" ELSE "uncleaned"
    <3>1. /\ part' = (IF ok THEN [part EXCEPT ![i] = "none"] ELSE part)
          /\ evicting' = [evicting EXCEPT ![n].phase = phase]
          /\ owner' = owner /\ evicting[n].phase = "cleaning"
      BY <2>1 DEF EvictCleans
    <3>2. evicting'[n].phase = phase /\ evicting'[n].job = i
          /\ \A m \in Jobs : m # n => evicting'[m] = evicting[m]
      BY <1>1, <3>1 DEF Shapes
    <3>3. \A k \in Jobs : part'[k] \in {part[k], "none", "late"} /\ (ok /\ k = i => part'[k] # "made")
      BY <1>1, <3>1 DEF Shapes
    <3>4. ASSUME NEW k \in Jobs, NEW m \in Jobs, Evicting(m)',
                 evicting'[m].phase = "cleaned", evicting'[m].job = k
          PROVE  part'[k] # "made" \/ (Evicting(m) /\ evicting'[m] = evicting[m])
      <4>1. CASE m = n BY <3>2, <3>3, <3>4, <4>1
      <4>2. CASE m # n BY <1>2, <3>2, <3>4, <4>2 DEF Evicting
      <4> QED BY <4>1, <4>2
    <3>5. \A k \in Jobs : CleanedAsBefore(k) BY <3>4 DEF CleanedAsBefore
    <3> QED BY <3>1, <3>3, <3>5 DEF OwnerAsBefore
  <2>2. CASE RemoveCleans(n, ok)
    <3>1. /\ part' = (IF ok THEN [part EXCEPT ![n] = "none"] ELSE part)
          /\ owner' = [owner EXCEPT ![n] = IF ok THEN "removed" ELSE "unremoved"]
          /\ evicting' = evicting
      BY <2>2 DEF RemoveCleans
    <3>2. \A k \in Jobs : part'[k] \in {part[k], "none", "late"} /\ (ok /\ k = n => part'[k] # "made")
      BY <1>1, <3>1 DEF Shapes
    <3>3. \A k \in Jobs : k # n => owner'[k] = owner[k] BY <1>1, <3>1 DEF Shapes
    <3>4. owner'[n] = IF ok THEN "removed" ELSE "unremoved" BY <1>1, <3>1 DEF Shapes
    <3>5. \A k \in Jobs : OwnerAsBefore(k) BY <3>2, <3>3, <3>4 DEF OwnerAsBefore
    <3>6. \A k \in Jobs : CleanedAsBefore(k)
      BY <1>2, <3>1 DEF CleanedAsBefore, Evicting
    <3> QED BY <3>2, <3>5, <3>6
  <2> QED BY <2>1, <2>2
<1>5. \A k \in Jobs : RunsAsBefore(k) BY <1>1, <1>2, SignalLike, LikeRuns
<1>6. \A k \in Jobs : Kept(k) BY <1>2, <1>3, <1>4, <1>5, Passive
<1> QED BY <1>2, <1>3, <1>6 DEF Harmless

-----------------------------------------------------------------------------
(* Records that leave the ledger *)

\* A record that does not run, or is silent, may go if it leaves no part.
LEMMA Forgets ==
  ASSUME PartsKnown, Filed, restarts' = restarts, NEW j \in Jobs, job'[j] = Absent,
         job[j].status # "running" \/ Swept[j] # job[j], part' = part,
         RunsAsBefore(j), OwnerAsBefore(j), CleanedAsBefore(j), Vanishes(j)
  PROVE  Kept(j)
<1>1. RunInv /\ PartSafe(j) BY DEF PartsKnown, PartInv
<1>2. job'[j].held = FALSE /\ job'[j].status = "none" BY RecordFacts
<1>3. ~SaysGone(j, job'[j]) /\ ~Present(job', j) BY <1>2 DEF SaysGone, Present
<1>4. j \in Remote => \A r \in Runs :
        worker'[<<j, r>>].ended = FALSE => worker'[<<j, r>>].pc \notin Acting
  <2> SUFFICES ASSUME j \in Remote, NEW r \in Runs, worker'[<<j, r>>].ended = FALSE,
                      worker'[<<j, r>>].pc \in Acting
               PROVE  FALSE
    OBVIOUS
  <2>1. worker[<<j, r>>].ended = FALSE /\ worker[<<j, r>>].pc \in Acting
    BY DEF RunsAsBefore
  <2>2. job[j].status = "running" BY <1>1, <2>1 DEF PartSafe, RunSafe
  <2>3. Swept[j] # job[j] BY <2>2
  <2> QED BY <1>1, <2>1, <2>3, SweptIdle
<1>5. RunSafe(j)' BY <1>2, <1>4 DEF RunSafe
<1>6. j \in Uploads => owner'[j] # "preparing"
  <2> SUFFICES ASSUME j \in Uploads, owner'[j] = "preparing" PROVE FALSE OBVIOUS
  <2>1. owner[j] = "preparing" BY DEF OwnerAsBefore
  <2>2. job[j].status = "running" BY <1>1, <2>1 DEF PartSafe, UploadSafe
  <2>3. Swept[j] # job[j] BY <2>2
  <2> QED BY <1>1, <2>1, <2>3, SweptIdle
<1>7. owner'[j] \in {"published", "cancelled"} => owner'[j] = owner[j] \/ part'[j] # "made"
  BY DEF OwnerAsBefore
<1> QED BY <1>3, <1>5, <1>6, <1>7, KeptBy

\* A finished record that does not say that it may hold a part leaves none.
LEMMA GoneSafe ==
  ASSUME PartsKnown, NEW j \in Jobs, NEW r \in {job[j], Swept[j]},
         Retained(r), ~MayHold(j, r)
  PROVE  Vanishes(j)
<1>1. RunInv /\ Shapes /\ PartSafe(j) BY DEF PartsKnown, PartInv, RunInv
<1>2. r.held = job[j].held /\ (r = job[j] \/ r.status = "failed") BY <1>1, SweptShape
<1> SUFFICES ASSUME job[j].held = TRUE, Trusted PROVE part[j] # "made" BY DEF Vanishes
<1>3. r.status # "failed" BY <1>2 DEF MayHold
<1>4. r = job[j] /\ r.status \in {"completed", "cancelled"}
  BY <1>2, <1>3 DEF Retained, Terminal
<1>5. j \notin Moves BY <1>1 DEF RunInv, Honest, HonestRecord
<1>6. r.status = "cancelled" => j \in Uploads
  <2>1. r.status = "cancelled" => j \notin Copies BY <1>2, <1>4 DEF MayHold
  <2> QED BY <1>5, <2>1 DEF Jobs, Remote
<1>7. SaysGone(j, job[j]) BY <1>4, <1>6 DEF SaysGone
<1> QED BY <1>1, <1>7 DEF PartSafe

\* The steps that give a ledger away and leave the goroutines and the parts alone.
LEMMA LeavingHarmless ==
  ASSUME PartsKnown, Filed, UNCHANGED <<worker, part, restarts>>,
         \A k \in Jobs : OwnerAsBefore(k) /\ CleanedAsBefore(k),
         \A k \in Jobs : \/ SaysAsBefore(k)
                         \/ job'[k] = Absent /\ job[k].status # "running" /\ Vanishes(k)
  PROVE  Harmless
<1>1. Shapes BY DEF PartsKnown, RunInv
<1> SUFFICES ASSUME NEW k \in Jobs PROVE Kept(k) BY DEF Harmless
<1>2. RunsAsBefore(k) BY <1>1, SignalLike, LikeRuns
<1>3. CASE SaysAsBefore(k) BY <1>2, <1>3, Alike
<1>4. CASE job'[k] = Absent /\ job[k].status # "running" /\ Vanishes(k)
  BY <1>2, <1>4, Forgets
<1> QED BY <1>3, <1>4

\* ClearFinished and the expiry take finished records that hold nothing.
LEMMA ClearHarmless ==
  ASSUME PartsKnown, NEW S \in SUBSET Jobs, Clear(S) PROVE Harmless
<1>1. Shapes BY DEF PartsKnown, RunInv
<1> DEFINE q == [j \in Jobs |-> IF j \in S THEN Absent ELSE job[j]]
<1>2. /\ \A j \in S : Terminal(job[j]) /\ ~MayHold(j, job[j])
      /\ \/ Saved(q) /\ job' = q
         \/ NotSaved(disk, q) /\ job' = job
      /\ replaced \subseteq replaced'
      /\ UNCHANGED <<worker, part, restarts, owner, evicting>>
  BY DEF Clear, worldVars
<1>3. \A j \in Jobs : q[j] = IF j \in S THEN Absent ELSE job[j] OBVIOUS
<1> HIDE DEF q
<1>4. Filed BY <1>1, <1>2, SavedFiled, NotFiled
<1>5. \A k \in Jobs : OwnerAsBefore(k) /\ CleanedAsBefore(k)
  BY <1>2 DEF OwnerAsBefore, CleanedAsBefore, Evicting
<1>6. ASSUME NEW k \in Jobs
      PROVE  \/ SaysAsBefore(k)
             \/ job'[k] = Absent /\ job[k].status # "running" /\ Vanishes(k)
  <2>1. CASE job'[k] = job[k] BY <2>1 DEF SaysAsBefore, SaysLike
  <2>2. CASE k \in S /\ job'[k] = Absent
    <3>1. Retained(job[k]) /\ ~MayHold(k, job[k]) /\ job[k].status # "running"
      BY <1>2, <2>2 DEF Retained, Terminal
    <3> QED BY <2>2, <3>1, GoneSafe
  <2> QED BY <1>2, <1>3, <2>1, <2>2
<1> QED BY <1>2, <1>4, <1>5, <1>6, LeavingHarmless

\* A removal begins: a record that may hold a part stays until it has been cleaned up.
LEMMA RemoveHarmless == ASSUME PartsKnown, NEW j \in Jobs, Remove(j) PROVE Harmless
<1>1. Shapes BY DEF PartsKnown, RunInv
<1>2. job \in [Jobs -> Records] /\ job[j] \in Records BY <1>1 DEF Shapes
<1> DEFINE r == [job[j] EXCEPT !.cleaning = TRUE]
           marked == [job EXCEPT ![j] = r]
           gone == [job EXCEPT ![j] = Absent]
<1>3. [job EXCEPT ![j].cleaning = TRUE] = marked BY <1>2
<1>4. /\ Retained(job[j])
      /\ \/ Saved(marked) /\ job' = marked /\ owner' = [owner EXCEPT ![j] = "removing"]
         \/ NotSaved(disk, marked) /\ job' = job /\ owner' = owner
         \/ ~MayHold(j, job[j]) /\ Saved(gone) /\ job' = gone /\ owner' = owner
         \/ NotSaved(disk, gone) /\ job' = job /\ owner' = owner
      /\ UNCHANGED <<worker, part, restarts, evicting, replaced>>
  BY <1>3 DEF Remove, Removable, worldVars
<1>5. r.status = job[j].status /\ r.held = job[j].held BY <1>2 DEF Records
<1>6. /\ marked[j] = r /\ gone[j] = Absent
      /\ \A k \in Jobs : k # j => marked[k] = job[k] /\ gone[k] = job[k]
  BY <1>2
<1> HIDE DEF r, marked, gone
<1>7. Filed BY <1>1, <1>4, SavedFiled, NotFiled
<1>8. \A k \in Jobs : owner'[k] = owner[k] \/ owner'[k] = "removing" BY <1>1, <1>4 DEF Shapes
<1>9. \A k \in Jobs : OwnerAsBefore(k) /\ CleanedAsBefore(k)
  BY <1>4, <1>8 DEF OwnerAsBefore, CleanedAsBefore, Evicting
<1>10. ASSUME NEW k \in Jobs
       PROVE  \/ SaysAsBefore(k)
              \/ job'[k] = Absent /\ job[k].status # "running" /\ Vanishes(k)
  <2>1. CASE job'[k] = job[k] BY <2>1 DEF SaysAsBefore, SaysLike
  <2>2. CASE k = j /\ job'[k] = r BY <1>5, <2>2 DEF SaysAsBefore, SaysLike
  <2>3. CASE k = j /\ job'[k] = Absent /\ ~MayHold(j, job[j])
    <3>1. job[k].status # "running" BY <1>4, <2>3 DEF Retained, Terminal
    <3> QED BY <1>4, <2>3, <3>1, GoneSafe
  <2> QED BY <1>4, <1>6, <2>1, <2>2, <2>3
<1> QED BY <1>4, <1>7, <1>9, <1>10, LeavingHarmless

\* A removal ends: the record goes only when its part has gone.
LEMMA RemoveEndsHarmless == ASSUME PartsKnown, NEW j \in Jobs, RemoveEnds(j) PROVE Harmless
<1>1. Shapes /\ CleaningInv /\ RemovalSafe(j)
  BY DEF PartsKnown, RunInv, PartInv, PartSafe
<1>2. job \in [Jobs -> Records] /\ job[j] \in Records BY <1>1 DEF Shapes
<1> DEFINE r == [job[j] EXCEPT !.cleaning = FALSE]
           s == [job[j] EXCEPT !.cleaning = FALSE, !.tombstone = TRUE, !.problem = "cleanup"]
           kept == [job EXCEPT ![j] = r]
           marked == [job EXCEPT ![j] = s]
           gone == [job EXCEPT ![j] = Absent]
<1>3. [job EXCEPT ![j].cleaning = FALSE] = kept
      /\ [kept EXCEPT ![j].tombstone = TRUE, ![j].problem = "cleanup"] = marked
  BY <1>2
<1>4. /\ owner[j] \in {"removed", "unremoved"} /\ owner' = [owner EXCEPT ![j] = "free"]
      /\ UNCHANGED <<worker, part, restarts, evicting, replaced>>
  BY DEF RemoveEnds, worldVars
<1>5. PICK q \in {marked, gone} :
        /\ q = marked \/ owner[j] = "removed"
        /\ \/ Present(job, j) /\ job' = q /\ Saved(q)
           \/ Present(job, j) /\ job' = kept /\ NotSaved(disk, q)
           \/ ~Present(job, j) /\ UNCHANGED <<job, disk, trouble>>
  BY <1>3 DEF RemoveEnds
<1>6. r.status = job[j].status /\ r.held = job[j].held
      /\ s.status = job[j].status /\ s.held = job[j].held
  BY <1>2 DEF Records
<1>7. /\ kept[j] = r /\ marked[j] = s /\ gone[j] = Absent
      /\ \A k \in Jobs : k # j => kept[k] = job[k] /\ marked[k] = job[k] /\ gone[k] = job[k]
  BY <1>2
<1> HIDE DEF r, s, kept, marked, gone
<1>8. Filed BY <1>1, <1>5, SavedFiled, NotFiled, StillFiled
<1>9. \A k \in Jobs : owner'[k] = owner[k] \/ owner'[k] = "free" BY <1>1, <1>4 DEF Shapes
<1>10. \A k \in Jobs : OwnerAsBefore(k) /\ CleanedAsBefore(k)
  BY <1>4, <1>9 DEF OwnerAsBefore, CleanedAsBefore, Evicting
<1>11. ASSUME NEW k \in Jobs
       PROVE  \/ SaysAsBefore(k)
              \/ job'[k] = Absent /\ job[k].status # "running" /\ Vanishes(k)
  <2>1. CASE job'[k] = job[k] BY <2>1 DEF SaysAsBefore, SaysLike
  <2>2. CASE k = j /\ job'[k] \in {r, s} BY <1>6, <2>2 DEF SaysAsBefore, SaysLike
  <2>3. CASE k = j /\ job'[k] = Absent /\ Present(job, j) /\ owner[j] = "removed"
    <3>1. Marked(job[j]) BY <1>1, <2>3 DEF CleaningInv, Removing
    <3>2. part[j] # "made" BY <1>1, <2>3 DEF RemovalSafe
    <3> QED BY <2>3, <3>1, <3>2 DEF Marked, HasSlot, Vanishes
  <2>4. CASE k # j BY <1>5, <1>7, <2>1, <2>4
  <2>5. CASE k = j BY <1>5, <1>7, <2>1, <2>2, <2>3, <2>5
  <2> QED BY <2>4, <2>5
<1> QED BY <1>4, <1>8, <1>10, <1>11, LeavingHarmless

\* An admission that has cleaned up another job: the record it knew goes with its part.
LEMMA EvictEndsHarmless == ASSUME PartsKnown, NEW n \in Jobs, EvictEnds(n) PROVE Harmless
<1>1. Shapes /\ Named /\ CleaningInv BY DEF PartsKnown, RunInv
<1> DEFINE j == evicting[n].job
           same == Present(job, j) /\ n \notin replaced
           r == [job[j] EXCEPT !.cleaning = FALSE]
           kept == [job EXCEPT ![j] = r]
           gone == [job EXCEPT ![j] = Absent]
           over(phase) == [job |-> NoJob, phase |-> phase]
<1>2. evicting[n].phase \in Cleans BY DEF EvictEnds, Cleans
<1>3. j \in Jobs
  <2>1. evicting[n] \in [job : Jobs \cup {NoJob}, phase : Phases]
    BY <1>1 DEF Shapes, Phases
  <2> QED BY <1>1, <1>2, <2>1 DEF Named
<1>4. job \in [Jobs -> Records] /\ job[j] \in Records BY <1>1, <1>3 DEF Shapes
<1>5. [job EXCEPT ![j].cleaning = FALSE] = kept BY <1>3, <1>4
<1>6. /\ UNCHANGED <<worker, part, restarts, owner, replaced>>
      /\ \E phase \in {"no", "again"} : evicting' = [evicting EXCEPT ![n] = over(phase)]
      /\ \/ job' = kept /\ UNCHANGED <<disk, trouble>>
         \/ same /\ evicting[n].phase = "cleaned" /\ job' = gone /\ Saved(gone)
         \/ job' = kept /\ NotSaved(disk, gone)
         \/ UNCHANGED <<job, disk, trouble>>
  BY <1>5 DEF EvictEnds, worldVars
<1>7. r.status = job[j].status /\ r.held = job[j].held BY <1>4 DEF Records
<1>8. kept[j] = r /\ gone[j] = Absent
      /\ \A k \in Jobs : k # j => kept[k] = job[k] /\ gone[k] = job[k]
  BY <1>3, <1>4
<1>9. \A m \in Jobs : evicting'[m] = evicting[m] \/ evicting'[m].phase \notin Cleans
  <2>1. PICK phase \in {"no", "again"} : evicting' = [evicting EXCEPT ![n] = over(phase)]
    BY <1>6
  <2>2. over(phase).phase \notin Cleans BY DEF Cleans
  <2> HIDE DEF over
  <2> QED BY <1>1, <2>1, <2>2 DEF Shapes
<1>10. same => Evicting(n) BY <1>2 DEF Evicting
<1> HIDE DEF r, kept, gone
<1>11. \A k \in Jobs : kept[k].status = job[k].status /\ kept[k].held = job[k].held
  BY <1>7, <1>8
<1>12. Filed
  <2>1. CASE job' = kept /\ UNCHANGED <<disk, trouble>> BY <1>11, <2>1 DEF Filed
  <2>2. CASE job' = gone /\ Saved(gone) BY <2>2, SavedFiled
  <2>3. CASE NotSaved(disk, gone) BY <1>1, <2>3, NotFiled
  <2>4. CASE UNCHANGED <<job, disk, trouble>> BY <2>4, StillFiled
  <2> QED BY <1>6, <2>1, <2>2, <2>3, <2>4
<1>13. \A k \in Jobs : OwnerAsBefore(k) /\ CleanedAsBefore(k)
  BY <1>6, <1>9 DEF OwnerAsBefore, CleanedAsBefore, Evicting
<1>14. ASSUME NEW k \in Jobs
       PROVE  \/ SaysAsBefore(k)
              \/ job'[k] = Absent /\ job[k].status # "running" /\ Vanishes(k)
  <2>1. CASE job'[k] = job[k] BY <2>1 DEF SaysAsBefore, SaysLike
  <2>2. CASE job'[k] = kept[k] BY <1>11, <2>2 DEF SaysAsBefore, SaysLike
  <2>3. CASE k = j /\ job'[k] = Absent /\ same /\ evicting[n].phase = "cleaned"
    <3>1. Evicting(n) BY <1>10, <2>3
    <3>2. Marked(job[k]) BY <1>1, <2>3, <3>1 DEF CleaningInv
    <3>3. EvictionSafe(k) BY DEF PartsKnown, PartInv, PartSafe
    <3>4. part[k] # "made" BY <2>3, <3>1, <3>3 DEF EvictionSafe
    <3> QED BY <2>3, <3>2, <3>4 DEF Marked, HasSlot, Vanishes
  <2>4. CASE k # j BY <1>6, <1>8, <2>1, <2>4
  <2>5. CASE k = j BY <1>6, <1>8, <2>1, <2>2, <2>3, <2>5
  <2> QED BY <2>4, <2>5
<1> QED BY <1>6, <1>12, <1>13, <1>14, LeavingHarmless

\* A name that is not in the ledger gets a new record.
LEMMA NewRecord ==
  ASSUME PartsKnown, Filed, restarts' = restarts, NEW n \in Jobs, ~Present(job, n),
         job'[n] = Fresh, NoReadmission, UNCHANGED <<owner, part>>,
         RunsAsBefore(n), CleanedAsBefore(n)
  PROVE  Kept(n)
<1>1. RunInv /\ PartSafe(n) BY DEF PartsKnown, PartInv
<1>2. job'[n].held = FALSE /\ job'[n].status = "queued" BY RecordFacts
<1>3. ~SaysGone(n, job'[n]) /\ Present(job', n) /\ job[n].status # "running"
  BY <1>2 DEF SaysGone, Present
<1>4. RunSafe(n)'
  <2> SUFFICES ASSUME n \in Remote, NEW r \in Runs, worker'[<<n, r>>].ended = FALSE,
                      worker'[<<n, r>>].pc \in Acting
               PROVE  FALSE
    BY <1>2 DEF RunSafe
  <2>1. worker[<<n, r>>].ended = FALSE /\ worker[<<n, r>>].pc \in Acting
    BY DEF RunsAsBefore
  <2> QED BY <1>1, <1>3, <2>1 DEF PartSafe, RunSafe
<1>5. n \in Uploads => owner'[n] # "preparing" BY <1>1, <1>3 DEF PartSafe, UploadSafe
<1>6. owner'[n] # "removed" BY <1>3 DEF NoReadmission, Removing
<1>7. Vanishes(n) BY DEF Vanishes
<1> QED BY <1>3, <1>4, <1>5, <1>6, <1>7, KeptBy

\* An admission evicts only what holds no part.
LEMMA AdmitHarmless ==
  ASSUME PartsKnown, NEW n \in Jobs, Admit(n), NoReadmission PROVE Harmless
<1>1. Shapes BY DEF PartsKnown, RunInv
<1>2. /\ ~Present(job, n) /\ evicting' = [evicting EXCEPT ![n] = NotEvicting]
      /\ UNCHANGED <<owner, part, restarts>>
  BY DEF Admit, Admitting
<1>3. PICK E \in IF Full THEN {{j} : j \in AtOnce} ELSE {{}} :
        LET q == Admitted(n, E)
        IN  \/ /\ job' = q /\ Saved(q) /\ worker' = SignalIf(Stale # {}, worker)
               /\ replaced' = replaced
            \/ /\ SaveFails(q, FALSE, worker)
               /\ replaced' = replaced \cup Cleaners
  BY DEF Admit
<1> DEFINE q == Admitted(n, E)
<1>4. \A j \in E : j \in Jobs /\ Retained(Swept[j]) /\ ~MayHold(j, Swept[j])
  BY <1>3 DEF AtOnce, Evictable
<1>5. q[n] = Fresh /\ \A j \in Jobs : j # n => q[j] = IF j \in E THEN Absent ELSE Swept[j]
  BY DEF Admitted, Fresh
<1> HIDE DEF q
<1>6. Like(worker', worker) BY <1>1, <1>3, SignalIfLike, SaveFailsOthers DEF q
<1>7. \A k \in Jobs : OwnerAsBefore(k) /\ CleanedAsBefore(k)
  <2>1. replaced \subseteq replaced' BY <1>3
  <2>2. \A m \in Jobs : evicting'[m] = evicting[m] \/ evicting'[m].phase = "no"
    BY <1>1, <1>2, IdleFacts DEF Shapes
  <2>3. \A m \in Jobs : Evicting(m)' => Evicting(m) /\ evicting'[m] = evicting[m]
    BY <2>1, <2>2 DEF Evicting, Cleans
  <2> QED BY <1>2, <2>3 DEF OwnerAsBefore, CleanedAsBefore
<1>8. CASE SaveFails(q, FALSE, worker)
  <2>1. Filed /\ Others({}) BY <1>1, <1>8, SaveFailsOthers
  <2>2. \A k \in Jobs : k \in {} => Kept(k) OBVIOUS
  <2> QED BY <1>2, <1>6, <1>7, <2>1, <2>2, RequestHarmless
<1>9. CASE job' = q /\ Saved(q)
  <2>1. Filed BY <1>9, SavedFiled
  <2>2. \A k \in Jobs : RunsAsBefore(k) BY <1>1, <1>6, LikeRuns
  <2>3. Kept(n) BY <1>2, <1>5, <1>7, <1>9, <2>1, <2>2, NewRecord
  <2>4. ASSUME NEW k \in E, k # n PROVE Kept(k)
    <3>1. k \in Jobs /\ Vanishes(k) BY <1>4, GoneSafe
    <3>2. job[k].status # "running" \/ Swept[k] # job[k]
      BY <1>4 DEF Retained, Terminal
    <3>3. job'[k] = Absent BY <1>5, <1>9, <2>4, <3>1
    <3> QED BY <1>2, <1>7, <2>1, <2>2, <3>1, <3>2, <3>3, Forgets
  <2>5. \A k \in Jobs : k \in {n} \cup E => Kept(k) BY <2>3, <2>4
  <2>6. Others({n} \cup E) BY <1>5, <1>9 DEF Others
  <2> QED BY <1>2, <1>6, <1>7, <2>1, <2>5, <2>6, RequestHarmless
<1> QED BY <1>3, <1>8, <1>9 DEF q

\* An admission that has to clean up another job first: its record stays.
LEMMA EvictBeginsHarmless ==
  ASSUME PartsKnown, NEW n \in Jobs, NEW j \in Jobs, EvictBegins(n, j) PROVE Harmless
<1>1. Shapes BY DEF PartsKnown, RunInv
<1> DEFINE r == [Swept[j] EXCEPT !.cleaning = TRUE, !.tombstone = TRUE, !.problem = "cleanup"]
           q == [Swept EXCEPT ![j] = r]
           begun == [job |-> j, phase |-> "cleaning"]
<1>2. Swept \in [Jobs -> Records] /\ Swept[j] \in Records BY <1>1, SweptShape
<1>3. [Swept EXCEPT ![j].cleaning = TRUE, ![j].tombstone = TRUE, ![j].problem = "cleanup"] = q
  BY <1>2
<1>4. /\ replaced' = replaced \ {n} /\ UNCHANGED <<owner, part, restarts>>
      /\ \/ /\ job' = q /\ Saved(q) /\ worker' = SignalIf(Stale # {}, worker)
            /\ evicting' = [evicting EXCEPT ![n] = begun]
         \/ /\ SaveFails(q, FALSE, worker)
            /\ evicting' = [evicting EXCEPT ![n] = NotEvicting]
  BY <1>3 DEF EvictBegins, worldVars
<1>5. r.status = Swept[j].status /\ r.held = Swept[j].held BY <1>2 DEF Records
<1>6. begun.phase # "cleaned" /\ NotEvicting.phase # "cleaned" BY IdleFacts
<1>7. q[j] = r /\ \A k \in Jobs : k # j => q[k] = Swept[k] BY <1>2
<1> HIDE DEF r, q, begun
<1>8. Like(worker', worker) BY <1>1, <1>4, SignalIfLike, SaveFailsOthers
<1>9. \A k \in Jobs : OwnerAsBefore(k) /\ CleanedAsBefore(k)
  <2>1. \A m \in Jobs : \/ m # n /\ evicting'[m] = evicting[m]
                        \/ evicting'[m].phase # "cleaned"
    BY <1>1, <1>4, <1>6 DEF Shapes
  <2>2. \A m \in Jobs : Evicting(m)' /\ evicting'[m].phase = "cleaned" =>
                          Evicting(m) /\ evicting'[m] = evicting[m]
    BY <1>4, <2>1 DEF Evicting
  <2> QED BY <1>4, <2>2, OwnersStay
<1>10. CASE SaveFails(q, FALSE, worker)
  <2>1. Filed /\ Others({}) BY <1>1, <1>10, SaveFailsOthers
  <2>2. \A k \in Jobs : k \in {} => Kept(k) OBVIOUS
  <2> QED BY <1>4, <1>8, <1>9, <2>1, <2>2, RequestHarmless
<1>11. CASE job' = q /\ Saved(q)
  <2>1. Filed /\ Others({j}) BY <1>7, <1>11, SavedFiled DEF Others
  <2>2. RunsAsBefore(j) BY <1>1, <1>8, LikeRuns
  <2>3. SaysLike(j, Swept[j]) BY <1>5, <1>7, <1>11 DEF SaysLike
  <2>4. Kept(j) BY <1>4, <1>9, <2>1, <2>2, <2>3, Alike
  <2>5. \A k \in Jobs : k \in {j} => Kept(k) BY <2>4
  <2> QED BY <1>4, <1>8, <1>9, <2>1, <2>5, RequestHarmless
<1> QED BY <1>4, <1>10, <1>11

-----------------------------------------------------------------------------
(* Every step, and the parts *)

\* The file goes on saying what the ledger says of the parts.
LEMMA FileStays ==
  ASSUME FileFollows, Filed, job' \in [Jobs -> Records] PROVE FileFollows'
<1> SUFFICES ASSUME trouble' = 0, NEW j \in Jobs
             PROVE  /\ disk'[j].held = job'[j].held
                    /\ disk'[j].status = job'[j].status \/ ~Terminal(disk'[j])
  BY DEF FileFollows
<1>1. CASE disk' = Durable(job')
  <2>1. job'[j] \in Records OBVIOUS
  <2>2. disk'[j].held = job'[j].held /\ disk'[j].status = job'[j].status
    BY <1>1, <2>1 DEF Durable, Records
  <2> QED BY <2>2
<1>2. CASE /\ disk' = disk
           /\ \A k \in Jobs : /\ job'[k].held = job[k].held
                              /\ job'[k].status = job[k].status \/ ~Terminal(job[k])
  <2>1. /\ disk[j].held = job[j].held
        /\ disk[j].status = job[j].status \/ ~Terminal(disk[j])
    BY DEF Filed, FileFollows
  <2> QED BY <1>2, <2>1 DEF Terminal
<1> QED BY <1>1, <1>2 DEF Filed

\* The next engine says of a part no more than the last one did.
LEMMA RestartSafe == ASSUME PartsKnown, Restart PROVE PartInv'
<1>1. Shapes /\ FileFollows BY DEF PartsKnown, RunInv, PartInv
<1>2. /\ restarts' = restarts + 1 /\ job' = [j \in Jobs |-> Restored(j, disk[j])]
      /\ disk' = job' /\ worker' = [w \in Workers |-> Idle]
      /\ owner' = [j \in Jobs |-> "free"] /\ evicting' = [j \in Jobs |-> NotEvicting]
      /\ UNCHANGED <<part, trouble>>
  BY DEF Restart, worldVars
<1>3. restarts \in Nat
  <2>1. restarts \in 0 .. scene.restarts BY <1>1 DEF Shapes
  <2> QED BY <2>1
<1>4. FileFollows' BY <1>2 DEF FileFollows
<1>5. ASSUME NEW j \in Jobs PROVE PartSafe(j)'
  <2>1. Trusted' => trouble = 0 BY <1>2, <1>3 DEF Trusted
  <2>2. Trusted' /\ SaysGone(j, job'[j]) => part'[j] # "made"
    <3> SUFFICES ASSUME Trusted', SaysGone(j, job'[j]) PROVE part[j] # "made" BY <1>2
    <3>1. disk[j] \in Records /\ job'[j] = Restored(j, disk[j]) BY <1>1, <1>2 DEF Shapes
    <3>2. job'[j] = disk[j]
      BY <3>1 DEF Restored, Becomes, SaysGone, Records
    <3>3. disk[j].held = job[j].held /\ disk[j].status = job[j].status
      BY <1>1, <2>1, <3>2 DEF FileFollows, SaysGone, Terminal
    <3>4. SaysGone(j, job[j]) BY <3>2, <3>3 DEF SaysGone
    <3> QED BY <2>1, <3>4 DEF PartsKnown, PartInv, PartSafe, Trusted
  <2>3. RunSafe(j)'
    <3>1. j \in Remote => \A r \in Runs : worker'[<<j, r>>] = Idle
      BY <1>2 DEF Workers
    <3> QED BY <3>1, IdleFacts DEF RunSafe
  <2>4. UploadSafe(j)' /\ RemovalSafe(j)' BY <1>2 DEF UploadSafe, RemovalSafe
  <2>5. EvictionSafe(j)' BY <1>2, IdleFacts DEF EvictionSafe
  <2> QED BY <2>2, <2>3, <2>4, <2>5 DEF PartSafe
<1> QED BY <1>4, <1>5 DEF PartInv

\* Every step but a restart does no harm.
LEMMA StepHarmless ==
  ASSUME PartsKnown, NoReadmission, [Next]_vars, ~Restart PROVE Harmless
<1>1. CASE RequestStep
  <2>1. ASSUME NEW j \in Jobs, NEW what \in Controls, ClientUpdate(j, what) PROVE Harmless
    BY <2>1, ClientHarmless
  <2>2. ASSUME NEW j \in Jobs, Silence(j) \/ Resend(j) \/ AdmitRefused(j) PROVE Harmless
    BY <2>2, PlainHarmless
  <2>3. ASSUME NEW j \in Jobs, Admit(j) PROVE Harmless BY <2>3, AdmitHarmless
  <2>4. ASSUME NEW j \in Jobs, Remove(j) \/ RemoveEnds(j) \/ EvictEnds(j) PROVE Harmless
    BY <2>4, RemoveHarmless, RemoveEndsHarmless, EvictEndsHarmless
  <2>5. ASSUME NEW j \in Jobs, NEW k \in Jobs, EvictBegins(j, k) PROVE Harmless
    BY <2>5, EvictBeginsHarmless
  <2>6. ASSUME NEW j \in Jobs, NEW ok \in BOOLEAN, EvictCleans(j, ok) \/ RemoveCleans(j, ok)
        PROVE  Harmless
    BY <2>6, CleansHarmless
  <2>7. ASSUME NEW S \in SUBSET Jobs, Clear(S) PROVE Harmless BY <2>7, ClearHarmless
  <2>8. ASSUME List \/ Close \/ \E new \in Settings : Set(new) PROVE Harmless
    BY <2>8, PlainHarmless
  <2> QED BY <1>1, <2>1, <2>2, <2>3, <2>4, <2>5, <2>6, <2>7, <2>8 DEF RequestStep
<1>2. CASE \E j \in Remote : Schedule(j) BY <1>2, ComesAndGoes
<1>3. CASE \E w \in Workers : RunStep(w) BY <1>3, RunHarmless
<1>4. CASE \E j \in Uploads : UploadStep(j) BY <1>4, UploadStepHarmless
<1>5. CASE UNCHANGED vars
  <2>1. /\ UNCHANGED <<job, disk, trouble, worker, part, restarts>>
        /\ UNCHANGED <<owner, evicting, replaced, restarts>>
    BY <1>5 DEF vars, ledgerVars, actorVars, worldVars, boundVars
  <2>2. Filed /\ \A k \in Jobs : OwnerAsBefore(k) /\ CleanedAsBefore(k)
    BY <2>1, StillFiled, ActorsStay
  <2>3. \A k \in Jobs : SaysAsBefore(k) BY <2>1 DEF SaysAsBefore, SaysLike
  <2> QED BY <2>1, <2>2, <2>3, LeavingHarmless
<1> QED BY <1>1, <1>2, <1>3, <1>4, <1>5 DEF Next

\* The queue starts with the parts of the uploads that failed, and says so.
LEMMA PartsAtFirst == Init => PartInv
<1> SUFFICES ASSUME Init PROVE PartInv OBVIOUS
<1>1. disk = job BY DEF Init
<1>2. FileFollows BY <1>1 DEF FileFollows
<1>3. ASSUME NEW j \in Jobs PROVE PartSafe(j)
  <2>1. job[j].status \notin {"completed", "cancelled"}
    <3>1. Absent \in Records /\ Absent.status = "none" BY RecordFacts
    <3>2. [Absent EXCEPT !.status = "queued"].status = "queued"
          /\ [Absent EXCEPT !.status = "failed", !.held = TRUE].status = "failed"
      BY <3>1 DEF Records
    <3>3. job[j] \in {[Absent EXCEPT !.status = "queued"], Absent,
                      [Absent EXCEPT !.status = "failed", !.held = TRUE]}
      BY DEF Init
    <3> QED BY <3>1, <3>2, <3>3
  <2>2. \A r \in Runs : j \in Remote => worker[<<j, r>>] = Idle BY DEF Init, Workers
  <2>3. RunSafe(j) BY <2>2, IdleFacts DEF RunSafe
  <2>4. owner[j] = "free" BY DEF Init
  <2>5. \A n \in Jobs : evicting[n].phase = "no" BY DEF Init
  <2> QED BY <2>1, <2>3, <2>4, <2>5
          DEF PartSafe, SaysGone, UploadSafe, RemovalSafe, EvictionSafe
<1> QED BY <1>2, <1>3 DEF PartInv

\* The action of PartsGoFirst.
PartLeft ==
  \A j \in Jobs :
    (Present(job, j) /\ job[j].held /\ ~Present(job', j)
     /\ restarts' = restarts /\ (trouble = 0 \/ restarts = 0))
    => part[j] # "made"

\* As long as no name is used again while its removal is under way, what a record says of
\* its part is true: a completed one leaves none, a cancelled upload neither, and who has
\* cleaned up has seen it go (cleanupTransferPart, completeRemoteJob, CancelOwned), but for
\* a late part, which a run that had ended made after that (copyServerFile).
THEOREM PartsAreKnown == Spec /\ [][NoReadmission]_vars => [](RunInv /\ Tallied /\ PartInv)
<1>1. Init => PartInv BY PartsAtFirst
<1>2. RunInv /\ RunInv' /\ Tallied /\ PartInv /\ [Next]_vars /\ [NoReadmission]_vars => PartInv'
  <2> SUFFICES ASSUME RunInv, RunInv', Tallied, PartInv, [Next]_vars, [NoReadmission]_vars
               PROVE  PartInv'
    OBVIOUS
  <2>1. PartsKnown BY DEF PartsKnown, Tallied
  <2>2. NoReadmission BY DEF NoReadmission, Present, vars, ledgerVars
  <2>3. CASE Restart BY <2>1, <2>3, RestartSafe
  <2>4. CASE ~Restart
    <3>1. Harmless BY <2>1, <2>2, <2>4, StepHarmless
    <3>2. job' \in [Jobs -> Records] BY DEF RunInv, Shapes
    <3>3. FileFollows' BY <3>1, <3>2, FileStays DEF Harmless, PartInv
    <3> QED BY <3>1, <3>3 DEF Harmless, Kept, PartInv
  <2> QED BY <2>3, <2>4
<1>3. Spec => Init /\ [][Next]_vars BY DEF Spec
<1> QED BY <1>1, <1>2, <1>3, CleaningIsKnown, PTL

\* A record that knows of an unpublished part is forgotten only when the part is gone,
\* whichever of a removal, an eviction, an expiry or a report comes first
\* (mayHoldRemotePart, removeFinishedJob, evictForAdmissionLocked), unless the part is a
\* late one.
THEOREM PartsAreNotForgotten == Spec /\ [][NoReadmission]_vars => PartsGoFirst
<1>1. RunInv /\ Tallied /\ PartInv /\ [Next]_vars /\ [NoReadmission]_vars => [PartLeft]_vars
  <2> SUFFICES ASSUME RunInv, Tallied, PartInv, [Next]_vars, [NoReadmission]_vars
               PROVE  PartLeft
    OBVIOUS
  <2>1. PartsKnown BY DEF PartsKnown, Tallied
  <2>2. NoReadmission BY DEF NoReadmission, Present, vars, ledgerVars
  <2>3. CASE Restart
    <3>1. restarts' # restarts
      <4>1. restarts \in 0 .. scene.restarts BY DEF RunInv, Shapes
      <4> QED BY <2>3, <4>1 DEF Restart
    <3> QED BY <3>1 DEF PartLeft
  <2>4. CASE ~Restart
    <3>1. Harmless BY <2>1, <2>2, <2>4, StepHarmless
    <3> SUFFICES ASSUME NEW j \in Jobs, Present(job, j), job[j].held, ~Present(job', j),
                        restarts' = restarts, Trusted
                 PROVE  part[j] # "made"
      BY DEF PartLeft, Trusted
    <3>2. job[j].held = TRUE BY DEF RunInv, Shapes, Records
    <3>3. part[j] # "made" BY <3>1, <3>2 DEF Harmless, Kept, Vanishes
    <3> QED BY <3>3
  <2> QED BY <2>3, <2>4
<1>2. Spec => [][Next]_vars BY DEF Spec
<1> QED BY <1>1, <1>2, PartsAreKnown, PTL DEF PartsGoFirst, PartLeft
=============================================================================
