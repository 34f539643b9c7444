-------------------------- MODULE RemoteSyncProofs --------------------------
(***************************************************************************)
(* Proofs about RemoteSync for any machines, files and bounds.  A machine  *)
(* changes its state file only together with the files (Apply) or after    *)
(* the snapshot it has collected is live (SaveState), so an operation      *)
(* under way must already explain the files by the revision it is going to *)
(* record (IndInv).  That no edit is lost is a second invariant (KeepInv): *)
(* every revision holds what its parent and the ancestors it names hold,   *)
(* or what replaced it knowingly, and every machine holds as much of its   *)
(* base.  CopiesInv is about the dated copies.                             *)
(***************************************************************************)
EXTENDS RemoteSync, SequenceTheorems, WellFoundedInduction, TLAPS

PushStage == {"dated", "live", "cleanup", "save"}
PullStage == {"validate", "apply"}

\* What a push keeps true between its requests, while users go on editing.
PushSound(m, o) ==
  /\ o.rev < nextRev
  /\ snap[o.rev].parent = st[m].base
  /\ ~o.forced => o.etag = st[m].etag
  /\ \A f \in File : Explained(m, f, o.rev)

\* The files a plan does not take are what it found, or edited here since.
PullSound(m, o) ==
  /\ o.rev < nextRev
  /\ \A f \in File \ DOMAIN o.plan : Explained(m, f, o.rev)

PushesOK == \A m \in Machine : op[m].stage \in PushStage => PushSound(m, op[m])
PullsOK  == \A m \in Machine : op[m].stage \in PullStage => PullSound(m, op[m])

\* A revision in use has been allocated, so that no push changes what it holds.
Allocated ==
  /\ live < nextRev
  /\ \A r \in dated : r < nextRev
  /\ \A m \in Machine : st[m].base < nextRev

\* A content in use has an author.
Authored ==
  /\ \A m \in Machine, f \in File : local[m][f] <= Len(author)
  /\ \A r \in 0 .. MaxRev, f \in File : snap[r].files[f] <= Len(author)

IndInv == TypeOK /\ Allocated /\ Authored /\ PushesOK /\ PullsOK /\ OnlyOwnEdits

-----------------------------------------------------------------------------
(* Helpers *)

\* The stage says which kind of operation it is.
LEMMA StageOfOperation ==
  ASSUME NEW o \in Operation
  PROVE  /\ o.stage \in PushStage => o \in PushOp
         /\ o.stage \in PullStage => o \in PullOp
         /\ o.stage \in {"get", "send"} => o \in AutoOp
         /\ o.stage = "idle" => o = Idle
  BY DEF Operation, PushOp, PullOp, AutoOp, Idle, PushStage, PullStage

LEMMA IdleFacts == Idle \in Operation /\ Idle.stage = "idle"
  BY DEF Operation, Idle

LEMMA PushOpFields ==
  ASSUME NEW o \in PushOp
  PROVE  /\ o.stage \in PushStage /\ o.forced \in BOOLEAN
         /\ o.rev \in Rev /\ o.etag \in Rev \cup {NoRev}
         /\ \A s \in PushStage :
              LET x == [o EXCEPT !.stage = s] IN
              /\ x \in PushOp /\ x \in Operation /\ x.stage = s
              /\ x.rev = o.rev /\ x.etag = o.etag /\ x.forced = o.forced
  BY DEF PushOp, PushStage, Operation

LEMMA PullOpFields ==
  ASSUME NEW o \in PullOp
  PROVE  /\ o.stage \in PullStage /\ o.rev \in Rev /\ o.etag \in Rev
         /\ DOMAIN o.plan \in SUBSET File /\ o.givenUp \in SUBSET Content
         /\ \A s \in PullStage :
              LET x == [o EXCEPT !.stage = s] IN
              /\ x \in PullOp /\ x \in Operation /\ x.stage = s
              /\ x.rev = o.rev /\ x.plan = o.plan
  BY DEF PullOp, PullStage, Operation

\* What the invariant says of a push or a pull under way.
LEMMA PushUnderWay ==
  ASSUME IndInv, NEW m \in Machine, op[m].stage \in PushStage
  PROVE  op[m] \in PushOp /\ op[m].rev \in Rev /\ PushSound(m, op[m])
PROOF
  <1>1. op[m] \in Operation BY DEF IndInv, TypeOK
  <1>2. op[m] \in PushOp BY <1>1, StageOfOperation
  <1>3. PushSound(m, op[m]) BY DEF IndInv, PushesOK
  <1> QED BY <1>2, <1>3, PushOpFields

LEMMA PullUnderWay ==
  ASSUME IndInv, NEW m \in Machine, op[m].stage \in PullStage
  PROVE  op[m] \in PullOp /\ op[m].rev \in Rev /\ PullSound(m, op[m])
PROOF
  <1>1. op[m] \in Operation BY DEF IndInv, TypeOK
  <1>2. op[m] \in PullOp BY <1>1, StageOfOperation
  <1>3. PullSound(m, op[m]) BY DEF IndInv, PullsOK
  <1> QED BY <1>2, <1>3, PullOpFields

\* What the outcomes of a request do to the counters.
LEMMA Outcomes ==
  ASSUME TypeOK, Succeed \/ Fault \/ Retry
  PROVE  faults' \in 0 .. MaxFaults /\ retries' \in 0 .. MaxRetries
  BY ConstantsAssumption DEF TypeOK, Succeed, Fault, Retry

\* An operation moves on while everything it relies on stays.
LEMMA Moves ==
  ASSUME IndInv, NEW m \in Machine, NEW x \in Operation, Continue(m, x),
         UNCHANGED <<snap, local, author, st, nextRev>>,
         x.stage \in PushStage => PushSound(m, x),
         x.stage \in PullStage => PullSound(m, x)
  PROVE  op' \in [Machine -> Operation] /\ PushesOK' /\ PullsOK' /\ OnlyOwnEdits'
PROOF
  <1>1. op \in [Machine -> Operation] BY DEF IndInv, TypeOK
  <1>2. op' \in [Machine -> Operation] /\ op'[m] = x
        /\ \A n \in Machine \ {m} : op'[n] = op[n]
    BY <1>1 DEF Continue
  <1>3. PushesOK'
    BY <1>2 DEF IndInv, PushesOK, PushSound, Explained
  <1>4. PullsOK'
    BY <1>2 DEF IndInv, PullsOK, PullSound, Explained
  <1>5. OnlyOwnEdits'
    BY DEF IndInv, OnlyOwnEdits, Explained
  <1> QED BY <1>2, <1>3, <1>4, <1>5

\* The same for an operation that ends.
LEMMA Ends ==
  ASSUME IndInv, NEW m \in Machine, Finish(m),
         UNCHANGED <<snap, local, author, st, nextRev>>
  PROVE  op' \in [Machine -> Operation] /\ PushesOK' /\ PullsOK' /\ OnlyOwnEdits'
  BY Moves, IdleFacts DEF Finish, PushStage, PullStage

\* A push or a pull that goes on with its next request.
LEMMA PushGoesOn ==
  ASSUME IndInv, NEW m \in Machine, op[m].stage \in PushStage, NEW s \in PushStage,
         Continue(m, [op[m] EXCEPT !.stage = s]),
         UNCHANGED <<snap, local, author, st, nextRev>>
  PROVE  op' \in [Machine -> Operation] /\ PushesOK' /\ PullsOK' /\ OnlyOwnEdits'
PROOF
  <1> DEFINE o == op[m]
             x == [o EXCEPT !.stage = s]
  <1>1. o \in PushOp /\ PushSound(m, o) BY PushUnderWay
  <1>2. x \in Operation /\ x.stage = s /\ x.rev = o.rev /\ x.etag = o.etag /\ x.forced = o.forced
    BY <1>1, PushOpFields
  <1>3. PushSound(m, x)
    <2> HIDE DEF o, x
    <2> QED BY <1>1, <1>2 DEF PushSound
  <1>4. Continue(m, x) /\ x.stage \notin PullStage
    BY <1>2 DEF PushStage, PullStage
  <1> HIDE DEF x
  <1> QED BY <1>2, <1>3, <1>4, Moves

LEMMA PullGoesOn ==
  ASSUME IndInv, NEW m \in Machine, op[m].stage \in PullStage, NEW s \in PullStage,
         Continue(m, [op[m] EXCEPT !.stage = s]),
         UNCHANGED <<snap, local, author, st, nextRev>>
  PROVE  op' \in [Machine -> Operation] /\ PushesOK' /\ PullsOK' /\ OnlyOwnEdits'
PROOF
  <1> DEFINE o == op[m]
             x == [o EXCEPT !.stage = s]
  <1>1. o \in PullOp /\ PullSound(m, o) BY PullUnderWay
  <1>2. x \in Operation /\ x.stage = s /\ x.rev = o.rev /\ x.plan = o.plan
    BY <1>1, PullOpFields
  <1>3. PullSound(m, x)
    <2> HIDE DEF o, x
    <2> QED BY <1>1, <1>2 DEF PullSound
  <1>4. Continue(m, x) /\ x.stage \notin PushStage
    BY <1>2 DEF PushStage, PullStage
  <1> HIDE DEF x
  <1> QED BY <1>2, <1>3, <1>4, Moves

-----------------------------------------------------------------------------
(* Push *)

\* PutDated leaves everything but the dated copies alone.
LEMMA PutDatedStep ==
  ASSUME IndInv, NEW m \in Machine, PutDated(m), UNCHANGED direction
  PROVE  IndInv'
PROOF
  <1>1. TypeOK /\ op[m].stage \in PushStage /\ PushSound(m, op[m]) /\ op[m].rev \in Rev
    BY PushUnderWay DEF IndInv, PutDated, PushStage
  <1>2. UNCHANGED <<live, snap, local, st, author, superseded, pending, blocked, nextRev, crashes>>
    BY DEF PutDated, auto, ghosts
  <1>3. op' \in [Machine -> Operation] /\ PushesOK' /\ PullsOK' /\ OnlyOwnEdits'
    <2>1. CASE Continue(m, [op[m] EXCEPT !.stage = "live"])
      <3>1. "live" \in PushStage BY DEF PushStage
      <3> QED BY <1>1, <1>2, <2>1, <3>1, PushGoesOn
    <2>2. CASE Finish(m) BY <1>2, <2>2, Ends
    <2> QED BY <2>1, <2>2 DEF PutDated
  <1>4. dated' \subseteq dated \cup {op[m].rev} BY DEF PutDated
  <1>5. faults' \in 0 .. MaxFaults /\ retries' \in 0 .. MaxRetries
    BY <1>1, Outcomes DEF PutDated
  <1>6. TypeOK' BY <1>1, <1>2, <1>3, <1>4, <1>5 DEF TypeOK
  <1>7. Allocated' /\ Authored'
    BY <1>1, <1>2, <1>4 DEF IndInv, Allocated, Authored, PushSound
  <1> QED BY <1>3, <1>6, <1>7 DEF IndInv

\* PutLive: the live object becomes the collected snapshot or stays.
LEMMA PutLiveStep ==
  ASSUME IndInv, NEW m \in Machine, PutLive(m), UNCHANGED direction
  PROVE  IndInv'
PROOF
  <1>1. TypeOK /\ op[m].stage \in PushStage /\ PushSound(m, op[m]) /\ op[m].rev \in Rev
    BY PushUnderWay DEF IndInv, PutLive, PushStage
  <1>2. UNCHANGED <<dated, snap, local, st, author, superseded, pending, blocked, nextRev, crashes>>
    BY DEF PutLive, auto, ghosts
  <1>3. op' \in [Machine -> Operation] /\ PushesOK' /\ PullsOK' /\ OnlyOwnEdits'
    <2>1. ASSUME NEW s \in {"save", "cleanup"}, Continue(m, [op[m] EXCEPT !.stage = s])
          PROVE  op' \in [Machine -> Operation] /\ PushesOK' /\ PullsOK' /\ OnlyOwnEdits'
      <3>1. s \in PushStage BY DEF PushStage
      <3> QED BY <1>1, <1>2, <2>1, <3>1, PushGoesOn
    <2>2. CASE Finish(m) BY <1>2, <2>2, Ends
    <2> QED BY <2>1, <2>2 DEF PutLive, GiveUpWrite
  <1>4. live' \in {live, op[m].rev} BY DEF PutLive
  <1>5. faults' \in 0 .. MaxFaults /\ retries' \in 0 .. MaxRetries
    BY <1>1, Outcomes DEF PutLive
  <1>6. TypeOK' BY <1>1, <1>2, <1>3, <1>4, <1>5 DEF TypeOK
  <1>7. Allocated' /\ Authored'
    BY <1>1, <1>2, <1>4 DEF IndInv, Allocated, Authored, PushSound
  <1> QED BY <1>3, <1>6, <1>7 DEF IndInv

\* RemoveCandidate ends the push.
LEMMA RemoveCandidateStep ==
  ASSUME IndInv, NEW m \in Machine, RemoveCandidate(m), UNCHANGED direction
  PROVE  IndInv'
PROOF
  <1>1. UNCHANGED <<live, snap, local, st, author, superseded, pending, blocked, nextRev, crashes>>
    BY DEF RemoveCandidate, auto, ghosts
  <1>2. op' \in [Machine -> Operation] /\ PushesOK' /\ PullsOK' /\ OnlyOwnEdits'
    BY <1>1, Ends DEF RemoveCandidate
  <1>3. dated' \subseteq dated BY DEF RemoveCandidate
  <1>4. faults' \in 0 .. MaxFaults /\ retries' \in 0 .. MaxRetries
    BY Outcomes DEF RemoveCandidate, IndInv
  <1>5. TypeOK' BY <1>1, <1>2, <1>3, <1>4 DEF TypeOK, IndInv
  <1>6. Allocated' /\ Authored' BY <1>1, <1>3 DEF IndInv, Allocated, Authored
  <1> QED BY <1>2, <1>5, <1>6 DEF IndInv

\* SaveState: what the push has sent becomes the base.
LEMMA SaveStateStep ==
  ASSUME IndInv, NEW m \in Machine, SaveState(m), UNCHANGED direction
  PROVE  IndInv'
PROOF
  <1> DEFINE r == op[m].rev
  <1>1. TypeOK /\ PushSound(m, op[m]) /\ r \in Rev
    BY PushUnderWay DEF IndInv, SaveState, PushStage
  <1>2. UNCHANGED <<live, dated, snap, local, author, superseded, pending, blocked, nextRev, crashes>>
    BY DEF SaveState, auto, ghosts, bucket
  <1>3. st' \in [Machine -> State] /\ st'[m].base \in {st[m].base, r}
        /\ \A n \in Machine \ {m} : st'[n] = st[n]
    <2>1. [etag |-> r, base |-> r] \in State BY <1>1 DEF State
    <2>2. st \in [Machine -> State] BY <1>1 DEF TypeOK
    <2>3. st' = st \/ st' = [st EXCEPT ![m] = [etag |-> r, base |-> r]]
      BY DEF SaveState, Acknowledge
    <2> HIDE DEF r
    <2> QED BY <2>1, <2>2, <2>3
  <1>4. op' \in [Machine -> Operation] /\ op'[m] = Idle
        /\ \A n \in Machine \ {m} : op'[n] = op[n]
    BY <1>1, IdleFacts DEF SaveState, Finish, Continue, TypeOK
  <1>5. faults' \in 0 .. MaxFaults /\ retries' \in 0 .. MaxRetries
    BY <1>1, Outcomes DEF SaveState
  <1>6. TypeOK' BY <1>1, <1>2, <1>3, <1>4, <1>5 DEF TypeOK
  <1>7. Allocated' /\ Authored'
    BY <1>1, <1>2, <1>3 DEF IndInv, Allocated, Authored, PushSound
  <1>8. PushesOK'
    BY <1>2, <1>3, <1>4, IdleFacts DEF IndInv, PushesOK, PushSound, Explained, PushStage
  <1>9. PullsOK'
    BY <1>2, <1>4, IdleFacts DEF IndInv, PullsOK, PullSound, Explained, PullStage
  <1>10. OnlyOwnEdits'
    BY <1>1, <1>2, <1>3 DEF IndInv, OnlyOwnEdits, PushSound, Explained
  <1> QED BY <1>6, <1>7, <1>8, <1>9, <1>10 DEF IndInv

\* The lineage of a new snapshot.
LEMMA AncestorsOK ==
  ASSUME TypeOK, NEW base \in Rev \cup {NoRev}
  PROVE  Ancestors(base) \in Seq(Rev) /\ Len(Ancestors(base)) <= MaxAncestors
PROOF
  <1> DEFINE chain == <<base>> \o snap[base].ancestors
             k == IF Len(chain) < MaxAncestors THEN Len(chain) ELSE MaxAncestors
  <1>1. CASE base = NoRev BY <1>1, ConstantsAssumption DEF Ancestors
  <1>2. CASE base # NoRev
    <2>1. base \in Rev /\ snap[base].ancestors \in Seq(Rev)
      BY <1>2, ConstantsAssumption DEF TypeOK, Snapshot, Rev, NoRev
    <2>2. chain \in Seq(Rev) /\ Len(chain) \in Nat BY <2>1
    <2>3. k \in 0 .. Len(chain) /\ k <= MaxAncestors BY <2>2, ConstantsAssumption
    <2>4. SubSeq(chain, 1, k) \in Seq(Rev) /\ Len(SubSeq(chain, 1, k)) = k
      <3> HIDE DEF chain, k
      <3> QED BY <2>2, <2>3, SubSeqProperties
    <2> QED BY <1>2, <2>3, <2>4 DEF Ancestors
  <1> QED BY <1>1, <1>2

\* Collect fills a revision nobody refers to yet.
LEMMA Collected ==
  ASSUME IndInv, NEW m \in Machine, NEW etag \in Rev \cup {NoRev}, NEW forced \in BOOLEAN,
         ~forced => etag = st[m].etag, Collect(m, etag, forced),
         UNCHANGED <<bucket, local, st, direction, blocked, ghosts, bounds>>,
         pending' \in [Machine -> BOOLEAN]
  PROVE  IndInv'
PROOF
  <1> DEFINE new == [files |-> local[m], parent |-> st[m].base, ancestors |-> Ancestors(st[m].base)]
             x == [stage |-> "dated", forced |-> forced, rev |-> nextRev, etag |-> etag]
  <1>1. TypeOK /\ nextRev \in Rev /\ nextRev' = nextRev + 1 /\ nextRev' \in 2 .. MaxRev + 1
    BY ConstantsAssumption DEF IndInv, TypeOK, Collect, Rev
  <1>2. UNCHANGED <<live, dated, local, st, direction, blocked, author, superseded,
                    faults, retries, crashes>>
    BY DEF bucket, ghosts, bounds
  <1>3. st[m].base \in Rev \cup {NoRev} BY <1>1 DEF TypeOK, State
  <1>4. new \in Snapshot /\ Len(new.ancestors) <= MaxAncestors
    BY <1>1, <1>3, AncestorsOK DEF TypeOK, Snapshot
  <1>5. /\ snap' \in [0 .. MaxRev -> Snapshot] /\ snap'[nextRev] = new
        /\ \A r \in 0 .. MaxRev : r # nextRev => snap'[r] = snap[r]
    <2> HIDE DEF new
    <2>1. snap' = [snap EXCEPT ![nextRev] = new] BY DEF Collect, new
    <2>2. snap \in [0 .. MaxRev -> Snapshot] BY <1>1 DEF TypeOK
    <2>3. nextRev \in 0 .. MaxRev BY <1>1 DEF Rev
    <2> QED BY <1>4, <2>1, <2>2, <2>3
  <1>6. x \in PushOp /\ x \in Operation BY <1>1 DEF PushOp, Operation
  <1>7. op' \in [Machine -> Operation] /\ op'[m] = x
        /\ \A n \in Machine \ {m} : op'[n] = op[n]
    <2> HIDE DEF x
    <2>1. op' = [op EXCEPT ![m] = x] BY DEF Collect, Continue, x
    <2> QED BY <1>1, <1>6, <2>1 DEF TypeOK
  <1>8. TypeOK'
    <2>1. \A r \in 0 .. MaxRev : Len(snap'[r].ancestors) <= MaxAncestors
      BY <1>1, <1>4, <1>5 DEF TypeOK
    <2> QED BY <1>1, <1>2, <1>5, <1>7, <2>1 DEF TypeOK
  <1>9. Allocated'
    <2>1. nextRev \in Int /\ live \in Int /\ \A r \in dated : r \in Int
      BY <1>1, ConstantsAssumption DEF TypeOK, Rev, NoRev
    <2>2. \A n \in Machine : st[n].base \in Int
      BY <1>1, ConstantsAssumption DEF TypeOK, State, Rev, NoRev
    <2> QED BY <1>1, <1>2, <2>1, <2>2 DEF IndInv, Allocated
  <1>10. Authored'
    BY <1>1, <1>2, <1>5 DEF IndInv, Authored
  <1>11. \A n \in Machine, f \in File, r \in 0 .. MaxRev :
           r < nextRev /\ Explained(n, f, r) => Explained(n, f, r)'
    BY <1>1, <1>2, <1>5 DEF Explained
  <1>12. PushesOK'
    <2>1. PushSound(m, op[m])'
      <3>1. op'[m].rev = nextRev /\ op'[m].forced = forced /\ op'[m].etag = etag BY <1>7
      <3>2. snap'[nextRev].parent = st[m].base /\ snap'[nextRev].files = local[m] BY <1>5
      <3> QED BY <1>1, <1>2, <3>1, <3>2 DEF PushSound, Explained, Rev
    <2>2. ASSUME NEW n \in Machine \ {m}, op[n].stage \in PushStage
          PROVE  PushSound(n, op[n])'
      <3>1. op[n].rev \in Rev /\ PushSound(n, op[n]) BY <2>2, PushUnderWay
      <3>2. op'[n] = op[n] BY <1>7
      <3> QED BY <1>1, <1>2, <1>5, <1>11, <3>1, <3>2 DEF PushSound, Rev
    <2> QED BY <1>7, <2>1, <2>2 DEF PushesOK
  <1>13. PullsOK'
    <2>1. ASSUME NEW n \in Machine \ {m}, op[n].stage \in PullStage
          PROVE  PullSound(n, op[n])'
      <3>1. op[n].rev \in Rev /\ PullSound(n, op[n]) BY <2>1, PullUnderWay
      <3>2. op'[n] = op[n] BY <1>7
      <3> QED BY <1>1, <1>2, <1>11, <3>1, <3>2 DEF PullSound, Rev
    <2> QED BY <1>7, <2>1 DEF PullsOK, PullStage
  <1>14. OnlyOwnEdits'
    <2>1. \A n \in Machine : st[n].base \in 0 .. MaxRev /\ st[n].base < nextRev
      <3>1. \A n \in Machine : st[n] \in State BY <1>1 DEF TypeOK
      <3> QED BY <3>1, ConstantsAssumption DEF IndInv, Allocated, State, Rev, NoRev
    <2> QED BY <1>2, <1>11, <2>1 DEF IndInv, OnlyOwnEdits
  <1> QED BY <1>8, <1>9, <1>10, <1>12, <1>13, <1>14 DEF IndInv

\* Push, ForcePush and the two ways automatic sync sends end in Collect.
LEMMA PushStep ==
  ASSUME IndInv, NEW m \in Machine, Push(m) \/ ForcePush(m), UNCHANGED direction
  PROVE  IndInv'
PROOF
  <1>1. TypeOK /\ st[m].etag \in Rev \cup {NoRev} /\ live \in Rev \cup {NoRev}
    BY DEF IndInv, TypeOK, State
  <1>2. pending' \in [Machine -> BOOLEAN] /\ UNCHANGED <<bucket, local, st, blocked, ghosts, bounds>>
    BY <1>1 DEF Push, ForcePush, auto, TypeOK
  <1>3. CASE Push(m)
    <2>1. Collect(m, st[m].etag, FALSE) BY <1>3 DEF Push
    <2> QED BY <1>1, <1>2, <2>1, Collected
  <1>4. CASE ForcePush(m)
    <2>1. Collect(m, live, TRUE) BY <1>4 DEF ForcePush
    <2> QED BY <1>1, <1>2, <2>1, Collected
  <1> QED BY <1>3, <1>4

LEMMA SendStep ==
  ASSUME IndInv, NEW m \in Machine, SendScheduled(m) \/ SendNow(m), UNCHANGED direction
  PROVE  IndInv'
PROOF
  <1>1. TypeOK /\ st[m].etag \in Rev \cup {NoRev} BY DEF IndInv, TypeOK, State
  <1>2. UNCHANGED <<bucket, local, st, blocked, ghosts, bounds>>
    BY DEF SendScheduled, SendNow, auto
  <1>3. pending' = pending \/ pending' = [pending EXCEPT ![m] = FALSE]
    BY DEF SendScheduled, SendNow, auto
  <1>4. pending' \in [Machine -> BOOLEAN] BY <1>1, <1>3, Zenon DEF TypeOK
  <1>5. CASE Collect(m, st[m].etag, FALSE) BY <1>1, <1>2, <1>4, <1>5, Collected
  <1>6. CASE Finish(m) /\ UNCHANGED <<snap, nextRev>>
    <2>1. UNCHANGED <<live, dated, local, st, author, superseded, faults, retries, crashes>>
      BY <1>2 DEF bucket, ghosts, bounds
    <2>2. op' \in [Machine -> Operation] /\ PushesOK' /\ PullsOK' /\ OnlyOwnEdits'
      BY <1>6, <2>1, Ends
    <2>3. TypeOK' BY <1>1, <1>2, <1>4, <1>6, <2>1, <2>2 DEF TypeOK
    <2>4. Allocated' /\ Authored' BY <1>6, <2>1 DEF IndInv, Allocated, Authored
    <2> QED BY <2>2, <2>3, <2>4 DEF IndInv
  <1> QED BY <1>5, <1>6 DEF SendScheduled, SendNow, Send

-----------------------------------------------------------------------------
(* Pull *)

\* Validate moves the pull on or ends it.
LEMMA ValidateStep ==
  ASSUME IndInv, NEW m \in Machine, Validate(m), UNCHANGED direction
  PROVE  IndInv'
PROOF
  <1>1. UNCHANGED <<live, dated, snap, local, st, author, superseded, pending, blocked, nextRev, crashes>>
    BY DEF Validate, bucket, auto, ghosts
  <1>2. op' \in [Machine -> Operation] /\ PushesOK' /\ PullsOK' /\ OnlyOwnEdits'
    <2>1. CASE Continue(m, [op[m] EXCEPT !.stage = "apply"])
      <3>1. op[m].stage \in PullStage /\ "apply" \in PullStage BY DEF Validate, PullStage
      <3> QED BY <1>1, <2>1, <3>1, PullGoesOn
    <2>2. CASE Finish(m) BY <1>1, <2>2, Ends
    <2> QED BY <2>1, <2>2 DEF Validate
  <1>3. faults' \in 0 .. MaxFaults /\ retries' \in 0 .. MaxRetries
    BY Outcomes DEF Validate, IndInv
  <1>4. TypeOK' BY <1>1, <1>2, <1>3 DEF TypeOK, IndInv
  <1>5. Allocated' /\ Authored' BY <1>1 DEF IndInv, Allocated, Authored
  <1> QED BY <1>2, <1>4, <1>5 DEF IndInv

\* What Received leaves: nothing, or the second half of Now.
LEMMA ReceivedTypes ==
  ASSUME IndInv, NEW m \in Machine, NEW mode, NEW diverged, Received(m, mode, diverged)
  PROVE  /\ pending' \in [Machine -> BOOLEAN]
         /\ \E x \in {Idle} \cup AutoOp : Continue(m, x)
PROOF
  <1>1. pending' \in [Machine -> BOOLEAN]
    <2>1. pending \in [Machine -> BOOLEAN] BY DEF IndInv, TypeOK
    <2> DEFINE b == pending[m] \/ (mode = "poll" /\ diverged /\ Sends(m))
    <2>2. pending' = [pending EXCEPT ![m] = b] BY DEF Received
    <2>3. b \in BOOLEAN BY <2>1
    <2> HIDE DEF b
    <2> QED BY <2>1, <2>2, <2>3
  <1>2. [stage |-> "send", mode |-> "now", etag |-> NoRev] \in AutoOp BY DEF AutoOp
  <1>3. \E x \in {Idle} \cup AutoOp : Continue(m, x) BY <1>2 DEF Received, Finish
  <1> QED BY <1>1, <1>3

\* An operation of automatic sync between its halves relies on nothing.
LEMMA AutoIsNoPushOrPull ==
  ASSUME NEW x \in {Idle} \cup AutoOp
  PROVE  x \in Operation /\ x.stage \notin PushStage /\ x.stage \notin PullStage
  BY DEF AutoOp, Idle, Operation, PushStage, PullStage

\* Apply records the revision it has taken together with the files.
LEMMA ApplyStep ==
  ASSUME IndInv, NEW m \in Machine, Apply(m), UNCHANGED direction
  PROVE  IndInv'
PROOF
  <1> DEFINE o == op[m]
             new == [f \in File |-> IF f \in DOMAIN o.plan THEN snap[o.rev].files[f] ELSE local[m][f]]
  <1>1. TypeOK /\ o \in PullOp /\ o.rev \in Rev /\ o.etag \in Rev /\ o.givenUp \in SUBSET Content
        /\ PullSound(m, o)
    BY PullUnderWay, PullOpFields DEF IndInv, Apply, PullStage
  <1>2. UNCHANGED <<live, dated, snap, author, nextRev, crashes>> BY DEF Apply, bucket
  <1>3. faults' \in 0 .. MaxFaults /\ retries' \in 0 .. MaxRetries
    BY <1>1, Outcomes DEF Apply
  <1>4. CASE Finish(m) /\ UNCHANGED <<local, st, superseded, auto>>
    <2>1. op' \in [Machine -> Operation] /\ PushesOK' /\ PullsOK' /\ OnlyOwnEdits'
      BY <1>2, <1>4, Ends
    <2>2. TypeOK' BY <1>1, <1>2, <1>3, <1>4, <2>1 DEF TypeOK, auto
    <2>3. Allocated' /\ Authored' BY <1>2, <1>4 DEF IndInv, Allocated, Authored
    <2> QED BY <2>1, <2>2, <2>3 DEF IndInv
  <1>5. CASE /\ local' = [local EXCEPT ![m] = new]
             /\ Acknowledge(m, o.etag, o.rev)
             /\ superseded' = superseded \cup o.givenUp
             /\ IF o.mode = "user"
                  THEN /\ Finish(m) /\ blocked' = [blocked EXCEPT ![m] = NoRev]
                       /\ UNCHANGED pending
                  ELSE Received(m, o.mode, new # snap[o.rev].files) /\ UNCHANGED blocked
    <2>1. snap[o.rev].files \in [File -> Content] /\ local[m] \in [File -> Content]
      <3> HIDE DEF o
      <3>1. snap \in [0 .. MaxRev -> Snapshot] /\ o.rev \in 0 .. MaxRev BY <1>1 DEF TypeOK, Rev
      <3>2. snap[o.rev] \in Snapshot BY <3>1
      <3> QED BY <1>1, <3>2 DEF TypeOK, Snapshot
    <2>2. new \in [File -> Content] BY <2>1
    <2>3. local' \in [Machine -> [File -> Content]] /\ local'[m] = new
          /\ \A n \in Machine \ {m} : local'[n] = local[n]
      <3> HIDE DEF new
      <3> QED BY <1>1, <1>5, <2>2 DEF TypeOK
    <2>4. st' \in [Machine -> State] /\ st'[m].base = o.rev
          /\ \A n \in Machine \ {m} : st'[n] = st[n]
      <3>1. [etag |-> o.etag, base |-> o.rev] \in State BY <1>1 DEF State
      <3>2. st' = [st EXCEPT ![m] = [etag |-> o.etag, base |-> o.rev]] BY <1>5 DEF Acknowledge
      <3> HIDE DEF o
      <3> QED BY <1>1, <3>1, <3>2 DEF TypeOK
    <2>5. /\ pending' \in [Machine -> BOOLEAN] /\ blocked' \in [Machine -> Rev \cup {NoRev}]
          /\ \E x \in {Idle} \cup AutoOp : Continue(m, x)
      <3>1. CASE o.mode = "user" BY <1>1, <1>5, <3>1 DEF TypeOK, Finish
      <3>2. CASE o.mode # "user" BY <1>1, <1>5, <3>2, ReceivedTypes DEF TypeOK
      <3> QED BY <3>1, <3>2
    <2>6. op' \in [Machine -> Operation] /\ op'[m].stage \notin PushStage \cup PullStage
          /\ \A n \in Machine \ {m} : op'[n] = op[n]
      BY <1>1, <2>5, AutoIsNoPushOrPull DEF Continue, TypeOK
    <2>7. TypeOK'
      <3>1. superseded' \subseteq Content BY <1>1, <1>5 DEF TypeOK
      <3> QED BY <1>1, <1>2, <1>3, <2>3, <2>4, <2>5, <2>6, <3>1 DEF TypeOK
    <2>8. Allocated'
      BY <1>1, <1>2, <2>4 DEF IndInv, Allocated, PullSound
    <2>9. Authored'
      <3>1. \A f \in File : snap[o.rev].files[f] <= Len(author)
        BY <1>1 DEF IndInv, Authored, Rev
      <3> QED BY <1>2, <2>3, <3>1 DEF IndInv, Authored
    <2>10. PushesOK'
      BY <1>2, <2>3, <2>4, <2>6 DEF IndInv, PushesOK, PushSound, Explained
    <2>11. PullsOK'
      BY <1>2, <2>3, <2>6 DEF IndInv, PullsOK, PullSound, Explained
    <2>12. OnlyOwnEdits'
      <3>1. \A f \in File : Explained(m, f, st[m].base)'
        BY <1>1, <1>2, <2>3, <2>4 DEF PullSound, Explained
      <3> QED BY <1>2, <2>3, <2>4, <3>1 DEF IndInv, OnlyOwnEdits, Explained
    <2> QED BY <2>7, <2>8, <2>9, <2>10, <2>11, <2>12 DEF IndInv
  <1> QED BY <1>4, <1>5 DEF Apply

\* A file that a plan leaves alone is the same on both sides or was changed here: what
\* both sides changed is not taken either.
LEMMA NotTaken ==
  ASSUME IndInv, NEW m \in Machine, NEW r \in Rev, NEW resolve,
         NEW f \in File \ Taken(m, r, resolve)
  PROVE  Explained(m, f, r)
  BY DEF IndInv, OnlyOwnEdits, Explained, Taken, Takes, Base

\* The pull of a user and the one of automatic sync make a plan.
LEMMA PlannedStep ==
  ASSUME IndInv, NEW m \in Machine, NEW mode \in {"user", "poll", "now"}, NEW source, NEW resolve,
         NEW r \in Rev, r < nextRev, Planned(m, mode, source, resolve, r),
         UNCHANGED <<snap, local, author, st, nextRev>>
  PROVE  op' \in [Machine -> Operation] /\ PushesOK' /\ PullsOK' /\ OnlyOwnEdits'
PROOF
  <1> DEFINE taken == Taken(m, r, resolve)
             plan  == [f \in taken |-> local[m][f]]
             given == GivenUp(m, source, resolve, r) \ {Missing}
             x == [stage |-> "validate", mode |-> mode, copy |-> source = "history",
                   rev |-> r, etag |-> live, plan |-> plan, givenUp |-> given]
  <1>1. /\ live \in Rev /\ local[m] \in [File -> Content]
        /\ snap[r].files \in [File -> Content]
    BY DEF IndInv, TypeOK, Snapshot, Rev
  <1>2. taken \in SUBSET File BY DEF Taken
  <1>3. plan \in UNION {[t -> Content] : t \in SUBSET File}
    <2>1. plan \in [taken -> Content] BY <1>1, <1>2
    <2> QED BY <1>2, <2>1
  <1>4. given \in SUBSET Content
    BY <1>1, <1>2 DEF GivenUp, Conflicts, Taken
  <1>5. (source = "history") \in BOOLEAN OBVIOUS
  <1>6. x \in PullOp /\ x \in Operation /\ x.stage = "validate" /\ x.rev = r /\ x.plan = plan
    <2> HIDE DEF plan, given, taken
    <2> QED BY <1>1, <1>3, <1>4, <1>5 DEF PullOp, Operation
  <1>7. DOMAIN plan = taken OBVIOUS
  <1>8. PullSound(m, x)
    <2>1. \A f \in File \ taken : Explained(m, f, r) BY NotTaken
    <2> HIDE DEF x, plan, taken
    <2> QED BY <1>6, <1>7, <2>1 DEF PullSound
  <1>9. Continue(m, x) BY DEF Planned
  <1>10. x.stage \notin PushStage BY <1>6 DEF PushStage
  <1> HIDE DEF x
  <1> QED BY <1>6, <1>8, <1>9, <1>10, Moves

LEMMA PullStep ==
  ASSUME IndInv, NEW m \in Machine, UserPull(m), UNCHANGED direction
  PROVE  IndInv'
PROOF
  <1>1. PICK source \in Source, resolve \in Resolve : Pull(m, source, resolve)
    BY DEF UserPull, Source, Resolve
  <1>2. UNCHANGED <<live, dated, snap, local, st, author, superseded, pending, blocked, nextRev,
                    faults, retries, crashes>>
    BY <1>1 DEF Pull, bucket, auto, ghosts, bounds
  <1>3. PICK r \in dated \cup {live} : Planned(m, "user", source, resolve, r)
    BY <1>1 DEF Pull
  <1>4. r \in Rev /\ r < nextRev BY DEF IndInv, TypeOK, Allocated
  <1>5. op' \in [Machine -> Operation] /\ PushesOK' /\ PullsOK' /\ OnlyOwnEdits'
    BY <1>2, <1>3, <1>4, PlannedStep
  <1>6. TypeOK' BY <1>2, <1>5 DEF TypeOK, IndInv
  <1>7. Allocated' /\ Authored' BY <1>2 DEF IndInv, Allocated, Authored
  <1> QED BY <1>5, <1>6, <1>7 DEF IndInv

-----------------------------------------------------------------------------
(* Automatic sync *)

LEMMA AutoGetStep ==
  ASSUME IndInv, NEW m \in Machine, AutoGet(m), UNCHANGED direction
  PROVE  IndInv'
PROOF
  <1>1. UNCHANGED <<live, dated, snap, local, st, author, superseded, pending, nextRev, crashes>>
    BY DEF AutoGet, bucket, ghosts
  <1>2. op[m] \in AutoOp /\ live \in Rev /\ live < nextRev
    BY StageOfOperation DEF IndInv, TypeOK, Allocated, AutoGet
  <1>3. op' \in [Machine -> Operation] /\ PushesOK' /\ PullsOK' /\ OnlyOwnEdits'
    <2>1. CASE Finish(m) BY <1>1, <2>1, Ends
    <2>2. CASE Planned(m, op[m].mode, "live", "none", live)
      <3>1. op[m].mode \in {"user", "poll", "now"} BY <1>2 DEF AutoOp
      <3> QED BY <1>1, <1>2, <2>2, <3>1, PlannedStep
    <2> QED BY <2>1, <2>2 DEF AutoGet
  <1>4. blocked' \in [Machine -> Rev \cup {NoRev}]
    <2>1. \E e \in Rev \cup {NoRev} : Block(m, e) \/ UNCHANGED blocked
      BY <1>2 DEF AutoGet, AutoOp
    <2> QED BY <2>1 DEF Block, IndInv, TypeOK
  <1>5. faults' \in 0 .. MaxFaults /\ retries' \in 0 .. MaxRetries
    BY Outcomes DEF AutoGet, IndInv
  <1>6. TypeOK' BY <1>1, <1>3, <1>4, <1>5 DEF TypeOK, IndInv
  <1>7. Allocated' /\ Authored' BY <1>1 DEF IndInv, Allocated, Authored
  <1> QED BY <1>3, <1>6, <1>7 DEF IndInv

LEMMA LookStep ==
  ASSUME IndInv, NEW m \in Machine, NEW mode \in {"poll", "now"}, Look(m, mode), UNCHANGED direction
  PROVE  IndInv'
PROOF
  <1>1. UNCHANGED <<live, dated, snap, local, st, author, superseded, nextRev, faults, retries, crashes>>
    BY DEF Look, bucket, ghosts, bounds
  <1>2. live \in Rev /\ pending \in [Machine -> BOOLEAN] /\ blocked \in [Machine -> Rev \cup {NoRev}]
    BY DEF IndInv, TypeOK
  <1>3. pending' \in [Machine -> BOOLEAN] /\ (op' = op \/ \E x \in {Idle} \cup AutoOp : Continue(m, x))
    <2>1. CASE Received(m, mode, Diverged(m)) BY <2>1, ReceivedTypes
    <2>2. CASE UNCHANGED <<op, pending>> BY <1>2, <2>2
    <2>3. CASE Continue(m, [stage |-> "get", mode |-> mode, etag |-> live]) /\ UNCHANGED auto
      <3>1. [stage |-> "get", mode |-> mode, etag |-> live] \in AutoOp BY <1>2 DEF AutoOp
      <3> QED BY <1>2, <2>3, <3>1 DEF auto
    <2> QED BY <2>1, <2>2, <2>3 DEF Look
  <1>4. op' \in [Machine -> Operation] /\ PushesOK' /\ PullsOK' /\ OnlyOwnEdits'
    <2>1. CASE op' = op
      BY <1>1, <2>1 DEF IndInv, TypeOK, PushesOK, PullsOK, OnlyOwnEdits, PushSound, PullSound, Explained
    <2>2. CASE \E x \in {Idle} \cup AutoOp : Continue(m, x)
      BY <1>1, <2>2, AutoIsNoPushOrPull, Moves
    <2> QED BY <1>3, <2>1, <2>2
  <1>5. blocked' \in [Machine -> Rev \cup {NoRev}] BY <1>2 DEF Look, Block, auto
  <1>6. TypeOK' BY <1>1, <1>3, <1>4, <1>5 DEF TypeOK, IndInv
  <1>7. Allocated' /\ Authored' BY <1>1 DEF IndInv, Allocated, Authored
  <1> QED BY <1>4, <1>6, <1>7 DEF IndInv

-----------------------------------------------------------------------------
(* The environment *)

\* An edit makes a content nobody has seen, and its machine is the author.
LEMMA EditStep ==
  ASSUME IndInv, NEW m \in Machine, NEW f \in File, Edit(m, f), UNCHANGED direction
  PROVE  IndInv'
PROOF
  <1> DEFINE fresh == Len(author) + 1
  <1>1. /\ TypeOK /\ author \in Seq(Machine) /\ Len(author) \in Nat
        /\ fresh \in Content /\ fresh # Missing
    BY ConstantsAssumption DEF IndInv, TypeOK, Edit, Content, Missing
  <1>2. UNCHANGED <<live, dated, snap, st, op, blocked, nextRev, faults, retries, crashes>>
    BY DEF Edit, bucket, bounds
  <1>3. PICK new \in {fresh, Missing} \ {local[m][f]} :
          /\ local' = [local EXCEPT ![m][f] = new]
          /\ superseded' = superseded \cup ({local[m][f], fresh} \ {Missing, new})
    BY DEF Edit
  <1>4. local[m] \in [File -> Content] /\ new \in Content
    BY <1>1, <1>3, ConstantsAssumption DEF TypeOK, Content, Missing
  <1>5. /\ local' \in [Machine -> [File -> Content]] /\ local'[m][f] = new
        /\ \A n \in Machine, g \in File : n # m \/ g # f => local'[n][g] = local[n][g]
    <2> HIDE DEF fresh
    <2> QED BY <1>1, <1>3, <1>4 DEF TypeOK
  <1>6. /\ author' \in Seq(Machine) /\ Len(author') = fresh /\ author'[fresh] = m
        /\ \A c \in 1 .. Len(author) : author'[c] = author[c]
    BY <1>1, AppendProperties DEF Edit
  <1>7. pending' \in [Machine -> BOOLEAN]
    <2> DEFINE b == m \in Automatic
    <2>1. b \in BOOLEAN OBVIOUS
    <2>2. pending \in [Machine -> BOOLEAN] BY <1>1 DEF TypeOK
    <2>3. pending' = pending \/ pending' = [pending EXCEPT ![m] = b] BY DEF Edit
    <2> HIDE DEF b
    <2> QED BY <2>1, <2>2, <2>3
  <1>8. TypeOK'
    <2>1. Len(author') <= MaxEdits BY <1>1, <1>6 DEF Edit, Content
    <2>2. superseded' \subseteq Content BY <1>1, <1>3, <1>4 DEF TypeOK
    <2> QED BY <1>1, <1>2, <1>5, <1>6, <1>7, <2>1, <2>2 DEF TypeOK
  <1>9. Allocated' BY <1>2 DEF IndInv, Allocated
  <1>10. Authored'
    <2>1. new <= fresh BY <1>1, <1>3 DEF Missing
    <2>2. ASSUME NEW n \in Machine, NEW g \in File PROVE local'[n][g] <= Len(author')
      <3>1. local[n][g] <= Len(author) /\ local[n][g] \in Content
        BY <1>1 DEF IndInv, Authored, TypeOK
      <3>2. local'[n][g] \in {new, local[n][g]} BY <1>5
      <3>3. local[n][g] <= fresh BY <1>1, <3>1, ConstantsAssumption DEF Content
      <3> QED BY <1>6, <2>1, <3>2, <3>3
    <2>3. ASSUME NEW r \in 0 .. MaxRev, NEW g \in File PROVE snap'[r].files[g] <= Len(author')
      <3>1. snap[r].files[g] <= Len(author) /\ snap[r].files[g] \in Content
        BY <1>1 DEF IndInv, Authored, TypeOK, Snapshot
      <3> QED BY <1>1, <1>2, <1>6, <3>1, ConstantsAssumption DEF Content
    <2> QED BY <2>2, <2>3 DEF Authored
  <1>11. ASSUME NEW n \in Machine, NEW g \in File, NEW r, Explained(n, g, r)
         PROVE  Explained(n, g, r)'
    <2>1. CASE n = m /\ g = f BY <1>2, <1>3, <1>5, <1>6, <2>1 DEF Explained
    <2>2. CASE n # m \/ g # f
      <3>1. local[n][g] \in Content /\ local[n][g] <= Len(author) BY <1>1 DEF IndInv, Authored, TypeOK
      <3>2. local[n][g] = Missing \/ local[n][g] \in 1 .. Len(author)
        BY <1>1, <3>1, ConstantsAssumption DEF Content, Missing
      <3>3. local'[n][g] = local[n][g] BY <1>5, <2>2
      <3> QED BY <1>2, <1>6, <1>11, <3>2, <3>3 DEF Explained
    <2> QED BY <2>1, <2>2
  <1>12. PushesOK' /\ PullsOK' /\ OnlyOwnEdits'
    BY <1>2, <1>11 DEF IndInv, PushesOK, PullsOK, PushSound, PullSound, OnlyOwnEdits
  <1> QED BY <1>8, <1>9, <1>10, <1>12 DEF IndInv

\* A crash forgets the operation and what automatic sync remembered.
LEMMA CrashStep ==
  ASSUME IndInv, NEW m \in Machine, Crash(m), UNCHANGED direction
  PROVE  IndInv'
PROOF
  <1>1. UNCHANGED <<live, dated, snap, local, st, author, superseded, nextRev, faults, retries>>
    BY DEF Crash, bucket, ghosts
  <1>2. op' \in [Machine -> Operation] /\ PushesOK' /\ PullsOK' /\ OnlyOwnEdits'
    BY <1>1, Ends DEF Crash
  <1>3. crashes' \in 0 .. MaxCrashes BY ConstantsAssumption DEF Crash, IndInv, TypeOK
  <1>4. blocked' \in [Machine -> Rev \cup {NoRev}] BY DEF Crash, Block, IndInv, TypeOK
  <1>5. pending' \in [Machine -> BOOLEAN]
    <2>1. pending \in [Machine -> BOOLEAN] BY DEF IndInv, TypeOK
    <2>2. pending' = [pending EXCEPT ![m] = FALSE] BY DEF Crash
    <2> QED BY <2>1, <2>2
  <1>6. TypeOK' BY <1>1, <1>2, <1>3, <1>4, <1>5 DEF TypeOK, IndInv
  <1>7. Allocated' /\ Authored' BY <1>1 DEF IndInv, Allocated, Authored
  <1> QED BY <1>2, <1>6, <1>7 DEF IndInv

-----------------------------------------------------------------------------
(* The invariant and what follows from it *)

LEMMA InitIndInv == Init => IndInv
PROOF
  <1> SUFFICES ASSUME Init PROVE IndInv OBVIOUS
  <1>1. NoSnapshot \in Snapshot /\ NoSnapshot.files = [f \in File |-> Missing]
        /\ NoSnapshot.ancestors = <<>>
    BY ConstantsAssumption DEF NoSnapshot, Snapshot, Content, Missing
  <1>2. Setup \in Rev /\ nextRev = 2 /\ nextRev \in 2 .. MaxRev + 1
    BY ConstantsAssumption DEF Init, Setup, Rev
  <1>3. /\ st \in [Machine -> State]
        /\ \A m \in Machine : st[m].base \in {NoRev, Setup}
    BY <1>2 DEF Init, State
  <1>4. op \in [Machine -> Operation] /\ \A m \in Machine : op[m] = Idle
    BY IdleFacts DEF Init
  <1>5. snap \in [0 .. MaxRev -> Snapshot] /\ \A r \in 0 .. MaxRev : snap[r] = NoSnapshot
    BY <1>1 DEF Init
  <1>6. local \in [Machine -> [File -> Content]] /\ \A m \in Machine, f \in File : local[m][f] = Missing
    BY <1>1, ConstantsAssumption DEF Init, Content, Missing
  <1>7. author = <<>> /\ author \in Seq(Machine) /\ Len(author) = 0 BY DEF Init
  <1>8. TypeOK
    <2>1. \A r \in 0 .. MaxRev : Len(snap[r].ancestors) <= MaxAncestors
      BY <1>1, <1>5, ConstantsAssumption
    <2>2. pending \in [Machine -> BOOLEAN] /\ blocked \in [Machine -> Rev \cup {NoRev}]
      BY DEF Init
    <2>3. live \in Rev /\ dated \subseteq Rev /\ direction \in Directions /\ superseded \subseteq Content
      BY <1>2 DEF Init
    <2>4. faults \in 0 .. MaxFaults /\ retries \in 0 .. MaxRetries /\ crashes \in 0 .. MaxCrashes
          /\ Len(author) <= MaxEdits
      BY <1>7, ConstantsAssumption DEF Init
    <2> QED BY <1>2, <1>3, <1>4, <1>5, <1>6, <1>7, <2>1, <2>2, <2>3, <2>4 DEF TypeOK
  <1>9. Allocated BY <1>2, <1>3 DEF Init, Allocated, Setup, NoRev
  <1>10. Authored BY <1>1, <1>5, <1>6, <1>7 DEF Authored, Missing
  <1>11. PushesOK /\ PullsOK BY <1>4, IdleFacts DEF PushesOK, PullsOK, PushStage, PullStage
  <1>12. OnlyOwnEdits BY <1>6 DEF OnlyOwnEdits, Explained
  <1> QED BY <1>8, <1>9, <1>10, <1>11, <1>12 DEF IndInv

LEMMA NextIndInv == IndInv /\ [Next]_vars => IndInv'
PROOF
  <1> SUFFICES ASSUME IndInv, [Next]_vars PROVE IndInv' OBVIOUS
  <1>1. CASE Next
    <2>1. PICK m \in Machine :
            \/ Step(m) \/ Push(m) \/ ForcePush(m) \/ UserPull(m)
            \/ Look(m, "poll") \/ Look(m, "now") \/ SendScheduled(m)
            \/ \E f \in File : Edit(m, f)
            \/ Crash(m)
      BY <1>1 DEF Next
    <2>2. UNCHANGED direction BY <1>1 DEF Next
    <2>3. CASE Step(m)
      BY <2>2, <2>3, PutDatedStep, PutLiveStep, RemoveCandidateStep, SaveStateStep, ValidateStep,
         ApplyStep, AutoGetStep, SendStep DEF Step
    <2>4. CASE Push(m) \/ ForcePush(m) BY <2>2, <2>4, PushStep
    <2>5. CASE UserPull(m) BY <2>2, <2>5, PullStep
    <2>6. CASE Look(m, "poll") \/ Look(m, "now") BY <2>2, <2>6, LookStep
    <2>7. CASE SendScheduled(m) BY <2>2, <2>7, SendStep
    <2>8. CASE \E f \in File : Edit(m, f) BY <2>2, <2>8, EditStep
    <2>9. CASE Crash(m) BY <2>2, <2>9, CrashStep
    <2> QED BY <2>1, <2>3, <2>4, <2>5, <2>6, <2>7, <2>8, <2>9
  <1>2. CASE UNCHANGED vars
    BY <1>2 DEF vars, bucket, auto, ghosts, bounds, IndInv, TypeOK, Allocated, Authored, PushesOK,
       PullsOK, OnlyOwnEdits, PushSound, PullSound, Explained
  <1> QED BY <1>1, <1>2

LEMMA Inductive == Spec => []IndInv
  BY InitIndInv, NextIndInv, PTL DEF Spec

\* Every variable keeps its type (all of internal/remotesync that is modelled): a revision
\* that is used exists, and no snapshot carries a longer lineage than Read accepts.
THEOREM SyncTypeCorrect == Spec => []TypeOK
PROOF
  <1>1. IndInv => TypeOK BY DEF IndInv
  <1> QED BY <1>1, Inductive, PTL

\* However many machines push, pull, restore, lose answers and crash, what differs from
\* the base of a machine is a removal or an edit made on this machine: the three-way
\* comparison of PlanEntries never takes a half recorded pull for an edit of the user.
THEOREM OnlyOwnEditsHolds == Spec => []OnlyOwnEdits
PROOF
  <1>1. IndInv => OnlyOwnEdits BY DEF IndInv
  <1> QED BY <1>1, Inductive, PTL

\* A live snapshot is only ever replaced by one that names it as its parent, by a push the
\* user forced over exactly this one, or after a restore (uploadSnapshot).
THEOREM HeadsFollowHolds == Spec => HeadsFollow
PROOF
  <1> DEFINE Follow == live' # live =>
        \E m \in Machine :
          /\ op[m].stage = "live" /\ live' = op[m].rev
          /\ \/ snap[live'].parent = live
             \/ op[m].etag = live /\ (op[m].forced \/ st[m].base # st[m].etag)
  <1>1. IndInv /\ [Next]_vars => [Follow]_vars
    <2> SUFFICES ASSUME IndInv, Next, live' # live PROVE Follow
      BY DEF vars, bucket
    <2>1. PICK m \in Machine : PutLive(m)
      BY DEF Next, Step, PutDated, RemoveCandidate, SaveState, Validate, Apply, AutoGet, SendNow,
         Push, ForcePush, UserPull, Pull, Look, SendScheduled, Edit, Crash, bucket
    <2>2. op[m].stage = "live" /\ live = op[m].etag /\ live' = op[m].rev
      BY <2>1 DEF PutLive, LiveCondition
    <2>3. PushSound(m, op[m]) BY <2>2, PushUnderWay DEF PushStage
    <2>4. CASE op[m].forced BY <2>2, <2>4
    <2>5. CASE ~op[m].forced
      <3>1. snap[live'].parent = st[m].base /\ live = st[m].etag BY <2>2, <2>3, <2>5 DEF PushSound
      <3> QED BY <2>2, <3>1
    <2> QED BY <2>4, <2>5
  <1> QED BY <1>1, Inductive, PTL DEF Spec, HeadsFollow

-----------------------------------------------------------------------------
(* What a revision continues *)

\* What a content may be without anybody missing it.
Passed(c) == c = Missing \/ c \in superseded

\* Revision r holds what revision a holds, but for contents somebody replaced knowingly.
Continues(r, a) ==
  \A f \in File : snap[r].files[f] = snap[a].files[f] \/ Passed(snap[a].files[f])

\* Every revision continues its parent and the ancestors it carries.
Lineage ==
  /\ snap[NoRev] = NoSnapshot
  /\ \A r \in 1 .. nextRev - 1 :
       /\ snap[r].parent # NoRev => snap[r].parent < r /\ Continues(r, snap[r].parent)
       /\ \A a \in Range(snap[r].ancestors) : a < nextRev /\ Continues(r, a)

\* A set of revisions that is not empty has a first one.
LEMMA LeastElement ==
  ASSUME NEW U \in SUBSET Nat, U # {}
  PROVE  \E i \in U : \A j \in U : i <= j
  <1>1. OpToRel(<, Nat) = {pair \in Nat \X Nat : pair[1] < pair[2]}
    BY Zenon DEF OpToRel
  <1>2. PICK less : /\ less = {pair \in Nat \X Nat : pair[1] < pair[2]}
                    /\ IsWellFoundedOn(less, Nat)
    BY <1>1, NatLessThanWellFounded, Zenon
  <1>3. PICK i \in U : \A j \in U : <<j, i>> \notin less
    BY <1>2, WFMin, Zenon
  <1>4. \A j \in Nat : j < i => <<j, i>> \in less
    <2>1. less = {pair \in Nat \X Nat : pair[1] < pair[2]}
      BY <1>2
    <2> QED BY <2>1
  <1>5. \A j \in U : ~(j < i)
    BY <1>3, <1>4
  <1> QED BY <1>5

\* The way over the dated copies is one step from a revision and the way from its parent.
LEMMA WayOverCopies ==
  ASSUME TypeOK, NEW wanted
  PROVE  \E h : /\ \A r : LineageReaches(r, wanted) = h[r]
                /\ h = [x \in 0 .. MaxRev |->
                          x # NoRev /\ (x = wanted \/ (x \in dated /\ h[snap[x].parent]))]
  <1> DEFINE Steps(x, S) == x # NoRev /\ (x = wanted \/ (x \in dated /\ snap[x].parent \in S))
             Closed == {S \in SUBSET (0 .. MaxRev) :
                          \A x \in 0 .. MaxRev : Steps(x, S) => x \in S}
             L == {x \in 0 .. MaxRev : \A S \in Closed : x \in S}
             g == [x \in 0 .. MaxRev |-> x \in L]
  <1>1. ASSUME NEW x \in 0 .. MaxRev, Steps(x, L) PROVE x \in L
    <2>1. ASSUME NEW S \in Closed PROVE x \in S
      <3>1. L \subseteq S OBVIOUS
      <3>2. Steps(x, S) BY <1>1, <3>1
      <3> QED BY <3>2
    <2> QED BY <2>1
  <1>2. ASSUME NEW x \in L PROVE Steps(x, L)
    <2> SUFFICES ASSUME ~Steps(x, L) PROVE FALSE
      OBVIOUS
    <2>1. L \ {x} \in Closed
      <3>1. L \in SUBSET (0 .. MaxRev) OBVIOUS
      <3>2. ASSUME NEW y \in 0 .. MaxRev, Steps(y, L \ {x}) PROVE y \in L \ {x}
        <4>1. Steps(y, L) BY <3>2
        <4> QED BY <1>1, <4>1
      <3> HIDE DEF Steps, L
      <3> QED BY <3>1, <3>2
    <2> QED BY <2>1
  <1>3. \A x \in 0 .. MaxRev : snap[x].parent \in 0 .. MaxRev
    BY ConstantsAssumption DEF TypeOK, Snapshot, Rev, NoRev
  <1>4. g = [x \in 0 .. MaxRev |-> x # NoRev /\ (x = wanted \/ (x \in dated /\ g[snap[x].parent]))]
    <2>1. ASSUME NEW x \in 0 .. MaxRev
          PROVE  (x \in L) = (x # NoRev /\ (x = wanted \/ (x \in dated /\ g[snap[x].parent])))
      <3>1. g[snap[x].parent] = (snap[x].parent \in L) BY <1>3
      <3>2. (x \in L) = Steps(x, L) BY <1>1, <1>2
      <3> HIDE DEF g, L
      <3> QED BY <3>1, <3>2
    <2> HIDE DEF L
    <2> QED BY <2>1
  <1> DEFINE h == CHOOSE h : h = [x \in 0 .. MaxRev |-> x # NoRev /\ (x = wanted \/ (x \in dated /\ h[snap[x].parent]))]
  <1> HIDE DEF g
  <1>5. h = [x \in 0 .. MaxRev |-> x # NoRev /\ (x = wanted \/ (x \in dated /\ h[snap[x].parent]))]
    BY <1>4
  <1>6. \A r : LineageReaches(r, wanted) = h[r]
    BY DEF LineageReaches
  <1> HIDE DEF h
  <1> QED BY <1>5, <1>6

\* A revision that reaches wanted over the dated copies continues it: the first one that
\* did not would have a parent that does not either.
LEMMA WalkContinues ==
  ASSUME TypeOK, Lineage, NEW wanted \in Rev, NEW r \in Rev \cup {NoRev}, r < nextRev,
         LineageReaches(r, wanted)
  PROVE  Continues(r, wanted)
  <1>1. PICK h : /\ \A x : LineageReaches(x, wanted) = h[x]
                 /\ h = [x \in 0 .. MaxRev |->
                           x # NoRev /\ (x = wanted \/ (x \in dated /\ h[snap[x].parent]))]
    BY WayOverCopies
  <1> DEFINE B == {x \in 0 .. MaxRev : x < nextRev /\ h[x] /\ ~Continues(x, wanted)}
  <1>2. ASSUME NEW x \in B PROVE \E y \in B : y < x
    <2>1. x \in 1 .. MaxRev /\ x < nextRev /\ x # wanted /\ h[snap[x].parent]
      <3>1. x # NoRev /\ (x = wanted \/ (x \in dated /\ h[snap[x].parent])) BY <1>1
      <3>2. x # wanted BY DEF Continues
      <3> QED BY <3>1, <3>2, ConstantsAssumption DEF NoRev
    <2>2. snap[x].parent \in 0 .. MaxRev
      BY <2>1, ConstantsAssumption DEF TypeOK, Snapshot, Rev, NoRev
    <2> DEFINE y == snap[x].parent
    <2>3. y # NoRev BY <1>1, <2>1, <2>2
    <2>4. x \in 1 .. nextRev - 1 BY <2>1, ConstantsAssumption DEF TypeOK
    <2>5. y < x /\ Continues(x, y) BY <2>3, <2>4 DEF Lineage
    <2>6. ~Continues(y, wanted) BY <2>5 DEF Continues
    <2>7. y < nextRev BY <2>1, <2>2, <2>5, ConstantsAssumption DEF TypeOK
    <2> QED BY <2>1, <2>2, <2>5, <2>6, <2>7
  <1>3. B = {}
    <2>1. B \in SUBSET Nat BY ConstantsAssumption
    <2>2. ASSUME B # {} PROVE FALSE
      <3>1. PICK i \in B : \A j \in B : i <= j BY <2>1, <2>2, LeastElement
      <3>2. PICK y \in B : y < i BY <1>2
      <3> QED BY <2>1, <3>1, <3>2
    <2> QED BY <2>2
  <1>4. h[r] BY <1>1
  <1>5. r \in 0 .. MaxRev BY ConstantsAssumption DEF Rev, NoRev
  <1> QED BY <1>3, <1>4, <1>5

\* What liveSnapshotFollows accepts as a continuation is one.
LEMMA FollowsContinues ==
  ASSUME IndInv, Lineage, NEW base \in Rev, base < nextRev, NEW r \in Rev, r < nextRev,
         Follows(base, r)
  PROVE  Continues(r, base)
  <1>1. TypeOK /\ base # NoRev /\ r \in 1 .. nextRev - 1
    BY ConstantsAssumption DEF IndInv, TypeOK, Rev, NoRev
  <1>2. CASE r = base BY <1>2 DEF Continues
  <1>3. CASE snap[r].parent = base BY <1>1, <1>3 DEF Lineage
  <1>4. CASE base \in Range(snap[r].ancestors) BY <1>1, <1>4 DEF Lineage
  <1>5. CASE LineageReaches(snap[r].parent, base)
    <2>1. snap[r].parent \in Rev \cup {NoRev}
      BY <1>1, ConstantsAssumption DEF TypeOK, Snapshot, Rev
    <2>2. CASE snap[r].parent = NoRev
      <3>1. ~LineageReaches(NoRev, base)
        <4>1. PICK h : /\ \A x : LineageReaches(x, base) = h[x]
                       /\ h = [x \in 0 .. MaxRev |->
                                 x # NoRev /\ (x = base \/ (x \in dated /\ h[snap[x].parent]))]
          BY <1>1, WayOverCopies
        <4>2. NoRev \in 0 .. MaxRev BY ConstantsAssumption DEF NoRev
        <4> QED BY <4>1, <4>2
      <3> QED BY <1>5, <2>2, <3>1
    <2>3. CASE snap[r].parent # NoRev
      <3>1. snap[r].parent < r /\ Continues(r, snap[r].parent) BY <1>1, <2>3 DEF Lineage
      <3>2. snap[r].parent < nextRev
        BY <1>1, <2>1, <3>1, ConstantsAssumption DEF TypeOK, Rev, NoRev
      <3>3. Continues(snap[r].parent, base) BY <1>1, <1>5, <2>1, <3>2, WalkContinues
      <3> QED BY <3>1, <3>3 DEF Continues
    <2> QED BY <2>2, <2>3
  <1> QED BY <1>1, <1>2, <1>3, <1>4, <1>5 DEF Follows

-----------------------------------------------------------------------------
(* Contents stay with their authors *)

\* Machine m holds what revision r holds, but for contents somebody replaced knowingly.
Kept(m, r) == \A f \in File : local[m][f] = snap[r].files[f] \/ Passed(snap[r].files[f])

\* The same once plan o is carried out, and what the plan overwrites is not missed.
PlanKeeps(m, o) ==
  /\ \A f \in File \ DOMAIN o.plan : LET c == snap[o.rev].files[f] IN
       local[m][f] = c \/ Passed(c) \/ c \in o.givenUp
  /\ \A f \in DOMAIN o.plan : Passed(o.plan[f]) \/ o.plan[f] \in o.givenUp

\* A content that nobody replaced knowingly is still where it was made.
AuthorsKeep ==
  \A c \in 1 .. Len(author) : c \in superseded \/ \E f \in File : local[author[c]][f] = c

BasesKept  == \A m \in Machine : Kept(m, st[m].base)
PushesKeep == \A m \in Machine : op[m].stage \in PushStage => Kept(m, op[m].rev)
PullsKeep  == \A m \in Machine : op[m].stage \in PullStage => PlanKeeps(m, op[m])

KeepInv == Lineage /\ BasesKept /\ PushesKeep /\ PullsKeep /\ AuthorsKeep

\* An operation moves on and the machine may acknowledge a revision; nothing else changes.
LEMMA KeepMoves ==
  ASSUME KeepInv, NEW m \in Machine, UNCHANGED <<snap, local, author, superseded, nextRev>>,
         \A n \in Machine \ {m} : op'[n] = op[n] /\ st'[n] = st[n],
         Kept(m, st'[m].base),
         op'[m].stage \in PushStage => Kept(m, op'[m].rev),
         op'[m].stage \in PullStage => PlanKeeps(m, op'[m])
  PROVE  KeepInv'
  <1>1. Lineage' BY DEF KeepInv, Lineage, Continues, Passed
  <1>2. AuthorsKeep' BY DEF KeepInv, AuthorsKeep
  <1>3. BasesKept' BY DEF KeepInv, BasesKept, Kept, Passed
  <1>4. PushesKeep' BY DEF KeepInv, PushesKeep, Kept, Passed
  <1>5. PullsKeep' BY DEF KeepInv, PullsKeep, PlanKeeps, Passed
  <1> QED BY <1>1, <1>2, <1>3, <1>4, <1>5 DEF KeepInv

\* The operation ends, becomes one of automatic sync, or goes on with its next request.
LEMMA KeepGoesOn ==
  ASSUME IndInv, KeepInv, NEW m \in Machine,
         UNCHANGED <<snap, local, st, author, superseded, nextRev>>,
         \/ Finish(m)
         \/ \E x \in {Idle} \cup AutoOp : Continue(m, x)
         \/ \E s \in PushStage : op[m].stage \in PushStage /\ Continue(m, [op[m] EXCEPT !.stage = s])
         \/ \E s \in PullStage : op[m].stage \in PullStage /\ Continue(m, [op[m] EXCEPT !.stage = s])
  PROVE  KeepInv'
  <1>1. op \in [Machine -> Operation] BY DEF IndInv, TypeOK
  <1>2. Kept(m, st'[m].base) BY DEF KeepInv, BasesKept
  <1>3. CASE Finish(m) \/ \E x \in {Idle} \cup AutoOp : Continue(m, x)
    <2>1. PICK x \in {Idle} \cup AutoOp : Continue(m, x) BY <1>3 DEF Finish
    <2>2. op'[m] = x /\ \A n \in Machine \ {m} : op'[n] = op[n] BY <1>1, <2>1 DEF Continue
    <2> QED BY <1>2, <2>2, AutoIsNoPushOrPull, KeepMoves
  <1>4. ASSUME NEW s \in PushStage, op[m].stage \in PushStage, Continue(m, [op[m] EXCEPT !.stage = s])
        PROVE  KeepInv'
    <2> DEFINE x == [op[m] EXCEPT !.stage = s]
    <2>1. x.stage = s /\ x.rev = op[m].rev BY <1>4, PushUnderWay, PushOpFields
    <2>2. op' = [op EXCEPT ![m] = x] BY <1>4 DEF Continue
    <2>3. s \notin PullStage BY DEF PushStage, PullStage
    <2> HIDE DEF x
    <2>4. op'[m] = x /\ \A n \in Machine \ {m} : op'[n] = op[n] BY <1>1, <2>2
    <2>5. Kept(m, x.rev) BY <1>4, <2>1 DEF KeepInv, PushesKeep
    <2> QED BY <1>2, <2>1, <2>3, <2>4, <2>5, KeepMoves
  <1>5. ASSUME NEW s \in PullStage, op[m].stage \in PullStage, Continue(m, [op[m] EXCEPT !.stage = s])
        PROVE  KeepInv'
    <2> DEFINE x == [op[m] EXCEPT !.stage = s]
    <2>1. op[m] \in PullOp BY <1>5, PullUnderWay
    <2>2. x.stage = s /\ x.rev = op[m].rev /\ x.plan = op[m].plan /\ x.givenUp = op[m].givenUp
      BY <2>1 DEF PullOp
    <2>3. op' = [op EXCEPT ![m] = x] BY <1>5 DEF Continue
    <2>4. s \notin PushStage BY DEF PushStage, PullStage
    <2> HIDE DEF x
    <2>5. op'[m] = x /\ \A n \in Machine \ {m} : op'[n] = op[n] BY <1>1, <2>3
    <2>6. PlanKeeps(m, x)
      <3>1. PlanKeeps(m, op[m]) BY <1>5 DEF KeepInv, PullsKeep
      <3> QED BY <2>2, <3>1 DEF PlanKeeps
    <2> QED BY <1>2, <2>2, <2>4, <2>5, <2>6, KeepMoves
  <1> QED BY <1>3, <1>4, <1>5

\* What a snapshot is made of continues the base and everything the base continues.
LEMMA AncestorsContinue ==
  ASSUME IndInv, KeepInv, NEW m \in Machine, NEW a \in Range(Ancestors(st[m].base))
  PROVE  a < nextRev /\ Kept(m, a)
  <1> DEFINE base == st[m].base
             chain == <<base>> \o snap[base].ancestors
             k == IF Len(chain) < MaxAncestors THEN Len(chain) ELSE MaxAncestors
  <1>1. TypeOK /\ base \in Rev \cup {NoRev} /\ base < nextRev /\ Kept(m, base)
    BY DEF IndInv, TypeOK, State, Allocated, KeepInv, BasesKept
  <1>2. CASE base = NoRev BY <1>2 DEF Ancestors, Range
  <1>3. CASE base # NoRev
    <2>1. base \in Rev /\ base \in 1 .. nextRev - 1 /\ snap[base].ancestors \in Seq(Rev)
      BY <1>1, <1>3, ConstantsAssumption DEF TypeOK, Snapshot, Rev, NoRev
    <2>2. chain \in Seq(Rev) /\ Len(chain) \in Nat BY <2>1
    <2>3. k \in 0 .. Len(chain) BY <2>2, ConstantsAssumption
    <2>4. /\ SubSeq(chain, 1, k) \in Seq(Rev) /\ Len(SubSeq(chain, 1, k)) = k
          /\ \A i \in 1 .. k : SubSeq(chain, 1, k)[i] = chain[i]
      <3> HIDE DEF chain, k
      <3> QED BY <2>2, <2>3, SubSeqProperties
    <2>5. PICK i \in 1 .. Len(chain) : a = chain[i]
      <3>1. a \in Range(SubSeq(chain, 1, k)) BY <1>3 DEF Ancestors
      <3> HIDE DEF chain, k
      <3> QED BY <2>2, <2>3, <2>4, <3>1 DEF Range
    <2>6. a = base \/ a \in Range(snap[base].ancestors) BY <2>1, <2>5 DEF Range
    <2>7. CASE a = base BY <1>1, <2>7
    <2>8. CASE a \in Range(snap[base].ancestors)
      <3>1. a < nextRev /\ Continues(base, a) BY <2>1, <2>8 DEF KeepInv, Lineage
      <3> QED BY <1>1, <3>1 DEF Kept, Continues
    <2> QED BY <2>6, <2>7, <2>8
  <1> QED BY <1>2, <1>3

\* A new snapshot continues the line of its machine.
LEMMA KeepCollected ==
  ASSUME IndInv, KeepInv, NEW m \in Machine, NEW etag, NEW forced, Collect(m, etag, forced),
         UNCHANGED <<local, st, author, superseded>>
  PROVE  KeepInv'
  <1> DEFINE new == [files |-> local[m], parent |-> st[m].base, ancestors |-> Ancestors(st[m].base)]
             x == [stage |-> "dated", forced |-> forced, rev |-> nextRev, etag |-> etag]
  <1>1. /\ TypeOK /\ nextRev \in Rev /\ nextRev' = nextRev + 1
        /\ op'[m] = x /\ \A n \in Machine \ {m} : op'[n] = op[n]
    BY ConstantsAssumption DEF IndInv, TypeOK, Collect, Rev, Continue
  <1>2. /\ snap'[nextRev] = new
        /\ \A r \in 0 .. MaxRev : r # nextRev => snap'[r] = snap[r]
    BY <1>1 DEF Collect, TypeOK, Rev
  <1>3. \A n \in Machine : st[n].base \in 0 .. MaxRev /\ st[n].base < nextRev
    BY <1>1, ConstantsAssumption DEF IndInv, Allocated, TypeOK, State, Rev, NoRev
  <1>4. ASSUME NEW n \in Machine, NEW r \in 0 .. MaxRev, r < nextRev, Kept(n, r)
        PROVE  Kept(n, r)'
    BY <1>1, <1>2, <1>4 DEF Kept, Passed, Rev
  <1>5. ASSUME NEW r \in 1 .. nextRev, NEW a \in 0 .. MaxRev, a < nextRev,
               r < nextRev => Continues(r, a), r = nextRev => Kept(m, a)
        PROVE  Continues(r, a)'
    <2>1. a # nextRev /\ snap'[a] = snap[a] BY <1>1, <1>2, <1>5, ConstantsAssumption DEF Rev
    <2>2. CASE r = nextRev
      <3>1. snap'[r].files = local[m] BY <1>2, <2>2
      <3> QED BY <1>5, <2>1, <2>2, <3>1 DEF Continues, Kept, Passed
    <2>3. CASE r # nextRev
      <3>1. r \in 0 .. MaxRev /\ r < nextRev BY <1>1, <2>3, ConstantsAssumption DEF Rev
      <3>2. snap'[r] = snap[r] BY <1>2, <2>3, <3>1
      <3> QED BY <1>5, <2>1, <3>1, <3>2 DEF Continues, Passed
    <2> QED BY <2>2, <2>3
  <1>6. Lineage'
    <2>1. snap'[NoRev] = NoSnapshot
      BY <1>1, <1>2, ConstantsAssumption DEF KeepInv, Lineage, NoRev, Rev
    <2>2. ASSUME NEW r \in 1 .. nextRev' - 1
          PROVE  /\ snap'[r].parent # NoRev => snap'[r].parent < r /\ Continues(r, snap[r].parent)'
                 /\ \A a \in Range(snap'[r].ancestors) : a < nextRev' /\ Continues(r, a)'
      <3>1. r \in 1 .. nextRev BY <1>1, ConstantsAssumption DEF Rev
      <3>2. CASE r = nextRev
        <4>1. snap'[r].parent = st[m].base /\ snap'[r].ancestors = Ancestors(st[m].base)
          BY <1>2, <3>2
        <4>2. Kept(m, st[m].base) BY DEF KeepInv, BasesKept
        <4>3. ASSUME NEW a \in Range(Ancestors(st[m].base))
              PROVE  a < nextRev' /\ Continues(r, a)'
          <5>1. a < nextRev /\ Kept(m, a) BY <4>3, AncestorsContinue
          <5>2. a \in Rev
            <6>1. Ancestors(st[m].base) \in Seq(Rev) BY <1>1, AncestorsOK DEF TypeOK, State
            <6> QED BY <4>3, <6>1 DEF Range
          <5>3. a \in 0 .. MaxRev BY <5>2, ConstantsAssumption DEF Rev
          <5>4. Continues(r, a)' BY <1>5, <3>1, <3>2, <5>1, <5>3
          <5> QED BY <1>1, <5>1, <5>3, <5>4, ConstantsAssumption DEF Rev
        <4>4. Continues(r, st[m].base)' BY <1>3, <1>5, <3>1, <3>2, <4>2
        <4> QED BY <1>3, <3>2, <4>1, <4>3, <4>4
      <3>3. CASE r # nextRev
        <4>1. r \in 1 .. nextRev - 1 /\ r \in Rev /\ snap'[r] = snap[r]
          BY <1>1, <1>2, <3>1, <3>3, ConstantsAssumption DEF Rev
        <4>2. snap[r] \in Snapshot
          <5>1. snap \in [0 .. MaxRev -> Snapshot] BY <1>1 DEF TypeOK
          <5>2. r \in 0 .. MaxRev BY <4>1, ConstantsAssumption DEF Rev
          <5> QED BY <5>1, <5>2
        <4>3. snap[r].parent # NoRev => /\ snap[r].parent \in 0 .. MaxRev /\ snap[r].parent < nextRev
                                        /\ snap[r].parent < r /\ Continues(r, snap[r].parent)
          BY <1>1, <4>1, <4>2, ConstantsAssumption DEF KeepInv, Lineage, Snapshot, Rev, NoRev
        <4>4. \A a \in Range(snap[r].ancestors) : a \in 0 .. MaxRev /\ a < nextRev /\ Continues(r, a)
          <5>1. \A a \in Range(snap[r].ancestors) : a \in Rev BY <4>2 DEF Snapshot, Range
          <5> QED BY <4>1, <5>1, ConstantsAssumption DEF KeepInv, Lineage, Rev
        <4>5. r < nextRev /\ r # nextRev BY <1>1, <3>1, <3>3, ConstantsAssumption DEF Rev
        <4>6. \A a \in 0 .. MaxRev : a < nextRev /\ Continues(r, a) => Continues(r, a)'
          BY <1>5, <3>1, <4>5
        <4>7. \A a \in 0 .. MaxRev : a < nextRev => a < nextRev'
          BY <1>1, ConstantsAssumption DEF Rev
        <4> QED BY <4>1, <4>3, <4>4, <4>6, <4>7
      <3> QED BY <3>2, <3>3
    <2> QED BY <2>1, <2>2 DEF Lineage
  <1>7. BasesKept' BY <1>3, <1>4 DEF KeepInv, BasesKept
  <1>8. PushesKeep'
    <2>1. ASSUME NEW n \in Machine \ {m}, op[n].stage \in PushStage PROVE Kept(n, op[n].rev)'
      <3>1. op[n].rev \in Rev /\ op[n].rev < nextRev BY <2>1, PushUnderWay DEF PushSound
      <3>2. op[n].rev \in 0 .. MaxRev /\ Kept(n, op[n].rev)
        BY <2>1, <3>1, ConstantsAssumption DEF KeepInv, PushesKeep, Rev
      <3>3. Kept(n, op[n].rev)' BY <1>1, <1>2, <3>1, <3>2, ConstantsAssumption DEF Kept, Passed, Rev
      <3> QED BY <3>3
    <2>2. Kept(m, op[m].rev)'
      <3>1. snap'[nextRev].files = local[m] BY <1>2
      <3> QED BY <1>1, <3>1 DEF Kept
    <2> QED BY <1>1, <2>1, <2>2 DEF PushesKeep
  <1>9. PullsKeep'
    <2>1. ASSUME NEW n \in Machine \ {m}, op[n].stage \in PullStage PROVE PlanKeeps(n, op[n])'
      <3>1. op[n].rev \in Rev /\ op[n].rev < nextRev BY <2>1, PullUnderWay DEF PullSound
      <3>2. snap'[op[n].rev] = snap[op[n].rev] BY <1>1, <1>2, <3>1, ConstantsAssumption DEF Rev
      <3>3. PlanKeeps(n, op[n]) BY <2>1 DEF KeepInv, PullsKeep
      <3>4. op'[n] = op[n] BY <1>1
      <3> QED BY <3>2, <3>3, <3>4 DEF PlanKeeps, Passed
    <2>2. op'[m].stage \notin PullStage BY <1>1 DEF PullStage
    <2> QED BY <1>1, <2>1, <2>2 DEF PullsKeep
  <1>10. AuthorsKeep' BY DEF KeepInv, AuthorsKeep
  <1> QED BY <1>6, <1>7, <1>8, <1>9, <1>10 DEF KeepInv

\* A plan leaves alone what both sides hold or the user gives up, and overwrites only what
\* the remote side has replaced knowingly or the user gives up.
LEMMA KeepPlanned ==
  ASSUME IndInv, KeepInv, NEW m \in Machine, NEW mode, NEW source \in Source,
         NEW resolve \in Resolve, NEW r \in Rev, r < nextRev,
         source = "live" => Follows(st[m].base, r),
         source = "head" => resolve = "remote",
         resolve = "none" => Conflicts(m, r) = {},
         Planned(m, mode, source, resolve, r),
         UNCHANGED <<snap, local, st, author, superseded, nextRev>>
  PROVE  KeepInv'
  <1> DEFINE taken == Taken(m, r, resolve)
             given == GivenUp(m, source, resolve, r) \ {Missing}
             base  == st[m].base
             x == [stage |-> "validate", mode |-> mode, copy |-> source = "history",
                   rev |-> r, etag |-> live, plan |-> [f \in taken |-> local[m][f]],
                   givenUp |-> given]
  <1>1. /\ op \in [Machine -> Operation] /\ base \in Rev \cup {NoRev} /\ base < nextRev
        /\ Kept(m, base)
    BY DEF IndInv, TypeOK, State, Allocated, KeepInv, BasesKept
  <1>2. op'[m] = x /\ \A n \in Machine \ {m} : op'[n] = op[n]
    <2>1. op' = [op EXCEPT ![m] = x] BY DEF Planned, Continue
    <2> HIDE DEF x
    <2> QED BY <1>1, <2>1
  <1>3. base = NoRev => \A f \in File : Base(m).files[f] = Missing
    BY DEF KeepInv, Lineage, NoSnapshot, Base
  <1>4. source = "live" /\ base # NoRev => Continues(r, base)
    BY <1>1, FollowsContinues DEF KeepInv
  <1>5. ASSUME NEW f \in File \ taken
        PROVE  LET c == snap[r].files[f] IN local[m][f] = c \/ Passed(c) \/ c \in given
    <2> DEFINE c == snap[r].files[f]
               b == Base(m).files[f]
    <2>1. local[m][f] = b \/ Passed(b) BY <1>1 DEF Kept, Base
    <2>2. ASSUME local[m][f] # c, ~Passed(c) PROVE c \in given
      <3>1. ~Takes(b, local[m][f], c, resolve) BY <1>5 DEF Taken
      <3>2. c # b /\ local[m][f] # b /\ resolve # "remote" BY <2>1, <2>2, <3>1 DEF Takes, Passed
      <3>3. f \in Conflicts(m, r) BY <2>2, <3>2 DEF Conflicts, Contested
      <3>4. resolve = "local" BY <3>2, <3>3 DEF Resolve
      <3> QED BY <2>2, <3>3, <3>4 DEF GivenUp, Passed
    <2> QED BY <2>2
  <1>6. ASSUME NEW f \in taken PROVE Passed(local[m][f]) \/ local[m][f] \in given
    <2> DEFINE c == snap[r].files[f]
               b == Base(m).files[f]
    <2>1. f \in File /\ Takes(b, local[m][f], c, resolve) BY <1>6 DEF Taken
    <2>2. CASE resolve = "remote" \/ source = "history" BY <1>6, <2>2 DEF GivenUp, Passed
    <2>3. CASE resolve # "remote" /\ source # "history"
      <3>1. c # b /\ local[m][f] = b BY <2>1, <2>3 DEF Takes
      <3>2. source = "live" BY <2>3 DEF Source
      <3>3. b = Missing \/ c = b \/ Passed(b)
        BY <1>3, <1>4, <2>1, <3>2 DEF Continues, Base
      <3> QED BY <3>1, <3>3 DEF Passed
    <2> QED BY <2>2, <2>3
  <1>7. PlanKeeps(m, x)
    <2>1. /\ x.rev = r /\ x.givenUp = given /\ DOMAIN x.plan = taken
          /\ \A f \in taken : x.plan[f] = local[m][f]
      OBVIOUS
    <2> HIDE DEF x, taken, given
    <2> QED BY <1>5, <1>6, <2>1 DEF PlanKeeps
  <1>8. x.stage \notin PushStage BY DEF PushStage
  <1> HIDE DEF x
  <1>9. Kept(m, st'[m].base) BY <1>1
  <1> QED BY <1>2, <1>7, <1>8, <1>9, KeepMoves

\* The machine becomes what the plan says and acknowledges the revision with it.  A content
\* another machine made may only be overwritten here; one made here is given up knowingly.
LEMMA KeepApply ==
  ASSUME IndInv, KeepInv, NEW m \in Machine, Apply(m)
  PROVE  KeepInv'
  <1> DEFINE o == op[m]
             new == [f \in File |-> IF f \in DOMAIN o.plan THEN snap[o.rev].files[f] ELSE local[m][f]]
  <1>1. TypeOK /\ o \in PullOp /\ o.rev \in Rev /\ PlanKeeps(m, o) /\ DOMAIN o.plan \subseteq File
    BY PullUnderWay, PullOpFields DEF IndInv, KeepInv, PullsKeep, Apply, PullStage
  <1>2. UNCHANGED <<snap, author, nextRev>> BY DEF Apply
  <1>3. CASE Finish(m) /\ UNCHANGED <<local, st, superseded, auto>>
    BY <1>2, <1>3, KeepGoesOn
  <1>4. CASE /\ PreconditionsHold(m)
             /\ local' = [local EXCEPT ![m] = new]
             /\ Acknowledge(m, o.etag, o.rev)
             /\ superseded' = superseded \cup o.givenUp
             /\ IF o.mode = "user"
                  THEN /\ Finish(m) /\ blocked' = [blocked EXCEPT ![m] = NoRev]
                       /\ UNCHANGED pending
                  ELSE Received(m, o.mode, new # snap[o.rev].files) /\ UNCHANGED blocked
    <2>1. local'[m] = new /\ \A n \in Machine \ {m} : local'[n] = local[n]
      <3> HIDE DEF new
      <3> QED BY <1>1, <1>4 DEF TypeOK
    <2>2. st'[m].base = o.rev /\ \A n \in Machine \ {m} : st'[n] = st[n]
      <3>1. st' = [st EXCEPT ![m] = [etag |-> o.etag, base |-> o.rev]] BY <1>4 DEF Acknowledge
      <3> HIDE DEF o
      <3> QED BY <1>1, <3>1 DEF TypeOK
    <2>3. \E x \in {Idle} \cup AutoOp : Continue(m, x)
      BY <1>1, <1>4, ReceivedTypes DEF Finish
    <2>4. op'[m].stage \notin PushStage \cup PullStage /\ \A n \in Machine \ {m} : op'[n] = op[n]
      BY <1>1, <2>3, AutoIsNoPushOrPull DEF Continue, TypeOK
    <2>5. \A c : Passed(c) \/ c \in o.givenUp => Passed(c)' BY <1>4 DEF Passed
    <2>6. Lineage' BY <1>2, <2>5 DEF KeepInv, Lineage, Continues
    <2>7. BasesKept'
      <3>1. ASSUME NEW f \in File
            PROVE  LET c == snap[o.rev].files[f] IN
                   new[f] = c \/ c = Missing \/ c \in superseded'
        BY <1>1, <1>4 DEF PlanKeeps, Passed
      <3>2. Kept(m, st[m].base)'
        <4> HIDE DEF o, new
        <4> QED BY <1>2, <2>1, <2>2, <3>1 DEF Kept, Passed
      <3>3. \A n \in Machine \ {m} : Kept(n, st[n].base)'
        BY <1>2, <2>1, <2>2, <2>5 DEF KeepInv, BasesKept, Kept
      <3> QED BY <3>2, <3>3 DEF BasesKept
    <2>8. PushesKeep' BY <1>2, <2>1, <2>4, <2>5 DEF KeepInv, PushesKeep, Kept
    <2>9. PullsKeep' BY <1>2, <2>1, <2>4, <2>5 DEF KeepInv, PullsKeep, PlanKeeps
    <2>10. AuthorsKeep'
      <3> SUFFICES ASSUME NEW c \in 1 .. Len(author), c \notin superseded'
                   PROVE  \E f \in File : local'[author[c]][f] = c
        BY <1>2 DEF AuthorsKeep
      <3>1. c # Missing BY <1>1 DEF Missing, TypeOK
      <3>2. c \notin superseded /\ c \notin o.givenUp BY <1>4
      <3>3. PICK f \in File : local[author[c]][f] = c BY <3>2 DEF KeepInv, AuthorsKeep
      <3>4. author[c] \in Machine BY <1>1 DEF TypeOK
      <3>5. CASE author[c] # m BY <2>1, <3>3, <3>4, <3>5
      <3>6. CASE author[c] = m
        <4>1. f \notin DOMAIN o.plan
          <5>1. f \in DOMAIN o.plan => o.plan[f] = c BY <1>4, <3>3, <3>6 DEF PreconditionsHold
          <5> QED BY <1>1, <3>1, <3>2, <5>1 DEF PlanKeeps, Passed
        <4> QED BY <2>1, <3>3, <3>6, <4>1
      <3> QED BY <3>5, <3>6
    <2> QED BY <2>6, <2>7, <2>8, <2>9, <2>10 DEF KeepInv
  <1> QED BY <1>3, <1>4 DEF Apply

\* An edit passes over what it replaces, which the user has seen.
LEMMA KeepEdit ==
  ASSUME IndInv, KeepInv, NEW m \in Machine, NEW f \in File, Edit(m, f)
  PROVE  KeepInv'
  <1> DEFINE fresh == Len(author) + 1
  <1>1. /\ TypeOK /\ author \in Seq(Machine) /\ Len(author) \in Nat
        /\ UNCHANGED <<snap, st, op, nextRev>>
    BY DEF IndInv, TypeOK, Edit
  <1>2. PICK new \in {fresh, Missing} \ {local[m][f]} :
          /\ local' = [local EXCEPT ![m][f] = new]
          /\ superseded' = superseded \cup ({local[m][f], fresh} \ {Missing, new})
    BY DEF Edit
  <1>3. /\ local'[m][f] = new
        /\ \A n \in Machine, g \in File : n # m \/ g # f => local'[n][g] = local[n][g]
    <2> HIDE DEF fresh
    <2> QED BY <1>1, <1>2 DEF TypeOK
  <1>4. local[m][f] = Missing \/ local[m][f] \in superseded' BY <1>2
  <1>5. \A c : Passed(c) => Passed(c)' BY <1>2 DEF Passed
  <1>6. \A n \in Machine, g \in File : 
          local'[n][g] = local[n][g] \/ local[n][g] = Missing \/ local[n][g] \in superseded'
    BY <1>3, <1>4
  <1>7. Lineage' BY <1>1, <1>5 DEF KeepInv, Lineage, Continues
  <1>8. ASSUME NEW n \in Machine, NEW r, Kept(n, r) PROVE Kept(n, r)'
    BY <1>1, <1>5, <1>6, <1>8 DEF Kept, Passed
  <1>9. BasesKept' /\ PushesKeep' BY <1>1, <1>8 DEF KeepInv, BasesKept, PushesKeep
  <1>10. PullsKeep'
    <2>1. ASSUME NEW n \in Machine, NEW o, PlanKeeps(n, o) PROVE PlanKeeps(n, o)'
      BY <1>1, <1>5, <1>6, <2>1 DEF PlanKeeps, Passed
    <2> QED BY <1>1, <2>1 DEF KeepInv, PullsKeep
  <1>11. AuthorsKeep'
    <2>1. /\ Len(author') = fresh /\ author'[fresh] = m
          /\ \A c \in 1 .. Len(author) : author'[c] = author[c]
      BY <1>1, AppendProperties DEF Edit
    <2> SUFFICES ASSUME NEW c \in 1 .. fresh, c \notin superseded'
                 PROVE  \E g \in File : local'[author'[c]][g] = c
      BY <2>1 DEF AuthorsKeep
    <2>2. CASE c = fresh
      <3>1. new = fresh BY <1>1, <1>2, <2>2 DEF Missing
      <3> QED BY <1>3, <2>1, <2>2, <3>1
    <2>3. CASE c # fresh
      <3>1. c \in 1 .. Len(author) /\ c # Missing BY <1>1, <2>3 DEF Missing
      <3>2. PICK g \in File : local[author[c]][g] = c
        BY <1>2, <3>1 DEF KeepInv, AuthorsKeep
      <3>3. author[c] \in Machine /\ author'[c] = author[c] BY <1>1, <2>1, <3>1
      <3> QED BY <1>6, <3>1, <3>2, <3>3
    <2> QED BY <2>2, <2>3
  <1> QED BY <1>7, <1>9, <1>10, <1>11 DEF KeepInv

\* The machine may acknowledge the revision whose push it has finished.
LEMMA KeepSave ==
  ASSUME IndInv, KeepInv, NEW m \in Machine, SaveState(m)
  PROVE  KeepInv'
  <1>1. /\ TypeOK /\ UNCHANGED <<snap, local, author, superseded, nextRev>>
        /\ Kept(m, op[m].rev) /\ Kept(m, st[m].base)
    BY DEF IndInv, SaveState, ghosts, KeepInv, PushesKeep, BasesKept, PushStage
  <1>2. st'[m].base \in {st[m].base, op[m].rev} /\ \A n \in Machine \ {m} : st'[n] = st[n]
    BY <1>1 DEF SaveState, Acknowledge, TypeOK
  <1>3. op'[m] = Idle /\ \A n \in Machine \ {m} : op'[n] = op[n]
    BY <1>1 DEF SaveState, Finish, Continue, TypeOK
  <1>4. Kept(m, st'[m].base) BY <1>1, <1>2
  <1> QED BY <1>1, <1>2, <1>3, <1>4, IdleFacts, KeepMoves DEF PushStage, PullStage

\* The steps of operations under way.
LEMMA KeepStep ==
  ASSUME IndInv, KeepInv, NEW m \in Machine, Step(m)
  PROVE  KeepInv'
  <1>1. CASE PutDated(m) \/ PutLive(m) \/ RemoveCandidate(m)
    <2>1. UNCHANGED <<snap, local, st, author, superseded, nextRev>>
      BY <1>1 DEF PutDated, PutLive, RemoveCandidate, ghosts
    <2>2. \/ Finish(m)
          \/ \E s \in PushStage : op[m].stage \in PushStage /\ Continue(m, [op[m] EXCEPT !.stage = s])
      BY <1>1 DEF PutDated, PutLive, RemoveCandidate, GiveUpWrite, PushStage
    <2> QED BY <2>1, <2>2, KeepGoesOn
  <1>2. CASE SaveState(m) BY <1>2, KeepSave
  <1>3. CASE Validate(m)
    <2>1. UNCHANGED <<snap, local, st, author, superseded, nextRev>> BY <1>3 DEF Validate, ghosts
    <2>2. \/ Finish(m)
          \/ \E s \in PullStage : op[m].stage \in PullStage /\ Continue(m, [op[m] EXCEPT !.stage = s])
      BY <1>3 DEF Validate, PullStage
    <2> QED BY <2>1, <2>2, KeepGoesOn
  <1>4. CASE Apply(m) BY <1>4, KeepApply
  <1>5. CASE AutoGet(m)
    <2>1. UNCHANGED <<snap, local, st, author, superseded, nextRev>> BY <1>5 DEF AutoGet, ghosts
    <2>2. CASE Finish(m) BY <2>1, <2>2, KeepGoesOn
    <2>3. CASE /\ Follows(st[m].base, live) /\ Conflicts(m, live) = {}
               /\ Planned(m, op[m].mode, "live", "none", live)
      <3>1. live \in Rev /\ live < nextRev BY DEF IndInv, TypeOK, Allocated
      <3> QED BY <2>1, <2>3, <3>1, KeepPlanned DEF Source, Resolve
    <2> QED BY <1>5, <2>2, <2>3 DEF AutoGet
  <1>6. CASE SendNow(m)
    <2>1. UNCHANGED <<local, st, author, superseded>> BY <1>6 DEF SendNow, ghosts
    <2>2. CASE Collect(m, st[m].etag, FALSE) BY <2>1, <2>2, KeepCollected
    <2>3. CASE Finish(m) /\ UNCHANGED <<snap, nextRev>> BY <2>1, <2>3, KeepGoesOn
    <2> QED BY <1>6, <2>2, <2>3 DEF SendNow, Send
  <1> QED BY <1>1, <1>2, <1>3, <1>4, <1>5, <1>6 DEF Step

\* What users and the scheduler begin, and crashes.
LEMMA KeepRequest ==
  ASSUME IndInv, KeepInv, NEW m \in Machine,
         \/ Push(m) \/ ForcePush(m) \/ UserPull(m)
         \/ Look(m, "poll") \/ Look(m, "now") \/ SendScheduled(m) \/ Crash(m)
  PROVE  KeepInv'
  <1>1. CASE Push(m) \/ ForcePush(m)
    <2>1. UNCHANGED <<local, st, author, superseded>> BY <1>1 DEF Push, ForcePush, ghosts
    <2>2. Collect(m, st[m].etag, FALSE) \/ Collect(m, live, TRUE) BY <1>1 DEF Push, ForcePush
    <2> QED BY <2>1, <2>2, KeepCollected
  <1>2. CASE UserPull(m)
    <2>1. PICK source \in Source, resolve \in Resolve :
            /\ Pull(m, source, resolve)
            /\ source = "head" => resolve = "remote"
      BY <1>2 DEF UserPull, Source, Resolve
    <2>2. UNCHANGED <<snap, local, st, author, superseded, nextRev>> BY <2>1 DEF Pull, ghosts
    <2>3. PICK r \in dated \cup {live} :
            /\ source = "live" => Follows(st[m].base, r)
            /\ resolve = "none" => Conflicts(m, r) = {}
            /\ Planned(m, "user", source, resolve, r)
      BY <2>1 DEF Pull
    <2>4. r \in Rev /\ r < nextRev BY DEF IndInv, TypeOK, Allocated
    <2> QED BY <2>1, <2>2, <2>3, <2>4, KeepPlanned
  <1>3. CASE Look(m, "poll") \/ Look(m, "now")
    <2>1. PICK mode \in {"poll", "now"} : Look(m, mode) BY <1>3
    <2>2. UNCHANGED <<snap, local, st, author, superseded, nextRev>> BY <2>1 DEF Look, ghosts
    <2>3. op' = op \/ \E x \in {Idle} \cup AutoOp : Continue(m, x)
      <3>1. [stage |-> "get", mode |-> mode, etag |-> live] \in AutoOp
        BY DEF IndInv, TypeOK, AutoOp
      <3> QED BY <2>1, <3>1, ReceivedTypes DEF Look
    <2>4. CASE op' = op
      BY <2>2, <2>4, KeepMoves DEF KeepInv, BasesKept, PushesKeep, PullsKeep
    <2> QED BY <2>2, <2>3, <2>4, KeepGoesOn
  <1>4. CASE SendScheduled(m)
    <2>1. UNCHANGED <<local, st, author, superseded>> BY <1>4 DEF SendScheduled, ghosts
    <2>2. CASE Collect(m, st[m].etag, FALSE) BY <2>1, <2>2, KeepCollected
    <2>3. CASE Finish(m) /\ UNCHANGED <<snap, nextRev>> BY <2>1, <2>3, KeepGoesOn
    <2> QED BY <1>4, <2>2, <2>3 DEF SendScheduled, Send
  <1>5. CASE Crash(m)
    <2>1. UNCHANGED <<snap, local, st, author, superseded, nextRev>> /\ Finish(m)
      BY <1>5 DEF Crash, ghosts
    <2> QED BY <2>1, KeepGoesOn
  <1> QED BY <1>1, <1>2, <1>3, <1>4, <1>5

\* Nothing has been written yet.
LEMMA InitKeepInv == Init => KeepInv
  <1> SUFFICES ASSUME Init PROVE KeepInv OBVIOUS
  <1>1. /\ \A r \in 0 .. MaxRev : snap[r] = NoSnapshot
        /\ \A m \in Machine : local[m] = NoSnapshot.files
        /\ \A m \in Machine : st[m].base \in 0 .. MaxRev
    BY ConstantsAssumption DEF Init, Setup, NoRev
  <1>2. NoSnapshot.files = [f \in File |-> Missing] /\ NoSnapshot.parent = NoRev
        /\ NoSnapshot.ancestors = <<>>
    BY DEF NoSnapshot
  <1>3. Lineage
    <2>1. nextRev = 2 /\ 1 \in 0 .. MaxRev /\ NoRev \in 0 .. MaxRev
      BY ConstantsAssumption DEF Init, NoRev
    <2> QED BY <1>1, <1>2, <2>1 DEF Lineage, Range
  <1>4. BasesKept BY <1>1 DEF BasesKept, Kept
  <1>5. PushesKeep /\ PullsKeep BY IdleFacts DEF Init, PushesKeep, PullsKeep, PushStage, PullStage
  <1>6. AuthorsKeep BY DEF Init, AuthorsKeep
  <1> QED BY <1>3, <1>4, <1>5, <1>6 DEF KeepInv

\* Every step keeps the line of every machine.
LEMMA NextKeepInv == IndInv /\ KeepInv /\ [Next]_vars => KeepInv'
  <1> SUFFICES ASSUME IndInv, KeepInv, [Next]_vars PROVE KeepInv' OBVIOUS
  <1>1. CASE Next
    <2>1. PICK m \in Machine :
            \/ Step(m) \/ Push(m) \/ ForcePush(m) \/ UserPull(m)
            \/ Look(m, "poll") \/ Look(m, "now") \/ SendScheduled(m)
            \/ \E f \in File : Edit(m, f)
            \/ Crash(m)
      BY <1>1 DEF Next
    <2> QED BY <2>1, KeepStep, KeepRequest, KeepEdit
  <1>2. CASE UNCHANGED vars
    BY <1>2 DEF vars, ghosts, KeepInv, Lineage, Continues, Passed, BasesKept, Kept, PushesKeep,
       PullsKeep, PlanKeeps, AuthorsKeep
  <1> QED BY <1>1, <1>2

\* The line of every machine is never broken.
LEMMA SpecKeepInv == Spec => []KeepInv
  BY InitKeepInv, NextKeepInv, Inductive, PTL DEF Spec

-----------------------------------------------------------------------------
(* The dated copies *)

Candidate == {"dated", "live", "cleanup"}

\* Until it is live the candidate of a push is nobody else's, and its copy comes first.
Candidates ==
  /\ \A m \in Machine : op[m].stage \in Candidate => op[m].rev # live
  /\ \A m \in Machine : op[m].stage = "live" => op[m].rev \in dated
  /\ \A m, n \in Machine :
       m # n /\ op[m].stage \in PushStage /\ op[n].stage \in PushStage => op[m].rev # op[n].rev

CopiesInv == HeadIsInHistory /\ Candidates

\* An operation that is no push, or the same push.
LEMMA CopiesGoOn ==
  ASSUME IndInv, CopiesInv, NEW m \in Machine, UNCHANGED live,
         \A n \in Machine \ {m} : op'[n] = op[n],
         op'[m].stage \in PushStage => op[m].stage \in PushStage /\ op'[m].rev = op[m].rev,
         op'[m].stage \in Candidate => op[m].rev # live,
         op'[m].stage = "live" => op[m].rev \in dated',
         dated \ (IF op[m].stage = "cleanup" THEN {op[m].rev} ELSE {}) \subseteq dated'
  PROVE  CopiesInv'
  <1>1. HeadIsInHistory'
    BY DEF CopiesInv, Candidates, HeadIsInHistory, Candidate
  <1>2. ASSUME NEW n \in Machine, op'[n].stage \in Candidate PROVE op'[n].rev # live'
    BY <1>2 DEF CopiesInv, Candidates, Candidate, PushStage
  <1>3. ASSUME NEW n \in Machine, op'[n].stage = "live" PROVE op'[n].rev \in dated'
    BY <1>3 DEF CopiesInv, Candidates, PushStage
  <1>4. ASSUME NEW n \in Machine, NEW k \in Machine, n # k, op'[n].stage \in PushStage,
               op'[k].stage \in PushStage
        PROVE  op'[n].rev # op'[k].rev
    BY <1>4 DEF CopiesInv, Candidates
  <1> QED BY <1>1, <1>2, <1>3, <1>4 DEF CopiesInv, Candidates

\* The operation ends, or goes on as one that is no push.
LEMMA CopiesLeft ==
  ASSUME IndInv, CopiesInv, NEW m \in Machine, NEW x, Continue(m, x), UNCHANGED bucket,
         x.stage \notin PushStage
  PROVE  CopiesInv'
  <1>1. op'[m] = x /\ \A n \in Machine \ {m} : op'[n] = op[n]
    BY DEF IndInv, TypeOK, Continue
  <1>2. UNCHANGED <<live, dated>> BY DEF bucket
  <1> QED BY <1>1, <1>2, CopiesGoOn DEF PushStage, Candidate

\* A new candidate has a revision of its own.
LEMMA CopiesCollected ==
  ASSUME IndInv, CopiesInv, NEW m \in Machine, NEW etag, NEW forced, Collect(m, etag, forced),
         UNCHANGED bucket
  PROVE  CopiesInv'
  <1> DEFINE x == [stage |-> "dated", forced |-> forced, rev |-> nextRev, etag |-> etag]
  <1>1. /\ TypeOK /\ nextRev \in Nat /\ live \in Nat /\ live < nextRev /\ UNCHANGED <<live, dated>>
        /\ op'[m] = x /\ \A n \in Machine \ {m} : op'[n] = op[n]
    BY ConstantsAssumption DEF IndInv, TypeOK, Allocated, Collect, Rev, Continue, bucket
  <1>2. \A n \in Machine : op[n].stage \in PushStage => op[n].rev \in Nat /\ op[n].rev < nextRev
    BY PushUnderWay, ConstantsAssumption DEF PushSound, Rev
  <1>3. HeadIsInHistory' BY <1>1 DEF CopiesInv, HeadIsInHistory
  <1>4. ASSUME NEW n \in Machine, op'[n].stage \in Candidate PROVE op'[n].rev # live'
    BY <1>1, <1>4 DEF CopiesInv, Candidates
  <1>5. ASSUME NEW n \in Machine, op'[n].stage = "live" PROVE op'[n].rev \in dated'
    BY <1>1, <1>5 DEF CopiesInv, Candidates
  <1>6. ASSUME NEW n \in Machine, NEW k \in Machine, n # k, op'[n].stage \in PushStage,
               op'[k].stage \in PushStage
        PROVE  op'[n].rev # op'[k].rev
    <2>1. CASE n = m BY <1>1, <1>2, <1>6, <2>1
    <2>2. CASE k = m BY <1>1, <1>2, <1>6, <2>2
    <2>3. CASE n # m /\ k # m BY <1>1, <1>6, <2>3 DEF CopiesInv, Candidates
    <2> QED BY <2>1, <2>2, <2>3
  <1> QED BY <1>3, <1>4, <1>5, <1>6 DEF CopiesInv, Candidates

\* The push itself.  With no repeated write a refusal means that the candidate has lost.
LEMMA CopiesPush ==
  ASSUME IndInv, CopiesInv, MaxRetries = 0, NEW m \in Machine,
         PutDated(m) \/ PutLive(m) \/ RemoveCandidate(m) \/ SaveState(m)
  PROVE  CopiesInv'
  <1>1. /\ op[m].stage \in PushStage /\ op[m] \in PushOp /\ op \in [Machine -> Operation]
        /\ retries = 0
    BY PushUnderWay DEF PutDated, PutLive, RemoveCandidate, SaveState, PushStage, IndInv, TypeOK
  <1>2. ASSUME NEW s \in PushStage, Continue(m, [op[m] EXCEPT !.stage = s])
        PROVE  /\ op'[m].stage = s /\ op'[m].rev = op[m].rev
               /\ \A n \in Machine \ {m} : op'[n] = op[n]
    <2> DEFINE x == [op[m] EXCEPT !.stage = s]
    <2>1. x.stage = s /\ x.rev = op[m].rev BY <1>1, PushOpFields
    <2>2. op' = [op EXCEPT ![m] = x] BY <1>2 DEF Continue
    <2> HIDE DEF x
    <2> QED BY <1>1, <2>1, <2>2
  <1>3. ASSUME Finish(m)
        PROVE  op'[m] = Idle /\ \A n \in Machine \ {m} : op'[n] = op[n]
    BY <1>1, <1>3 DEF Finish, Continue
  <1>4. Idle.stage \notin PushStage /\ Candidate \subseteq PushStage /\ "live" \in Candidate
    BY IdleFacts DEF PushStage, Candidate
  <1>5. CASE PutDated(m)
    <2>1. /\ UNCHANGED live /\ op[m].stage \in Candidate /\ dated \subseteq dated'
      BY <1>5 DEF PutDated, Candidate
    <2>2. op[m].rev # live BY <2>1 DEF CopiesInv, Candidates
    <2>3. CASE dated' = dated \cup {op[m].rev} /\ Continue(m, [op[m] EXCEPT !.stage = "live"])
      <3>1. op'[m].stage = "live" /\ op'[m].rev = op[m].rev
            /\ \A n \in Machine \ {m} : op'[n] = op[n]
        BY <1>2, <2>3 DEF PushStage
      <3> QED BY <1>1, <2>1, <2>2, <2>3, <3>1, CopiesGoOn
    <2>4. CASE Finish(m) BY <1>3, <1>4, <2>1, <2>4, CopiesGoOn
    <2> QED BY <1>5, <2>3, <2>4 DEF PutDated
  <1>6. CASE PutLive(m)
    <2>1. /\ UNCHANGED dated /\ op[m].rev # live /\ op[m].rev \in dated
      BY <1>6 DEF PutLive, CopiesInv, Candidates, Candidate
    <2>2. CASE live' = op[m].rev /\ (Finish(m) \/ Continue(m, [op[m] EXCEPT !.stage = "save"]))
      <3>1. op'[m].stage \notin Candidate /\ (op'[m].stage \in PushStage => op'[m].rev = op[m].rev)
            /\ \A n \in Machine \ {m} : op'[n] = op[n]
        BY <1>2, <1>3, <1>4, <2>2 DEF PushStage, Candidate
      <3>2. HeadIsInHistory' BY <2>1, <2>2 DEF HeadIsInHistory
      <3>3. ASSUME NEW n \in Machine, op'[n].stage \in Candidate PROVE op'[n].rev # live'
        BY <1>1, <1>4, <2>2, <3>1, <3>3 DEF CopiesInv, Candidates
      <3>4. ASSUME NEW n \in Machine, op'[n].stage = "live" PROVE op'[n].rev \in dated'
        BY <1>4, <2>1, <3>1, <3>4 DEF CopiesInv, Candidates
      <3>5. ASSUME NEW n \in Machine, NEW k \in Machine, n # k, op'[n].stage \in PushStage,
                   op'[k].stage \in PushStage
            PROVE  op'[n].rev # op'[k].rev
        BY <1>1, <3>1, <3>5 DEF CopiesInv, Candidates
      <3> QED BY <3>2, <3>3, <3>4, <3>5 DEF CopiesInv, Candidates
    <2>3. CASE UNCHANGED live /\ (Finish(m) \/ Continue(m, [op[m] EXCEPT !.stage = "cleanup"]))
      <3>1. /\ op'[m].stage \in PushStage => op'[m].rev = op[m].rev
            /\ op'[m].stage # "live" /\ \A n \in Machine \ {m} : op'[n] = op[n]
        BY <1>2, <1>3, <1>4, <2>3 DEF PushStage
      <3>2. op[m].stage = "live" BY <1>6 DEF PutLive
      <3> QED BY <1>1, <2>1, <2>3, <3>1, <3>2, CopiesGoOn
    <2>4. ~Retry BY <1>1 DEF Retry
    <2> QED BY <1>6, <2>2, <2>3, <2>4 DEF PutLive, GiveUpWrite
  <1>7. CASE RemoveCandidate(m)
    <2>1. /\ UNCHANGED live /\ op[m].stage = "cleanup" /\ Finish(m) /\ dated \ {op[m].rev} \subseteq dated'
      BY <1>7 DEF RemoveCandidate
    <2> QED BY <1>3, <1>4, <2>1, CopiesGoOn
  <1>8. CASE SaveState(m)
    <2>1. UNCHANGED <<live, dated>> /\ Finish(m) BY <1>8 DEF SaveState, bucket
    <2> QED BY <1>3, <1>4, <2>1, CopiesGoOn
  <1> QED BY <1>5, <1>6, <1>7, <1>8

\* Every step keeps the copies in order.
LEMMA CopiesNext ==
  ASSUME IndInv, CopiesInv, MaxRetries = 0, [Next]_vars
  PROVE  CopiesInv'
  <1>1. CASE UNCHANGED vars
    BY <1>1 DEF vars, bucket, CopiesInv, HeadIsInHistory, Candidates
  <1>2. CASE Next
    <2>1. PICK m \in Machine :
            \/ Step(m) \/ Push(m) \/ ForcePush(m) \/ UserPull(m)
            \/ Look(m, "poll") \/ Look(m, "now") \/ SendScheduled(m)
            \/ \E f \in File : Edit(m, f)
            \/ Crash(m)
      BY <1>2 DEF Next
    <2>2. ASSUME NEW mode, NEW source, NEW resolve, NEW r, UNCHANGED bucket,
                 Planned(m, mode, source, resolve, r)
          PROVE  CopiesInv'
      <3> DEFINE x == [stage |-> "validate", mode |-> mode, copy |-> source = "history",
                       rev |-> r, etag |-> live,
                       plan |-> [f \in Taken(m, r, resolve) |-> local[m][f]],
                       givenUp |-> GivenUp(m, source, resolve, r) \ {Missing}]
      <3>1. Continue(m, x) /\ x.stage \notin PushStage BY <2>2 DEF Planned, PushStage
      <3> HIDE DEF x
      <3> QED BY <2>2, <3>1, CopiesLeft
    <2>3. ASSUME UNCHANGED bucket, Finish(m) PROVE CopiesInv'
      BY <2>3, IdleFacts, CopiesLeft DEF Finish, PushStage
    <2>4. ASSUME UNCHANGED bucket, NEW x \in {Idle} \cup AutoOp, Continue(m, x) PROVE CopiesInv'
      BY <2>4, AutoIsNoPushOrPull, CopiesLeft
    <2>5. ASSUME UNCHANGED bucket, op' = op PROVE CopiesInv'
      BY <2>5 DEF bucket, CopiesInv, HeadIsInHistory, Candidates
    <2>6. CASE PutDated(m) \/ PutLive(m) \/ RemoveCandidate(m) \/ SaveState(m)
      BY <2>6, CopiesPush
    <2>7. CASE Validate(m)
      <3>1. UNCHANGED bucket /\ op[m].stage \in PullStage BY <2>7 DEF Validate, PullStage
      <3>2. CASE Continue(m, [op[m] EXCEPT !.stage = "apply"])
        <4> DEFINE x == [op[m] EXCEPT !.stage = "apply"]
        <4>1. x.stage = "apply" BY <3>1, PullUnderWay, PullOpFields DEF PullStage
        <4> HIDE DEF x
        <4>2. Continue(m, x) BY <3>2 DEF x
        <4>3. x.stage \notin PushStage BY <4>1 DEF PushStage
        <4> QED BY <3>1, <4>2, <4>3, CopiesLeft
      <3> QED BY <2>3, <2>7, <3>1, <3>2 DEF Validate
    <2>8. CASE Apply(m)
      <3>1. UNCHANGED bucket BY <2>8 DEF Apply
      <3>2. \E x \in {Idle} \cup AutoOp : Continue(m, x)
        BY <2>8, ReceivedTypes DEF Apply, Finish
      <3> QED BY <2>4, <3>1, <3>2
    <2>9. CASE AutoGet(m) BY <2>2, <2>3, <2>9 DEF AutoGet
    <2>10. CASE UserPull(m) BY <2>2, <2>10 DEF UserPull, Pull
    <2>11. CASE Look(m, "poll") \/ Look(m, "now")
      <3>1. PICK mode \in {"poll", "now"} : Look(m, mode) BY <2>11
      <3>2. op' = op \/ \E x \in {Idle} \cup AutoOp : Continue(m, x)
        <4>1. [stage |-> "get", mode |-> mode, etag |-> live] \in AutoOp
          BY DEF IndInv, TypeOK, AutoOp
        <4> QED BY <3>1, <4>1, ReceivedTypes DEF Look
      <3> QED BY <2>4, <2>5, <3>1, <3>2 DEF Look
    <2>12. CASE Push(m) \/ ForcePush(m)
      BY <2>12, CopiesCollected DEF Push, ForcePush
    <2>13. CASE SendNow(m) \/ SendScheduled(m)
      <3>1. UNCHANGED bucket BY <2>13 DEF SendNow, SendScheduled
      <3>2. Collect(m, st[m].etag, FALSE) \/ Finish(m) BY <2>13 DEF SendNow, SendScheduled, Send
      <3> QED BY <2>3, <3>1, <3>2, CopiesCollected
    <2>14. CASE Crash(m) BY <2>3, <2>14 DEF Crash
    <2>15. CASE \E f \in File : Edit(m, f) BY <2>5, <2>15 DEF Edit
    <2> QED BY <2>1, <2>6, <2>7, <2>8, <2>9, <2>10, <2>11, <2>12, <2>13, <2>14, <2>15 DEF Step
  <1> QED BY <1>1, <1>2

\* The setup writes the copy and the live object.
LEMMA InitCopies == Init => CopiesInv
  BY IdleFacts DEF Init, CopiesInv, HeadIsInHistory, Candidates, Candidate, PushStage

-----------------------------------------------------------------------------
(* No edit is lost *)

\* However pushes, pulls, restores, lost answers and crashes are mixed, a content that
\* nobody replaced by an edit over it or by asking for the other side is still on the
\* machine that made it (collect.go, plan.go, pull.go): more than NothingLost asks for.
THEOREM EditsStay == Spec => []AuthorsKeep
PROOF
  <1>1. KeepInv => AuthorsKeep BY DEF KeepInv
  <1> QED BY <1>1, SpecKeepInv, PTL

\* No edit is lost behind its author's back (NothingLost).
THEOREM NothingIsLost == Spec => []NothingLost
PROOF
  <1>1. IndInv /\ KeepInv => NothingLost
    <2> SUFFICES ASSUME IndInv, KeepInv, NEW c \in 1 .. Len(author), c \notin superseded
                 PROVE  InLocal(c)
      BY DEF NothingLost
    <2>1. author[c] \in Machine BY DEF IndInv, TypeOK
    <2> QED BY <2>1 DEF KeepInv, AuthorsKeep, InLocal
  <1> QED BY <1>1, Inductive, SpecKeepInv, PTL

\* With a store whose writes are not repeated by the SDK the live snapshot always has its
\* dated copy (push.go:233), and no edit is lost.  With a repeated write the code breaks
\* it, as the run sync_lost_answer shows.
THEOREM ContentsKept == MaxRetries = 0 /\ Spec => []ContentsAreKept
PROOF
  <1>1. MaxRetries = 0 /\ IndInv /\ CopiesInv /\ [Next]_vars => CopiesInv' BY CopiesNext
  <1>2. MaxRetries = 0 => [](MaxRetries = 0)
    <2>1. MaxRetries = 0 => (MaxRetries = 0)' OBVIOUS
    <2> QED BY <2>1, PTL
  <1>3. MaxRetries = 0 /\ Spec => []CopiesInv
    BY <1>1, <1>2, InitCopies, Inductive, PTL DEF Spec
  <1>4. CopiesInv /\ NothingLost => ContentsAreKept BY DEF CopiesInv, ContentsAreKept
  <1> QED BY <1>3, <1>4, NothingIsLost, PTL
=============================================================================
