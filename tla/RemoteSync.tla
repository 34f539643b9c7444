----------------------------- MODULE RemoteSync -----------------------------
(***************************************************************************)
(* internal/remotesync: machines that keep the files of ~/.ssh the same    *)
(* through one object of a bucket, the live snapshot.  Nobody coordinates  *)
(* them but the object store: a push replaces the live snapshot only if    *)
(* its ETag is the one this machine last saw, and a pull compares three    *)
(* generations of every file.  A machine remembers what it last synced in  *)
(* its state file, which a pull writes in the same storage transaction as  *)
(* the files (the promise of AtomicWorkspace) and a push after the fact.   *)
(*                                                                         *)
(* A content is the number of the edit that made it; a revision is the     *)
(* number of the snapshot that Collect made.  Every snapshot is sealed     *)
(* anew, so the ETag of the live object is its revision.  The bucket has   *)
(* been set up: revision 1 is the snapshot without files that              *)
(* placeSetupSnapshot puts there.  Rotation of the sync key, removal of    *)
(* the live object, a change of the binding and ignore rules are outside   *)
(* this module.                                                            *)
(***************************************************************************)
EXTENDS Integers, Sequences, FiniteSets, Functions

CONSTANTS
  Machine, File,
  Directions,       \* how the machines may be set up: to send, to receive, or both
  UserOps,          \* what users do besides editing
  Automatic,        \* machines with automatic sync on and the vault unlocked
  MaxAncestors,     \* MaxManifestAncestors
  MaxRev, MaxEdits, MaxFaults, MaxRetries, MaxCrashes   \* bounds of the model

Missing == 0
Content == 0 .. MaxEdits
Rev     == 1 .. MaxRev
NoRev   == 0
Setup   == 1

Source  == {"live", "head", "history"}
Resolve == {"none", "local", "remote"}

ASSUME ConstantsAssumption ==
  /\ Directions \subseteq [Machine -> {"both", "push", "pull"}]
  /\ UserOps \subseteq {"push", "force", "pull", "accept", "restore", "now"}
  /\ Automatic \subseteq Machine
  /\ MaxAncestors \in Nat \ {0}
  /\ MaxRev \in Nat \ {0} /\ MaxEdits \in Nat
  /\ MaxFaults \in Nat /\ MaxRetries \in Nat /\ MaxCrashes \in Nat

Snapshot == [files : [File -> Content], parent : Rev \cup {NoRev}, ancestors : Seq(Rev)]
NoSnapshot == [files |-> [f \in File |-> Missing], parent |-> NoRev, ancestors |-> <<>>]

\* state: etag is NoRev and base is NoRev on a machine that has never synced.
State == [etag : Rev \cup {NoRev}, base : Rev \cup {NoRev}]

PushOp == [stage : {"dated", "live", "cleanup", "save"}, forced : BOOLEAN, rev : Rev,
           etag : Rev \cup {NoRev}]
\* The plan of a pull: the files it takes, each with the content it expects to replace.
PullOp == [stage : {"validate", "apply"}, mode : {"user", "poll", "now"}, copy : BOOLEAN,
           rev : Rev, etag : Rev, plan : UNION {[taken -> Content] : taken \in SUBSET File},
           givenUp : SUBSET Content]
AutoOp == [stage : {"get", "send"}, mode : {"poll", "now"}, etag : Rev \cup {NoRev}]
Idle   == [stage |-> "idle"]
Operation == {Idle} \cup PushOp \cup PullOp \cup AutoOp

VARIABLES
  live,         \* the revision of the live object
  dated,        \* the revisions with a dated copy in the bucket
  snap,         \* what each revision holds
  local,        \* the files of each machine
  st,           \* the state file of each machine
  direction,    \* the direction each machine is set up for
  op,           \* the operation that holds operationMutex
  pending,      \* a push is scheduled
  blocked,      \* blockedETag: the generation automatic sync stopped at
  author,       \* the machine of each edit, in order
  superseded,   \* contents somebody knowingly replaced
  nextRev, faults, retries, crashes

bucket == <<live, dated>>
auto   == <<pending, blocked>>
ghosts == <<author, superseded>>
bounds == <<faults, retries, crashes>>
vars   == <<bucket, snap, local, st, direction, op, auto, ghosts, nextRev, bounds>>

-----------------------------------------------------------------------------
(* Comparing generations *)

Base(m) == snap[st[m].base]

\* diverged
Diverged(m) == local[m] # Base(m).files

Sends(m)    == direction[m] # "pull"
Receives(m) == direction[m] # "push"

AncestorsUncut(base) == IF base = NoRev THEN <<>> ELSE <<base>> \o snap[base].ancestors

\* manifestAncestors
Ancestors(base) ==
  LET chain == <<base>> \o snap[base].ancestors
  IN IF base = NoRev THEN <<>>
     ELSE SubSeq(chain, 1, IF Len(chain) < MaxAncestors THEN Len(chain) ELSE MaxAncestors)

\* lineageReaches: the way from revision r back to wanted over the dated copies.
LineageReaches(r, wanted) ==
  LET reaches[x \in 0 .. MaxRev] ==
        x # NoRev /\ (x = wanted \/ (x \in dated /\ reaches[snap[x].parent]))
  IN reaches[r]

\* liveSnapshotFollows
Follows(base, r) ==
  \/ base = NoRev \/ r = base
  \/ snap[r].parent = base
  \/ base \in Range(snap[r].ancestors)
  \/ LineageReaches(snap[r].parent, base)

(* PlanEntries, per file: what was last synced, what the machine has, what it would get. *)

ContestedIfKnown(base, now, remote) ==
  base # Missing /\ now # base /\ remote # base /\ now # remote

\* A content that both sides changed is never merged.
Contested(base, now, remote) == now # base /\ remote # base /\ now # remote

\* A local change nobody contests is kept, unless the remote side is asked for.
Takes(base, now, remote, resolve) ==
  /\ now # remote
  /\ IF remote # base THEN now = base \/ resolve = "remote"
     ELSE remote # Missing /\ resolve = "remote"

Conflicts(m, r) ==
  {f \in File : Contested(Base(m).files[f], local[m][f], snap[r].files[f])}

Taken(m, r, resolve) ==
  {f \in File : Takes(Base(m).files[f], local[m][f], snap[r].files[f], resolve)}

Removals(m, r) == {f \in Taken(m, r, "none") : snap[r].files[f] = Missing}

-----------------------------------------------------------------------------
(* Control *)

Continue(m, next) == op' = [op EXCEPT ![m] = next]
Finish(m) == Continue(m, Idle)

Succeed == UNCHANGED <<faults, retries>>
Fault   == faults < MaxFaults /\ faults' = faults + 1 /\ UNCHANGED retries
\* The SDK repeats by itself a request whose answer was lost.
Retry   == retries < MaxRetries /\ retries' = retries + 1 /\ UNCHANGED faults

-----------------------------------------------------------------------------
(* Push *)

\* push up to the sealed snapshot.  The expected ETag is the one of the state, or the
\* one the user confirmed for a forced push.
Collect(m, etag, forced) ==
  /\ nextRev <= MaxRev /\ nextRev' = nextRev + 1
  /\ snap' = [snap EXCEPT ![nextRev] = [files |-> local[m], parent |-> st[m].base,
                                        ancestors |-> Ancestors(st[m].base)]]
  /\ Continue(m, [stage |-> "dated", forced |-> forced, rev |-> nextRev, etag |-> etag])

\* PushUsing.  Without a difference to the base there is nothing to push.
Push(m) ==
  /\ "push" \in UserOps
  /\ op[m] = Idle /\ Sends(m)
  /\ st[m].base = NoRev \/ Diverged(m)
  /\ Collect(m, st[m].etag, FALSE)
  /\ UNCHANGED <<bucket, local, st, auto, ghosts, bounds>>

\* ForcePushUsing, confirmed for the generation that is live now: for an older one it
\* is refused and changes nothing.
ForcePush(m) ==
  /\ "force" \in UserOps
  /\ op[m] = Idle /\ Sends(m)
  /\ Collect(m, live, TRUE)
  /\ UNCHANGED <<bucket, local, st, auto, ghosts, bounds>>

\* uploadSnapshot: the dated copy first.
PutDated(m) ==
  LET stored == dated \cup {op[m].rev} IN
  /\ op[m].stage = "dated"
  /\ \/ dated' = stored /\ Continue(m, [op[m] EXCEPT !.stage = "live"]) /\ Succeed
     \/ dated' \in {dated, stored} /\ Finish(m) /\ Fault
  /\ UNCHANGED <<live, snap, local, st, auto, ghosts, nextRev, crashes>>

LiveConditionIfKnown(m) == op[m].etag \in {live, NoRev}

\* If-Match, or If-None-Match * when no ETag is known.
LiveCondition(m) == live = op[m].etag

GiveUpAndCleanUp(m) == Continue(m, [op[m] EXCEPT !.stage = "cleanup"])

\* An error other than a refusal leaves the candidate alone: the write may have won.
GiveUpWrite(m) == Finish(m)

\* The write can take effect and its answer be lost: for good, or until the SDK repeats
\* the request, which the object it has just written refuses.
PutLive(m) ==
  LET next(stage) == [op[m] EXCEPT !.stage = stage] IN
  /\ op[m].stage = "live"
  /\ \/ /\ LiveCondition(m) /\ live' = op[m].rev
        /\ \/ Continue(m, next("save")) /\ Succeed
           \/ GiveUpWrite(m) /\ Fault
           \/ Continue(m, next("cleanup")) /\ Retry
     \/ ~LiveCondition(m) /\ UNCHANGED live /\ Continue(m, next("cleanup")) /\ Succeed
     \/ UNCHANGED live /\ GiveUpWrite(m) /\ Fault
  /\ UNCHANGED <<dated, snap, local, st, auto, ghosts, nextRev, crashes>>

\* ErrRemoteMoved: the candidate is removed.
RemoveCandidate(m) ==
  /\ op[m].stage = "cleanup"
  /\ \/ dated' = dated \ {op[m].rev} /\ Succeed
     \/ UNCHANGED dated /\ Fault
  /\ Finish(m)
  /\ UNCHANGED <<live, snap, local, st, auto, ghosts, nextRev, crashes>>

AcknowledgeGeneration(m, etag, base) == st' = [st EXCEPT ![m].etag = etag]

\* state: the base is the manifest whose files the machine has just sent or taken.
Acknowledge(m, etag, base) == st' = [st EXCEPT ![m] = [etag |-> etag, base |-> base]]

SaveState(m) ==
  /\ op[m].stage = "save"
  /\ \/ Acknowledge(m, op[m].rev, op[m].rev) /\ Succeed
     \/ UNCHANGED st /\ Fault
  /\ Finish(m)
  /\ UNCHANGED <<bucket, snap, local, auto, ghosts, nextRev, crashes>>

-----------------------------------------------------------------------------
(* Pull and apply *)

\* What the user gives up by asking for one side.
GivenUp(m, source, resolve, r) ==
  (IF resolve = "remote" \/ source = "history"
     THEN {local[m][f] : f \in Taken(m, r, resolve)} ELSE {})
  \cup (IF resolve = "local" THEN {snap[r].files[f] : f \in Conflicts(m, r)} ELSE {})

Planned(m, mode, source, resolve, r) ==
  Continue(m, [stage |-> "validate", mode |-> mode, copy |-> source = "history",
               rev |-> r, etag |-> live,
               plan |-> [f \in Taken(m, r, resolve) |-> local[m][f]],
               givenUp |-> GivenUp(m, source, resolve, r) \ {Missing}])

\* PullAndApplyUsing and PullAndApplyRemoteHeadUsing: the pull is made again for the
\* generation the user has previewed, and is refused when another one is live, when the
\* live one does not descend from the base, or when conflicts are left open.
Pull(m, source, resolve) ==
  /\ op[m] = Idle /\ Receives(m)
  /\ \E r \in IF source = "history" THEN dated ELSE {live} :
       /\ source = "live" => Follows(st[m].base, r)
       /\ resolve = "none" => Conflicts(m, r) = {}
       /\ Planned(m, "user", source, resolve, r)
  /\ UNCHANGED <<bucket, snap, local, st, auto, ghosts, nextRev, bounds>>

UserPull(m) ==
  \/ "pull" \in UserOps /\ \E resolve \in Resolve : Pull(m, "live", resolve)
  \/ "accept" \in UserOps /\ Pull(m, "head", "remote")
  \/ "restore" \in UserOps /\ \E resolve \in Resolve : Pull(m, "history", resolve)

\* validatePullForApply: a HEAD just before the commit.
Validate(m) ==
  /\ op[m].stage = "validate"
  /\ \/ /\ live = op[m].etag
        /\ op[m].copy => op[m].rev \in dated
        /\ Continue(m, [op[m] EXCEPT !.stage = "apply"]) /\ Succeed
     \/ /\ live # op[m].etag \/ (op[m].copy /\ op[m].rev \notin dated)
        /\ Finish(m) /\ Succeed
     \/ Finish(m) /\ Fault
  /\ UNCHANGED <<bucket, snap, local, st, auto, ghosts, nextRev, crashes>>

PreconditionsSkipped(m) == TRUE

\* The preconditions of the storage transaction.
PreconditionsHold(m) == \A f \in DOMAIN op[m].plan : local[m][f] = op[m].plan[f]

ReceivedUnscheduled(m, mode, diverged) ==
  /\ IF mode = "now" THEN Continue(m, [stage |-> "send", mode |-> "now", etag |-> NoRev])
                     ELSE Finish(m)
  /\ UNCHANGED pending

\* The rest of a cycle after its receive half: poll schedules a push when the machine
\* differs from its base, Now sends at once.
Received(m, mode, diverged) ==
  /\ IF mode = "now" THEN Continue(m, [stage |-> "send", mode |-> "now", etag |-> NoRev])
                     ELSE Finish(m)
  /\ pending' = [pending EXCEPT ![m] = @ \/ (mode = "poll" /\ diverged /\ Sends(m))]

\* applyWithSecretGeneration: the files and the state in one storage transaction.  After
\* a pull by the user ManualApplyCompleted lifts the stop of automatic sync.
Apply(m) ==
  LET o == op[m]
      new == [f \in File |-> IF f \in DOMAIN o.plan THEN snap[o.rev].files[f] ELSE local[m][f]]
  IN /\ o.stage = "apply"
     /\ \/ /\ PreconditionsHold(m)
           /\ local' = [local EXCEPT ![m] = new]
           /\ Acknowledge(m, o.etag, o.rev)
           /\ superseded' = superseded \cup o.givenUp
           /\ IF o.mode = "user"
                THEN /\ Finish(m) /\ blocked' = [blocked EXCEPT ![m] = NoRev]
                     /\ UNCHANGED pending
                ELSE Received(m, o.mode, new # snap[o.rev].files) /\ UNCHANGED blocked
           /\ Succeed
        \/ /\ \/ ~PreconditionsHold(m) /\ Succeed
              \/ Fault
           /\ Finish(m) /\ UNCHANGED <<local, st, superseded, auto>>
     /\ UNCHANGED <<bucket, snap, author, nextRev, crashes>>

-----------------------------------------------------------------------------
(* Automatic sync *)

Block(m, etag) == blocked' = [blocked EXCEPT ![m] = etag]

\* receive up to its pull: a HEAD.  A generation the machine has stopped at is left
\* alone, and a machine that only sends stops at every generation it does not know.
Look(m, mode) ==
  /\ op[m] = Idle /\ (mode = "poll" => m \in Automatic)
  /\ \/ /\ live = st[m].etag
        /\ Block(m, NoRev) /\ Received(m, mode, Diverged(m))
     \/ /\ live # st[m].etag /\ live # blocked[m] /\ ~Receives(m)
        /\ Block(m, live) /\ UNCHANGED <<op, pending>>
     \/ /\ live # st[m].etag /\ live # blocked[m] /\ Receives(m)
        /\ Continue(m, [stage |-> "get", mode |-> mode, etag |-> live]) /\ UNCHANGED auto
  /\ UNCHANGED <<bucket, snap, local, st, ghosts, nextRev, bounds>>

\* The pull inside receive.  Another snapshot may be live by now.  Whatever asks for a
\* decision of the user stops the machine: a history that does not continue its own, a
\* conflict, a removal.
AutoGet(m) ==
  LET r == live IN
  /\ op[m].stage = "get"
  /\ \/ /\ ~Follows(st[m].base, r)
        /\ Block(m, op[m].etag) /\ Finish(m) /\ Succeed
     \/ /\ Follows(st[m].base, r)
        /\ Conflicts(m, r) # {} \/ Removals(m, r) # {}
        /\ Block(m, r) /\ Finish(m) /\ Succeed
     \/ /\ Follows(st[m].base, r)
        /\ Conflicts(m, r) = {} /\ Removals(m, r) = {}
        /\ Planned(m, op[m].mode, "live", "none", r) /\ UNCHANGED blocked /\ Succeed
     \/ Finish(m) /\ UNCHANGED blocked /\ Fault
  /\ UNCHANGED <<bucket, snap, local, st, pending, ghosts, nextRev, crashes>>

\* send
Send(m) ==
  IF Sends(m) /\ Diverged(m) THEN Collect(m, st[m].etag, FALSE)
                             ELSE Finish(m) /\ UNCHANGED <<snap, nextRev>>

\* takeScheduledPush and SendScheduled
SendScheduled(m) ==
  /\ op[m] = Idle /\ pending[m]
  /\ pending' = [pending EXCEPT ![m] = FALSE]
  /\ Send(m)
  /\ UNCHANGED <<bucket, local, st, blocked, ghosts, bounds>>

\* The second half of Now.
SendNow(m) ==
  /\ op[m].stage = "send" /\ Send(m)
  /\ UNCHANGED <<bucket, local, st, auto, ghosts, bounds>>

-----------------------------------------------------------------------------
(* The environment *)

\* Somebody edits or removes a file.  NotifyLocalChange follows only if it was sshc.
Edit(m, f) ==
  LET fresh == Len(author) + 1 IN
  /\ Len(author) < MaxEdits
  /\ \E new \in {fresh, Missing} \ {local[m][f]} :
       /\ local' = [local EXCEPT ![m][f] = new]
       /\ superseded' = superseded \cup ({local[m][f], fresh} \ {Missing, new})
  /\ author' = Append(author, m)
  /\ pending' \in {pending, [pending EXCEPT ![m] = m \in Automatic]}
  /\ UNCHANGED <<bucket, snap, st, op, blocked, nextRev, bounds>>

\* The engine dies and starts again, while it has something to forget.
Crash(m) ==
  /\ op[m] # Idle \/ pending[m] \/ blocked[m] # NoRev
  /\ crashes < MaxCrashes /\ crashes' = crashes + 1
  /\ Finish(m)
  /\ pending' = [pending EXCEPT ![m] = FALSE] /\ Block(m, NoRev)
  /\ UNCHANGED <<bucket, snap, local, st, ghosts, nextRev, faults, retries>>

Init ==
  /\ live = Setup /\ dated = {}
  /\ snap = [r \in 0 .. MaxRev |-> NoSnapshot]
  /\ local = [m \in Machine |-> NoSnapshot.files]
  /\ \E first \in Machine :
       st = [m \in Machine |-> LET known == IF m = first THEN Setup ELSE NoRev
                               IN [etag |-> known, base |-> known]]
  /\ direction \in Directions
  /\ op = [m \in Machine |-> Idle]
  /\ pending = [m \in Machine |-> FALSE] /\ blocked = [m \in Machine |-> NoRev]
  /\ author = <<>> /\ superseded = {}
  /\ nextRev = 2 /\ faults = 0 /\ retries = 0 /\ crashes = 0

\* What goes on by itself once it has begun.
Step(m) ==
  \/ PutDated(m) \/ PutLive(m) \/ RemoveCandidate(m) \/ SaveState(m)
  \/ Validate(m) \/ Apply(m)
  \/ AutoGet(m) \/ SendNow(m)

Next ==
  /\ \E m \in Machine :
       \/ Step(m)
       \/ Push(m) \/ ForcePush(m) \/ UserPull(m)
       \/ Look(m, "poll") \/ ("now" \in UserOps /\ Look(m, "now")) \/ SendScheduled(m)
       \/ \E f \in File : Edit(m, f)
       \/ Crash(m)
  /\ UNCHANGED direction

\* The direction is a setting of the machine.
Do(action) == action /\ UNCHANGED direction

Spec == Init /\ [][Next]_vars

\* Run polls every minute and sends what is scheduled; a begun operation goes on.
AutoSpec ==
  Spec /\ \A m \in Machine :
            WF_vars(Do(Step(m))) /\ WF_vars(Do(Look(m, "poll"))) /\ WF_vars(Do(SendScheduled(m)))

\* A user who pushes again and again.
PushingSpec == Spec /\ \A m \in Machine : WF_vars(Do(Step(m))) /\ WF_vars(Do(Push(m)))

-----------------------------------------------------------------------------
(* Properties *)

\* Every variable has its type, and the lineage a snapshot carries stays within
\* MaxManifestAncestors, which Read demands of every snapshot.
TypeOK ==
  /\ live \in Rev /\ dated \subseteq Rev
  /\ snap \in [0 .. MaxRev -> Snapshot]
  /\ \A r \in 0 .. MaxRev : Len(snap[r].ancestors) <= MaxAncestors
  /\ local \in [Machine -> [File -> Content]]
  /\ st \in [Machine -> State]
  /\ direction \in Directions
  /\ op \in [Machine -> Operation]
  /\ pending \in [Machine -> BOOLEAN] /\ blocked \in [Machine -> Rev \cup {NoRev}]
  /\ author \in Seq(Machine) /\ Len(author) <= MaxEdits
  /\ superseded \subseteq Content
  /\ nextRev \in 2 .. MaxRev + 1
  /\ faults \in 0 .. MaxFaults /\ retries \in 0 .. MaxRetries /\ crashes \in 0 .. MaxCrashes

InLive(c)  == \E f \in File : snap[live].files[f] = c
InLocal(c) == \E m \in Machine, f \in File : local[m][f] = c

\* No edit is lost behind its author's back (push.go, pull.go, plan.go): a content that
\* nobody replaced knowingly, by an edit over it or by asking for the other side, is on
\* some machine or in the live snapshot, however pushes, pulls, lost answers, crashes
\* and restores are mixed.
NothingLost == \A c \in 1 .. Len(author) : c \in superseded \/ InLive(c) \/ InLocal(c)

\* The conditional write of push (push.go): a live snapshot is replaced by one that names
\* it as its parent, unless the user has forced a push over exactly this one or has
\* restored an older revision while this one was live.
HeadsFollow ==
  [][live' # live =>
       \E m \in Machine :
         /\ op[m].stage = "live" /\ live' = op[m].rev
         /\ \/ snap[live'].parent = live
            \/ op[m].etag = live /\ (op[m].forced \/ st[m].base # st[m].etag)]_vars

Explained(m, f, r) == local[m][f] \in {Missing, snap[r].files[f]} \/ author[local[m][f]] = m

\* What the three-way comparison of PlanEntries rests on: a file of a machine that differs
\* from the base in its state was changed on this machine, and not by a push or a pull
\* that got only half recorded.
OnlyOwnEdits == \A m \in Machine, f \in File : Explained(m, f, st[m].base)

\* push.go:233: the dated copy comes before the live object, and is removed again only
\* when the write of the live object has lost for certain.
HeadIsInHistory == live # Setup => live \in dated

\* No edit is lost, and the live snapshot always has its dated copy.
ContentsAreKept == NothingLost /\ HeadIsInHistory

Settled(m) ==
  \/ blocked[m] = live
  \/ local[m] = snap[live].files
  \/ ~Sends(m) /\ st[m].base = live

\* Once edits stop, automatic sync brings every machine to the live snapshot or stops it
\* for the user's decision about exactly this snapshot; a machine that only receives may
\* differ from it by its own edits.
Converges == <>[](\A m \in Machine : Settled(m))

\* pull.go:85: after a restore the next push makes a head of the restored revision.
RestoredBecomesHead ==
  \A m \in Machine : st[m].etag # st[m].base ~> st[m].etag = st[m].base
=============================================================================
