------------------------- MODULE StorageFilesProofs -------------------------
(***************************************************************************)
(* What the files tell about a transaction of StorageTransaction, proved   *)
(* for any workspace, any requests, and any number of faults, crashes and  *)
(* edits.  TrackInv ties the files and directories to the entries of the   *)
(* open change: a prefix of them is in effect and the rest is not, whether *)
(* a process is at work on it or it waits for recovery.  From it follows   *)
(* that recovery finds out how far an interrupted change got, that it can  *)
(* go one way or the other, and that history tells the truth.              *)
(*                                                                         *)
(* CarefulInv adds that no file is overwritten that somebody edited.  With *)
(* it, every step is one of AtomicWorkspace or a stutter.                  *)
(***************************************************************************)
EXTENDS StorageTransactionProofs

(* What is in effect, for files fs, directories ds, staged siblings tmp and *)
(* backups held: the first n entries of rec are, the others are not.        *)

\* A file that holds something newer than transaction t was edited by another program.
FileTracks(t, rec, n, fs) ==
  \A i \in Indices(rec), f \in File : Touches(rec.entries[i], f) =>
    \/ fs[f] > t
    \/ i <= n /\ fs[f] = After(rec.entries[i], f)
    \/ i > n /\ fs[f] = Before(rec.entries[i], f)

\* A directory that an undo could not remove may be there although its entry is not in
\* effect.
DirTracks(rec, n, ds) ==
  \A i \in Indices(rec) : LET e == rec.entries[i] IN
    /\ e.action = "rmdir" => (e.path \in ds <=> i > n)
    /\ e.action = "mkdir" /\ (e.had \/ i <= n) => e.path \in ds

Tracks(t, rec, n, fs, ds) == FileTracks(t, rec, n, fs) /\ DirTracks(rec, n, ds)

\* No directory is left over.
DirExact(rec, n, ds) ==
  \A i \in Indices(rec) : LET e == rec.entries[i] IN
    e.action = "mkdir" /\ ~e.had /\ i > n => e.path \notin ds

NoForeign(t, fs) == \A f \in File : fs[f] <= t

\* What the application of the remaining entries needs, and the undoing of the others.
StagedFrom(t, rec, n, tmp) ==
  \A i \in Indices(rec) : i > n /\ rec.entries[i].action = "write" =>
    rec.entries[i].path \in rec.temps /\ <<t, rec.entries[i].path>> \in tmp

BackedUp(t, rec, n, held) ==
  \A i \in Indices(rec) :
    i <= n /\ ExpectsBackup(rec.entries[i]) /\ ~NoOpWrite(rec.entries[i]) =>
      <<t, rec.entries[i].path>> \in held

\* A record in the journal from which recovery can go on when n entries are in effect.
Stands(t, rec, n, tmp, held) ==
  /\ rec.status = "staging" => HarmlessTo(rec, n)
  /\ \/ ReversibleTo(rec, n)
     \/ ~rec.atomic /\ rec.status = "staged" /\ StagedFrom(t, rec, n, tmp)
  /\ \/ rec.status = "applied" /\ n = Len(rec.entries)
     \/ BackedUp(t, rec, n, held)

-----------------------------------------------------------------------------
(* The invariant *)

Frontier(p) == IF pc[p] = "undo" THEN run[p].undo ELSE Rec(p).committed

\* What p needs for its next steps.
Going(l, t, rec, j, n, ds, tmp, held) ==
  /\ l = "prepare" => \A f \in rec.temps : <<t, f>> \in tmp
  /\ l = "apply" => DirExact(rec, n, ds) /\ (~rec.atomic => StagedFrom(t, j, n, tmp))
  /\ l \in {"apply", "failWrite"} /\ ~rec.atomic => StagedFrom(t, rec, n, tmp)
  /\ l = "loaded" /\ rec.status = "staged" => DirExact(rec, n, ds)
  /\ l = "undo" => BackedUp(t, rec, n, held) /\ ReversibleTo(rec, n)

TrackRun(p) ==
  /\ Tracks(Txn(p), Rec(p), Frontier(p), files, dirs)
  /\ Going(pc[p], Txn(p), Rec(p), journal[Txn(p)], Frontier(p), dirs, temps, backups)
  /\ edits = 0 \/ run[p].own => NoForeign(Txn(p), files)
  /\ journal[Txn(p)] # NoRecord =>
       Stands(Txn(p), journal[Txn(p)], Frontier(p), temps, backups)

Parked(t) ==
  /\ edits = 0 => NoForeign(t, files)
  /\ \E n \in 0 .. Len(journal[t].entries) :
       /\ Tracks(t, journal[t], n, files, dirs)
       /\ Stands(t, journal[t], n, temps, backups)
       /\ t \in published => n = Len(journal[t].entries)

TrackInv ==
  /\ \A p \in Proc : pc[p] # "idle" => TrackRun(p)
  /\ \A t \in Id : (journal[t] # NoRecord /\ \A p \in Proc : pc[p] = "idle") => Parked(t)

\* Once the new keys are published, the change is only ever completed.
Settled(p) ==
  /\ ~run[p].own /\ pc[p] \in {"loaded"} \cup Finishing
  /\ pc[p] # "loaded" => run[p].goal = "completed"
  /\ Rec(p).status \in {"applied", "completed"}

PublishedInv ==
  \A t \in published :
    /\ t < nextId
    /\ journal[t] # NoRecord => journal[t].status = "applied"
    /\ history[t] # NoRecord => history[t].status = "completed"
    /\ \A p \in Proc : pc[p] # "idle" /\ run[p].txn = t => Settled(p)

-----------------------------------------------------------------------------
(* Helpers *)

\* What depends on the plan alone.
LEMMA TracksOfPlan ==
  ASSUME NEW rec, NEW other, SamePlan(other, rec), NEW n
  PROVE  /\ \A t, fs, ds : Tracks(t, rec, n, fs, ds) => Tracks(t, other, n, fs, ds)
         /\ \A ds : DirExact(rec, n, ds) => DirExact(other, n, ds)
         /\ \A t, held : BackedUp(t, rec, n, held) => BackedUp(t, other, n, held)
         /\ \A t, tmp : rec.temps \subseteq other.temps /\ StagedFrom(t, rec, n, tmp)
                          => StagedFrom(t, other, n, tmp)
  <1>1. Indices(other) = Indices(rec) /\ other.entries = rec.entries
    BY DEF Indices, SamePlan
  <1>2. \A t, fs, ds : Tracks(t, rec, n, fs, ds) => Tracks(t, other, n, fs, ds)
    BY <1>1 DEF Tracks, FileTracks, DirTracks
  <1>3. /\ \A ds : DirExact(rec, n, ds) => DirExact(other, n, ds)
        /\ \A t, held : BackedUp(t, rec, n, held) => BackedUp(t, other, n, held)
    BY <1>1 DEF DirExact, BackedUp
  <1>4. \A t, tmp : rec.temps \subseteq other.temps /\ StagedFrom(t, rec, n, tmp)
                      => StagedFrom(t, other, n, tmp)
    BY <1>1 DEF StagedFrom
  <1> QED BY <1>2, <1>3, <1>4

\* Every entry of an atomic change can be undone, and the making of directories too.
LEMMA AtomicIsReversible ==
  ASSUME NEW t, NEW rec, PlanOK(t, rec), rec.atomic, NEW n
  PROVE  ReversibleTo(rec, n)
  BY DEF ReversibleTo, Reversible, PlanOK, EntryOK

LEMMA MadeStands ==
  ASSUME NEW t, NEW rec, NEW n, MadeOnly(rec, n), NEW tmp, NEW held
  PROVE  Stands(t, rec, n, tmp, held)
  BY DEF Stands, MadeOnly, HarmlessTo, Harmless, ReversibleTo, Reversible, BackedUp,
         ExpectsBackup

LEMMA NoneStands ==
  ASSUME NEW t, NEW rec, NEW tmp, NEW held
  PROVE  Stands(t, rec, 0, tmp, held)
  <1>1. MadeOnly(rec, 0)
    BY DEF MadeOnly, Indices
  <1> QED BY <1>1, MadeStands

LEMMA FrontierRange ==
  ASSUME IndInv, NEW p \in Proc, pc[p] # "idle"
  PROVE  Frontier(p) \in 0 .. Len(Rec(p).entries)
  BY AtWork, RecordFields DEF Frontier

LEMMA AtTrack ==
  ASSUME TrackInv, NEW p \in Proc, pc[p] # "idle"
  PROVE  /\ Tracks(Txn(p), Rec(p), Frontier(p), files, dirs)
         /\ Going(pc[p], Txn(p), Rec(p), journal[Txn(p)], Frontier(p), dirs, temps, backups)
         /\ edits = 0 \/ run[p].own => NoForeign(Txn(p), files)
         /\ journal[Txn(p)] # NoRecord =>
              Stands(Txn(p), journal[Txn(p)], Frontier(p), temps, backups)
  BY DEF TrackInv, TrackRun

\* A change whose keys are published is in effect to its last entry.
LEMMA PublishedFrontier ==
  ASSUME IndInv, PhaseInv, PublishedInv, NEW p \in Proc, pc[p] # "idle", Txn(p) \in published
  PROVE  Frontier(p) = Len(Rec(p).entries)
  <1>1. Settled(p) /\ Progress(pc[p], run[p]) /\ run[p].rec = Rec(p)
    BY AtPhase DEF PublishedInv, Txn
  <1>2. CASE pc[p] = "loaded"
    <2>1. journal[Txn(p)] = Rec(p) /\ Rec(p) # NoRecord /\ Txn(p) \in Id
      BY <1>2, Loaded, AtPhase
    <2>2. PendingOK(Txn(p), Rec(p), backups)
      BY <2>1 DEF PhaseInv, JournalOK
    <2> QED BY <1>1, <1>2, <2>2 DEF PendingOK, Settled, Frontier
  <1>3. CASE pc[p] \in Finishing
    BY <1>1, <1>3 DEF Settled, Progress, Frontier, Finishing, Cleaning
  <1> QED BY <1>1, <1>2, <1>3 DEF Settled

\* What a step of p leaves of the plans: in its memory, and in the journal.
Keeps(p) == pc'[p] # "idle" => SamePlan(run'[p].rec, Rec(p)) /\ (run'[p].own => run[p].own)

Records(p) ==
  /\ journal'[Txn(p)] # NoRecord => SamePlan(journal'[Txn(p)], Rec(p))
  /\ \A u \in Id : journal'[u] # NoRecord => journal[u] # NoRecord \/ u = Txn(p)

LEMMA GotoKeeps ==
  ASSUME IndInv, NEW p \in Proc, pc[p] # "idle", NEW label, NEW rec, SamePlan(rec, Rec(p)),
         Goto(p, label, rec)
  PROVE  Keeps(p)
  BY GotoRun DEF Keeps

LEMMA ReleaseKeeps ==
  ASSUME IndInv, NEW p \in Proc, Release(p)
  PROVE  Keeps(p)
  BY ReleaseRun DEF Keeps

\* commitRun.fail changes at most the status of the record.
LEMMA ErrorFrontier ==
  ASSUME IndInv, NEW p \in Proc, pc[p] # "idle", NEW rec, Sound(rec), SamePlan(rec, Rec(p)),
         OnError(p, rec)
  PROVE  /\ Keeps(p)
         /\ pc'[p] # "idle" =>
              /\ pc'[p] \in {"failTemps", "failWrite"} /\ run[p].own
              /\ Frontier(p)' = rec.committed /\ run'[p].rec.temps = rec.temps
              /\ pc'[p] = "failTemps" => ~rec.atomic /\ rec.status = "staging"
              /\ pc'[p] = "failWrite" /\ ~rec.atomic => rec.status = "staged"
  <1>1. CASE Release(p)
    BY <1>1, ReleaseRun, ReleaseKeeps
  <1>2. CASE /\ run[p].own /\ rec.atomic
             /\ Goto(p, "failWrite",
                  [rec EXCEPT !.status = IF rec.status = "staging" THEN "staging" ELSE "staged"])
    <2> DEFINE failed ==
          [rec EXCEPT !.status = IF rec.status = "staging" THEN "staging" ELSE "staged"]
    <2>1. /\ SamePlan(failed, Rec(p)) /\ failed.committed = rec.committed
          /\ failed.temps = rec.temps
      BY StatusField DEF SamePlan
    <2>2. /\ pc'[p] = "failWrite" /\ run'[p].rec = failed /\ run'[p].own = run[p].own
      BY <1>2, GotoRun
    <2> HIDE DEF failed
    <2>3. Keeps(p) BY <1>2, <2>1, <2>2 DEF Keeps, Rec
    <2>4. Frontier(p)' = rec.committed /\ run'[p].rec.temps = rec.temps
      BY <2>1, <2>2 DEF Frontier, Rec
    <2> QED BY <1>2, <2>2, <2>3, <2>4
  <1>3. CASE /\ run[p].own /\ ~rec.atomic
             /\ \/ rec.status = "staging" /\ Goto(p, "failTemps", rec)
                \/ rec.status = "staged" /\ Goto(p, "failWrite", rec)
    <2>1. /\ run'[p].rec = rec /\ run'[p].own = run[p].own
          /\ \/ rec.status = "staging" /\ pc'[p] = "failTemps"
             \/ rec.status = "staged" /\ pc'[p] = "failWrite"
      BY <1>3, GotoRun
    <2> QED BY <1>3, <2>1 DEF Keeps, Frontier, Rec
  <1> QED BY <1>1, <1>2, <1>3 DEF OnError

LEMMA JournalStays ==
  ASSUME IndInv, PhaseInv, NEW p \in Proc, pc[p] # "idle", UNCHANGED journal
  PROVE  Records(p)
  BY AtPhase DEF Recorded, Records

LEMMA JournalFollows ==
  ASSUME IndInv, PhaseInv, NEW p \in Proc, pc[p] # "idle",
         NEW rec, SamePlan(rec, Rec(p)),
         Written(Txn(p), rec) \/ PerhapsWritten(Txn(p), rec)
  PROVE  Records(p) /\ journal'[Txn(p)] \in {journal[Txn(p)], rec}
  <1>1. Txn(p) \in Id /\ run[p].rec = Rec(p)
    BY AtPhase
  <1>2. \A u \in Id : journal'[u] = journal[u] \/ (u = Txn(p) /\ journal'[u] = rec)
    BY <1>1 DEF Written, PerhapsWritten, IndInv, RecordsOK
  <1>3. journal[Txn(p)] # NoRecord => SamePlan(journal[Txn(p)], Rec(p))
    BY AtPhase DEF Recorded
  <1> QED BY <1>1, <1>2, <1>3 DEF Records

\* A step of p keeps the invariant if n entries are in effect after it.
LEMMA TrackKept ==
  ASSUME IndInv, PhaseInv, TrackInv, NEW p \in Proc, pc[p] # "idle",
         IndInv', PhaseInv', Moves(p), UNCHANGED edits,
         Keeps(p), Records(p),
         NEW n \in 0 .. Len(Rec(p).entries),
         Tracks(Txn(p), Rec(p), n, files', dirs'),
         edits = 0 \/ run[p].own => NoForeign(Txn(p), files'),
         journal'[Txn(p)] # NoRecord => Stands(Txn(p), journal'[Txn(p)], n, temps', backups'),
         pc'[p] # "idle" =>
           /\ Frontier(p)' = n
           /\ Going(pc'[p], Txn(p), run'[p].rec, journal'[Txn(p)], n, dirs', temps', backups'),
         pc'[p] = "idle" /\ Txn(p) \in published' => n = Len(Rec(p).entries)
  PROVE  TrackInv'
  <1>1. \A q \in Proc \ {p} : pc'[q] = "idle"
    BY DEF Moves, IndInv, ControlOK
  <1>2. \A u \in Id : journal'[u] # NoRecord => u = Txn(p)
    BY DEF IndInv, OnePending, Pending, Txn, Records
  <1>3. CASE pc'[p] # "idle"
    <2>1. run'[p].txn = Txn(p)
      BY <1>3 DEF Moves, Txn
    <2>2. Tracks(Txn(p), run'[p].rec, n, files', dirs')
      BY <1>3, TracksOfPlan DEF Keeps
    <2>3. TrackRun(p)'
      BY <1>3, <2>1, <2>2 DEF TrackRun, Txn, Rec, Keeps
    <2> QED BY <1>1, <1>3, <2>3 DEF TrackInv
  <1>4. CASE pc'[p] = "idle"
    <2>1. ASSUME NEW t \in Id, journal'[t] # NoRecord PROVE Parked(t)'
      <3>1. t = Txn(p)
        BY <1>2, <2>1
      <3>2. Tracks(t, journal'[t], n, files', dirs')
        BY <2>1, <3>1, TracksOfPlan DEF Records
      <3>3. Len(journal'[t].entries) = Len(Rec(p).entries)
        BY <2>1, <3>1 DEF SamePlan, Records
      <3>4. edits' = 0 => NoForeign(t, files')
        BY <3>1
      <3>5. Stands(t, journal'[t], n, temps', backups')
        BY <2>1, <3>1
      <3>6. t \in published' => n = Len(journal'[t].entries)
        BY <1>4, <3>1, <3>3
      <3> QED BY <3>2, <3>3, <3>4, <3>5, <3>6 DEF Parked
    <2> QED BY <1>1, <1>4, <2>1 DEF TrackInv
  <1> QED BY <1>3, <1>4

\* A step of p that leaves files, directories and the number of entries in effect alone.
LEMMA QuietKept ==
  ASSUME IndInv, PhaseInv, TrackInv, PublishedInv, NEW p \in Proc, pc[p] # "idle",
         IndInv', PhaseInv', Moves(p), UNCHANGED <<files, dirs, edits>>,
         published' = published \/ pc'[p] # "idle", Keeps(p), Records(p),
         journal'[Txn(p)] # NoRecord =>
           Stands(Txn(p), journal'[Txn(p)], Frontier(p), temps', backups'),
         pc'[p] # "idle" =>
           /\ Frontier(p)' = Frontier(p)
           /\ Going(pc'[p], Txn(p), run'[p].rec, journal'[Txn(p)], Frontier(p), dirs,
                    temps', backups')
  PROVE  TrackInv'
  <1>1. /\ Tracks(Txn(p), Rec(p), Frontier(p), files', dirs')
        /\ edits = 0 \/ run[p].own => NoForeign(Txn(p), files')
        /\ Frontier(p) \in 0 .. Len(Rec(p).entries)
    BY AtTrack, FrontierRange
  <1>2. pc'[p] = "idle" /\ Txn(p) \in published' => Frontier(p) = Len(Rec(p).entries)
    BY PublishedFrontier
  <1>3. UNCHANGED edits /\ UNCHANGED dirs
    OBVIOUS
  <1> QED BY <1>1, <1>2, <1>3, TrackKept

\* The same where it ends in a label that needs nothing.
Easy == {"markApplied", "failTemps"} \cup Finishing

LEMMA EasyGoto ==
  ASSUME IndInv, NEW p \in Proc, pc[p] \notin {"idle", "undo"}, NEW label \in Easy,
         NEW rec, SamePlan(rec, Rec(p)), rec.committed = Rec(p).committed, Goto(p, label, rec)
  PROVE  /\ Keeps(p)
         /\ pc'[p] # "idle" =>
              /\ Frontier(p)' = Frontier(p)
              /\ \A j, tmp, held :
                   Going(pc'[p], Txn(p), run'[p].rec, j, Frontier(p), dirs, tmp, held)
  <1>1. pc'[p] = label /\ run'[p].rec = rec
    BY GotoRun
  <1> QED BY <1>1, GotoKeeps DEF Easy, Finishing, Cleaning, Frontier, Going, Rec

LEMMA EasyError ==
  ASSUME IndInv, NEW p \in Proc, pc[p] \notin {"idle", "undo"},
         NEW rec, Sound(rec), SamePlan(rec, Rec(p)), rec.committed = Rec(p).committed,
         OnError(p, rec), NEW tmp,
         run[p].own /\ ~rec.atomic /\ rec.status = "staged" =>
           StagedFrom(Txn(p), rec, Frontier(p), tmp)
  PROVE  /\ Keeps(p)
         /\ pc'[p] # "idle" =>
              /\ Frontier(p)' = Frontier(p)
              /\ \A j, held :
                   Going(pc'[p], Txn(p), run'[p].rec, j, Frontier(p), dirs, tmp, held)
  <1>1. Keeps(p)
    BY ErrorFrontier
  <1>2. ASSUME pc'[p] # "idle"
        PROVE  /\ Frontier(p)' = Frontier(p)
               /\ \A j, held :
                    Going(pc'[p], Txn(p), run'[p].rec, j, Frontier(p), dirs, tmp, held)
    <2>1. /\ pc'[p] \in {"failTemps", "failWrite"} /\ run[p].own
          /\ Frontier(p)' = rec.committed /\ run'[p].rec.temps = rec.temps
          /\ pc'[p] = "failWrite" /\ ~rec.atomic => rec.status = "staged"
          /\ SamePlan(run'[p].rec, Rec(p))
      BY <1>2, ErrorFrontier DEF Keeps
    <2>2. SamePlan(run'[p].rec, rec) /\ Frontier(p) = rec.committed
      BY <2>1 DEF SamePlan, Frontier
    <2>3. pc'[p] = "failWrite" /\ ~run'[p].rec.atomic =>
            StagedFrom(Txn(p), run'[p].rec, Frontier(p), tmp)
      BY <2>1, <2>2, TracksOfPlan DEF SamePlan
    <2> QED BY <2>1, <2>2, <2>3 DEF Going
  <1> QED BY <1>1, <1>2

\* More staged siblings and backups do no harm.
LEMMA StandsGrow ==
  ASSUME NEW t, NEW rec, NEW n, NEW tmp, NEW held, Stands(t, rec, n, tmp, held),
         NEW tmp2, NEW held2, tmp \subseteq tmp2, held \subseteq held2
  PROVE  Stands(t, rec, n, tmp2, held2)
  BY DEF Stands, StagedFrom, BackedUp

\* While it prepares, p has only made directories.
LEMMA PreparingStands ==
  ASSUME IndInv, PhaseInv, NEW p \in Proc, pc[p] \in {"prepare", "failTemps"},
         NEW rec, SamePlan(rec, Rec(p)), NEW tmp, NEW held
  PROVE  Stands(Txn(p), rec, Frontier(p), tmp, held)
  <1>1. MadeOnly(rec, Frontier(p))
    BY Preparing, PlanKept DEF Frontier
  <1> QED BY <1>1, MadeStands

LEMMA BeginTrack ==
  ASSUME IndInv, PhaseInv, TrackInv, PublishedInv, IndInv', PhaseInv',
         NEW p \in Proc, Begin(p), Moves(p)
  PROVE  TrackInv'
  <1> DEFINE rec == Rec(p)
             t   == Txn(p)
  <1>1. /\ pc[p] = "begin" /\ pc[p] # "idle"
        /\ \/ Written(t, rec) /\ Goto(p, "prepare", rec)
           \/ PerhapsWritten(t, rec) /\ Release(p)
        /\ UNCHANGED <<files, dirs, edits, published>>
    BY DEF Begin, bounds
  <1>2. /\ rec.committed = 0 /\ rec.temps = {} /\ SamePlan(rec, rec)
        /\ rec.entries = Rec(p).entries
    BY <1>1, AtPhase DEF Progress
  <1>3. Records(p)
    BY <1>1, <1>2, JournalFollows
  <1>4. Keeps(p)
    BY <1>1, <1>2, GotoKeeps, ReleaseKeeps
  <1>5. Frontier(p) = 0
    BY <1>1, <1>2 DEF Frontier
  <1>6. Stands(t, journal'[t], Frontier(p), temps', backups')
    BY <1>5, NoneStands
  <1>7. pc'[p] # "idle" =>
          /\ Frontier(p)' = Frontier(p)
          /\ Going(pc'[p], t, run'[p].rec, journal'[t], Frontier(p), dirs, temps', backups')
    <2>1. CASE Goto(p, "prepare", rec)
      <3>1. pc'[p] = "prepare" /\ run'[p].rec = rec
        BY <1>1, <2>1, GotoRun
      <3> QED BY <1>2, <1>5, <3>1 DEF Frontier, Going, Rec
    <2>2. CASE Release(p)
      BY <2>2, ReleaseRun
    <2> QED BY <1>1, <2>1, <2>2
  <1> QED BY <1>1, <1>3, <1>4, <1>6, <1>7, QuietKept

LEMMA WriteBackupTrack ==
  ASSUME IndInv, PhaseInv, TrackInv, PublishedInv, IndInv', PhaseInv',
         NEW p \in Proc, WriteBackup(p), Moves(p)
  PROVE  TrackInv'
  <1> DEFINE rec == Rec(p)
             t   == Txn(p)
  <1>1. /\ pc[p] = "prepare" /\ pc[p] \notin {"idle", "undo"}
        /\ UNCHANGED <<files, dirs, temps, journal, edits, published>>
    BY DEF WriteBackup, bounds
  <1>2. PICK i \in Indices(rec) :
          \/ Goto(p, "prepare", [rec EXCEPT !.backups = @ \cup {rec.entries[i].path}])
          \/ OnError(p, rec)
    BY DEF WriteBackup
  <1>3. /\ Sound(rec) /\ SamePlan(rec, rec) /\ rec.status = "staging"
        /\ SamePlan(journal[t], rec)
    BY <1>1, AtPhase, Preparing
  <1>4. Records(p)
    BY <1>1, JournalStays
  <1>5. Stands(t, journal'[t], Frontier(p), temps', backups')
    BY <1>1, <1>3, PreparingStands
  <1>6. /\ Keeps(p)
        /\ pc'[p] # "idle" =>
             /\ Frontier(p)' = Frontier(p)
             /\ Going(pc'[p], t, run'[p].rec, journal'[t], Frontier(p), dirs, temps', backups')
    <2>1. CASE Goto(p, "prepare", [rec EXCEPT !.backups = @ \cup {rec.entries[i].path}])
      <3> DEFINE kept == [rec EXCEPT !.backups = @ \cup {rec.entries[i].path}]
      <3>1. SamePlan(kept, rec) /\ kept.committed = rec.committed /\ kept.temps = rec.temps
        BY <1>3, BackupsField
      <3> HIDE DEF kept
      <3>2. pc'[p] = "prepare" /\ run'[p].rec = kept
        BY <1>1, <2>1, GotoRun DEF kept
      <3>3. Keeps(p)
        BY <1>1, <2>1, <3>1, GotoKeeps DEF kept
      <3>4. \A f \in rec.temps : <<t, f>> \in temps
        BY <1>1, AtTrack DEF Going
      <3> QED BY <1>1, <3>1, <3>2, <3>3, <3>4 DEF Frontier, Going, Rec
    <2>2. CASE OnError(p, rec)
      BY <1>1, <1>3, <2>2, EasyError
    <2> QED BY <1>2, <2>1, <2>2
  <1> QED BY <1>1, <1>4, <1>5, <1>6, QuietKept

LEMMA StageWriteTrack ==
  ASSUME IndInv, PhaseInv, TrackInv, PublishedInv, IndInv', PhaseInv',
         NEW p \in Proc, StageWrite(p), Moves(p)
  PROVE  TrackInv'
  <1> DEFINE rec == Rec(p)
             t   == Txn(p)
  <1>1. /\ pc[p] = "prepare" /\ pc[p] \notin {"idle", "undo"}
        /\ UNCHANGED <<files, dirs, backups, journal, edits, published>>
    BY DEF StageWrite, bounds
  <1>2. PICK i \in Indices(rec) :
          \/ /\ temps' = temps \cup {<<t, rec.entries[i].path>>}
             /\ Goto(p, "prepare", [rec EXCEPT !.temps = @ \cup {rec.entries[i].path}])
          \/ UNCHANGED temps /\ OnError(p, rec)
    BY DEF StageWrite
  <1>3. /\ Sound(rec) /\ SamePlan(rec, rec) /\ rec.status = "staging"
        /\ SamePlan(journal[t], rec)
    BY <1>1, AtPhase, Preparing
  <1>4. Records(p)
    BY <1>1, JournalStays
  <1>5. Stands(t, journal'[t], Frontier(p), temps', backups')
    BY <1>1, <1>3, PreparingStands
  <1>6. /\ Keeps(p)
        /\ pc'[p] # "idle" =>
             /\ Frontier(p)' = Frontier(p)
             /\ Going(pc'[p], t, run'[p].rec, journal'[t], Frontier(p), dirs, temps', backups')
    <2>1. CASE /\ temps' = temps \cup {<<t, rec.entries[i].path>>}
               /\ Goto(p, "prepare", [rec EXCEPT !.temps = @ \cup {rec.entries[i].path}])
      <3> DEFINE staged == [rec EXCEPT !.temps = @ \cup {rec.entries[i].path}]
      <3>1. /\ SamePlan(staged, rec) /\ staged.committed = rec.committed
            /\ staged.temps = rec.temps \cup {rec.entries[i].path}
        BY <1>3, TempsField
      <3> HIDE DEF staged
      <3>2. pc'[p] = "prepare" /\ run'[p].rec = staged
        BY <1>1, <2>1, GotoRun DEF staged
      <3>3. Keeps(p)
        BY <1>1, <2>1, <3>1, GotoKeeps DEF staged
      <3>4. \A f \in staged.temps : <<t, f>> \in temps'
        BY <1>1, <2>1, <3>1, AtTrack DEF Going
      <3> QED BY <1>1, <3>1, <3>2, <3>3, <3>4 DEF Frontier, Going, Rec
    <2>2. CASE UNCHANGED temps /\ OnError(p, rec)
      BY <1>1, <1>3, <2>2, EasyError
    <2> QED BY <1>2, <2>1, <2>2
  <1> QED BY <1>1, <1>4, <1>5, <1>6, QuietKept

LEMMA MarkStagedTrack ==
  ASSUME IndInv, PhaseInv, TrackInv, PublishedInv, IndInv', PhaseInv',
         NEW p \in Proc, MarkStaged(p), Moves(p)
  PROVE  TrackInv'
  <1> DEFINE rec    == Rec(p)
             t      == Txn(p)
             staged == [rec EXCEPT !.status = "staged"]
             n      == Frontier(p)
  <1>1. /\ pc[p] = "prepare" /\ pc[p] \notin {"idle", "undo"}
        /\ DirsToMake(rec) = {} /\ WritesToStage(rec) = {}
        /\ \/ Written(t, staged) /\ Goto(p, "apply", staged)
           \/ PerhapsWritten(t, staged) /\ OnError(p, IF staged.atomic THEN staged ELSE rec)
        /\ UNCHANGED <<files, dirs, temps, backups, edits, published>>
    BY DEF MarkStaged, bounds
  <1>2. /\ Sound(rec) /\ SamePlan(rec, rec) /\ rec.status = "staging"
        /\ journal[t] # NoRecord /\ SamePlan(journal[t], rec) /\ t \in Id
    BY <1>1, AtPhase, Preparing
  <1>3. /\ staged.status = "staged" /\ SamePlan(staged, rec) /\ Sound(staged)
        /\ staged.committed = rec.committed /\ staged.temps = rec.temps
    BY <1>2, StatusField, SoundUpdates DEF Status
  <1> HIDE DEF staged
  <1>4. Records(p) /\ journal'[t] \in {journal[t], staged}
    BY <1>1, <1>3, JournalFollows
  <1>5. Stands(t, journal'[t], n, temps', backups')
    <2>1. SamePlan(journal'[t], rec)
      BY <1>2, <1>3, <1>4
    <2> QED BY <1>1, <2>1, PreparingStands
  <1>6. DirExact(staged, n, dirs)
    <2>1. DirExact(rec, n, dirs)
      BY <1>1 DEF DirsToMake, DirExact, Frontier
    <2> QED BY <1>3, <2>1, TracksOfPlan
  <1>7. StagedFrom(t, staged, n, temps)
    <2>1. \A f \in rec.temps : <<t, f>> \in temps
      BY <1>1, AtTrack DEF Going
    <2>2. StagedFrom(t, rec, n, temps)
      BY <1>1, <2>1 DEF StagedFrom, WritesToStage
    <2> QED BY <1>3, <2>2, TracksOfPlan
  <1>8. /\ Keeps(p)
        /\ pc'[p] # "idle" =>
             /\ Frontier(p)' = Frontier(p)
             /\ Going(pc'[p], t, run'[p].rec, journal'[t], Frontier(p), dirs, temps', backups')
    <2>1. CASE Written(t, staged) /\ Goto(p, "apply", staged)
      <3>1. journal'[t] = staged
        BY <1>2, <2>1 DEF Written, IndInv, RecordsOK
      <3>2. pc'[p] = "apply" /\ run'[p].rec = staged
        BY <1>1, <2>1, GotoRun
      <3>3. Keeps(p)
        BY <1>1, <1>3, <2>1, GotoKeeps
      <3>4. Frontier(p)' = Frontier(p)
        BY <1>1, <1>3, <3>2 DEF Frontier, Rec
      <3> QED BY <1>1, <1>6, <1>7, <3>1, <3>2, <3>3, <3>4 DEF Going
    <2>2. CASE OnError(p, IF staged.atomic THEN staged ELSE rec)
      <3>1. CASE staged.atomic
        BY <1>1, <1>3, <2>2, <3>1, EasyError
      <3>2. CASE ~staged.atomic
        BY <1>1, <1>2, <2>2, <3>2, EasyError
      <3> QED BY <3>1, <3>2
    <2> QED BY <1>1, <2>1, <2>2
  <1> QED BY <1>1, <1>4, <1>5, <1>8, QuietKept

LEMMA AppliedTrack ==
  ASSUME IndInv, PhaseInv, TrackInv, PublishedInv, IndInv', PhaseInv',
         NEW p \in Proc, Applied(p), Moves(p)
  PROVE  TrackInv'
  <1>1. /\ pc[p] = "apply" /\ pc[p] \notin {"idle", "undo"}
        /\ Goto(p, AfterApply(Rec(p)), Rec(p))
        /\ UNCHANGED <<files, dirs, temps, backups, journal, edits, published>>
    BY DEF Applied, bounds, disk
  <1>2. AfterApply(Rec(p)) \in Easy /\ SamePlan(Rec(p), Rec(p))
    BY <1>1, AtPhase DEF AfterApply, Easy, Finishing
  <1>3. Records(p)
    BY <1>1, JournalStays
  <1>4. journal'[Txn(p)] # NoRecord =>
          Stands(Txn(p), journal'[Txn(p)], Frontier(p), temps', backups')
    BY <1>1, AtTrack
  <1> QED BY <1>1, <1>2, <1>3, <1>4, EasyGoto, QuietKept

LEMMA MarkAppliedTrack ==
  ASSUME IndInv, PhaseInv, TrackInv, PublishedInv, IndInv', PhaseInv',
         NEW p \in Proc, MarkApplied(p), Moves(p)
  PROVE  TrackInv'
  <1> DEFINE rec    == Rec(p)
             t      == Txn(p)
             marked == [rec EXCEPT !.status = "applied"]
  <1>1. /\ pc[p] = "markApplied" /\ pc[p] \notin {"idle", "undo"}
        /\ \/ /\ Written(t, marked) /\ pc' = [pc EXCEPT ![p] = "temps"]
              /\ run' = [run EXCEPT ![p] = [@ EXCEPT !.rec = marked, !.own = FALSE]]
           \/ PerhapsWritten(t, marked) /\ OnError(p, marked) /\ UNCHANGED published
        /\ UNCHANGED <<files, dirs, temps, backups, edits>>
    BY DEF MarkApplied, bounds
  <1>2. /\ Sound(rec) /\ Progress("markApplied", run[p]) /\ run[p].rec = rec
        /\ PlanOK(t, rec) /\ rec.discard \in BOOLEAN /\ SamePlan(rec, rec)
    BY <1>1, AtPhase
  <1>3. rec.discard /\ rec.committed = Len(rec.entries) /\ rec.atomic
    BY <1>2 DEF Progress, PlanOK
  <1>4. /\ marked.status = "applied" /\ SamePlan(marked, rec) /\ Sound(marked)
        /\ marked.committed = rec.committed
    BY <1>2, StatusField, SoundUpdates DEF Status
  <1> HIDE DEF marked
  <1>5. Records(p) /\ journal'[t] \in {journal[t], marked}
    BY <1>1, <1>4, JournalFollows
  <1>6. Frontier(p) = Len(marked.entries) /\ marked.atomic
    BY <1>1, <1>3, <1>4 DEF Frontier, SamePlan
  <1>7. Stands(t, marked, Frontier(p), temps', backups')
    <2>1. ReversibleTo(marked, Frontier(p))
      BY <1>2, <1>4, <1>6, PlanKept, AtomicIsReversible
    <2> QED BY <1>4, <1>6, <2>1 DEF Stands
  <1>8. journal'[t] # NoRecord => Stands(t, journal'[t], Frontier(p), temps', backups')
    BY <1>1, <1>5, <1>7, AtTrack
  <1>9. /\ Keeps(p) /\ (published' = published \/ pc'[p] # "idle")
        /\ pc'[p] # "idle" =>
             /\ Frontier(p)' = Frontier(p)
             /\ Going(pc'[p], t, run'[p].rec, journal'[t], Frontier(p), dirs, temps', backups')
    <2>1. CASE /\ pc' = [pc EXCEPT ![p] = "temps"]
               /\ run' = [run EXCEPT ![p] = [@ EXCEPT !.rec = marked, !.own = FALSE]]
      <3>1. /\ pc'[p] = "temps" /\ run'[p].rec = marked /\ run'[p].own = FALSE
        BY <2>1, <1>1 DEF IndInv, ControlOK, Run
      <3> QED BY <1>1, <1>4, <3>1 DEF Keeps, Frontier, Going, Rec
    <2>2. CASE OnError(p, marked) /\ UNCHANGED published
      BY <1>1, <1>4, <1>6, <2>2, EasyError
    <2> QED BY <1>1, <2>1, <2>2
  <1> QED BY <1>1, <1>5, <1>8, <1>9, QuietKept

\* A change that is being finished is in effect to its last entry, or not at all.
LEMMA FinishingEnds ==
  ASSUME IndInv, PhaseInv, NEW p \in Proc, pc[p] \in Finishing
  PROVE  /\ pc[p] \notin {"idle", "undo"}
         /\ Frontier(p) = Rec(p).committed
         /\ Frontier(p) = IF run[p].goal = "completed" THEN Len(Rec(p).entries) ELSE 0
         /\ run[p].own => run[p].goal = "completed"
         /\ Txn(p) \in Id /\ Sound(Rec(p)) /\ SamePlan(Rec(p), Rec(p))
         /\ run[p].goal = "completed" => \A tmp, rec : SamePlan(rec, Rec(p)) =>
              StagedFrom(Txn(p), rec, Frontier(p), tmp)
  <1>1. pc[p] \notin {"idle", "undo"}
    BY DEF Finishing, Cleaning
  <1>2. /\ Progress(pc[p], run[p]) /\ run[p].rec = Rec(p) /\ Intent(pc[p], run[p])
        /\ Txn(p) \in Id /\ Sound(Rec(p)) /\ SamePlan(Rec(p), Rec(p))
    BY <1>1, AtPhase
  <1>3. /\ Frontier(p) = Rec(p).committed
        /\ Frontier(p) = IF run[p].goal = "completed" THEN Len(Rec(p).entries) ELSE 0
    BY <1>1, <1>2 DEF Progress, Frontier
  <1>4. run[p].goal = "completed" => \A tmp, rec : SamePlan(rec, Rec(p)) =>
          StagedFrom(Txn(p), rec, Frontier(p), tmp)
    BY <1>2, <1>3, RecordFields DEF StagedFrom, Indices, SamePlan
  <1> QED BY <1>1, <1>2, <1>3, <1>4 DEF Intent

LEMMA FinishingStands ==
  ASSUME IndInv, PhaseInv, TrackInv, NEW p \in Proc, pc[p] \in Finishing,
         journal[Txn(p)] # NoRecord
  PROVE  /\ \A tmp : Stands(Txn(p), journal[Txn(p)], Frontier(p), tmp, backups)
         /\ Rec(p).discard =>
              \A tmp, held : Stands(Txn(p), journal[Txn(p)], Frontier(p), tmp, held)
  <1> DEFINE j == journal[Txn(p)]
             n == Frontier(p)
  <1>1. CASE run[p].goal # "completed"
    BY <1>1, FinishingEnds, NoneStands
  <1>2. CASE run[p].goal = "completed"
    <2>1. Stands(Txn(p), j, n, temps, backups) /\ SamePlan(j, Rec(p)) /\ n = Len(j.entries)
      BY <1>2, FinishingEnds, AtTrack, AtPhase DEF Recorded, SamePlan
    <2>2. \A tmp : StagedFrom(Txn(p), j, n, tmp)
      BY <1>2, <2>1, FinishingEnds
    <2>3. ASSUME Rec(p).discard
          PROVE  j.status = "applied"
      BY <1>2, <2>3, FinishingEnds, AtPhase DEF Recorded
    <2> QED BY <2>1, <2>2, <2>3 DEF Stands
  <1> QED BY <1>1, <1>2

\* An error while finishing.
LEMMA FinishingError ==
  ASSUME IndInv, PhaseInv, NEW p \in Proc, pc[p] \in Finishing,
         NEW rec, Sound(rec), SamePlan(rec, Rec(p)), rec.committed = Rec(p).committed,
         OnError(p, rec)
  PROVE  /\ Keeps(p)
         /\ pc'[p] # "idle" =>
              /\ Frontier(p)' = Frontier(p)
              /\ \A tmp, j, held :
                   Going(pc'[p], Txn(p), run'[p].rec, j, Frontier(p), dirs, tmp, held)
  <1>1. \A tmp : run[p].own => StagedFrom(Txn(p), rec, Frontier(p), tmp)
    BY FinishingEnds
  <1>2. pc[p] \notin {"idle", "undo"}
    BY FinishingEnds
  <1> QED BY <1>1, <1>2, EasyError

LEMMA RemoveTempTrack ==
  ASSUME IndInv, PhaseInv, TrackInv, PublishedInv, IndInv', PhaseInv',
         NEW p \in Proc, RemoveTemp(p), Moves(p)
  PROVE  TrackInv'
  <1> DEFINE rec == Rec(p)
  <1>1. /\ pc[p] \in Finishing
        /\ UNCHANGED <<files, dirs, backups, journal, edits, published>>
        /\ \E s \in temps : \/ Goto(p, "temps", [rec EXCEPT !.temps = @ \ {s[2]}])
                            \/ OnError(p, rec)
    BY DEF RemoveTemp, bounds, Finishing, LeftTemps
  <1>2. PICK s \in temps : \/ Goto(p, "temps", [rec EXCEPT !.temps = @ \ {s[2]}])
                           \/ OnError(p, rec)
    BY <1>1
  <1>3. Sound(rec) /\ SamePlan(rec, rec) /\ pc[p] \notin {"idle", "undo"}
    BY <1>1, FinishingEnds
  <1>4. Records(p)
    BY <1>1, <1>3, JournalStays
  <1>5. journal'[Txn(p)] # NoRecord =>
          Stands(Txn(p), journal'[Txn(p)], Frontier(p), temps', backups')
    BY <1>1, FinishingStands
  <1>6. CASE Goto(p, "temps", [rec EXCEPT !.temps = @ \ {s[2]}])
    <2> DEFINE left == [rec EXCEPT !.temps = @ \ {s[2]}]
    <2>1. SamePlan(left, rec) /\ left.committed = rec.committed
      BY <1>3, TempsField
    <2> HIDE DEF left
    <2>2. Goto(p, "temps", left) /\ "temps" \in Easy
      BY <1>6 DEF left, Easy, Finishing
    <2> QED BY <1>1, <1>3, <1>4, <1>5, <2>1, <2>2, EasyGoto, QuietKept
  <1>7. CASE OnError(p, rec)
    BY <1>1, <1>3, <1>4, <1>5, <1>7, FinishingError, QuietKept
  <1> QED BY <1>2, <1>6, <1>7

LEMMA TempsRemovedTrack ==
  ASSUME IndInv, PhaseInv, TrackInv, PublishedInv, IndInv', PhaseInv',
         NEW p \in Proc, TempsRemoved(p) \/ BackupsDiscarded(p), Moves(p)
  PROVE  TrackInv'
  <1> DEFINE rec == Rec(p)
             bare == [rec EXCEPT !.temps = {}]
  <1>1. /\ pc[p] \in Finishing
        /\ UNCHANGED <<files, dirs, temps, backups, journal, edits, published>>
        /\ \E label \in {"discard", "history"} : Goto(p, label, rec) \/ Goto(p, label, bare)
    BY DEF TempsRemoved, BackupsDiscarded, bounds, disk, Finishing, Cleaning
  <1>2. Sound(rec) /\ SamePlan(rec, rec) /\ pc[p] \notin {"idle", "undo"}
    BY <1>1, FinishingEnds
  <1>3. SamePlan(bare, rec) /\ bare.committed = rec.committed
    BY <1>2, TempsField
  <1> HIDE DEF bare
  <1>4. PICK label \in Easy : Goto(p, label, rec) \/ Goto(p, label, bare)
    BY <1>1 DEF Easy, Finishing, Cleaning
  <1>5. Records(p)
    BY <1>1, <1>2, JournalStays
  <1>6. journal'[Txn(p)] # NoRecord =>
          Stands(Txn(p), journal'[Txn(p)], Frontier(p), temps', backups')
    BY <1>1, FinishingStands
  <1>7. CASE Goto(p, label, rec)
    BY <1>1, <1>2, <1>5, <1>6, <1>7, EasyGoto, QuietKept
  <1>8. CASE Goto(p, label, bare)
    BY <1>1, <1>2, <1>3, <1>5, <1>6, <1>8, EasyGoto, QuietKept
  <1> QED BY <1>4, <1>7, <1>8

LEMMA DiscardBackupTrack ==
  ASSUME IndInv, PhaseInv, TrackInv, PublishedInv, IndInv', PhaseInv',
         NEW p \in Proc, DiscardBackup(p), Moves(p)
  PROVE  TrackInv'
  <1> DEFINE rec == Rec(p)
  <1>1. /\ pc[p] \in Finishing /\ pc[p] = "discard"
        /\ UNCHANGED <<files, dirs, temps, journal, edits, published>>
    BY DEF DiscardBackup, bounds, Finishing, Cleaning
  <1>2. PICK f \in rec.backups : \/ Goto(p, "discard", [rec EXCEPT !.backups = @ \ {f}])
                                 \/ OnError(p, rec)
    BY DEF DiscardBackup
  <1>3. Sound(rec) /\ SamePlan(rec, rec) /\ pc[p] \notin {"idle", "undo"}
    BY <1>1, FinishingEnds
  <1>4. Records(p) /\ rec.discard
    BY <1>1, <1>3, JournalStays, AtPhase DEF Progress
  <1>5. journal'[Txn(p)] # NoRecord =>
          Stands(Txn(p), journal'[Txn(p)], Frontier(p), temps', backups')
    BY <1>1, <1>4, FinishingStands
  <1>6. CASE Goto(p, "discard", [rec EXCEPT !.backups = @ \ {f}])
    <2> DEFINE left == [rec EXCEPT !.backups = @ \ {f}]
    <2>1. SamePlan(left, rec) /\ left.committed = rec.committed
      BY <1>3, BackupsField
    <2> HIDE DEF left
    <2>2. Goto(p, "discard", left) /\ "discard" \in Easy
      BY <1>6 DEF left, Easy, Finishing, Cleaning
    <2> QED BY <1>1, <1>3, <1>4, <1>5, <2>1, <2>2, EasyGoto, QuietKept
  <1>7. CASE OnError(p, rec)
    BY <1>1, <1>3, <1>4, <1>5, <1>7, FinishingError, QuietKept
  <1> QED BY <1>2, <1>6, <1>7

LEMMA WriteHistoryTrack ==
  ASSUME IndInv, PhaseInv, TrackInv, PublishedInv, IndInv', PhaseInv',
         NEW p \in Proc, WriteHistory(p), Moves(p)
  PROVE  TrackInv'
  <1> DEFINE rec == Rec(p)
             filed == [rec EXCEPT !.status = run[p].goal]
  <1>1. /\ pc[p] \in Finishing
        /\ UNCHANGED <<files, dirs, temps, backups, journal, edits, published>>
        /\ Goto(p, "journal", filed) \/ OnError(p, filed)
    BY DEF WriteHistory, bounds, Finishing, Cleaning
  <1>2. /\ Sound(rec) /\ SamePlan(rec, rec) /\ pc[p] \notin {"idle", "undo"}
        /\ run[p].goal \in Status
    BY <1>1, FinishingEnds, AtWork
  <1>3. SamePlan(filed, rec) /\ filed.committed = rec.committed /\ Sound(filed)
    BY <1>2, StatusField, SoundUpdates
  <1> HIDE DEF filed
  <1>4. Records(p)
    BY <1>1, <1>2, JournalStays
  <1>5. journal'[Txn(p)] # NoRecord =>
          Stands(Txn(p), journal'[Txn(p)], Frontier(p), temps', backups')
    BY <1>1, FinishingStands
  <1>6. CASE Goto(p, "journal", filed)
    <2>1. "journal" \in Easy
      BY DEF Easy, Finishing, Cleaning
    <2> QED BY <1>1, <1>2, <1>3, <1>4, <1>5, <1>6, <2>1, EasyGoto, QuietKept
  <1>7. CASE OnError(p, filed)
    BY <1>1, <1>2, <1>3, <1>4, <1>5, <1>7, FinishingError, QuietKept
  <1> QED BY <1>1, <1>6, <1>7

LEMMA RemoveJournalTrack ==
  ASSUME IndInv, PhaseInv, TrackInv, PublishedInv, IndInv', PhaseInv',
         NEW p \in Proc, RemoveJournal(p), Moves(p)
  PROVE  TrackInv'
  <1> DEFINE rec == Rec(p)
             t   == Txn(p)
  <1>1. /\ pc[p] \in Finishing
        /\ UNCHANGED <<files, dirs, temps, backups, edits, published>>
        /\ Goto(p, "prune", rec) \/ OnError(p, rec)
        /\ journal' \in {journal, [journal EXCEPT ![t] = NoRecord]}
    BY DEF RemoveJournal, bounds, Finishing, Cleaning
  <1>2. Sound(rec) /\ SamePlan(rec, rec) /\ pc[p] \notin {"idle", "undo"} /\ t \in Id
    BY <1>1, FinishingEnds
  <1>3. \A u \in Id : journal'[u] \in {journal[u], NoRecord}
    BY <1>1 DEF IndInv, RecordsOK
  <1>4. Records(p)
    BY <1>2, <1>3, AtPhase DEF Recorded, Records
  <1>5. journal'[t] # NoRecord => Stands(t, journal'[t], Frontier(p), temps', backups')
    BY <1>1, <1>2, <1>3, FinishingStands
  <1>6. CASE Goto(p, "prune", rec)
    <2>1. "prune" \in Easy
      BY DEF Easy, Finishing, Cleaning
    <2> QED BY <1>1, <1>2, <1>4, <1>5, <1>6, <2>1, EasyGoto, QuietKept
  <1>7. CASE OnError(p, rec)
    BY <1>1, <1>2, <1>4, <1>5, <1>7, FinishingError, QuietKept
  <1> QED BY <1>1, <1>6, <1>7

LEMMA PruneTrack ==
  ASSUME IndInv, PhaseInv, TrackInv, PublishedInv, IndInv', PhaseInv',
         NEW p \in Proc, Prune(p), Moves(p)
  PROVE  TrackInv'
  <1>1. /\ pc[p] = "prune" /\ pc[p] # "idle" /\ Release(p)
        /\ UNCHANGED <<files, dirs, journal, edits, published>>
    BY DEF Prune, bounds
  <1>2. journal'[Txn(p)] = NoRecord
    BY <1>1, AtPhase DEF Recorded
  <1>3. pc'[p] = "idle" /\ Keeps(p) /\ Records(p)
    BY <1>1, ReleaseRun, ReleaseKeeps, JournalStays
  <1> QED BY <1>1, <1>2, <1>3, QuietKept

LEMMA FailTempsTrack ==
  ASSUME IndInv, PhaseInv, TrackInv, PublishedInv, IndInv', PhaseInv',
         NEW p \in Proc, FailTemps(p), Moves(p)
  PROVE  TrackInv'
  <1> DEFINE rec == Rec(p)
  <1>1. /\ pc[p] = "failTemps" /\ pc[p] \notin {"idle", "undo"}
        /\ UNCHANGED <<files, dirs, backups, journal, edits, published>>
        /\ \/ \E f \in rec.temps : Goto(p, "failTemps", [rec EXCEPT !.temps = @ \ {f}])
           \/ Release(p)
    BY DEF FailTemps, bounds
  <1>2. Sound(rec) /\ SamePlan(rec, rec) /\ SamePlan(journal[Txn(p)], rec)
    BY <1>1, AtPhase, Preparing
  <1>3. Records(p)
    BY <1>1, JournalStays
  <1>4. Stands(Txn(p), journal'[Txn(p)], Frontier(p), temps', backups')
    BY <1>1, <1>2, PreparingStands
  <1>5. ASSUME NEW f \in rec.temps, Goto(p, "failTemps", [rec EXCEPT !.temps = @ \ {f}])
        PROVE  TrackInv'
    <2> DEFINE left == [rec EXCEPT !.temps = @ \ {f}]
    <2>1. SamePlan(left, rec) /\ left.committed = rec.committed
      BY <1>2, TempsField
    <2> HIDE DEF left
    <2>2. Goto(p, "failTemps", left) /\ "failTemps" \in Easy
      BY <1>5 DEF left, Easy
    <2> QED BY <1>1, <1>3, <1>4, <2>1, <2>2, EasyGoto, QuietKept
  <1>6. CASE Release(p)
    BY <1>1, <1>3, <1>4, <1>6, ReleaseRun, ReleaseKeeps, QuietKept
  <1> QED BY <1>1, <1>5, <1>6

\* What can be rolled back has its backups.
LEMMA KeptIsBackedUp ==
  ASSUME NEW t, NEW rec, NEW n, NEW held, OnDisk(t, rec, held), Kept(rec) \/ HarmlessTo(rec, n)
  PROVE  BackedUp(t, rec, n, held)
  BY DEF OnDisk, Kept, HarmlessTo, Harmless, BackedUp, ExpectsBackup

LEMMA UndoTrack ==
  ASSUME IndInv, NEW p \in Proc, pc[p] \notin {"idle", "undo"}, SamePlan(Rec(p), Rec(p)),
         StartUndo(p, Rec(p)), CanRollback(Rec(p)),
         BackedUp(Txn(p), Rec(p), Frontier(p), backups)
  PROVE  /\ Keeps(p)
         /\ pc'[p] # "idle" =>
              /\ Frontier(p)' = Frontier(p)
              /\ \A j, tmp :
                   Going(pc'[p], Txn(p), run'[p].rec, j, Frontier(p), dirs, tmp, backups)
  <1>1. /\ pc'[p] = "undo" /\ run'[p].rec = Rec(p) /\ run'[p].undo = Rec(p).committed
        /\ run'[p].own = FALSE
    BY StartUndoRun
  <1>2. ReversibleTo(Rec(p), Frontier(p))
    BY DEF CanRollback, ReversibleTo, Frontier
  <1> QED BY <1>1, <1>2 DEF Keeps, Frontier, Going

LEMMA FailWriteTrack ==
  ASSUME IndInv, PhaseInv, TrackInv, PublishedInv, IndInv', PhaseInv',
         NEW p \in Proc, FailWrite(p), Moves(p)
  PROVE  TrackInv'
  <1> DEFINE rec == Rec(p)
             t   == Txn(p)
             n   == Frontier(p)
  <1>1. /\ pc[p] = "failWrite" /\ pc[p] \notin {"idle", "undo"}
        /\ Written(t, rec) \/ PerhapsWritten(t, rec)
        /\ (CanRollback(rec) /\ StartUndo(p, rec)) \/ Release(p)
        /\ UNCHANGED <<files, dirs, temps, backups, edits, published>>
    BY DEF FailWrite, bounds
  <1>2. /\ Sound(rec) /\ SamePlan(rec, rec) /\ run[p].rec = rec /\ PlanOK(t, rec)
        /\ Progress("failWrite", run[p]) /\ run[p].own /\ OnDisk(t, rec, backups)
        /\ rec.atomic \in BOOLEAN
    BY <1>1, AtPhase DEF Intent
  <1>3. /\ rec.status = "staged" \/ (rec.status = "staging" /\ rec.atomic)
        /\ rec.status = "staging" => HarmlessTo(rec, n)
        /\ rec.status = "staged" => Kept(rec)
    BY <1>1, <1>2 DEF Progress, Frontier, Cleaning
  <1>4. BackedUp(t, rec, n, backups)
    BY <1>2, <1>3, KeptIsBackedUp
  <1>5. Stands(t, rec, n, temps, backups)
    <2>1. ~rec.atomic => StagedFrom(t, rec, n, temps)
      BY <1>1, AtTrack DEF Going
    <2>2. rec.atomic => ReversibleTo(rec, n)
      BY <1>2, AtomicIsReversible
    <2> QED BY <1>2, <1>3, <1>4, <2>1, <2>2 DEF Stands
  <1>6. Records(p) /\ journal'[t] \in {journal[t], rec}
    BY <1>1, <1>2, JournalFollows
  <1>7. journal'[t] # NoRecord => Stands(t, journal'[t], n, temps', backups')
    BY <1>1, <1>5, <1>6, AtTrack
  <1>8. CASE CanRollback(rec) /\ StartUndo(p, rec)
    BY <1>1, <1>2, <1>4, <1>6, <1>7, <1>8, UndoTrack, QuietKept
  <1>9. CASE Release(p)
    BY <1>1, <1>6, <1>7, <1>9, ReleaseRun, ReleaseKeeps, QuietKept
  <1> QED BY <1>1, <1>8, <1>9

LEMMA UndoneTrack ==
  ASSUME IndInv, PhaseInv, TrackInv, PublishedInv, IndInv', PhaseInv',
         NEW p \in Proc, Undone(p), Moves(p)
  PROVE  TrackInv'
  <1> DEFINE rec  == Rec(p)
             none == [rec EXCEPT !.committed = 0]
  <1>1. /\ pc[p] = "undo" /\ pc[p] # "idle" /\ run[p].undo = 0 /\ Goto(p, "temps", none)
        /\ UNCHANGED <<files, dirs, temps, backups, journal, edits, published>>
    BY DEF Undone, bounds, disk
  <1>2. Sound(rec)
    BY <1>1, AtPhase
  <1>3. SamePlan(none, rec) /\ none.committed = 0
    BY <1>2, CommittedField
  <1> HIDE DEF none
  <1>4. pc'[p] = "temps" /\ run'[p].rec = none /\ Keeps(p)
    BY <1>1, <1>3, GotoRun, GotoKeeps
  <1>5. Frontier(p) = 0 /\ Frontier(p)' = Frontier(p)
    BY <1>1, <1>3, <1>4 DEF Frontier, Rec
  <1>6. Going(pc'[p], Txn(p), run'[p].rec, journal'[Txn(p)], Frontier(p), dirs, temps', backups')
    BY <1>4 DEF Going
  <1>7. Records(p) /\ Stands(Txn(p), journal'[Txn(p)], Frontier(p), temps', backups')
    BY <1>1, <1>5, JournalStays, NoneStands
  <1> QED BY <1>1, <1>4, <1>5, <1>6, <1>7, QuietKept

\* What the loaded record says is what stands in the journal.
LEMMA LoadedTrack ==
  ASSUME IndInv, PhaseInv, TrackInv, NEW p \in Proc, pc[p] = "loaded"
  PROVE  /\ pc[p] \notin {"idle", "undo"} /\ Frontier(p) = Rec(p).committed
         /\ journal[Txn(p)] = Rec(p) /\ Rec(p) # NoRecord
         /\ SamePlan(Rec(p), Rec(p)) /\ Txn(p) \in Id
         /\ Stands(Txn(p), Rec(p), Frontier(p), temps, backups)
  <1>1. pc[p] \notin {"idle", "undo"} /\ journal[Txn(p)] = Rec(p) /\ Rec(p) # NoRecord
    BY Loaded
  <1> QED BY <1>1, AtTrack, AtPhase DEF Frontier

LEMMA CompleteTrack ==
  ASSUME IndInv, PhaseInv, TrackInv, PublishedInv, IndInv', PhaseInv',
         NEW p \in Proc, Complete(p), Moves(p)
  PROVE  TrackInv'
  <1> DEFINE rec == Rec(p)
  <1>1. /\ pc[p] = "loaded" /\ CanComplete(Txn(p), rec)
        /\ Goto(p, IF rec.status = "applied" THEN "temps" ELSE "apply", rec)
        /\ UNCHANGED <<files, dirs, temps, backups, journal, edits, published>>
    BY DEF Complete, bounds, disk
  <1>2. /\ pc[p] \notin {"idle", "undo"} /\ Frontier(p) = rec.committed
        /\ journal[Txn(p)] = rec /\ SamePlan(rec, rec)
        /\ Stands(Txn(p), rec, Frontier(p), temps, backups)
    BY <1>1, LoadedTrack
  <1>3. Records(p)
    BY <1>1, <1>2, JournalStays
  <1>4. CASE rec.status = "applied"
    <2>1. "temps" \in Easy
      BY DEF Easy, Finishing
    <2> QED BY <1>1, <1>2, <1>3, <1>4, <2>1, EasyGoto, QuietKept
  <1>5. CASE rec.status # "applied"
    <2>1. Goto(p, "apply", rec) /\ rec.status = "staged"
      BY <1>1, <1>5 DEF CanComplete
    <2>2. pc'[p] = "apply" /\ run'[p].rec = rec /\ Keeps(p)
      BY <1>2, <2>1, GotoRun, GotoKeeps
    <2>3. StagedFrom(Txn(p), rec, Frontier(p), temps)
      BY <1>1, <1>2, <1>5 DEF CanComplete, StagedMatches, StagedFrom
    <2>4. DirExact(rec, Frontier(p), dirs)
      BY <1>1, <2>1, <1>2, AtTrack DEF Going
    <2>5. Frontier(p)' = Frontier(p)
      BY <1>2, <2>2 DEF Frontier, Rec
    <2>6. Going(pc'[p], Txn(p), run'[p].rec, journal'[Txn(p)], Frontier(p), dirs, temps', backups')
      BY <1>1, <1>2, <2>2, <2>3, <2>4 DEF Going
    <2> QED BY <1>1, <1>2, <1>3, <2>2, <2>5, <2>6, QuietKept
  <1> QED BY <1>4, <1>5

LEMMA RollbackTrack ==
  ASSUME IndInv, PhaseInv, TrackInv, PublishedInv, IndInv', PhaseInv',
         NEW p \in Proc, Rollback(p), Moves(p)
  PROVE  TrackInv'
  <1> DEFINE rec == Rec(p)
  <1>1. /\ pc[p] = "loaded" /\ CanRollback(rec) /\ StartUndo(p, rec)
        /\ UNCHANGED <<files, dirs, temps, backups, journal, edits, published>>
    BY DEF Rollback, bounds, disk
  <1>2. /\ pc[p] \notin {"idle", "undo"}
        /\ journal[Txn(p)] = rec /\ SamePlan(rec, rec)
        /\ Stands(Txn(p), rec, Frontier(p), temps, backups)
    BY <1>1, LoadedTrack
  <1>3. BackedUp(Txn(p), rec, Frontier(p), backups)
    BY <1>1, <1>2 DEF Stands, CanRollback
  <1>4. Records(p)
    BY <1>1, <1>2, JournalStays
  <1> QED BY <1>1, <1>2, <1>3, <1>4, UndoTrack, QuietKept

LEMMA LeaveTrack ==
  ASSUME IndInv, PhaseInv, TrackInv, PublishedInv, IndInv', PhaseInv',
         NEW p \in Proc, Refuse(p) \/ Crash(p), Moves(p)
  PROVE  TrackInv'
  <1>1. /\ pc[p] # "idle" /\ Release(p)
        /\ UNCHANGED <<files, dirs, temps, backups, journal, edits, published>>
    BY DEF Refuse, Crash, bounds, disk
  <1>2. Records(p) /\ Keeps(p) /\ pc'[p] = "idle"
    BY <1>1, JournalStays, ReleaseKeeps, ReleaseRun
  <1>3. journal'[Txn(p)] # NoRecord =>
          Stands(Txn(p), journal'[Txn(p)], Frontier(p), temps', backups')
    BY <1>1, AtTrack
  <1> QED BY <1>1, <1>2, <1>3, QuietKept

-----------------------------------------------------------------------------
(* One entry more, one entry less *)

\* An entry changes only what it names.
LEMMA EntryReach ==
  ASSUME FilesOK, NEW t, NEW rec, Sound(rec), PlanOK(t, rec), NEW i \in Indices(rec)
  PROVE  LET e == rec.entries[i] IN
         /\ e \in Entry /\ EntryOK(t, rec, e)
         /\ e.action \in {"write", "move", "remove", "mkdir", "rmdir"}
         /\ e.action \in {"write", "move", "remove"} => e.path \in File
         /\ e.action = "move" => e.target \in File
         /\ e.action \in {"mkdir", "rmdir"} => \A f \in File : ~Touches(e, f)
         /\ \A f \in File : ~Touches(e, f) =>
              AppliedFiles(e)[f] = files[f] /\ UndoneFiles(rec, e)[f] = files[f]
         /\ \A d : d # e.path => (d \in AppliedDirs(e) <=> d \in dirs)
                              /\ (d \in UndoneDirs(e) <=> d \in dirs)
         /\ \A k \in Indices(rec) \ {i} :
              /\ rec.entries[k].path # e.path
              /\ \A f \in File : Touches(rec.entries[k], f) => ~Touches(e, f)
  <1> DEFINE e == rec.entries[i]
  <1>1. e \in Entry /\ EntryOK(t, rec, e)
    BY RecordFields DEF Indices, PlanOK
  <1>2. e.action \in {"write", "move", "remove", "mkdir", "rmdir"}
    BY <1>1, EntryFields DEF EntryOK, FileAction, DirAction
  <1>3. /\ e.action \in {"write", "move", "remove"} => e.path \in File
        /\ e.action = "move" => e.target \in File
        /\ e.action \in {"mkdir", "rmdir"} => e.path \in Dir
    BY <1>1, EntryFields DEF FileAction, DirAction
  <1>4. \A k \in Indices(rec) \ {i} :
          /\ rec.entries[k].path # e.path
          /\ \A f \in File : Touches(rec.entries[k], f) => ~Touches(e, f)
    BY DEF PlanOK
  <1> HIDE DEF e
  <1>5. e.action \in {"mkdir", "rmdir"} => \A f \in File : ~Touches(e, f)
    BY <1>3, ConstantsAssumption DEF Touches
  <1>6. \A f \in File : ~Touches(e, f) =>
          AppliedFiles(e)[f] = files[f] /\ UndoneFiles(rec, e)[f] = files[f]
    <2>1. ASSUME NEW f \in File, ~Touches(e, f)
          PROVE  AppliedFiles(e)[f] = files[f] /\ UndoneFiles(rec, e)[f] = files[f]
      <3>1. e.action \in {"write", "move", "remove"} => f # e.path
        BY <1>2, <2>1 DEF Touches
      <3>2. e.action = "move" => f # e.target
        BY <2>1 DEF Touches
      <3> QED BY <1>2, <1>3, <3>1, <3>2 DEF FilesOK, AppliedFiles, UndoneFiles
    <2> QED BY <2>1
  <1>7. \A d : d # e.path => (d \in AppliedDirs(e) <=> d \in dirs)
                          /\ (d \in UndoneDirs(e) <=> d \in dirs)
    BY DEF AppliedDirs, UndoneDirs
  <1> QED BY <1>1, <1>2, <1>3, <1>4, <1>5, <1>6, <1>7 DEF e

LEMMA ApplyTracks ==
  ASSUME FilesOK, NEW t, NEW rec, Sound(rec), PlanOK(t, rec), NEW i \in Indices(rec),
         Tracks(t, rec, i - 1, files, dirs)
  PROVE  /\ Tracks(t, rec, i, AppliedFiles(rec.entries[i]), AppliedDirs(rec.entries[i]))
         /\ DirExact(rec, i - 1, dirs) => DirExact(rec, i, AppliedDirs(rec.entries[i]))
  <1> DEFINE e == rec.entries[i]
  <1>1. i \in Nat /\ \A k \in Indices(rec) : k \in Nat
    BY RecordFields DEF Indices
  <1>2. ASSUME NEW k \in Indices(rec) \ {i}
        PROVE  /\ k <= i - 1 <=> k <= i
               /\ k > i - 1 <=> k > i
               /\ rec.entries[k].path # e.path
               /\ \A f \in File : Touches(rec.entries[k], f) => AppliedFiles(e)[f] = files[f]
               /\ rec.entries[k].path \in AppliedDirs(e) <=> rec.entries[k].path \in dirs
    BY <1>1, EntryReach
  <1>3. /\ EntryOK(t, rec, e)
        /\ e.action \in {"write", "move", "remove", "mkdir", "rmdir"}
        /\ e.action \in {"write", "move", "remove"} => e.path \in File
        /\ e.action = "move" => e.target \in File
        /\ e.action \in {"mkdir", "rmdir"} => \A f \in File : ~Touches(e, f)
    BY EntryReach
  <1>4. FileTracks(t, rec, i - 1, files) /\ DirTracks(rec, i - 1, dirs)
    BY DEF Tracks
  <1>5. ASSUME NEW f \in File, Touches(e, f)
        PROVE  AppliedFiles(e)[f] > t \/ AppliedFiles(e)[f] = After(e, f)
    <2>1. e.action = "move" =>
            files[e.path] > t \/ files[e.path] = e.old
      <3>1. e.action = "move" => Touches(e, e.path) /\ Before(e, e.path) = e.old
        BY <1>3 DEF Touches, Before, EntryOK
      <3> QED BY <1>1, <1>3, <1>4, <3>1 DEF FileTracks
    <2> HIDE DEF e
    <2>2. CASE e.action = "write"
      BY <1>3, <1>5, <2>2 DEF FilesOK, AppliedFiles, After, Touches
    <2>3. CASE e.action = "remove"
      BY <1>3, <1>5, <2>3 DEF FilesOK, AppliedFiles, After, Touches, EntryOK
    <2>4. CASE e.action = "move"
      BY <1>3, <1>5, <2>1, <2>4 DEF FilesOK, AppliedFiles, After, Touches, EntryOK
    <2> QED BY <1>3, <1>5, <2>2, <2>3, <2>4
  <1>6. FileTracks(t, rec, i, AppliedFiles(e))
    <2> SUFFICES ASSUME NEW k \in Indices(rec), NEW f \in File, Touches(rec.entries[k], f)
                 PROVE  \/ AppliedFiles(e)[f] > t
                        \/ k <= i /\ AppliedFiles(e)[f] = After(rec.entries[k], f)
                        \/ k > i /\ AppliedFiles(e)[f] = Before(rec.entries[k], f)
      BY DEF FileTracks
    <2>1. CASE k = i
      BY <1>1, <1>5, <2>1
    <2>2. CASE k # i
      <3>1. AppliedFiles(e)[f] = files[f] /\ (k <= i - 1 <=> k <= i) /\ (k > i - 1 <=> k > i)
        BY <1>2, <2>2
      <3>2. \/ files[f] > t
            \/ k <= i - 1 /\ files[f] = After(rec.entries[k], f)
            \/ k > i - 1 /\ files[f] = Before(rec.entries[k], f)
        BY <1>4 DEF FileTracks
      <3> QED BY <3>1, <3>2
    <2> QED BY <2>1, <2>2
  <1>7. /\ e.action = "rmdir" => e.path \notin AppliedDirs(e)
        /\ e.action = "mkdir" => e.path \in AppliedDirs(e)
    BY DEF AppliedDirs
  <1>8. DirTracks(rec, i, AppliedDirs(e))
    <2> SUFFICES ASSUME NEW k \in Indices(rec)
                 PROVE  /\ rec.entries[k].action = "rmdir" =>
                             (rec.entries[k].path \in AppliedDirs(e) <=> k > i)
                        /\ rec.entries[k].action = "mkdir" /\ (rec.entries[k].had \/ k <= i) =>
                             rec.entries[k].path \in AppliedDirs(e)
      BY DEF DirTracks
    <2>1. CASE k = i
      BY <1>1, <1>7, <2>1
    <2>2. CASE k # i
      <3> DEFINE d == rec.entries[k]
      <3>1. /\ d.action = "rmdir" => (d.path \in dirs <=> k > i - 1)
            /\ d.action = "mkdir" /\ (d.had \/ k <= i - 1) => d.path \in dirs
        BY <1>4 DEF DirTracks
      <3>2. /\ d.path \in AppliedDirs(e) <=> d.path \in dirs
            /\ k <= i - 1 <=> k <= i
            /\ k > i - 1 <=> k > i
        BY <1>2, <2>2
      <3> HIDE DEF d
      <3>3. /\ d.action = "rmdir" => (d.path \in AppliedDirs(e) <=> k > i)
            /\ d.action = "mkdir" /\ (d.had \/ k <= i) => d.path \in AppliedDirs(e)
        BY <3>1, <3>2
      <3> QED BY <3>3 DEF d
    <2> QED BY <2>1, <2>2
  <1>9. DirExact(rec, i - 1, dirs) => DirExact(rec, i, AppliedDirs(e))
    <2> SUFFICES ASSUME DirExact(rec, i - 1, dirs), NEW k \in Indices(rec),
                        rec.entries[k].action = "mkdir", ~rec.entries[k].had, k > i
                 PROVE  rec.entries[k].path \notin AppliedDirs(e)
      BY DEF DirExact
    <2>1. k # i /\ k > i - 1
      BY <1>1
    <2>2. rec.entries[k].path \notin dirs
      BY <2>1 DEF DirExact
    <2> QED BY <1>2, <2>1, <2>2
  <1> QED BY <1>6, <1>8, <1>9 DEF Tracks

LEMMA UndoTracks ==
  ASSUME FilesOK, NEW t, NEW rec, Sound(rec), PlanOK(t, rec), NEW i \in Indices(rec),
         Tracks(t, rec, i, files, dirs)
  PROVE  Tracks(t, rec, i - 1, UndoneFiles(rec, rec.entries[i]), UndoneDirs(rec.entries[i]))
  <1> DEFINE e == rec.entries[i]
  <1>1. i \in Nat /\ \A k \in Indices(rec) : k \in Nat
    BY RecordFields DEF Indices
  <1>2. ASSUME NEW k \in Indices(rec) \ {i}
        PROVE  /\ k <= i - 1 <=> k <= i
               /\ k > i - 1 <=> k > i
               /\ rec.entries[k].path # e.path
               /\ \A f \in File : Touches(rec.entries[k], f) => UndoneFiles(rec, e)[f] = files[f]
               /\ rec.entries[k].path \in UndoneDirs(e) <=> rec.entries[k].path \in dirs
    BY <1>1, EntryReach
  <1>3. /\ EntryOK(t, rec, e)
        /\ e.action \in {"write", "move", "remove", "mkdir", "rmdir"}
        /\ e.action \in {"write", "move", "remove"} => e.path \in File
        /\ e.action = "move" => e.target \in File
        /\ e.action \in {"mkdir", "rmdir"} => \A f \in File : ~Touches(e, f)
    BY EntryReach
  <1>4. FileTracks(t, rec, i, files) /\ DirTracks(rec, i, dirs)
    BY DEF Tracks
  <1>5. ASSUME NEW f \in File, Touches(e, f)
        PROVE  UndoneFiles(rec, e)[f] > t \/ UndoneFiles(rec, e)[f] = Before(e, f)
    <2>1. \A g \in File : Touches(e, g) => files[g] > t \/ files[g] = After(e, g)
      BY <1>1, <1>4 DEF FileTracks
    <2> HIDE DEF e
    <2>2. CASE e.action = "write"
      <3>1. f = e.path /\ Before(e, f) = e.old /\ After(e, f) = e.new
        BY <1>3, <1>5, <2>2 DEF Touches, Before, After
      <3>2. NothingToRestore(rec, e) => e.new = e.old
        BY DEF NothingToRestore, NoOpWrite
      <3> QED BY <1>5, <2>1, <2>2, <3>1, <3>2 DEF FilesOK, UndoneFiles
    <2>3. CASE e.action = "remove"
      BY <1>3, <1>5, <2>3 DEF FilesOK, UndoneFiles, Before, Touches
    <2>4. CASE e.action = "move"
      <3>1. /\ Touches(e, e.target) /\ After(e, e.target) = e.old /\ e.path # e.target
            /\ f = e.path \/ f = e.target
        BY <1>3, <1>5, <2>4 DEF Touches, After, EntryOK
      <3>2. files[e.target] > t \/ files[e.target] = e.old
        BY <1>3, <2>1, <2>4, <3>1
      <3>3. UndoneFiles(rec, e) = [files EXCEPT ![e.target] = Absent, ![e.path] = files[e.target]]
        BY <2>4 DEF UndoneFiles
      <3>4. UndoneFiles(rec, e)[f] = IF f = e.path THEN files[e.target] ELSE Absent
        BY <1>3, <2>4, <3>1, <3>3 DEF FilesOK
      <3> QED BY <2>4, <3>1, <3>2, <3>4 DEF Before
    <2> QED BY <1>3, <1>5, <2>2, <2>3, <2>4
  <1>6. FileTracks(t, rec, i - 1, UndoneFiles(rec, e))
    <2> SUFFICES ASSUME NEW k \in Indices(rec), NEW f \in File, Touches(rec.entries[k], f)
                 PROVE  \/ UndoneFiles(rec, e)[f] > t
                        \/ k <= i - 1 /\ UndoneFiles(rec, e)[f] = After(rec.entries[k], f)
                        \/ k > i - 1 /\ UndoneFiles(rec, e)[f] = Before(rec.entries[k], f)
      BY DEF FileTracks
    <2>1. CASE k = i
      BY <1>1, <1>5, <2>1
    <2>2. CASE k # i
      <3>1. UndoneFiles(rec, e)[f] = files[f] /\ (k <= i - 1 <=> k <= i) /\ (k > i - 1 <=> k > i)
        BY <1>2, <2>2
      <3>2. \/ files[f] > t
            \/ k <= i /\ files[f] = After(rec.entries[k], f)
            \/ k > i /\ files[f] = Before(rec.entries[k], f)
        BY <1>4 DEF FileTracks
      <3> QED BY <3>1, <3>2
    <2> QED BY <2>1, <2>2
  <1>7. /\ e.action = "rmdir" => e.path \in UndoneDirs(e)
        /\ e.action = "mkdir" /\ e.had => (e.path \in UndoneDirs(e) <=> e.path \in dirs)
    BY DEF UndoneDirs
  <1>8. DirTracks(rec, i - 1, UndoneDirs(e))
    BY <1>1, <1>2, <1>4, <1>7 DEF DirTracks
  <1> QED BY <1>6, <1>8 DEF Tracks

LEMMA MakeDirectoryTrack ==
  ASSUME IndInv, PhaseInv, TrackInv, PublishedInv, IndInv', PhaseInv',
         NEW p \in Proc, MakeDirectory(p), Moves(p)
  PROVE  TrackInv'
  <1> DEFINE rec == Rec(p)
             t   == Txn(p)
             n   == Frontier(p)
  <1>1. /\ pc[p] = "prepare" /\ pc[p] \notin {"idle", "undo"}
        /\ UNCHANGED <<files, temps, backups, journal, edits, published>>
    BY DEF MakeDirectory, bounds
  <1>2. PICK i \in Indices(rec) :
          /\ FirstOf(i, DirsToMake(rec))
          /\ \/ /\ dirs' = dirs \cup {rec.entries[i].path}
                /\ Goto(p, "prepare", [rec EXCEPT !.committed = i])
             \/ UNCHANGED dirs /\ OnError(p, rec)
    BY DEF MakeDirectory
  <1>3. /\ Sound(rec) /\ SamePlan(rec, rec) /\ rec.status = "staging" /\ PlanOK(t, rec)
        /\ SamePlan(journal[t], rec) /\ MadeOnly(rec, rec.committed) /\ run[p].own
        /\ t \in Id
    BY <1>1, AtPhase, Preparing
  <1>4. Records(p) /\ n = rec.committed
    BY <1>1, JournalStays DEF Frontier
  <1>5. CASE UNCHANGED dirs /\ OnError(p, rec)
    <2>1. Stands(t, journal'[t], n, temps', backups')
      BY <1>1, <1>3, PreparingStands
    <2>2. ~(rec.status = "staged")
      BY <1>3
    <2> QED BY <1>1, <1>3, <1>4, <1>5, <2>1, <2>2, EasyError, QuietKept
  <1>6. CASE /\ dirs' = dirs \cup {rec.entries[i].path}
             /\ Goto(p, "prepare", [rec EXCEPT !.committed = i])
    <2> DEFINE made == [rec EXCEPT !.committed = i]
    <2>1. SamePlan(made, rec) /\ made.committed = i /\ made.temps = rec.temps
      BY <1>3, CommittedField
    <2>2. /\ rec.entries[i].action = "mkdir" /\ i > rec.committed
          /\ \A k \in Indices(rec) : k > rec.committed /\ rec.entries[k].action = "mkdir" => i <= k
      BY <1>2 DEF FirstOf, DirsToMake
    <2>3. i - 1 = n
      <3>1. \A k \in Indices(rec) : k < i => rec.entries[k].action = "mkdir"
        BY <1>3, <2>2 DEF PlanOK
      <3>2. i \in Nat /\ rec.committed \in Nat /\ rec.committed < i /\ Indices(rec) = 1 .. Len(rec.entries)
            /\ Len(rec.entries) \in Nat
        BY <1>3, <2>2, RecordFields DEF Indices
      <3>3. ASSUME rec.committed + 1 < i PROVE FALSE
        <4>1. rec.committed + 1 \in Indices(rec)
          BY <1>2, <3>2, <3>3
        <4> QED BY <2>2, <3>1, <3>2, <3>3, <4>1
      <3> QED BY <1>4, <3>2, <3>3
    <2>4. MadeOnly(rec, i)
      BY <1>3, <2>2, RecordFields DEF MadeOnly, PlanOK, Indices
    <2>5. Stands(t, journal'[t], i, temps', backups')
      BY <1>1, <1>3, <2>4, PlanKept, MadeStands
    <2>6. Tracks(t, rec, i, files', dirs')
      <3>1. Tracks(t, rec, i - 1, files, dirs)
        BY <1>1, <2>3, AtTrack
      <3>2. Tracks(t, rec, i, AppliedFiles(rec.entries[i]), AppliedDirs(rec.entries[i]))
        BY <1>2, <1>3, <3>1, ApplyTracks DEF IndInv
      <3>3. /\ AppliedFiles(rec.entries[i]) = files'
            /\ AppliedDirs(rec.entries[i]) = dirs'
        BY <1>1, <1>6, <2>2 DEF AppliedFiles, AppliedDirs
      <3> QED BY <3>2, <3>3
    <2> HIDE DEF made
    <2>7. pc'[p] = "prepare" /\ run'[p].rec = made /\ Keeps(p)
      BY <1>1, <1>6, <2>1, GotoRun, GotoKeeps DEF made
    <2>8. /\ Frontier(p)' = i
          /\ Going(pc'[p], t, run'[p].rec, journal'[t], i, dirs', temps', backups')
      <3>1. \A f \in rec.temps : <<t, f>> \in temps
        BY <1>1, AtTrack DEF Going
      <3> QED BY <1>1, <2>1, <2>7, <3>1 DEF Frontier, Going, Rec
    <2>9. i \in 0 .. Len(rec.entries)
      BY <1>2, <1>3, RecordFields DEF Indices
    <2>10. NoForeign(t, files') /\ UNCHANGED edits
      BY <1>1, <1>3, AtTrack
    <2> QED BY <1>1, <1>4, <2>5, <2>6, <2>7, <2>8, <2>9, <2>10, TrackKept
  <1> QED BY <1>2, <1>5, <1>6

\* An entry puts nothing newer than its transaction into a file.
LEMMA ApplyNoForeign ==
  ASSUME FilesOK, NEW t \in Id, NEW rec, Sound(rec), PlanOK(t, rec), NEW i \in Indices(rec),
         NoForeign(t, files)
  PROVE  NoForeign(t, AppliedFiles(rec.entries[i]))
  <1> DEFINE e == rec.entries[i]
  <1>1. /\ e \in Entry /\ EntryOK(t, rec, e)
        /\ e.action \in {"write", "move", "remove"} => e.path \in File
        /\ e.action = "move" => e.target \in File
    BY EntryReach
  <1>2. t \in Nat /\ Absent <= t
    BY ConstantsAssumption DEF Id, Absent
  <1>3. e.new \in Int /\ e.old \in Int
    BY <1>1, EntryFields, ConstantsAssumption DEF Content, Absent
  <1>4. e.action = "write" => e.new <= t
    BY <1>1, <1>2, <1>3 DEF EntryOK, NoOpWrite
  <1> HIDE DEF e
  <1>5. \A f \in File : files[f] \in Content
    BY DEF FilesOK
  <1>6. NoForeign(t, AppliedFiles(e))
    BY <1>1, <1>2, <1>4, <1>5 DEF NoForeign, AppliedFiles, FilesOK
  <1> QED BY <1>6 DEF e

LEMMA UndoNoForeign ==
  ASSUME FilesOK, NEW t \in Id, NEW rec, Sound(rec), PlanOK(t, rec), NEW i \in Indices(rec),
         NoForeign(t, files)
  PROVE  NoForeign(t, UndoneFiles(rec, rec.entries[i]))
  <1> DEFINE e == rec.entries[i]
  <1>1. /\ e \in Entry /\ EntryOK(t, rec, e)
        /\ e.action \in {"write", "move", "remove"} => e.path \in File
        /\ e.action = "move" => e.target \in File
    BY EntryReach
  <1>2. t \in Nat /\ Absent <= t
    BY ConstantsAssumption DEF Id, Absent
  <1>3. e.old \in Int
    BY <1>1, EntryFields, ConstantsAssumption DEF Content, Absent
  <1>4. e.old <= t
    BY <1>1, <1>2, <1>3 DEF EntryOK
  <1> HIDE DEF e
  <1>5. NoForeign(t, UndoneFiles(rec, e))
    BY <1>1, <1>2, <1>4 DEF NoForeign, UndoneFiles, FilesOK
  <1> QED BY <1>5 DEF e

\* What is staged for the entries after i, once entry i is in effect.
LEMMA StagedAfter ==
  ASSUME FilesOK, NEW t, NEW rec, Sound(rec), PlanOK(t, rec), NEW i \in Indices(rec),
         StagedFrom(t, rec, i - 1, temps),
         NEW other, SamePlan(other, rec),
         \A f \in rec.temps : f # rec.entries[i].path => f \in other.temps,
         NEW tmp, temps \ {<<t, rec.entries[i].path>>} \subseteq tmp
  PROVE  StagedFrom(t, other, i, tmp)
  <1>1. Indices(other) = Indices(rec) /\ other.entries = rec.entries
    BY DEF Indices, SamePlan
  <1>2. i \in Nat /\ \A k \in Indices(rec) : k \in Nat
    BY RecordFields DEF Indices
  <1>3. \A k \in Indices(rec) : k > i => k > i - 1 /\ rec.entries[k].path # rec.entries[i].path
    BY <1>2 DEF PlanOK
  <1> QED BY <1>1, <1>3 DEF StagedFrom

LEMMA ApplyEntryTrack ==
  ASSUME IndInv, PhaseInv, TrackInv, PublishedInv, IndInv', PhaseInv',
         NEW p \in Proc, ApplyEntry(p), Moves(p)
  PROVE  TrackInv'
  <1> DEFINE rec  == Rec(p)
             t    == Txn(p)
             n    == Frontier(p)
             i    == rec.committed + 1
             e    == rec.entries[i]
             j    == journal[t]
             next == Advanced(rec, i)
  <1>1. /\ pc[p] = "apply" /\ pc[p] \notin {"idle", "undo"} /\ i <= Len(rec.entries)
        /\ UNCHANGED <<backups, journal, edits, published>>
        /\ \/ /\ files' = AppliedFiles(e) /\ dirs' = AppliedDirs(e)
              /\ temps' = IF e.action = "write" THEN temps \ {<<t, e.path>>} ELSE temps
              /\ Goto(p, "apply", next) \/ OnError(p, next)
           \/ UNCHANGED <<files, dirs, temps>> /\ OnError(p, rec)
    BY DEF ApplyEntry, bounds
  <1>2. /\ Sound(rec) /\ SamePlan(rec, rec) /\ PlanOK(t, rec) /\ t \in Id
        /\ rec.atomic \in BOOLEAN /\ rec.discard \in BOOLEAN
    BY <1>1, AtPhase
  <1>3. /\ run[p].own \/ ~rec.atomic
        /\ rec.status = "staged" /\ Kept(rec)
        /\ j # NoRecord /\ j.status = "staged" /\ SamePlan(j, rec)
        /\ run[p].own \/ ~rec.discard => OnDisk(t, rec, backups)
    BY <1>1, Applying
  <1>4. /\ Tracks(t, rec, n, files, dirs) /\ DirExact(rec, n, dirs)
        /\ ~rec.atomic => StagedFrom(t, j, n, temps) /\ StagedFrom(t, rec, n, temps)
        /\ edits = 0 \/ run[p].own => NoForeign(t, files)
        /\ Stands(t, j, n, temps, backups)
    BY <1>1, <1>3, AtTrack DEF Going
  <1>5. /\ n = rec.committed /\ n = i - 1 /\ i \in Indices(rec) /\ i \in 0 .. Len(rec.entries)
    BY <1>1, <1>2, RecordFields DEF Frontier, Indices
  <1>6. Records(p)
    BY <1>1, JournalStays
  <1>7. CASE UNCHANGED <<files, dirs, temps>> /\ OnError(p, rec)
    <2>1. Stands(t, journal'[t], n, temps', backups')
      BY <1>1, <1>4, <1>7
    <2> QED BY <1>1, <1>2, <1>4, <1>5, <1>6, <1>7, <2>1, EasyError, QuietKept
  <1>8. CASE /\ files' = AppliedFiles(e) /\ dirs' = AppliedDirs(e)
             /\ temps' = IF e.action = "write" THEN temps \ {<<t, e.path>>} ELSE temps
             /\ Goto(p, "apply", next) \/ OnError(p, next)
    <2>1. /\ next.committed = i /\ SamePlan(next, rec) /\ next.status = "staged" /\ Sound(next)
      BY <1>1, <1>2, <1>3, <1>5, RecordFields, AdvancedField, AdvancedSound
    <2>2. \A f \in rec.temps : f # e.path => f \in next.temps
      BY <1>2 DEF Advanced, Sound, Record
    <2> HIDE DEF next
    <2>3. Tracks(t, rec, i, files', dirs') /\ DirExact(rec, i, dirs')
      BY <1>2, <1>4, <1>5, <1>8, ApplyTracks DEF IndInv
    <2>4. edits = 0 \/ run[p].own => NoForeign(t, files')
      BY <1>2, <1>4, <1>5, <1>8, ApplyNoForeign DEF IndInv
    <2>5. temps \ {<<t, e.path>>} \subseteq temps'
      BY <1>8
    <2>6. ~rec.atomic => StagedFrom(t, j, i, temps')
      <3>1. Sound(j) /\ PlanOK(t, j) /\ j.entries = rec.entries /\ i \in Indices(j) /\ SamePlan(j, j)
        BY <1>2, <1>3, <1>5, PlanKept DEF IndInv, RecordsOK, SamePlan, Indices
      <3> HIDE DEF j, e, i
      <3> QED BY <1>4, <1>5, <2>5, <3>1, StagedAfter DEF IndInv, e
    <2>7. ~rec.atomic => StagedFrom(t, next, i, temps')
      BY <1>2, <1>4, <1>5, <2>1, <2>2, <2>5, StagedAfter DEF IndInv
    <2>8. BackedUp(t, j, i, backups)
      <3>1. OnDisk(t, rec, backups)
        BY <1>2, <1>3 DEF PlanOK
      <3>2. BackedUp(t, rec, i, backups)
        BY <1>3, <3>1, KeptIsBackedUp
      <3> QED BY <1>3, <3>2, TracksOfPlan
    <2>9. Stands(t, journal'[t], i, temps', backups')
      <3>1. j.atomic => ReversibleTo(j, i)
        BY <1>2, <1>3, PlanKept, AtomicIsReversible
      <3>2. j.atomic = rec.atomic
        BY <1>3 DEF SamePlan
      <3>3. Stands(t, j, i, temps', backups)
        BY <1>3, <2>6, <2>8, <3>1, <3>2 DEF Stands
      <3> QED BY <1>1, <3>3
    <2>10. DirExact(next, i, dirs')
      BY <2>1, <2>3, TracksOfPlan
    <2>11. /\ Keeps(p)
           /\ pc'[p] # "idle" =>
                /\ Frontier(p)' = i
                /\ Going(pc'[p], t, run'[p].rec, journal'[t], i, dirs', temps', backups')
      <3>1. CASE Goto(p, "apply", next)
        <4>1. pc'[p] = "apply" /\ run'[p].rec = next /\ Keeps(p)
          BY <1>1, <2>1, <3>1, GotoRun, GotoKeeps
        <4>2. next.atomic = rec.atomic
          BY <2>1 DEF SamePlan
        <4> QED BY <1>1, <2>1, <2>6, <2>7, <2>10, <4>1, <4>2 DEF Frontier, Going, Rec
      <3>2. CASE OnError(p, next)
        <4>1. Keeps(p)
          BY <1>1, <2>1, <3>2, ErrorFrontier
        <4>2. ASSUME pc'[p] # "idle"
              PROVE  /\ Frontier(p)' = i
                     /\ Going(pc'[p], t, run'[p].rec, journal'[t], i, dirs', temps', backups')
          <5>1. /\ pc'[p] \in {"failTemps", "failWrite"}
                /\ Frontier(p)' = i /\ run'[p].rec.temps = next.temps
                /\ SamePlan(run'[p].rec, rec)
            BY <1>1, <2>1, <3>2, <4>1, <4>2, ErrorFrontier DEF Keeps
          <5>2. SamePlan(run'[p].rec, next) /\ run'[p].rec.atomic = rec.atomic
            BY <2>1, <5>1 DEF SamePlan
          <5>3. ~rec.atomic => StagedFrom(t, run'[p].rec, i, temps')
            BY <2>7, <5>1, <5>2, TracksOfPlan
          <5> QED BY <5>1, <5>2, <5>3 DEF Going
        <4> QED BY <4>1, <4>2
      <3> QED BY <1>8, <3>1, <3>2
    <2>12. Txn(p) \notin published'
      BY <1>1 DEF PublishedInv, Settled, Txn, Finishing, Cleaning
    <2> HIDE DEF i
    <2> QED BY <1>1, <1>5, <1>6, <2>3, <2>4, <2>9, <2>11, <2>12, TrackKept
  <1> QED BY <1>1, <1>7, <1>8

LEMMA UndoEntryTrack ==
  ASSUME IndInv, PhaseInv, TrackInv, PublishedInv, IndInv', PhaseInv',
         NEW p \in Proc, UndoEntry(p), Moves(p)
  PROVE  TrackInv'
  <1> DEFINE rec == Rec(p)
             t   == Txn(p)
             i   == run[p].undo
             e   == rec.entries[i]
             j   == journal[t]
  <1>1. /\ pc[p] = "undo" /\ pc[p] # "idle" /\ i > 0
        /\ UNCHANGED <<temps, backups, journal, edits, published>>
        /\ \/ /\ files' = UndoneFiles(rec, e) /\ dirs' = UndoneDirs(e)
              /\ \/ run' = [run EXCEPT ![p].undo = @ - 1] /\ UNCHANGED pc
                 \/ Release(p)
           \/ UNCHANGED <<files, dirs>> /\ Release(p)
    BY DEF UndoEntry, bounds
  <1>2. /\ Sound(rec) /\ SamePlan(rec, rec) /\ PlanOK(t, rec) /\ t \in Id
        /\ j # NoRecord => SamePlan(j, rec)
    BY <1>1, AtPhase DEF Recorded
  <1>3. /\ Tracks(t, rec, i, files, dirs)
        /\ BackedUp(t, rec, i, backups) /\ ReversibleTo(rec, i)
        /\ edits = 0 \/ run[p].own => NoForeign(t, files)
        /\ j # NoRecord => Stands(t, j, i, temps, backups)
    BY <1>1, AtTrack DEF Going, Frontier
  <1>4. i \in Indices(rec) /\ i - 1 \in 0 .. Len(rec.entries) /\ Frontier(p) = i
        /\ i \in Nat /\ \A k \in Indices(rec) : k \in Nat
    BY <1>1, <1>2, AtWork, RecordFields DEF Indices, Frontier
  <1>5. Records(p)
    BY <1>1, JournalStays
  <1>6. CASE UNCHANGED <<files, dirs>> /\ Release(p)
    BY <1>1, <1>3, <1>4, <1>5, <1>6, ReleaseRun, ReleaseKeeps, QuietKept
  <1>7. CASE /\ files' = UndoneFiles(rec, e) /\ dirs' = UndoneDirs(e)
             /\ \/ run' = [run EXCEPT ![p].undo = @ - 1] /\ UNCHANGED pc
                \/ Release(p)
    <2>1. Tracks(t, rec, i - 1, files', dirs')
      BY <1>2, <1>3, <1>4, <1>7, UndoTracks DEF IndInv
    <2>2. edits = 0 \/ run[p].own => NoForeign(t, files')
      BY <1>2, <1>3, <1>4, <1>7, UndoNoForeign DEF IndInv
    <2>3. BackedUp(t, rec, i - 1, backups) /\ ReversibleTo(rec, i - 1)
      BY <1>3, <1>4 DEF BackedUp, ReversibleTo
    <2>4. j # NoRecord => Stands(t, j, i - 1, temps, backups)
      <3> SUFFICES ASSUME j # NoRecord PROVE Stands(t, j, i - 1, temps, backups)
        OBVIOUS
      <3>1. SamePlan(j, rec) /\ Indices(j) = Indices(rec)
        BY <1>2 DEF SamePlan, Indices
      <3>2. BackedUp(t, j, i - 1, backups) /\ ReversibleTo(j, i - 1)
        BY <2>3, <3>1, TracksOfPlan, PlanKept
      <3>3. j.status = "staging" => HarmlessTo(j, i - 1)
        BY <1>3, <1>4, <3>1 DEF Stands, HarmlessTo
      <3> QED BY <3>2, <3>3 DEF Stands
    <2>5. /\ Keeps(p)
          /\ pc'[p] # "idle" =>
               /\ Frontier(p)' = i - 1
               /\ Going(pc'[p], t, run'[p].rec, journal'[t], i - 1, dirs', temps', backups')
      <3>1. CASE run' = [run EXCEPT ![p].undo = @ - 1] /\ UNCHANGED pc
        <4> DEFINE less == [run[p] EXCEPT !.undo = @ - 1]
        <4>1. run[p] \in Run /\ run'[p] = less
          BY <1>1, <3>1, AtWork DEF IndInv, ControlOK
        <4>2. run'[p].rec = rec /\ run'[p].own = run[p].own /\ run'[p].undo = i - 1
          BY <4>1 DEF Run, Rec
        <4>3. pc'[p] = "undo"
          BY <1>1, <3>1
        <4> HIDE DEF less
        <4> QED BY <1>1, <1>2, <2>3, <4>2, <4>3 DEF Keeps, Frontier, Going, Rec
      <3>2. CASE Release(p)
        BY <3>2, ReleaseRun, ReleaseKeeps
      <3> QED BY <1>7, <3>1, <3>2
    <2>6. Txn(p) \notin published'
      BY <1>1 DEF PublishedInv, Settled, Txn, Finishing, Cleaning
    <2>7. j # NoRecord => Stands(t, journal'[t], i - 1, temps', backups')
      BY <1>1, <2>4
    <2> HIDE DEF i
    <2> QED BY <1>1, <1>4, <1>5, <2>1, <2>2, <2>5, <2>6, <2>7, TrackKept
  <1> QED BY <1>1, <1>6, <1>7

-----------------------------------------------------------------------------
(* What reconcileRecord finds out: the evidence against the entries in effect *)

LEMMA EvidenceTracks ==
  ASSUME FilesOK, NEW t \in Id, NEW rec, Sound(rec), PlanOK(t, rec), NEW i \in Indices(rec),
         NEW n \in Nat, Tracks(t, rec, n, files, dirs)
  PROVE  LET e == rec.entries[i] IN
         /\ i <= n => Evidence(e) # "unapplied"
         /\ i > n /\ Evidence(e) \notin {"unapplied", "unknown"} =>
              Harmless(e) /\ (e.action = "mkdir" => e.path \in dirs)
         /\ i > n /\ Evidence(e) = "applied" => e.action = "mkdir" /\ ~e.had
         /\ NoForeign(t, files) => Evidence(e) # "unknown"
         /\ e.action = "mkdir" /\ ~e.had /\ e.path \in dirs => Evidence(e) = "applied"
  <1> DEFINE e == rec.entries[i]
  <1>1. /\ e \in Entry /\ EntryOK(t, rec, e)
        /\ e.action \in {"write", "move", "remove", "mkdir", "rmdir"}
        /\ e.action \in {"write", "move", "remove"} => e.path \in File
        /\ e.action = "move" => e.target \in File
    BY EntryReach
  <1>2. /\ i \in Nat /\ t \in Nat /\ Absent < t /\ e.old < t
        /\ e.old \in Int /\ e.new \in Int
    BY <1>1, EntryFields, RecordFields, ConstantsAssumption
       DEF Indices, EntryOK, Id, Absent, Content
  <1>3. \A f \in File : Touches(e, f) =>
          /\ files[f] \in Int
          /\ \/ files[f] > t
             \/ i <= n /\ files[f] = After(e, f)
             \/ i > n /\ files[f] = Before(e, f)
    BY ConstantsAssumption DEF Tracks, FileTracks, FilesOK, Content, Absent
  <1>4. /\ e.action = "rmdir" => (e.path \in dirs <=> i > n)
        /\ e.action = "mkdir" /\ (e.had \/ i <= n) => e.path \in dirs
    BY DEF Tracks, DirTracks
  <1>5. NoForeign(t, files) => \A f \in File : ~(files[f] > t)
    BY <1>2, ConstantsAssumption DEF NoForeign, FilesOK, Content, Absent
  <1> HIDE DEF e
  <1>6. CASE e.action = "mkdir"
    <2>1. CASE e.had
      <3>1. Evidence(e) = "none"
        BY <1>6, <2>1 DEF Evidence
      <3>2. Harmless(e) /\ e.path \in dirs
        BY <1>4, <1>6, <2>1 DEF Harmless
      <3> QED BY <2>1, <3>1, <3>2 DEF e
    <2>2. CASE ~e.had
      <3>1. Evidence(e) = IF e.path \in dirs THEN "applied" ELSE "unapplied"
        BY <1>6, <2>2 DEF Evidence
      <3>2. Harmless(e) /\ (i <= n => e.path \in dirs)
        BY <1>4, <1>6 DEF Harmless
      <3> QED BY <1>2, <1>6, <2>2, <3>1, <3>2 DEF e
    <2> QED BY <2>1, <2>2
  <1>7. CASE e.action = "rmdir"
    BY <1>2, <1>4, <1>7 DEF Evidence, e
  <1>8. CASE e.action = "write"
    <2> DEFINE now == files[e.path]
    <2>1. /\ now \in Int
          /\ now > t \/ (i <= n /\ now = e.new) \/ (i > n /\ now = e.old)
      BY <1>1, <1>3, <1>8 DEF Touches, After, Before
    <2>2. CASE NoOpWrite(e)
      BY <1>8, <2>2 DEF Evidence, Harmless, e
    <2>3. CASE ~NoOpWrite(e)
      <3>1. e.new = t /\ (e.had <=> e.old # Absent)
        BY <1>1, <1>8, <2>3 DEF EntryOK
      <3>2. Evidence(e) = IF now = Absent THEN (IF e.had THEN "unknown" ELSE "unapplied")
                          ELSE IF now = e.new THEN "applied"
                          ELSE IF e.had /\ now = e.old THEN "unapplied" ELSE "unknown"
        BY <1>8, <2>3 DEF Evidence
      <3>3. NoForeign(t, files) => ~(now > t)
        BY <1>1, <1>5, <1>8
      <3> HIDE DEF now
      <3>4. CASE e.had
        BY <1>2, <1>8, <2>1, <3>1, <3>2, <3>3, <3>4 DEF e
      <3>5. CASE ~e.had
        BY <1>2, <1>8, <2>1, <3>1, <3>2, <3>3, <3>5 DEF e
      <3> QED BY <3>4, <3>5
    <2> QED BY <2>2, <2>3
  <1>9. CASE e.action = "move"
    <2> DEFINE now  == files[e.path]
               then == files[e.target]
    <2>1. e.old # Absent /\ e.new = e.old /\ e.path # e.target
      BY <1>1, <1>9 DEF EntryOK
    <2>2. /\ now \in Int /\ then \in Int
          /\ now > t \/ (i <= n /\ now = Absent) \/ (i > n /\ now = e.old)
          /\ then > t \/ (i <= n /\ then = e.old) \/ (i > n /\ then = Absent)
      BY <1>1, <1>3, <1>9, <2>1 DEF Touches, After, Before
    <2>3. Evidence(e) = IF now = Absent /\ then = e.new THEN "applied"
                        ELSE IF then = Absent /\ now = e.new THEN "unapplied" ELSE "unknown"
      BY <1>9 DEF Evidence
    <2>4. NoForeign(t, files) => ~(now > t) /\ ~(then > t)
      BY <1>1, <1>5, <1>9
    <2> HIDE DEF now, then
    <2> QED BY <1>2, <1>9, <2>1, <2>2, <2>3, <2>4 DEF e
  <1>10. CASE e.action = "remove"
    <2> DEFINE now == files[e.path]
    <2>1. e.old # Absent /\ e.new = Absent
      BY <1>1, <1>10 DEF EntryOK
    <2>2. /\ now \in Int
          /\ now > t \/ (i <= n /\ now = Absent) \/ (i > n /\ now = e.old)
      BY <1>1, <1>3, <1>10, <2>1 DEF Touches, After, Before
    <2>3. Evidence(e) = IF now = Absent THEN "applied"
                        ELSE IF now = e.old THEN "unapplied" ELSE "unknown"
      BY <1>10 DEF Evidence
    <2>4. NoForeign(t, files) => ~(now > t)
      BY <1>1, <1>5, <1>10
    <2> HIDE DEF now
    <2> QED BY <1>2, <1>10, <2>1, <2>2, <2>3, <2>4 DEF e
  <1> QED BY <1>1, <1>6, <1>7, <1>8, <1>9, <1>10 DEF e

\* Entries without effect on the files may count as in effect or not.
LEMMA HarmlessBetween ==
  ASSUME NEW t, NEW rec, Sound(rec), NEW n \in Nat, NEW m \in Nat, NEW fs, NEW ds,
         Tracks(t, rec, n, fs, ds),
         \A i \in Indices(rec) : (n < i /\ i <= m) \/ (m < i /\ i <= n) =>
           /\ Harmless(rec.entries[i])
           /\ rec.entries[i].action = "mkdir" => rec.entries[i].path \in ds
  PROVE  Tracks(t, rec, m, fs, ds)
  <1>1. \A i \in Indices(rec) : i \in Nat
    BY RecordFields DEF Indices
  <1>2. ASSUME NEW i \in Indices(rec), NEW f \in File, Touches(rec.entries[i], f)
        PROVE  \/ fs[f] > t
               \/ i <= m /\ fs[f] = After(rec.entries[i], f)
               \/ i > m /\ fs[f] = Before(rec.entries[i], f)
    <2> DEFINE e == rec.entries[i]
    <2>1. \/ fs[f] > t
          \/ i <= n /\ fs[f] = After(e, f)
          \/ i > n /\ fs[f] = Before(e, f)
      BY <1>2 DEF Tracks, FileTracks
    <2>2. CASE i <= n <=> i <= m
      BY <1>1, <2>1, <2>2
    <2>3. CASE ~(i <= n <=> i <= m)
      <3>1. Harmless(e)
        BY <1>1, <2>3
      <3>2. e \in Entry
        BY RecordFields DEF Indices
      <3> HIDE DEF e
      <3>3. e.action # "mkdir"
        BY <1>2, <3>2, EntryFields, ConstantsAssumption DEF Touches, DirAction, e
      <3>4. After(e, f) = Before(e, f)
        BY <3>1, <3>3 DEF Harmless, NoOpWrite, After, Before
      <3> QED BY <1>1, <2>1, <3>4 DEF e
    <2> QED BY <2>2, <2>3
  <1>3. ASSUME NEW i \in Indices(rec), rec.entries[i].action = "rmdir"
        PROVE  rec.entries[i].path \in ds <=> i > m
    <2>1. ~Harmless(rec.entries[i])
      BY <1>3 DEF Harmless, NoOpWrite
    <2>2. i > n <=> i > m
      BY <1>1, <2>1
    <2> QED BY <1>3, <2>2 DEF Tracks, DirTracks
  <1>4. ASSUME NEW i \in Indices(rec), rec.entries[i].action = "mkdir",
               rec.entries[i].had \/ i <= m
        PROVE  rec.entries[i].path \in ds
    <2>1. CASE rec.entries[i].had \/ i <= n
      BY <1>4, <2>1 DEF Tracks, DirTracks
    <2>2. CASE ~(i <= n) /\ i <= m
      BY <1>1, <1>4, <2>2
    <2> QED BY <1>4, <2>1, <2>2
  <1>5. FileTracks(t, rec, m, fs)
    BY <1>2 DEF FileTracks
  <1>6. DirTracks(rec, m, ds)
    BY <1>3, <1>4 DEF DirTracks
  <1> QED BY <1>5, <1>6 DEF Tracks

\* The record that loadPending hands on says what is in effect, and recovery can go on
\* from it.
LEMMA ReconciledTracks ==
  ASSUME FilesOK, NEW t \in Id, NEW rec, Sound(rec), PendingOK(t, rec, backups),
         NEW n \in 0 .. Len(rec.entries), Tracks(t, rec, n, files, dirs),
         Stands(t, rec, n, temps, backups),
         (rec.status = "staging" /\ ~rec.atomic) \/ Shows(rec, "unknown") = {}
  PROVE  LET known == Reconciled(rec) IN
         /\ Tracks(t, known, known.committed, files, dirs)
         /\ Stands(t, known, known.committed, temps, backups)
         /\ known.status = "staged" /\ Resolvable(rec) => DirExact(known, known.committed, dirs)
         /\ known.committed \in 0 .. Len(rec.entries)
         /\ rec.status = "staging" /\ ~rec.atomic => known = rec /\ known.committed = 0
         /\ ~(rec.status = "staging" /\ ~rec.atomic) =>
              /\ known.committed = Boundary(rec) /\ n <= known.committed
              /\ known.status = rec.status \/ (known.status = "staged" /\ rec.status = "applied")
              /\ \A i \in Indices(rec) : n < i /\ i <= known.committed => Harmless(rec.entries[i])
  <1> DEFINE known == Reconciled(rec)
  <1>1. /\ n \in Nat /\ Len(rec.entries) \in Nat /\ Indices(rec) = 1 .. Len(rec.entries)
        /\ PlanOK(t, rec) /\ rec # NoRecord /\ rec.atomic \in BOOLEAN
    BY RecordFields, SoundIsRecord DEF Indices, PendingOK
  <1>2. \A i \in Indices(rec) :
          /\ i <= n => Evidence(rec.entries[i]) # "unapplied"
          /\ i > n /\ Evidence(rec.entries[i]) \notin {"unapplied", "unknown"} =>
               /\ Harmless(rec.entries[i])
               /\ rec.entries[i].action = "mkdir" => rec.entries[i].path \in dirs
          /\ rec.entries[i].action = "mkdir" /\ ~rec.entries[i].had
               /\ rec.entries[i].path \in dirs => Evidence(rec.entries[i]) = "applied"
    BY <1>1, EvidenceTracks
  <1>3. CASE rec.status = "staging" /\ ~rec.atomic
    <2>1. known = rec
      BY <1>3 DEF Reconciled, NotReconciled
    <2>2. rec.committed = 0
      BY <1>3 DEF PendingOK
    <2>3. HarmlessTo(rec, n)
      BY <1>3 DEF Stands
    <2>4. Tracks(t, rec, 0, files, dirs)
      <3>1. \A i \in Indices(rec) : i <= n =>
              /\ Harmless(rec.entries[i])
              /\ rec.entries[i].action = "mkdir" => rec.entries[i].path \in dirs
        BY <2>3 DEF HarmlessTo, Tracks, DirTracks
      <3>2. \A i \in Indices(rec) : ~(i <= 0)
        BY <1>1
      <3> QED BY <1>1, <3>1, <3>2, HarmlessBetween
    <2>5. Stands(t, rec, 0, temps, backups)
      BY NoneStands
    <2> HIDE DEF known
    <2> QED BY <1>1, <1>3, <2>1, <2>2, <2>4, <2>5 DEF known
  <1>4. CASE ~(rec.status = "staging" /\ ~rec.atomic)
    <2> DEFINE b == Boundary(rec)
    <2>1. /\ b \in 0 .. Len(rec.entries)
          /\ \A i \in Shows(rec, "unapplied") : b < i
          /\ b = Len(rec.entries) \/ (b + 1) \in Shows(rec, "unapplied")
      BY BoundaryExists
    <2> HIDE DEF b
    <2>2. \A i \in Indices(rec) : Evidence(rec.entries[i]) # "unknown"
      BY <1>4 DEF Shows
    <2>3. n <= b
      BY <1>1, <1>2, <2>1 DEF Shows
    <2>4. \A i \in Indices(rec) : n < i /\ i <= b =>
            /\ Harmless(rec.entries[i])
            /\ rec.entries[i].action = "mkdir" => rec.entries[i].path \in dirs
      BY <1>1, <1>2, <2>1, <2>2 DEF Shows
    <2>5. Tracks(t, rec, b, files, dirs)
      <3>1. \A i \in Indices(rec) : ~(b < i /\ i <= n)
        BY <1>1, <2>1, <2>3
      <3>2. b \in Nat
        BY <1>1, <2>1
      <3> QED BY <1>1, <2>4, <3>1, <3>2, HarmlessBetween
    <2>6. /\ known.committed = b /\ SamePlan(known, rec) /\ known.temps = rec.temps
          /\ known.status = IF NotReconciled(rec) \/ rec.status # "applied"
                            THEN rec.status ELSE "staged"
      <3>1. SamePlan(known, rec) /\ known.temps = rec.temps
        BY ReconciledPending
      <3>2. CASE NotReconciled(rec)
        <4>1. known = rec
          BY <3>2 DEF Reconciled
        <4>2. rec.status = "applied" /\ Shows(rec, "unapplied") = {}
          BY <1>4, <3>2 DEF NotReconciled
        <4>3. b = Len(rec.entries) /\ rec.committed = Len(rec.entries)
          BY <2>1, <4>2 DEF PendingOK
        <4> QED BY <3>1, <3>2, <4>1, <4>3
      <3>3. CASE ~NotReconciled(rec)
        <4>1. known.committed = b
          BY <3>3 DEF Reconciled, Sound, Record, b
        <4>2. known.status = IF rec.status = "applied" THEN "staged" ELSE rec.status
          BY <3>3 DEF Reconciled, Sound, Record
        <4> QED BY <3>1, <3>3, <4>1, <4>2
      <3> QED BY <3>2, <3>3
    <2>7. Stands(t, known, b, temps, backups)
      <3>1. HarmlessTo(rec, n) => HarmlessTo(rec, b)
        BY <1>1, <2>4 DEF HarmlessTo
      <3>2. ReversibleTo(rec, n) => ReversibleTo(rec, b)
        <4>1. \A i \in Indices(rec) : n < i /\ i <= b => Reversible(rec.entries[i])
          BY <2>4 DEF Harmless, Reversible, NoOpWrite
        <4> QED BY <1>1, <4>1 DEF ReversibleTo
      <3>3. StagedFrom(t, rec, n, temps) => StagedFrom(t, rec, b, temps)
        BY <1>1, <2>1, <2>3 DEF StagedFrom
      <3>4. BackedUp(t, rec, n, backups) => BackedUp(t, rec, b, backups)
        BY <1>1, <2>4 DEF BackedUp, Harmless, ExpectsBackup
      <3>5. rec.status = "applied" /\ n = Len(rec.entries) =>
              NotReconciled(rec) /\ b = Len(rec.entries)
        BY <1>1, <1>2, <2>1, <2>3 DEF NotReconciled, Shows
      <3>6. /\ HarmlessTo(rec, b) => HarmlessTo(known, b)
            /\ ReversibleTo(rec, b) => ReversibleTo(known, b)
            /\ BackedUp(t, rec, b, backups) => BackedUp(t, known, b, backups)
            /\ StagedFrom(t, rec, b, temps) => StagedFrom(t, known, b, temps)
        BY <2>6, PlanKept, TracksOfPlan
      <3>7. Len(known.entries) = Len(rec.entries) /\ known.atomic = rec.atomic
        BY <2>6 DEF SamePlan
      <3> HIDE DEF known
      <3>8. known.status = "staging" => HarmlessTo(known, b)
        BY <2>6, <3>1, <3>6 DEF Stands
      <3>9. \/ ReversibleTo(known, b)
            \/ ~known.atomic /\ known.status = "staged" /\ StagedFrom(t, known, b, temps)
        BY <2>6, <3>2, <3>3, <3>6, <3>7 DEF Stands
      <3>10. \/ known.status = "applied" /\ b = Len(known.entries)
             \/ BackedUp(t, known, b, backups)
        BY <2>6, <3>4, <3>5, <3>6, <3>7 DEF Stands
      <3> QED BY <3>8, <3>9, <3>10 DEF Stands
    <2>8. Resolvable(rec) => DirExact(rec, b, dirs)
      <3> SUFFICES ASSUME Resolvable(rec), NEW k \in Indices(rec),
                          rec.entries[k].action = "mkdir", ~rec.entries[k].had, k > b,
                          rec.entries[k].path \in dirs
                   PROVE  FALSE
        BY DEF DirExact
      <3>1. k \in Shows(rec, "applied")
        BY <1>2 DEF Shows
      <3>2. (b + 1) \in Shows(rec, "unapplied")
        BY <1>1, <2>1
      <3>3. k < b + 1
        BY <1>4, <3>1, <3>2 DEF Resolvable
      <3> QED BY <1>1, <2>1, <3>3
    <2>9. /\ Tracks(t, known, b, files, dirs)
          /\ Resolvable(rec) => DirExact(known, b, dirs)
      BY <2>5, <2>6, <2>8, TracksOfPlan
    <2> HIDE DEF known
    <2> QED BY <1>4, <2>1, <2>3, <2>4, <2>6, <2>7, <2>9 DEF b, known
  <1> QED BY <1>3, <1>4

-----------------------------------------------------------------------------
(* Steps that start while nobody works *)

LEMMA AllIdle ==
  ASSUME IndInv, lock = NoProc
  PROVE  \A q \in Proc : pc[q] = "idle"
  BY ConstantsAssumption DEF IndInv, ControlOK

LEMMA AtParked ==
  ASSUME IndInv, TrackInv, lock = NoProc, NEW t \in Id, journal[t] # NoRecord
  PROVE  Parked(t)
  BY AllIdle DEF TrackInv

LEMMA LoadPendingTrack ==
  ASSUME IndInv, PhaseInv, TrackInv, PublishedInv, NEW p \in Proc, NEW t \in Id,
         NEW goal \in {"completed", "rolled_back"}, LoadPending(p, t, goal)
  PROVE  TrackInv'
  <1> DEFINE rec     == journal[t]
             known   == Reconciled(rec)
             started == [txn |-> t, rec |-> known, goal |-> goal, own |-> FALSE, undo |-> 0]
  <1>1. /\ lock = NoProc /\ rec # NoRecord /\ Resolvable(rec)
        /\ \/ /\ Written(t, known)
              /\ pc' = [pc EXCEPT ![p] = "loaded"] /\ run' = [run EXCEPT ![p] = started]
           \/ PerhapsWritten(t, known) /\ UNCHANGED memory
        /\ UNCHANGED <<files, dirs, temps, backups, edits, published>>
    BY DEF LoadPending, bounds
  <1>2. Sound(rec) /\ PendingOK(t, rec, backups)
    BY <1>1 DEF IndInv, RecordsOK, PhaseInv, JournalOK
  <1>3. Parked(t)
    BY <1>1, AtParked
  <1>4. PICK n \in 0 .. Len(rec.entries) :
          /\ Tracks(t, rec, n, files, dirs) /\ Stands(t, rec, n, temps, backups)
          /\ t \in published => n = Len(rec.entries)
    BY <1>3 DEF Parked
  <1>5. (rec.status = "staging" /\ ~rec.atomic) \/ Shows(rec, "unknown") = {}
    BY <1>1 DEF Resolvable
  <1>6. /\ Tracks(t, known, known.committed, files, dirs)
        /\ Stands(t, known, known.committed, temps, backups)
        /\ known.status = "staged" => DirExact(known, known.committed, dirs)
        /\ known.committed \in 0 .. Len(rec.entries)
        /\ ~(rec.status = "staging" /\ ~rec.atomic) => n <= known.committed
    <2> HIDE DEF rec, known
    <2> QED BY <1>1, <1>2, <1>4, <1>5, ReconciledTracks DEF IndInv, known
  <1>7. SamePlan(known, rec) /\ known # NoRecord
    BY <1>2, ReconciledPending
  <1>8. \A q \in Proc : pc[q] = "idle"
    BY <1>1, AllIdle
  <1>9. \A u \in Id : journal[u] # NoRecord => u = t
    BY <1>1 DEF IndInv, OnePending, Pending
  <1>10. t \in published => known.committed = Len(rec.entries)
    <2>1. t \in published => rec.status = "applied" /\ n = Len(rec.entries)
      BY <1>1, <1>4 DEF PublishedInv
    <2> HIDE DEF rec, known
    <2> QED BY <1>4, <1>6, <2>1
  <1>11. Len(known.entries) = Len(rec.entries)
    BY <1>7 DEF SamePlan
  <1> HIDE DEF known
  <1>12. CASE /\ Written(t, known) /\ pc' = [pc EXCEPT ![p] = "loaded"]
              /\ run' = [run EXCEPT ![p] = started]
    <2>1. /\ journal'[t] = known
          /\ pc'[p] = "loaded" /\ run'[p] = started
          /\ \A q \in Proc : pc'[q] # "idle" => q = p
      BY <1>8, <1>12 DEF Written, IndInv, RecordsOK, ControlOK
    <2>2. run'[p].txn = t /\ run'[p].rec = known /\ run'[p].own = FALSE
      BY <2>1
    <2> HIDE DEF started
    <2>3. Frontier(p)' = known.committed
      BY <2>1, <2>2 DEF Frontier, Rec
    <2>4. Going("loaded", t, known, known, known.committed, dirs, temps, backups)
      BY <1>6 DEF Going
    <2>5. edits = 0 => NoForeign(t, files)
      BY <1>3 DEF Parked
    <2>6. TrackRun(p)'
      BY <1>1, <1>6, <2>1, <2>2, <2>3, <2>4, <2>5 DEF TrackRun, Txn, Rec
    <2> QED BY <2>1, <2>6 DEF TrackInv
  <1>13. CASE PerhapsWritten(t, known) /\ UNCHANGED memory
    <2>1. \A u \in Id : journal'[u] = journal[u] \/ (u = t /\ journal'[u] = known)
      BY <1>13 DEF PerhapsWritten, IndInv, RecordsOK
    <2>2. \A q \in Proc : pc'[q] = "idle"
      BY <1>8, <1>13 DEF memory
    <2>3. Parked(t)'
      <3>1. CASE journal'[t] = rec
        BY <1>1, <1>3, <3>1 DEF Parked
      <3>2. CASE journal'[t] = known
        BY <1>1, <1>3, <1>6, <1>10, <1>11, <3>2 DEF Parked
      <3> QED BY <2>1, <3>1, <3>2
    <2>4. \A u \in Id : journal'[u] # NoRecord => u = t
      BY <1>9, <2>1
    <2> QED BY <2>2, <2>3, <2>4 DEF TrackInv
  <1> QED BY <1>1, <1>12, <1>13

\* The plan starts from what is there: no entry is in effect.
LEMMA PlanTracks ==
  ASSUME FilesOK, AgeInv, nextId \in Id, NEW q \in Requests, NEW had,
         Admissible(q), \A m \in Range(q.items) : Acceptable(q, m, had),
         NEW order \in Orders(q)
  PROVE  Tracks(nextId, PlanOf(q, order, nextId), 0, files, dirs)
  <1> DEFINE rec   == PlanOf(q, order, nextId)
             items == q.items
             N     == Cardinality(Wanted(q))
  <1>1. items \in Seq(Item) /\ Len(items) \in Nat /\ Wanted(q) \subseteq 1 .. Len(items)
    BY ConstantsAssumption DEF Request, Wanted
  <1>2. N \in Nat
    <2>1. IsFiniteSet(1 .. Len(items))
      BY <1>1, FS_Interval
    <2>2. IsFiniteSet(Wanted(q))
      BY <1>1, <2>1, FS_Subset, Zenon
    <2> QED BY <2>2, FS_CardinalityType, Zenon
  <1>3. order \in [1 .. N -> Wanted(q)]
    BY DEF Orders
  <1>4. /\ Indices(rec) = 1 .. N
        /\ \A i \in 1 .. N : rec.entries[i] = Planned(items[order[i]], nextId)
    BY <1>2, <1>3 DEF PlanOf, Indices
  <1> HIDE DEF rec, N
  <1>5. ASSUME NEW i \in 1 .. N
        PROVE  LET e == rec.entries[i] IN
               /\ \A f \in File : Touches(e, f) => files[f] = Before(e, f)
               /\ e.action = "rmdir" => e.path \in dirs
               /\ e.action = "mkdir" /\ e.had => e.path \in dirs
    <2> DEFINE m == items[order[i]]
               e == Planned(m, nextId)
    <2>1. m \in Item /\ m \in Range(items) /\ (m.action = "rmdir" => m.path \in dirs)
      BY <1>1, <1>3 DEF Range, Wanted
    <2>2. Acceptable(q, m, had)
      BY <2>1
    <2>3. /\ e.action = m.action /\ e.path = m.path /\ e.target = m.target
          /\ e.old = IF m.path \in File THEN files[m.path] ELSE Absent
          /\ m.path \notin File => (e.had <=> m.path \in dirs)
      BY DEF Planned
    <2> HIDE DEF e, m
    <2>4. m.action \in {"mkdir", "rmdir"} => m.path \in Dir /\ m.path \notin File
      BY <2>1, ConstantsAssumption DEF Item, FileAction, DirAction
    <2>5. m.action = "move" => files[m.target] = Absent
      BY <2>2 DEF Acceptable
    <2>6. \A f \in File : Touches(e, f) => files[f] = Before(e, f)
      BY <2>3, <2>5 DEF Touches, Before
    <2>7. e.action = "mkdir" /\ e.had => e.path \in dirs
      BY <2>3, <2>4
    <2> QED BY <1>4, <2>1, <2>3, <2>6, <2>7 DEF e, m
  <1>6. \A i \in 1 .. N : i > 0 /\ ~(i <= 0)
    BY <1>2
  <1>7. FileTracks(nextId, rec, 0, files)
    BY <1>4, <1>5, <1>6 DEF FileTracks
  <1>8. DirTracks(rec, 0, dirs)
    <2> SUFFICES ASSUME NEW i \in Indices(rec)
                 PROVE  /\ rec.entries[i].action = "rmdir" => (rec.entries[i].path \in dirs <=> i > 0)
                        /\ rec.entries[i].action = "mkdir" /\ (rec.entries[i].had \/ i <= 0) =>
                             rec.entries[i].path \in dirs
      BY DEF DirTracks
    <2>1. i \in 1 .. N /\ i > 0 /\ ~(i <= 0)
      BY <1>4, <1>6
    <2>2. CASE rec.entries[i].had
      BY <1>5, <2>1, <2>2
    <2>3. CASE ~rec.entries[i].had
      BY <1>5, <2>1, <2>3
    <2> QED BY <2>2, <2>3
  <1> QED BY <1>7, <1>8 DEF Tracks, rec

LEMMA StartCommitTrack ==
  ASSUME IndInv, PhaseInv, AgeInv, TrackInv, NEW p \in Proc, NEW q \in Requests,
         StartCommit(p, q)
  PROVE  TrackInv'
  <1>1. PICK order \in Orders(q) :
          run' = [run EXCEPT ![p] = [txn |-> nextId, rec |-> PlanOf(q, order, nextId),
                                     goal |-> "completed", own |-> TRUE, undo |-> 0]]
    BY DEF StartCommit
  <1> DEFINE plan    == PlanOf(q, order, nextId)
             started == [txn |-> nextId, rec |-> plan, goal |-> "completed",
                         own |-> TRUE, undo |-> 0]
  <1>2. /\ nextId \in Id /\ UNCHANGED <<files, dirs, journal>>
        /\ lock = NoProc /\ pc' = [pc EXCEPT ![p] = "begin"]
        /\ Admissible(q) /\ \A m \in Range(q.items) : Acceptable(q, m, seen[p])
    BY ConstantsAssumption DEF StartCommit, IndInv, CountersOK, Id, disk
  <1>3. Tracks(nextId, plan, 0, files, dirs)
    BY <1>2, PlanTracks DEF IndInv
  <1>4. plan.committed = 0
    BY DEF PlanOf
  <1> HIDE DEF plan
  <1>5. /\ started.txn = nextId /\ started.rec = plan
        /\ run' = [run EXCEPT ![p] = started]
    BY <1>1 DEF plan
  <1> HIDE DEF started
  <1>6. journal'[nextId] = NoRecord
    BY <1>2 DEF StartCommit, NoPending, Pending
  <1>7. /\ pc'[p] = "begin" /\ run'[p] = started
        /\ \A u \in Proc : pc'[u] # "idle" => u = p
    BY <1>2, <1>5, AllIdle DEF IndInv, ControlOK
  <1>8. NoForeign(nextId, files)
    BY <1>2, ConstantsAssumption DEF AgeInv, NoForeign, IndInv, FilesOK, Content, Absent, Id
  <1>9. Frontier(p)' = 0
    BY <1>4, <1>5, <1>7 DEF Frontier, Rec
  <1>10. TrackRun(p)'
    BY <1>2, <1>3, <1>5, <1>6, <1>7, <1>8, <1>9 DEF TrackRun, Txn, Rec, Going
  <1> QED BY <1>7, <1>10 DEF TrackInv

LEMMA PruneAtStartTrack ==
  ASSUME IndInv, TrackInv, NEW p \in Proc, PruneAtStart(p)
  PROVE  TrackInv'
  <1>1. /\ lock = NoProc /\ PruneHistory({})
        /\ UNCHANGED <<files, dirs, temps, journal, pc, edits, published>>
    BY DEF PruneAtStart, memory, bounds
  <1>2. \A b \in backups : b[1] \in Pending => b \in backups'
    <2>1. PICK records, trees :
            /\ records \subseteq Finished /\ trees \subseteq records
            /\ backups' = {b \in backups : b[1] \notin trees}
      BY <1>1 DEF PruneHistory, Removed
    <2> QED BY <2>1 DEF Finished
  <1>3. ASSUME NEW t \in Id, journal[t] # NoRecord
        PROVE  Parked(t)'
    <2>1. Parked(t) /\ t \in Pending
      BY <1>1, <1>3, AtParked DEF Pending
    <2>2. \A f : <<t, f>> \in backups => <<t, f>> \in backups'
      BY <1>2, <2>1
    <2>3. \A rec, n : BackedUp(t, rec, n, backups) => BackedUp(t, rec, n, backups')
      BY <2>2 DEF BackedUp
    <2>4. \A rec, n : Stands(t, rec, n, temps, backups) => Stands(t, rec, n, temps, backups')
      BY <2>3 DEF Stands
    <2> QED BY <1>1, <2>1, <2>4 DEF Parked
  <1> QED BY <1>1, <1>3, AllIdle DEF TrackInv

LEMMA OutsideTrack ==
  ASSUME IndInv, PhaseInv, TrackInv,
         \/ \E p \in Proc : Read(p) \/ \E f \in File : Note(p, f)
         \/ UNCHANGED vars
  PROVE  TrackInv'
  <1>1. /\ UNCHANGED <<files, dirs, temps, backups, journal, pc, run, edits, published>>
    BY DEF Read, Note, disk, memory, bounds, vars
  <1> QED BY <1>1 DEF TrackInv, TrackRun, Parked, Txn, Rec, Frontier

LEMMA EditTrack ==
  ASSUME IndInv, PhaseInv, TrackInv, NEW f \in File, Edit(f)
  PROVE  TrackInv'
  <1>1. /\ lock = NoProc /\ edits' = edits + 1 /\ edits \in Nat
        /\ files' = [files EXCEPT ![f] = nextId]
        /\ UNCHANGED <<dirs, temps, backups, journal, pc, published>>
    BY ConstantsAssumption DEF Edit, memory, IndInv, CountersOK
  <1>2. ASSUME NEW t \in Id, journal[t] # NoRecord
        PROVE  Parked(t)'
    <2>1. t < nextId /\ Parked(t)
      BY <1>1, <1>2, AtParked DEF PhaseInv, JournalOK
    <2>2. \A g \in File : files'[g] > t \/ files'[g] = files[g]
      BY <1>1, <2>1, ConstantsAssumption DEF IndInv, FilesOK, CountersOK, Id
    <2>3. PICK n \in 0 .. Len(journal[t].entries) :
            /\ Tracks(t, journal[t], n, files, dirs)
            /\ Stands(t, journal[t], n, temps, backups)
            /\ t \in published => n = Len(journal[t].entries)
      BY <2>1 DEF Parked
    <2>4. Tracks(t, journal[t], n, files', dirs)
      BY <2>2, <2>3 DEF Tracks, FileTracks
    <2>5. ~(edits' = 0)
      BY <1>1
    <2> QED BY <1>1, <2>3, <2>4, <2>5 DEF Parked
  <1> QED BY <1>1, <1>2, AllIdle DEF TrackInv

-----------------------------------------------------------------------------
(* Once published, settled *)

LEMMA PublishedKept ==
  ASSUME IndInv, PhaseInv, PublishedInv, NEW p \in Proc, pc[p] # "idle", Moves(p),
         UNCHANGED <<published, nextId>>,
         \A u \in Id : u # Txn(p) =>
           journal'[u] \in {journal[u], NoRecord} /\ history'[u] \in {history[u], NoRecord},
         Txn(p) \in published =>
           /\ journal'[Txn(p)] \in {journal[Txn(p)], NoRecord}
           /\ history'[Txn(p)] # NoRecord => history'[Txn(p)].status = "completed"
           /\ pc'[p] # "idle" => Settled(p)'
  PROVE  PublishedInv'
  <1>1. \A q \in Proc \ {p} : pc'[q] = "idle"
    BY DEF Moves, IndInv, ControlOK
  <1>2. pc'[p] # "idle" => run'[p].txn = Txn(p)
    BY DEF Moves, Txn
  <1>3. published \subseteq Id
    BY DEF IndInv, CountersOK
  <1> SUFFICES ASSUME NEW t \in published
               PROVE  /\ t < nextId'
                      /\ journal'[t] # NoRecord => journal'[t].status = "applied"
                      /\ history'[t] # NoRecord => history'[t].status = "completed"
                      /\ \A q \in Proc : pc'[q] # "idle" /\ run'[q].txn = t => Settled(q)'
    BY DEF PublishedInv
  <1>4. /\ t < nextId' /\ t \in Id
        /\ journal[t] # NoRecord => journal[t].status = "applied"
        /\ history[t] # NoRecord => history[t].status = "completed"
    BY <1>3 DEF PublishedInv
  <1>5. \A q \in Proc : pc'[q] # "idle" /\ run'[q].txn = t => q = p /\ t = Txn(p)
    BY <1>1, <1>2
  <1>6. CASE t = Txn(p)
    BY <1>4, <1>5, <1>6
  <1>7. CASE t # Txn(p)
    BY <1>4, <1>5, <1>7
  <1> QED BY <1>6, <1>7

\* Before its keys are published, a change touches no other.
LEMMA UnsettledPublished ==
  ASSUME IndInv, PhaseInv, PublishedInv, NEW p \in Proc, pc[p] # "idle", Moves(p),
         pc[p] \notin {"loaded"} \cup Finishing,
         UNCHANGED <<published, nextId, history>>,
         \A u \in Id : u # Txn(p) => journal'[u] = journal[u]
  PROVE  PublishedInv'
  <1>1. Txn(p) \notin published
    BY DEF PublishedInv, Settled, Txn
  <1> QED BY <1>1, PublishedKept

LEMMA EarlyPublished ==
  ASSUME IndInv, PhaseInv, PublishedInv, NEW p \in Proc, Moves(p),
         \/ Begin(p) \/ MakeDirectory(p) \/ WriteBackup(p) \/ StageWrite(p) \/ MarkStaged(p)
         \/ ApplyEntry(p) \/ Applied(p) \/ FailTemps(p) \/ FailWrite(p)
         \/ UndoEntry(p) \/ Undone(p)
  PROVE  PublishedInv'
  <1>1. /\ pc[p] # "idle" /\ pc[p] \notin {"loaded"} \cup Finishing
        /\ UNCHANGED <<published, nextId, history>>
    BY DEF Begin, MakeDirectory, WriteBackup, StageWrite, MarkStaged, ApplyEntry, Applied,
           FailTemps, FailWrite, UndoEntry, Undone, disk, Finishing, Cleaning
  <1>2. \/ UNCHANGED journal
        \/ \E rec : Written(Txn(p), rec) \/ PerhapsWritten(Txn(p), rec)
    BY DEF Begin, MakeDirectory, WriteBackup, StageWrite, MarkStaged, ApplyEntry, Applied,
           FailTemps, FailWrite, UndoEntry, Undone, disk
  <1>3. \A u \in Id : u # Txn(p) => journal'[u] = journal[u]
    BY <1>2 DEF Written, PerhapsWritten, IndInv, RecordsOK
  <1> QED BY <1>1, <1>3, UnsettledPublished

LEMMA MarkAppliedPublished ==
  ASSUME IndInv, PhaseInv, PublishedInv, NEW p \in Proc, Moves(p), MarkApplied(p)
  PROVE  PublishedInv'
  <1> DEFINE t      == Txn(p)
             marked == [Rec(p) EXCEPT !.status = "applied"]
  <1>1. /\ pc[p] = "markApplied" /\ pc[p] # "idle" /\ UNCHANGED <<nextId, history>>
        /\ \/ /\ Written(t, marked) /\ published' = published \cup {t}
              /\ pc' = [pc EXCEPT ![p] = "temps"]
              /\ run' = [run EXCEPT ![p] = [@ EXCEPT !.rec = marked, !.own = FALSE]]
           \/ PerhapsWritten(t, marked) /\ UNCHANGED published
    BY DEF MarkApplied
  <1>2. t \in Id /\ t < nextId /\ run[p].own /\ run[p].goal = "completed" /\ Sound(Rec(p))
        /\ history[t] = NoRecord
    <2>1. run[p].own /\ run[p].goal = "completed"
      BY <1>1, AtPhase DEF Intent
    <2> QED BY <1>1, <2>1, AtPhase DEF Recorded
  <1>3. marked.status = "applied"
    BY <1>2, StatusField
  <1> HIDE DEF marked
  <1>4. \A u \in Id : u # t => journal'[u] = journal[u]
    BY <1>1 DEF Written, PerhapsWritten, IndInv, RecordsOK
  <1>5. CASE PerhapsWritten(t, marked) /\ UNCHANGED published
    BY <1>1, <1>4, <1>5, UnsettledPublished DEF Finishing, Cleaning
  <1>6. CASE /\ Written(t, marked) /\ published' = published \cup {t}
             /\ pc' = [pc EXCEPT ![p] = "temps"]
             /\ run' = [run EXCEPT ![p] = [@ EXCEPT !.rec = marked, !.own = FALSE]]
    <2>1. journal'[t] = marked
      BY <1>2, <1>6 DEF Written, IndInv, RecordsOK
    <2>2. /\ pc'[p] = "temps" /\ run'[p].rec = marked /\ ~run'[p].own
          /\ run'[p].goal = "completed" /\ run'[p].txn = t
      BY <1>1, <1>2, <1>6 DEF IndInv, ControlOK, Run, Txn
    <2>3. Settled(p)'
      BY <1>3, <2>2 DEF Settled, Finishing, Rec
    <2>4. \A q \in Proc : pc'[q] # "idle" => q = p
      BY <1>1 DEF Moves, IndInv, ControlOK
    <2>5. \A u \in published : u < nextId /\ u \in Id
      BY DEF PublishedInv, IndInv, CountersOK
    <2>6. \A u \in published' : u = t \/ (u # t /\ u \in published)
      BY <1>6
    <2>7. \A u \in published' : u < nextId' /\
            (journal'[u] # NoRecord => journal'[u].status = "applied") /\
            (history'[u] # NoRecord => history'[u].status = "completed")
      BY <1>1, <1>2, <1>3, <1>4, <2>1, <2>5, <2>6 DEF PublishedInv
    <2> QED BY <2>2, <2>3, <2>4, <2>7 DEF PublishedInv
  <1> QED BY <1>1, <1>5, <1>6

\* A settled change is not ours any more: its errors are returned.
LEMMA SettledStep ==
  ASSUME IndInv, PhaseInv, PublishedInv, NEW p \in Proc, pc[p] # "idle", Moves(p),
         UNCHANGED <<published, nextId>>,
         \A u \in Id : journal'[u] \in {journal[u], NoRecord},
         \A u \in Id : u # Txn(p) => history'[u] \in {history[u], NoRecord},
         Txn(p) \in published =>
           (history'[Txn(p)] # NoRecord => history'[Txn(p)].status = "completed"),
         \/ Release(p)
         \/ \E rec : OnError(p, rec)
         \/ \E label \in Finishing : \E rec :
              /\ Goto(p, label, rec) /\ run[p].goal = "completed"
              /\ Settled(p) => rec.status \in {"applied", "completed"}
  PROVE  PublishedInv'
  <1>1. ASSUME Txn(p) \in published, pc'[p] # "idle"
        PROVE  Settled(p)'
    <2>1. Settled(p)
      BY <1>1 DEF PublishedInv, Txn
    <2>2. ~Release(p)
      BY <1>1, ReleaseRun
    <2>3. ~\E rec : OnError(p, rec)
      BY <2>1, <2>2 DEF OnError, Settled
    <2>4. PICK label \in Finishing : \E rec :
            /\ Goto(p, label, rec) /\ run[p].goal = "completed"
            /\ rec.status \in {"applied", "completed"}
      BY <2>1, <2>2, <2>3
    <2> PICK rec :
            /\ Goto(p, label, rec) /\ run[p].goal = "completed"
            /\ rec.status \in {"applied", "completed"}
      BY <2>4
    <2>5. /\ pc'[p] = label /\ run'[p].rec = rec /\ (run'[p].own = run[p].own)
          /\ run'[p].goal = run[p].goal
      BY <2>4, GotoRun
    <2> QED BY <2>1, <2>4, <2>5 DEF Settled, Rec
  <1>2. Txn(p) \in Id
    BY AtWork
  <1> QED BY <1>1, <1>2, PublishedKept

LEMMA FinishPublished ==
  ASSUME IndInv, PhaseInv, PublishedInv, NEW p \in Proc, Moves(p),
         \/ RemoveTemp(p) \/ TempsRemoved(p) \/ DiscardBackup(p) \/ BackupsDiscarded(p)
         \/ WriteHistory(p) \/ RemoveJournal(p) \/ Prune(p)
  PROVE  PublishedInv'
  <1> DEFINE rec == Rec(p)
             t   == Txn(p)
  <1>1. pc[p] \in Finishing /\ pc[p] # "idle" /\ UNCHANGED <<published, nextId>>
    BY DEF RemoveTemp, TempsRemoved, DiscardBackup, BackupsDiscarded, WriteHistory,
           RemoveJournal, Prune, Finishing, Cleaning, disk
  <1>2. Sound(rec) /\ t \in Id
    BY <1>1, AtWork
  <1>3. CASE run[p].goal # "completed"
    <2>1. t \notin published
      BY <1>1, <1>3 DEF PublishedInv, Settled, Txn, Finishing, Cleaning
    <2>2. \A u \in Id : u # t =>
            journal'[u] \in {journal[u], NoRecord} /\ history'[u] \in {history[u], NoRecord}
      <3>1. ASSUME Prune(p) PROVE \A u \in Id : history'[u] \in {history[u], NoRecord}
        BY <3>1 DEF Prune, PruneHistory
      <3> QED BY <3>1 DEF RemoveTemp, TempsRemoved, DiscardBackup, BackupsDiscarded,
                          WriteHistory, RemoveJournal, Prune, disk, IndInv, RecordsOK
    <2> QED BY <1>1, <2>1, <2>2, PublishedKept
  <1>4. CASE run[p].goal = "completed"
    <2>1. CASE \/ RemoveTemp(p) \/ TempsRemoved(p) \/ DiscardBackup(p) \/ BackupsDiscarded(p)
      <3>1. UNCHANGED <<journal, history>>
        BY <2>1 DEF RemoveTemp, TempsRemoved, DiscardBackup, BackupsDiscarded, disk
      <3>2. \/ \E r : OnError(p, r)
            \/ \E label \in Finishing : \/ Goto(p, label, rec)
                                        \/ \E F : Goto(p, label, [rec EXCEPT !.temps = F])
                                        \/ \E F : Goto(p, label, [rec EXCEPT !.backups = F])
        BY <2>1 DEF RemoveTemp, TempsRemoved, DiscardBackup, BackupsDiscarded, Finishing, Cleaning
      <3>3. \A F : /\ [rec EXCEPT !.temps = F].status = rec.status
                   /\ [rec EXCEPT !.backups = F].status = rec.status
        BY <1>2, TempsField, BackupsField
      <3>4. Settled(p) => rec.status \in {"applied", "completed"}
        BY DEF Settled
      <3>5. t \in published =>
              (history'[t] # NoRecord => history'[t].status = "completed")
        BY <3>1 DEF PublishedInv
      <3>6. \/ \E r : OnError(p, r)
            \/ \E label \in Finishing : \E r : Goto(p, label, r) /\ r.status = rec.status
        BY <3>2, <3>3
      <3>7. \/ \E r : OnError(p, r)
            \/ \E label \in Finishing : \E r :
                 /\ Goto(p, label, r) /\ run[p].goal = "completed"
                 /\ Settled(p) => r.status \in {"applied", "completed"}
        BY <1>4, <3>4, <3>6
      <3> QED BY <1>1, <3>1, <3>5, <3>7, SettledStep
    <2>2. CASE WriteHistory(p)
      <3> DEFINE filed == [rec EXCEPT !.status = run[p].goal]
      <3>1. /\ UNCHANGED journal
            /\ history' \in {history, [history EXCEPT ![t] = filed]}
            /\ Goto(p, "journal", filed) \/ OnError(p, filed)
        BY <2>2 DEF WriteHistory
      <3>2. filed.status = "completed"
        BY <1>2, <1>4, StatusField
      <3> HIDE DEF filed
      <3>3. t \in published =>
              (history'[t] # NoRecord => history'[t].status = "completed")
        BY <1>2, <3>1, <3>2 DEF PublishedInv, IndInv, RecordsOK
      <3>4. \A u \in Id : u # t => history'[u] \in {history[u], NoRecord}
        BY <3>1 DEF IndInv, RecordsOK
      <3>5. "journal" \in Finishing
        BY DEF Finishing, Cleaning
      <3> QED BY <1>1, <1>4, <3>1, <3>2, <3>3, <3>4, <3>5, SettledStep
    <2>3. CASE RemoveJournal(p)
      <3>1. /\ UNCHANGED history
            /\ journal' \in {journal, [journal EXCEPT ![t] = NoRecord]}
            /\ Goto(p, "prune", rec) \/ OnError(p, rec)
        BY <2>3 DEF RemoveJournal
      <3>2. \A u \in Id : journal'[u] \in {journal[u], NoRecord}
        BY <3>1 DEF IndInv, RecordsOK
      <3>3. "prune" \in Finishing
        BY DEF Finishing, Cleaning
      <3>4. Settled(p) => rec.status \in {"applied", "completed"}
        BY DEF Settled
      <3>5. t \in published =>
              (history'[t] # NoRecord => history'[t].status = "completed")
        BY <3>1 DEF PublishedInv
      <3> QED BY <1>1, <1>4, <3>1, <3>2, <3>3, <3>4, <3>5, SettledStep
    <2>4. CASE Prune(p)
      <3>1. Release(p) /\ UNCHANGED journal
        BY <2>4 DEF Prune
      <3>2. \A u \in Id : history'[u] \in {history[u], NoRecord}
        BY <2>4 DEF Prune, PruneHistory
      <3>3. t \in published =>
              (history'[t] # NoRecord => history'[t].status = "completed")
        BY <1>2, <3>2 DEF PublishedInv
      <3> QED BY <1>1, <3>1, <3>2, <3>3, SettledStep
    <2> QED BY <2>1, <2>2, <2>3, <2>4
  <1> QED BY <1>3, <1>4

LEMMA LeavePublished ==
  ASSUME IndInv, PhaseInv, PublishedInv, NEW p \in Proc, Moves(p),
         Complete(p) \/ Rollback(p) \/ Refuse(p) \/ Crash(p)
  PROVE  PublishedInv'
  <1> DEFINE t == Txn(p)
  <1>1. pc[p] # "idle" /\ UNCHANGED <<journal, history, published, nextId>>
    BY DEF Complete, Rollback, Refuse, Crash, disk
  <1>2. t \in published => (history'[t] # NoRecord => history'[t].status = "completed")
    BY <1>1 DEF PublishedInv
  <1>3. ASSUME pc[p] = "loaded", t \in published
        PROVE  Rec(p).status = "applied"
    <2>1. Rec(p).status \in {"applied", "completed"}
      BY <1>1, <1>3 DEF PublishedInv, Settled, Txn
    <2>2. PendingOK(t, Rec(p), backups)
      BY <1>3, Loaded
    <2> QED BY <2>1, <2>2 DEF PendingOK
  <1>4. CASE Refuse(p) \/ Crash(p)
    <2>1. Release(p)
      BY <1>4 DEF Refuse, Crash
    <2> QED BY <1>1, <1>2, <2>1, SettledStep
  <1>5. CASE Complete(p)
    <2>1. CASE Rec(p).status = "applied"
      <3>1. Goto(p, "temps", Rec(p)) /\ run[p].goal = "completed" /\ "temps" \in Finishing
        BY <1>5, <2>1 DEF Complete, Finishing
      <3> QED BY <1>1, <1>2, <2>1, <3>1, SettledStep
    <2>2. CASE Rec(p).status # "applied"
      <3>1. t \notin published
        BY <1>3, <1>5, <2>2 DEF Complete
      <3> QED BY <1>1, <3>1, PublishedKept
    <2> QED BY <2>1, <2>2
  <1>6. CASE Rollback(p)
    <2>1. t \notin published
      BY <1>3, <1>6 DEF Rollback, CanRollback
    <2> QED BY <1>1, <2>1, PublishedKept
  <1> QED BY <1>4, <1>5, <1>6

\* A record in effect to its last entry is left as it is.
LEMMA InEffectStays ==
  ASSUME FilesOK, NEW t \in Id, NEW rec, Sound(rec), PlanOK(t, rec), rec.status = "applied",
         Tracks(t, rec, Len(rec.entries), files, dirs)
  PROVE  Reconciled(rec) = rec
  <1>1. Len(rec.entries) \in Nat /\ \A i \in Indices(rec) : i <= Len(rec.entries)
    BY RecordFields DEF Indices
  <1>2. \A i \in Indices(rec) : Evidence(rec.entries[i]) # "unapplied"
    BY <1>1, EvidenceTracks
  <1> QED BY <1>2 DEF Reconciled, NotReconciled, Shows

LEMMA LoadPendingPublished ==
  ASSUME IndInv, PhaseInv, TrackInv, PublishedInv, NEW p \in Proc, NEW t \in Id,
         NEW goal \in {"completed", "rolled_back"}, LoadPending(p, t, goal)
  PROVE  PublishedInv'
  <1> DEFINE rec     == journal[t]
             known   == Reconciled(rec)
             started == [txn |-> t, rec |-> known, goal |-> goal, own |-> FALSE, undo |-> 0]
  <1>1. /\ lock = NoProc /\ rec # NoRecord
        /\ \/ /\ Written(t, known)
              /\ pc' = [pc EXCEPT ![p] = "loaded"] /\ run' = [run EXCEPT ![p] = started]
           \/ PerhapsWritten(t, known) /\ UNCHANGED memory
        /\ UNCHANGED <<history, published, nextId>>
    BY DEF LoadPending
  <1>2. Sound(rec) /\ PendingOK(t, rec, backups) /\ Parked(t)
    BY <1>1, AtParked DEF IndInv, RecordsOK, PhaseInv, JournalOK
  <1>3. ASSUME t \in published PROVE known = rec /\ rec.status = "applied"
    <2>1. rec.status = "applied"
      BY <1>1, <1>3 DEF PublishedInv
    <2>2. Tracks(t, rec, Len(rec.entries), files, dirs)
      BY <1>2, <1>3 DEF Parked
    <2>3. PlanOK(t, rec)
      BY <1>2 DEF PendingOK
    <2> HIDE DEF rec
    <2> QED BY <1>2, <2>1, <2>2, <2>3, InEffectStays DEF IndInv
  <1>4. \A q \in Proc : pc[q] = "idle"
    BY <1>1, AllIdle
  <1> HIDE DEF known, rec
  <1>5. \A u \in Id : journal'[u] = journal[u] \/ (u = t /\ journal'[u] = known)
    BY <1>1 DEF Written, PerhapsWritten, IndInv, RecordsOK
  <1>6. \A q \in Proc : pc'[q] # "idle" => pc'[q] = "loaded" /\ run'[q] = started
    BY <1>1, <1>4 DEF memory, IndInv, ControlOK
  <1>7. /\ started.txn = t /\ started.rec = known /\ ~started.own
    OBVIOUS
  <1> HIDE DEF started
  <1>8. published \subseteq Id
    BY DEF IndInv, CountersOK
  <1>9. \A u \in published : journal'[u] # NoRecord => journal'[u].status = "applied"
    BY <1>3, <1>5, <1>8 DEF PublishedInv, rec
  <1>10. \A u \in published, q \in Proc : pc'[q] # "idle" /\ run'[q].txn = u => Settled(q)'
    BY <1>3, <1>6, <1>7 DEF Settled, Rec
  <1> QED BY <1>1, <1>9, <1>10 DEF PublishedInv

LEMMA StartCommitPublished ==
  ASSUME IndInv, PhaseInv, PublishedInv, NEW p \in Proc, NEW q \in Requests, StartCommit(p, q)
  PROVE  PublishedInv'
  <1>1. /\ nextId \in Nat /\ nextId' = nextId + 1 /\ lock = NoProc
        /\ UNCHANGED <<journal, history, published>> /\ published \subseteq Nat
        /\ pc' = [pc EXCEPT ![p] = "begin"]
    BY ConstantsAssumption DEF StartCommit, IndInv, CountersOK, Id, disk
  <1>2. \A u \in Proc : pc'[u] # "idle" => run'[u].txn = nextId
    <2>1. PICK order \in Orders(q) :
            run' = [run EXCEPT ![p] = [txn |-> nextId, rec |-> PlanOf(q, order, nextId),
                                       goal |-> "completed", own |-> TRUE, undo |-> 0]]
      BY DEF StartCommit
    <2> QED BY <1>1, <2>1, AllIdle DEF IndInv, ControlOK
  <1>3. \A t \in published : t < nextId /\ t < nextId' /\ t # nextId
    BY <1>1 DEF PublishedInv
  <1> QED BY <1>1, <1>2, <1>3 DEF PublishedInv

LEMMA OutsidePublished ==
  ASSUME IndInv, PhaseInv, PublishedInv,
         \/ \E p \in Proc : Read(p) \/ PruneAtStart(p) \/ \E f \in File : Note(p, f)
         \/ \E f \in File : Edit(f)
         \/ UNCHANGED vars
  PROVE  PublishedInv'
  <1>1. /\ UNCHANGED <<journal, pc, run, published>> /\ nextId' \in {nextId, nextId + 1}
    BY DEF Read, PruneAtStart, Note, Edit, disk, memory, vars
  <1>2. nextId \in Nat /\ published \subseteq Id /\ published \subseteq Nat
    BY ConstantsAssumption DEF IndInv, CountersOK, Id
  <1>3. \A t \in published : t < nextId /\ t < nextId' /\ t # nextId
    BY <1>1, <1>2 DEF PublishedInv
  <1>4. \A t \in Id : t # nextId => history'[t] \in {history[t], NoRecord}
    <2>1. ASSUME NEW p \in Proc, PruneAtStart(p)
          PROVE  \A t \in Id : history'[t] \in {history[t], NoRecord}
      BY <2>1 DEF PruneAtStart, PruneHistory
    <2>2. ASSUME NEW p \in Proc, NEW f \in File, Note(p, f)
          PROVE  \A t \in Id : t # nextId => history'[t] = history[t]
      BY <2>2 DEF Note, IndInv, RecordsOK
    <2> QED BY <2>1, <2>2 DEF Read, Edit, disk, vars
  <1>5. \A t \in published : history'[t] # NoRecord => history'[t].status = "completed"
    BY <1>2, <1>3, <1>4 DEF PublishedInv
  <1> QED BY <1>1, <1>3, <1>5 DEF PublishedInv, Settled, Rec

-----------------------------------------------------------------------------
(* The invariant of the specification *)

FilesInv == PhaseInv /\ AgeInv /\ TrackInv /\ PublishedInv

LEMMA StepFiles ==
  ASSUME IndInv, FilesInv, IndInv', PhaseInv', NEW p \in Proc, Step(p)
  PROVE  TrackInv' /\ PublishedInv'
  <1> USE DEF FilesInv
  <1>1. ASSUME Begin(p) \/ MakeDirectory(p) \/ WriteBackup(p) \/ StageWrite(p) \/ MarkStaged(p)
        PROVE  TrackInv' /\ PublishedInv'
    BY <1>1, BeginStep, MakeDirectoryStep, WriteBackupStep, StageWriteStep, MarkStagedStep,
       BeginTrack, MakeDirectoryTrack, WriteBackupTrack, StageWriteTrack, MarkStagedTrack,
       EarlyPublished
  <1>2. ASSUME ApplyEntry(p) \/ Applied(p) \/ MarkApplied(p)
        PROVE  TrackInv' /\ PublishedInv'
    BY <1>2, ApplyEntryStep, AppliedStep, MarkAppliedStep,
       ApplyEntryTrack, AppliedTrack, MarkAppliedTrack, EarlyPublished, MarkAppliedPublished
  <1>3. ASSUME \/ RemoveTemp(p) \/ TempsRemoved(p) \/ DiscardBackup(p) \/ BackupsDiscarded(p)
               \/ WriteHistory(p) \/ RemoveJournal(p) \/ Prune(p)
        PROVE  TrackInv' /\ PublishedInv'
    BY <1>3, RemoveTempStep, TempsRemovedStep, DiscardBackupStep, BackupsDiscardedStep,
       WriteHistoryStep, RemoveJournalStep, PruneStep, RemoveTempTrack, TempsRemovedTrack,
       DiscardBackupTrack, WriteHistoryTrack, RemoveJournalTrack, PruneTrack, FinishPublished
  <1>4. ASSUME FailTemps(p) \/ FailWrite(p) \/ UndoEntry(p) \/ Undone(p)
        PROVE  TrackInv' /\ PublishedInv'
    BY <1>4, FailTempsStep, FailWriteStep, UndoEntryStep, UndoneStep,
       FailTempsTrack, FailWriteTrack, UndoEntryTrack, UndoneTrack, EarlyPublished
  <1>5. ASSUME Complete(p) \/ Rollback(p) \/ Refuse(p)
        PROVE  TrackInv' /\ PublishedInv'
    BY <1>5, LoadedStep, CompleteTrack, RollbackTrack, LeaveTrack, LeavePublished
  <1> QED BY <1>1, <1>2, <1>3, <1>4, <1>5 DEF Step

LEMMA NextFiles ==
  ASSUME IndInv, FilesInv, IndInv', PhaseInv', [Next]_vars
  PROVE  TrackInv' /\ PublishedInv'
  <1> USE DEF FilesInv
  <1>1. ASSUME NEW p \in Proc, Read(p) \/ PruneAtStart(p)
        PROVE  TrackInv' /\ PublishedInv'
    BY <1>1, OutsideTrack, PruneAtStartTrack, OutsidePublished
  <1>2. ASSUME NEW p \in Proc, Crash(p)
        PROVE  TrackInv' /\ PublishedInv'
    BY <1>2, CrashStep, LeaveTrack, LeavePublished
  <1>3. ASSUME NEW p \in Proc, NEW q \in Requests, StartCommit(p, q)
        PROVE  TrackInv' /\ PublishedInv'
    BY <1>3, StartCommitTrack, StartCommitPublished
  <1>4. ASSUME NEW p \in Proc, NEW t \in Id, NEW goal \in {"completed", "rolled_back"},
               LoadPending(p, t, goal)
        PROVE  TrackInv' /\ PublishedInv'
    BY <1>4, LoadPendingTrack, LoadPendingPublished
  <1>5. ASSUME NEW p \in Proc, NEW f \in File, Note(p, f)
        PROVE  TrackInv' /\ PublishedInv'
    BY <1>5, OutsideTrack, OutsidePublished
  <1>6. ASSUME NEW f \in File, Edit(f)
        PROVE  TrackInv' /\ PublishedInv'
    BY <1>6, EditTrack, OutsidePublished
  <1>7. CASE UNCHANGED vars
    BY <1>7, OutsideTrack, OutsidePublished
  <1> QED BY <1>1, <1>2, <1>3, <1>4, <1>5, <1>6, <1>7, StepFiles DEF Next

LEMMA SpecFilesInv == Spec => []FilesInv
  <1>1. Init => FilesInv
    <2>1. Init => TrackInv /\ PublishedInv
      BY DEF Init, TrackInv, PublishedInv
    <2> QED BY <2>1, InitPhase DEF FilesInv
  <1>2. IndInv /\ IndInv' /\ FilesInv /\ [Next]_vars => FilesInv'
    BY NextPhase, NextAge, NextFiles DEF FilesInv
  <1> QED BY <1>1, <1>2, SpecIndInv, PTL DEF Spec

-----------------------------------------------------------------------------
(* The theorems *)

\* What recovery sees of a record when no other program wrote to its files.
LEMMA WhatShows ==
  ASSUME FilesOK, NEW t \in Id, NEW rec, Sound(rec), PlanOK(t, rec),
         NEW n \in 0 .. Len(rec.entries), Tracks(t, rec, n, files, dirs), NoForeign(t, files)
  PROVE  /\ Shows(rec, "unknown") = {}
         /\ \A j \in Shows(rec, "unapplied") : n < j
         /\ \A i \in Shows(rec, "applied") : n < i =>
              rec.entries[i].action = "mkdir" /\ ~DirExact(rec, n, dirs)
         /\ \A i \in Indices(rec) : Evidence(rec.entries[i]) \in {"none", "applied", "unapplied", "unknown"}
  <1>1. n \in Nat /\ \A i \in Indices(rec) : i \in Nat
    BY RecordFields DEF Indices
  <1>2. \A i \in Indices(rec) :
          /\ i <= n => Evidence(rec.entries[i]) # "unapplied"
          /\ i > n /\ Evidence(rec.entries[i]) = "applied" =>
               /\ rec.entries[i].action = "mkdir" /\ ~rec.entries[i].had
               /\ rec.entries[i].path \in dirs
          /\ Evidence(rec.entries[i]) # "unknown"
    BY <1>1, EvidenceTracks
  <1>3. \A i \in Shows(rec, "applied") : n < i =>
          rec.entries[i].action = "mkdir" /\ ~DirExact(rec, n, dirs)
    BY <1>1, <1>2 DEF Shows, DirExact
  <1>4. \A e : Evidence(e) \in {"none", "applied", "unapplied", "unknown"}
    BY DEF Evidence
  <1> QED BY <1>1, <1>2, <1>3, <1>4 DEF Shows

\* No update of another process is lost: the content an entry is about to replace is the
\* one the caller read (commit_builder.go checks the preconditions, commit.go applies).
THEOREM NothingOverwritten == Spec => []ReplacesWhatWasRead
  <1>1. IndInv /\ FilesInv => ReplacesWhatWasRead
    <2> SUFFICES ASSUME IndInv, FilesInv, NEW p \in Proc, pc[p] = "apply", run[p].own,
                        Rec(p).committed < Len(Rec(p).entries),
                        Rec(p).entries[Rec(p).committed + 1].path \in File
                 PROVE  LET e == Rec(p).entries[Rec(p).committed + 1]
                        IN files[e.path] = seen[p][e.path]
      BY DEF ReplacesWhatWasRead
    <2> DEFINE rec == Rec(p)
               n   == rec.committed
               i   == n + 1
               e   == rec.entries[i]
    <2>1. /\ Sound(rec) /\ PlanOK(Txn(p), rec) /\ Believes(run[p], seen[p])
          /\ run[p].rec = rec /\ Txn(p) \in Id
      BY AtPhase DEF FilesInv
    <2>2. i \in Indices(rec) /\ n \in Nat /\ ~(i <= n)
      BY <2>1, RecordFields DEF Indices
    <2>3. Tracks(Txn(p), rec, n, files, dirs) /\ NoForeign(Txn(p), files)
      BY AtTrack DEF FilesInv, Frontier
    <2> HIDE DEF rec
    <2>4. EntryOK(Txn(p), rec, e)
      BY <2>1, <2>2 DEF PlanOK
    <2>5. Touches(e, e.path) /\ Before(e, e.path) = e.old
      BY <2>4 DEF EntryOK, Touches, Before
    <2>6. files[e.path] > Txn(p) \/ files[e.path] = e.old
      BY <2>2, <2>3, <2>5 DEF Tracks, FileTracks, rec
    <2>7. files[e.path] <= Txn(p) /\ files[e.path] \in Int /\ Txn(p) \in Nat
      BY <2>1, <2>3, ConstantsAssumption DEF NoForeign, IndInv, FilesOK, Content, Absent, Id, rec
    <2>8. e.old = seen[p][e.path]
      BY <2>1, <2>2 DEF Believes, rec
    <2> QED BY <2>6, <2>7, <2>8 DEF rec
  <1> QED BY <1>1, SpecIndInv, SpecFilesInv, PTL

\* commitStaged writes no progress, and reconcileRecord does without: at every moment of
\* the application it would find what the process itself knows.
THEOREM ProgressFound == Spec => []ProgressIsReconstructible
  <1>1. IndInv /\ FilesInv => ProgressIsReconstructible
    <2> SUFFICES ASSUME IndInv, FilesInv, NEW p \in Proc, pc[p] = "apply", edits = 0
                 PROVE  LET rec == journal[Txn(p)]
                            n   == Rec(p).committed
                        IN /\ rec # NoRecord /\ Resolvable(rec)
                           /\ Reconciled(rec).committed >= n
                           /\ \A i \in (n + 1) .. Reconciled(rec).committed :
                                Evidence(rec.entries[i]) = "none"
      BY DEF ProgressIsReconstructible
    <2> DEFINE t   == Txn(p)
               rec == journal[t]
               n   == Rec(p).committed
               b   == Boundary(rec)
    <2>1. rec # NoRecord /\ rec.status = "staged" /\ SamePlan(rec, Rec(p)) /\ t \in Id
      BY Applying, AtPhase DEF FilesInv
    <2>2. Sound(rec) /\ PendingOK(t, rec, backups) /\ PlanOK(t, rec)
      BY <2>1 DEF FilesInv, IndInv, RecordsOK, PhaseInv, JournalOK, PendingOK
    <2>3. n \in 0 .. Len(rec.entries) /\ Frontier(p) = n
      BY <2>1, AtWork, RecordFields DEF SamePlan, Frontier
    <2>4. /\ Tracks(t, Rec(p), n, files, dirs) /\ DirExact(Rec(p), n, dirs)
          /\ NoForeign(t, files) /\ Stands(t, rec, n, temps, backups)
      BY <2>1, <2>3, AtTrack DEF FilesInv, Going
    <2>5. Tracks(t, rec, n, files, dirs) /\ DirExact(rec, n, dirs)
      BY <2>1, <2>4, TracksOfPlan
    <2> HIDE DEF rec, t, n
    <2>6. /\ Shows(rec, "unknown") = {}
          /\ \A j \in Shows(rec, "unapplied") : n < j
          /\ \A i \in Shows(rec, "applied") : ~(n < i)
          /\ \A i \in Indices(rec) :
               Evidence(rec.entries[i]) \in {"none", "applied", "unapplied", "unknown"}
      BY <2>1, <2>2, <2>3, <2>4, <2>5, WhatShows DEF IndInv
    <2>7. n \in Nat /\ Indices(rec) = 1 .. Len(rec.entries) /\ Len(rec.entries) \in Nat
      BY <2>2, <2>3, RecordFields DEF Indices
    <2>8. Resolvable(rec)
      BY <2>6, <2>7 DEF Resolvable, Shows
    <2>9. Reconciled(rec).committed = b /\ n <= b /\ b \in 0 .. Len(rec.entries)
      BY <2>1, <2>2, <2>3, <2>4, <2>5, <2>6, ReconciledTracks DEF IndInv
    <2>10. \A i \in Shows(rec, "unapplied") : b < i
      BY <2>2, BoundaryExists
    <2>11. \A i \in (n + 1) .. b : Evidence(rec.entries[i]) = "none"
      <3> HIDE DEF b
      <3> TAKE i \in (n + 1) .. b
      <3>1. i \in Indices(rec) /\ n < i /\ ~(b < i) /\ i \in Nat
        BY <2>7, <2>9
      <3> QED BY <2>6, <2>10, <3>1 DEF Shows
    <2>12. Reconciled(rec).committed >= n
      BY <2>7, <2>9
    <2> QED BY <2>1, <2>8, <2>9, <2>11, <2>12 DEF rec, n, t
  <1> QED BY <1>1, SpecIndInv, SpecFilesInv, PTL

\* A record that nobody works on.
LEMMA Interrupted ==
  ASSUME IndInv, FilesInv, edits = 0, NEW t \in Pending, ~InHand(t)
  PROVE  /\ t \in Id /\ Sound(journal[t]) /\ PendingOK(t, journal[t], backups)
         /\ PlanOK(t, journal[t]) /\ NoForeign(t, files)
         /\ \E n \in 0 .. Len(journal[t].entries) :
              /\ Tracks(t, journal[t], n, files, dirs)
              /\ Stands(t, journal[t], n, temps, backups)
         /\ Shows(journal[t], "unknown") = {}
  <1>1. t \in Id /\ journal[t] # NoRecord
    BY DEF Pending
  <1>2. Sound(journal[t]) /\ PendingOK(t, journal[t], backups) /\ PlanOK(t, journal[t])
    BY <1>1 DEF IndInv, RecordsOK, FilesInv, PhaseInv, JournalOK, PendingOK
  <1>3. \A p \in Proc : pc[p] = "idle"
    BY DEF IndInv, OnePending, InHand
  <1>4. Parked(t)
    BY <1>1, <1>3 DEF FilesInv, TrackInv
  <1>5. NoForeign(t, files)
    BY <1>4 DEF Parked
  <1>6. PICK n \in 0 .. Len(journal[t].entries) :
          Tracks(t, journal[t], n, files, dirs) /\ Stands(t, journal[t], n, temps, backups)
    BY <1>4 DEF Parked
  <1>7. Shows(journal[t], "unknown") = {}
    BY <1>1, <1>2, <1>5, <1>6, WhatShows DEF IndInv
  <1> QED BY <1>1, <1>2, <1>5, <1>6, <1>7

\* Rollback finds every backup it needs: retention spares the pending record, and the
\* backups go only when the record is settled (history.go, commit_finish.go).  A write of
\* unchanged contents under a discarded backup is set apart by FreshRekey.
THEOREM BackupsOutlive == FreshRekey /\ Spec => []BackupsOutliveThePending
  <1>1. FreshRekey /\ IndInv /\ FilesInv => BackupsOutliveThePending
    <2> SUFFICES ASSUME FreshRekey, IndInv, FilesInv, NEW t \in Pending, ~InHand(t), edits = 0,
                        CanRollback(Reconciled(journal[t])),
                        NEW i \in 1 .. Reconciled(journal[t]).committed,
                        ExpectsBackup(Reconciled(journal[t]).entries[i]),
                        ~NothingToRestore(Reconciled(journal[t]),
                                          Reconciled(journal[t]).entries[i])
                 PROVE  LET e == Reconciled(journal[t]).entries[i]
                        IN e.path \in Reconciled(journal[t]).backups /\ <<t, e.path>> \in backups
      BY DEF BackupsOutliveThePending
    <2> DEFINE rec   == journal[t]
               known == Reconciled(rec)
               e     == known.entries[i]
    <2>1. /\ t \in Id /\ Sound(rec) /\ PendingOK(t, rec, backups)
          /\ Shows(rec, "unknown") = {}
      BY Interrupted
    <2>2. PICK n \in 0 .. Len(rec.entries) :
            Tracks(t, rec, n, files, dirs) /\ Stands(t, rec, n, temps, backups)
      BY Interrupted
    <2> HIDE DEF rec
    <2>3. /\ Stands(t, known, known.committed, temps, backups)
          /\ known.committed \in 0 .. Len(rec.entries)
      BY <2>1, <2>2, ReconciledTracks DEF IndInv
    <2>4. /\ PendingOK(t, known, backups) /\ Sound(known)
          /\ Len(known.entries) = Len(rec.entries)
      BY <2>1, ReconciledPending DEF SamePlan
    <2>5. known.status # "applied" /\ ExpectsBackup(e) /\ ~NothingToRestore(known, e)
          /\ i \in 1 .. known.committed
      BY DEF CanRollback, rec
    <2> HIDE DEF known
    <2>6. i \in Indices(known) /\ i <= known.committed
      BY <2>1, <2>3, <2>4, <2>5, RecordFields DEF Indices
    <2>7. BackedUp(t, known, known.committed, backups)
      BY <2>3, <2>5 DEF Stands
    <2>8. CASE NoOpWrite(e)
      <3>1. e.path \in known.backups
        BY <2>5, <2>8 DEF NothingToRestore
      <3>2. ~known.discard
        BY <2>4, <2>6, <2>8 DEF PendingOK, PlanOK, EntryOK
      <3>3. <<t, e.path>> \in backups
        BY <2>4, <3>1, <3>2 DEF PendingOK, OnDisk
      <3> QED BY <3>1, <3>3 DEF known, rec
    <2>9. CASE ~NoOpWrite(e)
      <3>1. <<t, e.path>> \in backups
        BY <2>5, <2>6, <2>7, <2>9 DEF BackedUp
      <3>2. known.status # "staging"
        <4>1. ~Harmless(e)
          BY <2>5, <2>9 DEF Harmless, ExpectsBackup
        <4> QED BY <2>3, <2>6, <4>1 DEF Stands, HarmlessTo
      <3>3. e.path \in known.backups
        BY <2>4, <2>5, <2>6, <3>2 DEF PendingOK, Kept
      <3> QED BY <3>1, <3>3 DEF known, rec
    <2> QED BY <2>8, <2>9
  <1>2. FreshRekey => []FreshRekey
    <2>1. FreshRekey => FreshRekey'
      BY DEF FreshRekey
    <2> QED BY <2>1, PTL
  <1> QED BY <1>1, <1>2, SpecIndInv, SpecFilesInv, PTL

\* Whatever was interrupted, and wherever, can be read back, and completed or rolled back.
\* The hypotheses set apart what cannot be recovered: storage_atomic_move, a rollback of two
\* new directories that is itself interrupted, and a record without entries.
THEOREM AlwaysRecoverable ==
    AtomicOnlyWrites /\ OneDirectory /\ Spec => [](RecordsHaveEntries => Recoverable)
  <1>1. AtomicOnlyWrites /\ OneDirectory /\ IndInv /\ FilesInv =>
          (RecordsHaveEntries => Recoverable)
    <2> SUFFICES ASSUME AtomicOnlyWrites, OneDirectory, IndInv, FilesInv, RecordsHaveEntries,
                        edits = 0, NEW t \in Pending, ~InHand(t)
                 PROVE  LET rec == journal[t] IN
                        /\ ReadablePending(rec) /\ Resolvable(rec)
                        /\ CanComplete(t, Reconciled(rec)) \/ CanRollback(Reconciled(rec))
      BY DEF Recoverable
    <2> DEFINE rec   == journal[t]
               known == Reconciled(rec)
    <2>1. /\ t \in Id /\ Sound(rec) /\ PendingOK(t, rec, backups) /\ PlanOK(t, rec)
          /\ NoForeign(t, files) /\ Shows(rec, "unknown") = {}
      BY Interrupted
    <2>2. PICK n \in 0 .. Len(rec.entries) :
            Tracks(t, rec, n, files, dirs) /\ Stands(t, rec, n, temps, backups)
      BY Interrupted
    <2>3. rec.entries # << >>
      BY DEF RecordsHaveEntries, Pending
    <2> HIDE DEF rec
    <2>4. ReadablePending(rec)
      <3>1. ReadableEntries(rec)
        <4>1. ASSUME NEW i \in Indices(rec), rec.atomic
              PROVE  /\ rec.entries[i].action \notin {"move", "remove", "rmdir"}
                     /\ rec.entries[i].action = "write" => rec.entries[i].keep
          BY <2>1, <4>1 DEF PlanOK, EntryOK
        <4>2. ASSUME NEW i \in Indices(rec), ExpectsBackup(rec.entries[i]),
                     rec.entries[i].path \notin rec.backups
              PROVE  rec.status = "staging"
          BY <2>1, <4>2 DEF PendingOK, Kept
        <4> QED BY <4>1, <4>2 DEF ReadableEntries
      <3>2. rec.discard => rec.atomic
        BY <2>1 DEF PlanOK
      <3> QED BY <2>1, <2>3, <3>1, <3>2 DEF PendingOK, ReadablePending
    <2>5. Resolvable(rec)
      <3>1. /\ \A j \in Shows(rec, "unapplied") : n < j
            /\ \A i \in Shows(rec, "applied") : n < i => rec.entries[i].action = "mkdir"
        BY <2>1, <2>2, WhatShows DEF IndInv
      <3>2. ASSUME NEW i \in Shows(rec, "applied"), NEW j \in Shows(rec, "unapplied")
            PROVE  i < j
        <4>1. /\ i \in 1 .. Len(rec.entries) /\ j \in 1 .. Len(rec.entries) /\ i # j
              /\ n \in Nat /\ Len(rec.entries) \in Nat /\ n < j
          BY <2>1, <2>2, <3>1, RecordFields DEF Shows, Indices
        <4>2. CASE n < i
          <5>1. i = 1
            BY <2>1, <3>1, <4>2 DEF PlanOK, Shows
          <5> QED BY <4>1, <5>1
        <4>3. CASE ~(n < i)
          BY <4>1, <4>3
        <4> QED BY <4>2, <4>3
      <3> QED BY <2>1, <3>2 DEF Resolvable
    <2>6. Stands(t, known, known.committed, temps, backups)
      BY <2>1, <2>2, ReconciledTracks DEF IndInv
    <2>7. PendingOK(t, known, backups)
      BY <2>1, ReconciledPending
    <2> HIDE DEF known
    <2>8. CASE known.status = "applied"
      BY <2>4, <2>5, <2>7, <2>8 DEF PendingOK, CanComplete, known, rec
    <2>9. CASE known.status # "applied" /\ ReversibleTo(known, known.committed)
      <3>1. CanRollback(known)
        BY <2>9 DEF CanRollback, ReversibleTo
      <3> QED BY <2>4, <2>5, <3>1 DEF known, rec
    <2>10. CASE ~known.atomic /\ known.status = "staged"
               /\ StagedFrom(t, known, known.committed, temps)
      <3>1. CanComplete(t, known)
        BY <2>10 DEF CanComplete, StagedFrom, StagedMatches
      <3> QED BY <2>4, <2>5, <3>1 DEF known, rec
    <2> QED BY <2>6, <2>8, <2>9, <2>10 DEF Stands
  <1>2. AtomicOnlyWrites /\ OneDirectory => [](AtomicOnlyWrites /\ OneDirectory)
    <2>1. AtomicOnlyWrites /\ OneDirectory => (AtomicOnlyWrites /\ OneDirectory)'
      BY DEF AtomicOnlyWrites, OneDirectory
    <2> QED BY <2>1, PTL
  <1> QED BY <1>1, <1>2, SpecIndInv, SpecFilesInv, PTL

\* Once MarkApplied has run the publish callback, the files never go back, whatever fails
\* or crashes afterwards.
THEOREM PublishedForGood == Spec => []PublishedIsFinal
  <1>1. FilesInv => PublishedIsFinal
    BY DEF FilesInv, PublishedInv, PublishedIsFinal, Pending
  <1> QED BY <1>1, SpecFilesInv, PTL

\* Only RemoveJournal takes a record out of the journal.
LEMMA OnlyRemoveJournal ==
  ASSUME IndInv, FilesInv, [Next]_vars, NEW t \in Pending, t \notin Pending'
  PROVE  \E p \in Proc : RemoveJournal(p) /\ Txn(p) = t
  <1>1. t \in Id /\ journal[t] # NoRecord /\ journal'[t] = NoRecord /\ journal' # journal
    BY DEF Pending
  <1>2. ASSUME NEW u \in Id, NEW rec, rec # NoRecord, Written(u, rec) \/ PerhapsWritten(u, rec)
        PROVE  FALSE
    BY <1>1, <1>2 DEF Written, PerhapsWritten, IndInv, RecordsOK
  <1>3. ASSUME NEW p \in Proc, pc[p] # "idle"
        PROVE  /\ Txn(p) \in Id /\ Rec(p) # NoRecord
               /\ \A s : s \in Status => [Rec(p) EXCEPT !.status = s] # NoRecord
    BY <1>3, AtWork, SoundUpdates, SoundIsRecord
  <1>4. ASSUME NEW p \in Proc, Step(p)
        PROVE  RemoveJournal(p) /\ Txn(p) = t
    <2>1. ~(Begin(p) \/ MarkStaged(p) \/ MarkApplied(p) \/ FailWrite(p))
      <3>1. ~Begin(p)
        BY <1>2, <1>3 DEF Begin
      <3>2. ~MarkStaged(p)
        BY <1>2, <1>3 DEF MarkStaged, Status
      <3>3. ~MarkApplied(p)
        BY <1>2, <1>3 DEF MarkApplied, Status
      <3>4. ~FailWrite(p)
        BY <1>2, <1>3 DEF FailWrite
      <3> QED BY <3>1, <3>2, <3>3, <3>4
    <2>2. ~(MakeDirectory(p) \/ WriteBackup(p) \/ StageWrite(p) \/ ApplyEntry(p) \/ Applied(p))
      BY <1>1 DEF MakeDirectory, WriteBackup, StageWrite, ApplyEntry, Applied, disk
    <2>3. ~(RemoveTemp(p) \/ TempsRemoved(p) \/ DiscardBackup(p) \/ BackupsDiscarded(p)
            \/ WriteHistory(p) \/ Prune(p))
      BY <1>1 DEF RemoveTemp, TempsRemoved, DiscardBackup, BackupsDiscarded, WriteHistory,
                  Prune, disk
    <2>4. ~(FailTemps(p) \/ UndoEntry(p) \/ Undone(p) \/ Complete(p) \/ Rollback(p) \/ Refuse(p))
      BY <1>1 DEF FailTemps, UndoEntry, Undone, Complete, Rollback, Refuse, disk
    <2>5. RemoveJournal(p)
      BY <1>4, <2>1, <2>2, <2>3, <2>4 DEF Step
    <2>6. \A u \in Id : u # Txn(p) => journal'[u] = journal[u]
      BY <2>5 DEF RemoveJournal, IndInv, RecordsOK
    <2> QED BY <1>1, <2>5, <2>6
  <1>5. ASSUME NEW p \in Proc, NEW u \in Id, NEW goal \in {"completed", "rolled_back"}
        PROVE  ~LoadPending(p, u, goal)
    <2> SUFFICES ASSUME LoadPending(p, u, goal) PROVE FALSE
      OBVIOUS
    <2>1. journal[u] # NoRecord /\ \/ Written(u, Reconciled(journal[u]))
                                   \/ PerhapsWritten(u, Reconciled(journal[u]))
      BY DEF LoadPending
    <2>2. Reconciled(journal[u]) # NoRecord
      BY <2>1, ReconciledPending DEF IndInv, RecordsOK, FilesInv, PhaseInv, JournalOK
    <2> QED BY <1>2, <2>1, <2>2
  <1>6. \A p \in Proc : ~Read(p) /\ ~PruneAtStart(p) /\ ~Crash(p)
    BY <1>1 DEF Read, PruneAtStart, Crash, disk
  <1>7. \A p \in Proc : \A q \in Requests : ~StartCommit(p, q)
    BY <1>1 DEF StartCommit, disk
  <1>8. \A p \in Proc : \A f \in File : ~Note(p, f)
    BY <1>1 DEF Note
  <1>9. \A f \in File : ~Edit(f)
    BY <1>1 DEF Edit
  <1>10. CASE UNCHANGED vars
    BY <1>1, <1>10 DEF vars, disk
  <1>11. CASE Next
    BY <1>4, <1>5, <1>6, <1>7, <1>8, <1>9, <1>11 DEF Next
  <1> QED BY <1>10, <1>11

Truthful ==
  \A t \in Id : (t \in Pending /\ t \notin Pending') =>
    /\ history'[t] # NoRecord
    /\ edits = 0 => \A i \in Indices(journal[t]) :
         LET e == journal[t].entries[i] IN
           IF history'[t].status = "completed"
           THEN /\ \A f \in File : Touches(e, f) => files[f] = After(e, f)
                /\ e.action = "mkdir" => e.path \in dirs
                /\ e.action = "rmdir" => e.path \notin dirs
           ELSE \A f \in File : Touches(e, f) => files[f] = Before(e, f)

LEMMA RemovalIsTruthful ==
  ASSUME IndInv, FilesInv, NEW p \in Proc, RemoveJournal(p), journal[Txn(p)] # NoRecord
  PROVE  LET t == Txn(p) IN
         /\ history'[t] # NoRecord
         /\ edits = 0 => \A i \in Indices(journal[t]) :
              LET e == journal[t].entries[i] IN
                IF history'[t].status = "completed"
                THEN /\ \A f \in File : Touches(e, f) => files[f] = After(e, f)
                     /\ e.action = "mkdir" => e.path \in dirs
                     /\ e.action = "rmdir" => e.path \notin dirs
                ELSE \A f \in File : Touches(e, f) => files[f] = Before(e, f)
  <1> DEFINE t   == Txn(p)
             rec == Rec(p)
             n   == Frontier(p)
  <1>1. pc[p] = "journal" /\ pc[p] \in Finishing /\ pc[p] # "idle" /\ history' = history
    BY DEF RemoveJournal, Finishing, Cleaning
  <1>2. /\ Recorded("journal", run[p], journal[t], history[t]) /\ run[p].rec = rec
        /\ Progress("journal", run[p]) /\ rec # NoRecord /\ Sound(rec)
        /\ run[p].goal \in {"completed", "rolled_back"} /\ t \in Id
    BY <1>1, AtPhase DEF FilesInv
  <1>3. history'[t] = rec /\ rec.status = run[p].goal /\ SamePlan(journal[t], rec)
    BY <1>1, <1>2 DEF Recorded, Progress
  <1>4. n = IF run[p].goal = "completed" THEN Len(rec.entries) ELSE 0
    BY <1>1, FinishingEnds DEF FilesInv
  <1>5. Tracks(t, rec, n, files, dirs) /\ (edits = 0 => NoForeign(t, files))
    BY <1>1, AtTrack DEF FilesInv
  <1>6. edits = 0 => \A f \in File : ~(files[f] > t)
    BY <1>2, <1>5, ConstantsAssumption DEF NoForeign, IndInv, FilesOK, Content, Absent, Id
  <1>7. /\ Indices(journal[t]) = Indices(rec) /\ journal[t].entries = rec.entries
        /\ \A i \in Indices(rec) : i \in 1 .. Len(rec.entries)
        /\ Len(rec.entries) \in Nat
    BY <1>2, <1>3, RecordFields DEF SamePlan, Indices
  <1> HIDE DEF rec, t, n
  <1>8. ASSUME edits = 0, NEW i \in Indices(rec), run[p].goal = "completed"
        PROVE  LET e == rec.entries[i] IN
               /\ \A f \in File : Touches(e, f) => files[f] = After(e, f)
               /\ e.action = "mkdir" => e.path \in dirs
               /\ e.action = "rmdir" => e.path \notin dirs
    BY <1>4, <1>5, <1>6, <1>7, <1>8 DEF Tracks, FileTracks, DirTracks
  <1>9. ASSUME edits = 0, NEW i \in Indices(rec), run[p].goal # "completed",
               NEW f \in File, Touches(rec.entries[i], f)
        PROVE  files[f] = Before(rec.entries[i], f)
    BY <1>4, <1>5, <1>6, <1>7, <1>9 DEF Tracks, FileTracks
  <1> QED BY <1>2, <1>3, <1>7, <1>8, <1>9 DEF t

\* A record leaves the journal only when history tells the truth about it: completed if
\* every entry is in effect, rolled back if none is (finish, rollbackRecord).
THEOREM HistoryIsTruthful == Spec => SettledTruthfully
  <1>1. IndInv /\ FilesInv /\ [Next]_vars => [Truthful]_vars
    <2> SUFFICES ASSUME IndInv, FilesInv, [Next]_vars PROVE Truthful
      OBVIOUS
    <2>1. ASSUME NEW t \in Id, t \in Pending, t \notin Pending'
          PROVE  \E p \in Proc : /\ RemoveJournal(p) /\ Txn(p) = t
                                 /\ journal[Txn(p)] # NoRecord
      BY <2>1, OnlyRemoveJournal DEF Pending
    <2> QED BY <2>1, RemovalIsTruthful DEF Truthful
  <1> QED BY <1>1, SpecIndInv, SpecFilesInv, PTL DEF Spec, SettledTruthfully, Truthful

-----------------------------------------------------------------------------
(* The refinement of AtomicWorkspace *)

\* The contents of the files fs if a change with the entries E is given up, and if it is
\* carried out.
GivenUp(E, fs) ==
  [f \in File |-> IF \E e \in E : Touches(e, f) /\ fs[f] \in {Before(e, f), After(e, f)}
                  THEN Before(CHOOSE e \in E : Touches(e, f), f) ELSE fs[f]]
CarriedOut(E, fs) ==
  [f \in File |-> IF \E e \in E : Touches(e, f) /\ fs[f] \in {Before(e, f), After(e, f)}
                  THEN After(CHOOSE e \in E : Touches(e, f), f) ELSE fs[f]]

Value  == GivenUp(OpenEntries, files)
Target == CarriedOut(OpenEntries, files)

\* The abstract contents are these.
LEMMA ImagesShown ==
  /\ Image(Before) = Value /\ Image(After) = Target
  /\ Image(Before)' = Value' /\ Image(After)' = Target'
  BY DEF Image, Value, Target, GivenUp, CarriedOut

\* What v and w, the contents if transaction t is given up or carried out, are for the
\* files fs: a file edited by another program shows the edit in both.
Shown(t, rec, fs, v, w) ==
  /\ v \in [File -> Content] /\ w \in [File -> Content]
  /\ \A f \in File, i \in Indices(rec) : Touches(rec.entries[i], f) =>
       IF fs[f] > t THEN v[f] = fs[f] /\ w[f] = fs[f]
       ELSE v[f] = Before(rec.entries[i], f) /\ w[f] = After(rec.entries[i], f)
  /\ \A f \in File : (\A i \in Indices(rec) : ~Touches(rec.entries[i], f)) =>
       v[f] = fs[f] /\ w[f] = fs[f]

\* The recorded states of a file are no newer than the transaction.
LEMMA EntryStates ==
  ASSUME NEW t \in Id, NEW rec, Sound(rec), PlanOK(t, rec), NEW i \in Indices(rec),
         NEW f \in File, Touches(rec.entries[i], f)
  PROVE  LET e == rec.entries[i] IN
         /\ Before(e, f) \in Content /\ After(e, f) \in Content
         /\ ~(Before(e, f) > t) /\ ~(After(e, f) > t)
  <1> DEFINE e == rec.entries[i]
  <1>1. e \in Entry /\ EntryOK(t, rec, e)
    BY RecordFields DEF Indices, PlanOK
  <1>2. /\ e.old \in Content /\ e.new \in Content /\ Absent \in Content
        /\ e.action \in FileAction \cup DirAction /\ e.action # "note"
        /\ e.action \in DirAction => e.path \in Dir
    BY <1>1, EntryFields, ConstantsAssumption DEF EntryOK, Absent, Content
  <1>3. t \in Nat /\ e.old \in Int /\ e.new \in Int /\ ~(Absent > t) /\ e.old < t
    BY <1>1, <1>2, ConstantsAssumption DEF EntryOK, Absent, Content, Id
  <1> HIDE DEF e
  <1>4. e.action \in {"write", "move", "remove"}
    BY <1>2, ConstantsAssumption DEF Touches, FileAction, DirAction, e
  <1>5. e.action # "move" => ~(e.new > t)
    BY <1>1, <1>3, <1>4 DEF EntryOK, NoOpWrite
  <1>6. Before(e, f) \in {Absent, e.old}
    BY DEF Before
  <1>7. After(e, f) \in {Absent, e.old} \/ (e.action # "move" /\ After(e, f) = e.new)
    BY DEF After
  <1>8. ~(e.old > t)
    BY <1>3
  <1> QED BY <1>2, <1>3, <1>5, <1>6, <1>7, <1>8 DEF e

\* Files that track the plan show these contents.
LEMMA PlanShown ==
  ASSUME NEW t \in Id, NEW rec, Sound(rec), PlanOK(t, rec),
         NEW fs \in [File -> Content], NEW n, FileTracks(t, rec, n, fs)
  PROVE  Shown(t, rec, fs, GivenUp(Range(rec.entries), fs), CarriedOut(Range(rec.entries), fs))
  <1> DEFINE E == Range(rec.entries)
             v == GivenUp(E, fs)
             w == CarriedOut(E, fs)
  <1>1. E = {rec.entries[i] : i \in Indices(rec)}
    <2>1. DOMAIN rec.entries = Indices(rec)
      BY RecordFields DEF Indices
    <2> QED BY <2>1 DEF Range
  <1> HIDE DEF E
  <1>2. ASSUME NEW f \in File, NEW i \in Indices(rec), Touches(rec.entries[i], f)
        PROVE  /\ (CHOOSE e \in E : Touches(e, f)) = rec.entries[i]
               /\ \A e \in E : Touches(e, f) => e = rec.entries[i]
               /\ rec.entries[i] \in E
    <2>1. \A e \in E : Touches(e, f) => e = rec.entries[i]
      <3>1. \A k \in Indices(rec) : Touches(rec.entries[k], f) => k = i
        BY <1>2 DEF PlanOK
      <3> QED BY <1>1, <3>1
    <2>2. rec.entries[i] \in E
      BY <1>1
    <2> QED BY <1>2, <2>1, <2>2
  <1>3. ASSUME NEW f \in File, NEW i \in Indices(rec), Touches(rec.entries[i], f)
        PROVE  /\ IF fs[f] > t THEN v[f] = fs[f] /\ w[f] = fs[f]
                  ELSE v[f] = Before(rec.entries[i], f) /\ w[f] = After(rec.entries[i], f)
               /\ v[f] \in Content /\ w[f] \in Content
    <2> DEFINE e == rec.entries[i]
               known == \E d \in E : Touches(d, f) /\ fs[f] \in {Before(d, f), After(d, f)}
    <2>1. /\ Before(e, f) \in Content /\ After(e, f) \in Content
          /\ ~(Before(e, f) > t) /\ ~(After(e, f) > t)
      BY <1>3, EntryStates
    <2>2. known <=> fs[f] \in {Before(e, f), After(e, f)}
      BY <1>2, <1>3
    <2>3. fs[f] > t \/ fs[f] \in {Before(e, f), After(e, f)}
      BY <1>3 DEF FileTracks
    <2>4. /\ v[f] = IF known THEN Before(CHOOSE d \in E : Touches(d, f), f) ELSE fs[f]
          /\ w[f] = IF known THEN After(CHOOSE d \in E : Touches(d, f), f) ELSE fs[f]
      BY DEF GivenUp, CarriedOut
    <2>5. (CHOOSE d \in E : Touches(d, f)) = e
      BY <1>2, <1>3
    <2> HIDE DEF known, v, w, e
    <2>6. /\ v[f] = IF known THEN Before(e, f) ELSE fs[f]
          /\ w[f] = IF known THEN After(e, f) ELSE fs[f]
      BY <2>4, <2>5
    <2>7. CASE fs[f] > t
      <3>1. ~known
        BY <2>1, <2>2, <2>7
      <3> QED BY <2>6, <2>7, <3>1
    <2>8. CASE ~(fs[f] > t)
      <3>1. known
        BY <2>2, <2>3, <2>8
      <3> QED BY <2>1, <2>6, <2>8, <3>1 DEF e
    <2> QED BY <2>7, <2>8
  <1>4. ASSUME NEW f \in File, \A i \in Indices(rec) : ~Touches(rec.entries[i], f)
        PROVE  v[f] = fs[f] /\ w[f] = fs[f]
    <2>1. \A e \in E : ~Touches(e, f)
      BY <1>1, <1>4
    <2> QED BY <2>1 DEF GivenUp, CarriedOut
  <1>5. v \in [File -> Content] /\ w \in [File -> Content]
    <2>1. \A f \in File : v[f] \in Content /\ w[f] \in Content
      BY <1>3, <1>4
    <2> QED BY <2>1 DEF GivenUp, CarriedOut
  <1> QED BY <1>3, <1>4, <1>5 DEF Shown, E

\* A change of the files that the plan covers: only files of the entries, and none that
\* holds something newer than the transaction, before or after.
Covered(t, rec, fs, gs) ==
  \A f \in File : \/ gs[f] = fs[f]
                  \/ /\ \E i \in Indices(rec) : Touches(rec.entries[i], f)
                     /\ ~(fs[f] > t) /\ ~(gs[f] > t)

\* Such a change is not seen.
LEMMA CoveredUnseen ==
  ASSUME NEW t, NEW rec, NEW other, other.entries = rec.entries, NEW fs, NEW gs,
         NEW v, NEW w, NEW v2, NEW w2, Shown(t, rec, fs, v, w), Shown(t, other, gs, v2, w2),
         Covered(t, rec, fs, gs)
  PROVE  v2 = v /\ w2 = w
  <1>1. Indices(other) = Indices(rec)
    BY DEF Indices
  <1>2. ASSUME NEW f \in File PROVE v2[f] = v[f] /\ w2[f] = w[f]
    <2>1. CASE \E i \in Indices(rec) : Touches(rec.entries[i], f)
      <3>1. PICK i \in Indices(rec) : Touches(rec.entries[i], f)
        BY <2>1
      <3>2. /\ IF fs[f] > t THEN v[f] = fs[f] /\ w[f] = fs[f]
               ELSE v[f] = Before(rec.entries[i], f) /\ w[f] = After(rec.entries[i], f)
            /\ IF gs[f] > t THEN v2[f] = gs[f] /\ w2[f] = gs[f]
               ELSE v2[f] = Before(rec.entries[i], f) /\ w2[f] = After(rec.entries[i], f)
        BY <1>1, <3>1 DEF Shown
      <3>3. gs[f] = fs[f] \/ (~(fs[f] > t) /\ ~(gs[f] > t))
        BY DEF Covered
      <3> QED BY <3>2, <3>3
    <2>2. CASE ~\E i \in Indices(rec) : Touches(rec.entries[i], f)
      <3>1. gs[f] = fs[f]
        BY <2>2 DEF Covered
      <3>2. v[f] = fs[f] /\ w[f] = fs[f]
        BY <2>2 DEF Shown
      <3>3. v2[f] = gs[f] /\ w2[f] = gs[f]
        BY <1>1, <2>2 DEF Shown
      <3> QED BY <3>1, <3>2, <3>3
    <2> QED BY <2>1, <2>2
  <1>3. /\ v \in [File -> Content] /\ w \in [File -> Content]
        /\ v2 \in [File -> Content] /\ w2 \in [File -> Content]
    BY DEF Shown
  <1>4. v2 = v
    BY <1>2, <1>3
  <1>5. w2 = w
    BY <1>2, <1>3
  <1> QED BY <1>4, <1>5

\* With no entry in effect the files are what they were, with all of them what was planned.
LEMMA EndsShown ==
  ASSUME NEW t, NEW rec, Sound(rec), NEW fs \in [File -> Content], NEW v, NEW w,
         Shown(t, rec, fs, v, w), NEW n, FileTracks(t, rec, n, fs)
  PROVE  /\ n = 0 => v = fs
         /\ n = Len(rec.entries) => w = fs
  <1>1. \A i \in Indices(rec) : i \in Nat /\ i > 0 /\ i <= Len(rec.entries)
    BY RecordFields DEF Indices
  <1>2. Len(rec.entries) \in Nat
    BY RecordFields
  <1>3. ASSUME NEW f \in File PROVE (n = 0 => v[f] = fs[f]) /\ (n = Len(rec.entries) => w[f] = fs[f])
    <2>1. CASE \E i \in Indices(rec) : Touches(rec.entries[i], f)
      <3>1. PICK i \in Indices(rec) : Touches(rec.entries[i], f)
        BY <2>1
      <3>2. IF fs[f] > t THEN v[f] = fs[f] /\ w[f] = fs[f]
            ELSE v[f] = Before(rec.entries[i], f) /\ w[f] = After(rec.entries[i], f)
        BY <3>1 DEF Shown
      <3>3. \/ fs[f] > t
            \/ i <= n /\ fs[f] = After(rec.entries[i], f)
            \/ i > n /\ fs[f] = Before(rec.entries[i], f)
        BY <3>1 DEF FileTracks
      <3>4. (n = 0 => ~(i <= n)) /\ (n = Len(rec.entries) => ~(i > n))
        BY <1>1, <1>2
      <3> QED BY <3>2, <3>3, <3>4
    <2>2. CASE ~\E i \in Indices(rec) : Touches(rec.entries[i], f)
      BY <2>2 DEF Shown
    <2> QED BY <2>1, <2>2
  <1>4. v \in [File -> Content] /\ w \in [File -> Content]
    BY DEF Shown
  <1> QED BY <1>3, <1>4

-----------------------------------------------------------------------------
(* What is seen of an open change, whoever has it *)

NobodyWorks == \A p \in Proc : pc[p] = "idle"

ViewInv ==
  /\ \A p \in Proc : pc[p] # "idle" =>
       Open = {Txn(p)} /\ Shown(Txn(p), Rec(p), files, Value, Target)
  /\ \A t \in Id : journal[t] # NoRecord /\ NobodyWorks =>
       /\ Open = {t} /\ OpenEntries = Range(journal[t].entries)
       /\ Shown(t, journal[t], files, Value, Target)
  /\ NobodyWorks /\ Pending = {} => Open = {} /\ Value = files /\ Target = files

\* A change shows its entries, whether a process has it in hand or it waits in the journal;
\* with no change open the files are what is seen.
LEMMA ViewHolds ==
  ASSUME IndInv, FilesInv
  PROVE  ViewInv
  <1>1. \A p, q \in Proc : pc[p] # "idle" /\ pc[q] # "idle" => p = q
    BY DEF IndInv, ControlOK
  <1>2. files \in [File -> Content]
    BY DEF IndInv, FilesOK
  <1>3. ASSUME NEW p \in Proc, pc[p] # "idle"
        PROVE  Open = {Txn(p)} /\ Shown(Txn(p), Rec(p), files, Value, Target)
    <2>1. InHand(Txn(p)) /\ Txn(p) \in Id
      BY <1>3, AtPhase DEF InHand, Txn, FilesInv
    <2>2. \A t \in Id : (t \in Pending \/ InHand(t)) => t = Txn(p)
      BY <1>1, <1>3 DEF IndInv, OnePending, InHand, Txn
    <2>3. Open = {Txn(p)}
      BY <2>1, <2>2 DEF Open
    <2>4. (CHOOSE q \in Proc : pc[q] # "idle" /\ run[q].txn = Txn(p)) = p
      BY <1>1, <1>3 DEF Txn
    <2>5. RecordOf(Txn(p)) = Rec(p)
      BY <2>1, <2>4 DEF RecordOf
    <2>6. OpenEntries = Range(Rec(p).entries)
      BY <2>3, <2>5 DEF OpenEntries
    <2>7. /\ Sound(Rec(p)) /\ PlanOK(Txn(p), Rec(p))
          /\ FileTracks(Txn(p), Rec(p), Frontier(p), files)
      BY <1>3, AtPhase, AtTrack DEF FilesInv, Tracks
    <2> QED BY <1>2, <2>1, <2>3, <2>6, <2>7, PlanShown DEF Value, Target
  <1>4. ASSUME NEW t \in Id, journal[t] # NoRecord, NobodyWorks
        PROVE  /\ Open = {t} /\ OpenEntries = Range(journal[t].entries)
               /\ Shown(t, journal[t], files, Value, Target)
    <2>1. ~InHand(t) /\ \A u \in Id : ~InHand(u)
      BY <1>4 DEF InHand, NobodyWorks
    <2>2. Open = {t}
      BY <1>4, <2>1 DEF Open, Pending, IndInv, OnePending
    <2>3. OpenEntries = Range(journal[t].entries)
      BY <2>1, <2>2 DEF OpenEntries, RecordOf
    <2>4. Sound(journal[t]) /\ PlanOK(t, journal[t])
      BY <1>4 DEF IndInv, RecordsOK, FilesInv, PhaseInv, JournalOK, PendingOK
    <2>5. PICK n \in 0 .. Len(journal[t].entries) : Tracks(t, journal[t], n, files, dirs)
      BY <1>4 DEF FilesInv, TrackInv, Parked, NobodyWorks
    <2>6. FileTracks(t, journal[t], n, files)
      BY <2>5 DEF Tracks
    <2> QED BY <1>2, <2>2, <2>3, <2>4, <2>6, PlanShown DEF Value, Target
  <1>5. ASSUME NobodyWorks, Pending = {}
        PROVE  Open = {} /\ Value = files /\ Target = files
    <2>1. Open = {}
      BY <1>5 DEF Open, InHand, NobodyWorks
    <2>2. OpenEntries = {}
      BY <2>1 DEF OpenEntries
    <2> QED BY <1>2, <2>1, <2>2 DEF Value, Target, GivenUp, CarriedOut
  <1> QED BY <1>3, <1>4, <1>5 DEF ViewInv

-----------------------------------------------------------------------------
(* What the promise needs besides *)

\* commitRun.fail goes on with the undo even when it could not write the record again:
\* if that is after a failed removal of the record, a crash leaves half an undo and no
\* record of it.  And a write that changes nothing shows no trace of an edit: Complete
\* replaces the file all the same.
Guarded ==
  /\ \A p \in Proc : FailWrite(p) => journal'[Txn(p)] # NoRecord
  /\ \A f \in File : Edit(f) => \A e \in OpenEntries : NoOpWrite(e) => e.path # f

\* No entry of the plan has met an edit; none of those whose writes change nothing has.
Clean(t, rec, fs) ==
  \A i \in Indices(rec), f \in File : Touches(rec.entries[i], f) => ~(fs[f] > t)
Unedited(t, rec, fs) ==
  \A i \in Indices(rec) : NoOpWrite(rec.entries[i]) => ~(fs[rec.entries[i].path] > t)

\* Whoever is about to change a file has seen to it that no entry met an edit, and has the
\* record in the journal.
CarefulRun(p) ==
  /\ Unedited(Txn(p), Rec(p), files)
  /\ pc[p] = "apply" => Clean(Txn(p), Rec(p), files)
  /\ pc[p] = "undo" => Clean(Txn(p), Rec(p), files) \/ run[p].undo = 0
  /\ pc[p] = "loaded" => Clean(Txn(p), Rec(p), files) \/ (Rec(p).status = "staging" /\ ~Rec(p).atomic)
  /\ journal[Txn(p)] = NoRecord => \/ pc[p] \in {"begin", "prune"}
                                   \/ pc[p] = "failWrite" /\ Rec(p).committed = Len(Rec(p).entries)

CarefulInv ==
  /\ \A p \in Proc : pc[p] # "idle" => CarefulRun(p)
  /\ \A t \in Id : journal[t] # NoRecord /\ NobodyWorks => Unedited(t, journal[t], files)

-----------------------------------------------------------------------------
(* A step of a process at work *)

\* What the entries alone decide.
LEMMA CleanOfPlan ==
  ASSUME NEW rec, NEW other, other.entries = rec.entries, NEW t, NEW fs
  PROVE  /\ Clean(t, rec, fs) => Clean(t, other, fs)
         /\ Unedited(t, rec, fs) => Unedited(t, other, fs)
  BY DEF Clean, Unedited, Indices

\* Where no file is newer than the transaction, none was edited.
LEMMA NoForeignClean ==
  ASSUME NEW t \in Id, NEW fs \in [File -> Content], NoForeign(t, fs), NEW rec
  PROVE  Clean(t, rec, fs)
  BY ConstantsAssumption DEF NoForeign, Clean, Content, Absent, Id

\* A covered change leaves clean what was clean.
LEMMA CoveredClean ==
  ASSUME NEW t, NEW rec, Sound(rec), PlanOK(t, rec), NEW fs, NEW gs, Covered(t, rec, fs, gs)
  PROVE  /\ Clean(t, rec, fs) => Clean(t, rec, gs)
         /\ Unedited(t, rec, fs) => Unedited(t, rec, gs)
  <1>1. Clean(t, rec, fs) => Clean(t, rec, gs)
    BY DEF Clean, Covered
  <1>2. \A i \in Indices(rec) : NoOpWrite(rec.entries[i]) => rec.entries[i].path \in File
    <2>1. \A i \in Indices(rec) : rec.entries[i] \in Entry
      BY RecordFields DEF Indices
    <2> QED BY <2>1, EntryFields DEF NoOpWrite, FileAction, DirAction
  <1>3. Unedited(t, rec, fs) => Unedited(t, rec, gs)
    BY <1>2 DEF Unedited, Covered
  <1> QED BY <1>1, <1>3

\* What a step of p needs to be one of the abstract steps, and to leave p careful.
Careful(p) ==
  /\ Moves(p) /\ Keeps(p) /\ Records(p) /\ UNCHANGED edits
  /\ Covered(Txn(p), Rec(p), files, files')
  /\ pc'[p] = "apply" => Clean(Txn(p), Rec(p), files)
  /\ pc'[p] = "undo" => Clean(Txn(p), Rec(p), files) \/ run'[p].undo = 0
  /\ pc'[p] # "loaded"
  /\ journal'[Txn(p)] = NoRecord =>
       /\ files' = files
       /\ pc'[p] = "idle" => Frontier(p) \in {0, Len(Rec(p).entries)}
       /\ pc'[p] # "idle" => \/ pc'[p] = "prune"
                             \/ /\ pc'[p] = "failWrite"
                                /\ run'[p].rec.committed = Len(Rec(p).entries)

\* A step that leaves the files and the record where they are.
LEMMA QuietCareful ==
  ASSUME NEW p \in Proc, UNCHANGED <<files, edits>>, Moves(p), Keeps(p), Records(p),
         journal'[Txn(p)] # NoRecord, pc'[p] \notin {"apply", "undo", "loaded"}
  PROVE  Careful(p)
  BY DEF Careful, Covered

\* The record is in the journal except in these places.
LEMMA RecordHeld ==
  ASSUME CarefulInv, NEW p \in Proc, pc[p] \notin {"idle", "begin", "prune", "failWrite"}
  PROVE  journal[Txn(p)] # NoRecord
  BY DEF CarefulInv, CarefulRun

\* The record is written before anything else happens.
LEMMA CarefulBegin ==
  ASSUME IndInv, FilesInv, CarefulInv, NEW p \in Proc, Begin(p)
  PROVE  Careful(p)
  <1>1. Moves(p) /\ pc[p] = "begin" /\ UNCHANGED <<files, edits>>
    BY BeginStep DEF Begin, bounds
  <1>2. /\ SamePlan(Rec(p), Rec(p)) /\ Rec(p) # NoRecord /\ Txn(p) \in Id
        /\ Progress("begin", run[p]) /\ run[p].rec = Rec(p)
    BY <1>1, AtPhase DEF FilesInv
  <1>3. Frontier(p) = 0
    BY <1>1, <1>2 DEF Progress, Frontier
  <1>4. CASE Written(Txn(p), Rec(p)) /\ Goto(p, "prepare", Rec(p))
    <2>1. Keeps(p) /\ pc'[p] = "prepare"
      BY <1>1, <1>2, <1>4, GotoKeeps, GotoRun
    <2>2. Records(p)
      BY <1>1, <1>2, <1>4, JournalFollows DEF FilesInv
    <2>3. journal'[Txn(p)] # NoRecord
      BY <1>2, <1>4 DEF Written, IndInv, RecordsOK
    <2> QED BY <1>1, <2>1, <2>2, <2>3, QuietCareful
  <1>5. CASE PerhapsWritten(Txn(p), Rec(p)) /\ Release(p)
    <2>1. Keeps(p) /\ pc'[p] = "idle"
      BY <1>5, ReleaseKeeps, ReleaseRun
    <2>2. Records(p)
      BY <1>1, <1>2, <1>5, JournalFollows DEF FilesInv
    <2> QED BY <1>1, <1>3, <2>1, <2>2 DEF Careful, Covered
  <1> QED BY <1>4, <1>5 DEF Begin

\* The steps of a run that keep the record and no more than go on, fail or end.
LEMMA CarefulRest ==
  ASSUME IndInv, FilesInv, CarefulInv, NEW p \in Proc, Moves(p),
         pc[p] \notin {"idle", "begin", "prune", "failWrite"},
         UNCHANGED <<files, edits, journal>>,
         \/ Release(p)
         \/ \E label, rec : /\ Goto(p, label, rec) /\ label \notin {"apply", "undo", "loaded"}
                            /\ SamePlan(rec, Rec(p))
         \/ \E rec : OnError(p, rec) /\ Sound(rec) /\ SamePlan(rec, Rec(p))
  PROVE  Careful(p)
  <1>1. Keeps(p) /\ pc'[p] \notin {"apply", "undo", "loaded"}
    <2>1. CASE Release(p)
      BY <2>1, ReleaseKeeps, ReleaseRun
    <2>2. ASSUME NEW label, NEW rec, Goto(p, label, rec), label \notin {"apply", "undo", "loaded"},
                 SamePlan(rec, Rec(p))
          PROVE  Keeps(p) /\ pc'[p] \notin {"apply", "undo", "loaded"}
      BY <2>2, GotoKeeps, GotoRun
    <2>3. ASSUME NEW rec, OnError(p, rec), Sound(rec), SamePlan(rec, Rec(p))
          PROVE  Keeps(p) /\ pc'[p] \notin {"apply", "undo", "loaded"}
      BY <2>3, ErrorFrontier, ErrorLabel
    <2> QED BY <2>1, <2>2, <2>3
  <1>2. journal'[Txn(p)] # NoRecord
    BY RecordHeld
  <1>3. Records(p)
    BY JournalStays DEF FilesInv
  <1> QED BY <1>1, <1>2, <1>3, QuietCareful

\* Directories, backups and staged siblings change no file.
LEMMA CarefulPrepare ==
  ASSUME IndInv, FilesInv, CarefulInv, NEW p \in Proc,
         MakeDirectory(p) \/ WriteBackup(p) \/ StageWrite(p)
  PROVE  Careful(p)
  <1> DEFINE rec == Rec(p)
  <1>1. /\ Moves(p) /\ pc[p] = "prepare" /\ UNCHANGED <<files, edits, journal>>
    BY MakeDirectoryStep, WriteBackupStep, StageWriteStep
       DEF MakeDirectory, WriteBackup, StageWrite, bounds
  <1>2. Sound(rec) /\ SamePlan(rec, rec)
    BY <1>1, AtPhase DEF FilesInv
  <1>3. \/ \E other : Goto(p, "prepare", other) /\ SamePlan(other, rec)
        \/ OnError(p, rec)
    <2>1. CASE MakeDirectory(p)
      BY <1>2, <2>1, CommittedField DEF MakeDirectory
    <2>2. CASE WriteBackup(p)
      BY <1>2, <2>2, BackupsField DEF WriteBackup
    <2>3. CASE StageWrite(p)
      BY <1>2, <2>3, TempsField DEF StageWrite
    <2> QED BY <2>1, <2>2, <2>3
  <1> HIDE DEF rec
  <1> QED BY <1>1, <1>2, <1>3, CarefulRest DEF rec

\* A change that reaches the application has met no edit: it has held the lock since it was
\* planned.
LEMMA CarefulMarkStaged ==
  ASSUME IndInv, FilesInv, CarefulInv, NEW p \in Proc, MarkStaged(p)
  PROVE  Careful(p)
  <1> DEFINE rec    == Rec(p)
             staged == [rec EXCEPT !.status = "staged"]
  <1>1. /\ Moves(p) /\ pc[p] = "prepare" /\ UNCHANGED <<files, edits>>
        /\ \/ Written(Txn(p), staged) /\ Goto(p, "apply", staged)
           \/ /\ PerhapsWritten(Txn(p), staged)
              /\ OnError(p, IF staged.atomic THEN staged ELSE rec)
    BY MarkStagedStep DEF MarkStaged, bounds
  <1>2. /\ Sound(rec) /\ SamePlan(rec, rec) /\ Txn(p) \in Id /\ run[p].own /\ run[p].rec = rec
    BY <1>1, AtPhase DEF FilesInv, Intent
  <1>3. Sound(staged) /\ SamePlan(staged, rec) /\ staged # NoRecord
    BY <1>2, StatusField, SoundUpdates, SoundIsRecord DEF Status
  <1>4. journal[Txn(p)] # NoRecord
    BY <1>1, RecordHeld
  <1> HIDE DEF staged
  <1>5. Records(p) /\ journal'[Txn(p)] \in {journal[Txn(p)], staged}
    BY <1>1, <1>2, <1>3, JournalFollows DEF FilesInv
  <1>6. Clean(Txn(p), rec, files)
    BY <1>1, <1>2, AtTrack, NoForeignClean DEF FilesInv, IndInv, FilesOK
  <1>7. Keeps(p) /\ pc'[p] \notin {"undo", "loaded"}
    <2>1. CASE Goto(p, "apply", staged)
      BY <1>1, <1>3, <2>1, GotoKeeps, GotoRun
    <2>2. CASE OnError(p, IF staged.atomic THEN staged ELSE rec)
      BY <1>1, <1>2, <1>3, <2>2, ErrorFrontier, ErrorLabel
    <2> QED BY <1>1, <2>1, <2>2
  <1> QED BY <1>1, <1>3, <1>4, <1>5, <1>6, <1>7 DEF Careful, Covered

\* What follows the last entry changes no file.
LEMMA CarefulFinish ==
  ASSUME IndInv, FilesInv, CarefulInv, NEW p \in Proc,
         \/ Applied(p) \/ RemoveTemp(p) \/ TempsRemoved(p) \/ DiscardBackup(p)
         \/ BackupsDiscarded(p) \/ WriteHistory(p) \/ FailTemps(p) \/ Undone(p) \/ Refuse(p)
  PROVE  Careful(p)
  <1> DEFINE rec == Rec(p)
  <1>1. /\ Moves(p) /\ pc[p] \notin {"idle", "begin", "prune", "failWrite"}
        /\ UNCHANGED <<files, edits, journal>>
    <2>1. Moves(p)
      BY AppliedStep, RemoveTempStep, TempsRemovedStep, DiscardBackupStep, BackupsDiscardedStep,
         WriteHistoryStep, FailTempsStep, UndoneStep, LoadedStep
    <2>2. CASE Applied(p) \/ RemoveTemp(p) \/ TempsRemoved(p) \/ DiscardBackup(p)
      BY <2>1, <2>2 DEF Applied, RemoveTemp, TempsRemoved, DiscardBackup, bounds, disk
    <2>3. CASE BackupsDiscarded(p) \/ WriteHistory(p) \/ FailTemps(p) \/ Undone(p) \/ Refuse(p)
      BY <2>1, <2>3 DEF BackupsDiscarded, WriteHistory, FailTemps, Undone, Refuse, bounds, disk
    <2> QED BY <2>2, <2>3
  <1>2. Sound(rec) /\ SamePlan(rec, rec) /\ run[p].goal \in Status
    BY <1>1, AtPhase, AtWork DEF FilesInv
  <1>3. \/ Release(p)
        \/ \E label, other : /\ Goto(p, label, other) /\ label \notin {"apply", "undo", "loaded"}
                             /\ SamePlan(other, rec)
        \/ \E other : OnError(p, other) /\ Sound(other) /\ SamePlan(other, rec)
    <2>1. CASE Applied(p)
      BY <1>2, <2>1 DEF Applied, AfterApply
    <2>2. CASE RemoveTemp(p)
      BY <1>2, <2>2, TempsField DEF RemoveTemp
    <2>3. CASE TempsRemoved(p)
      <3>1. /\ Goto(p, IF rec.discard THEN "discard" ELSE "history", [rec EXCEPT !.temps = {}])
            /\ SamePlan([rec EXCEPT !.temps = {}], rec)
        BY <1>2, <2>3, TempsField DEF TempsRemoved
      <3>2. (IF rec.discard THEN "discard" ELSE "history") \notin {"apply", "undo", "loaded"}
        OBVIOUS
      <3> QED BY <3>1, <3>2
    <2>4. CASE DiscardBackup(p)
      BY <1>2, <2>4, BackupsField DEF DiscardBackup
    <2>5. CASE BackupsDiscarded(p)
      BY <1>2, <2>5 DEF BackupsDiscarded
    <2>6. CASE WriteHistory(p)
      <3> DEFINE filed == [rec EXCEPT !.status = run[p].goal]
      <3>1. Sound(filed) /\ SamePlan(filed, rec)
        BY <1>2, StatusField, SoundUpdates
      <3>2. Goto(p, "journal", filed) \/ OnError(p, filed)
        BY <2>6 DEF WriteHistory
      <3> HIDE DEF filed
      <3> QED BY <3>1, <3>2
    <2>7. CASE FailTemps(p)
      BY <1>2, <2>7, TempsField DEF FailTemps
    <2>8. CASE Undone(p)
      BY <1>2, <2>8, CommittedField DEF Undone
    <2>9. CASE Refuse(p)
      BY <2>9 DEF Refuse
    <2> QED BY <2>1, <2>2, <2>3, <2>4, <2>5, <2>6, <2>7, <2>8, <2>9
  <1> HIDE DEF rec
  <1> QED BY <1>1, <1>3, CarefulRest DEF rec

\* Applying or undoing an entry that met no edit changes only what the plan covers.
LEMMA EntryCovered ==
  ASSUME FilesOK, NEW t \in Id, NEW rec, Sound(rec), PlanOK(t, rec), NEW i \in Indices(rec),
         Clean(t, rec, files)
  PROVE  /\ Covered(t, rec, files, AppliedFiles(rec.entries[i]))
         /\ Covered(t, rec, files, UndoneFiles(rec, rec.entries[i]))
  <1> DEFINE e == rec.entries[i]
  <1>1. /\ e \in Entry /\ EntryOK(t, rec, e)
        /\ e.action \in {"write", "move", "remove", "mkdir", "rmdir"}
        /\ e.action \in {"write", "move", "remove"} => e.path \in File
        /\ e.action = "move" => e.target \in File
        /\ \A f \in File : ~Touches(e, f) =>
             AppliedFiles(e)[f] = files[f] /\ UndoneFiles(rec, e)[f] = files[f]
        /\ e.action \in {"mkdir", "rmdir"} => \A f \in File : ~Touches(e, f)
    BY EntryReach
  <1>2. /\ ~(Absent > t) /\ ~(e.old > t) /\ t \in Int
        /\ e.action = "write" => ~(e.new > t)
    <2>1. e.old \in Content /\ e.new \in Content
      BY <1>1, EntryFields
    <2>2. e.old \in Int /\ e.new \in Int /\ t \in Nat
      BY <2>1, ConstantsAssumption DEF Content, Absent, Id
    <2> QED BY <1>1, <2>2 DEF EntryOK, NoOpWrite, Absent
  <1>3. \A f \in File : Touches(e, f) => ~(files[f] > t)
    BY DEF Clean
  <1>4. /\ e.action \in {"write", "move", "remove"} => Touches(e, e.path)
        /\ e.action = "move" => Touches(e, e.target)
    BY DEF Touches
  <1> HIDE DEF e
  <1>5. ASSUME NEW f \in File, Touches(e, f)
        PROVE  ~(AppliedFiles(e)[f] > t) /\ ~(UndoneFiles(rec, e)[f] > t)
    <2>1. e.action \in {"write", "move", "remove"}
      BY <1>1, <1>5
    <2>2. /\ e.path \in File /\ ~(files[e.path] > t)
          /\ e.action = "move" => e.target \in File /\ ~(files[e.target] > t)
      BY <1>1, <1>3, <1>4, <2>1
    <2>3. \/ AppliedFiles(e)[f] \in {files[f], Absent, files[e.path]}
          \/ e.action = "write" /\ AppliedFiles(e)[f] = e.new
      BY <2>1, <2>2 DEF AppliedFiles, FilesOK
    <2>4. \/ UndoneFiles(rec, e)[f] \in {files[f], Absent, e.old}
          \/ e.action = "move" /\ UndoneFiles(rec, e)[f] = files[e.target]
      BY <2>1, <2>2 DEF UndoneFiles, FilesOK
    <2> QED BY <1>2, <1>3, <1>5, <2>2, <2>3, <2>4
  <1>6. ASSUME NEW f \in File
        PROVE  /\ \/ AppliedFiles(e)[f] = files[f]
                  \/ /\ \E k \in Indices(rec) : Touches(rec.entries[k], f)
                     /\ ~(files[f] > t) /\ ~(AppliedFiles(e)[f] > t)
               /\ \/ UndoneFiles(rec, e)[f] = files[f]
                  \/ /\ \E k \in Indices(rec) : Touches(rec.entries[k], f)
                     /\ ~(files[f] > t) /\ ~(UndoneFiles(rec, e)[f] > t)
    <2>1. CASE Touches(e, f)
      BY <1>3, <1>5, <2>1 DEF e
    <2>2. CASE ~Touches(e, f)
      BY <1>1, <2>2
    <2> QED BY <2>1, <2>2
  <1> QED BY <1>6 DEF Covered, e

\* An entry is applied to a file that met no edit.
LEMMA CarefulApply ==
  ASSUME IndInv, FilesInv, CarefulInv, NEW p \in Proc, ApplyEntry(p)
  PROVE  Careful(p)
  <1> DEFINE rec  == Rec(p)
             t    == Txn(p)
             i    == rec.committed + 1
             e    == rec.entries[i]
             next == Advanced(rec, i)
  <1>1. /\ pc[p] = "apply" /\ pc[p] # "idle" /\ i <= Len(rec.entries)
        /\ UNCHANGED <<journal, edits>> /\ Moves(p)
        /\ \/ /\ files' = AppliedFiles(e)
              /\ Goto(p, "apply", next) \/ OnError(p, next)
           \/ UNCHANGED files /\ OnError(p, rec)
    BY ApplyEntryStep DEF ApplyEntry, bounds
  <1>2. /\ Sound(rec) /\ SamePlan(rec, rec) /\ PlanOK(t, rec) /\ t \in Id
    BY <1>1, AtPhase DEF FilesInv
  <1>3. i \in Indices(rec) /\ i \in 1 .. Len(rec.entries)
    BY <1>1, <1>2, RecordFields DEF Indices
  <1>4. SamePlan(next, rec) /\ Sound(next)
    BY <1>2, <1>3, AdvancedField, AdvancedSound
  <1>5. Clean(t, rec, files)
    BY <1>1 DEF CarefulInv, CarefulRun
  <1>6. Covered(t, rec, files, files')
    <2>1. Covered(t, rec, files, files)
      BY DEF Covered
    <2>2. Covered(t, rec, files, AppliedFiles(e))
      BY <1>2, <1>3, <1>5, EntryCovered DEF IndInv
    <2> QED BY <1>1, <2>1, <2>2
  <1>7. Records(p) /\ journal'[t] # NoRecord
    BY <1>1, JournalStays, RecordHeld DEF FilesInv
  <1> HIDE DEF rec, next, i
  <1>8. Keeps(p) /\ pc'[p] \notin {"undo", "loaded"}
    <2>1. CASE Goto(p, "apply", next)
      BY <1>1, <1>4, <2>1, GotoKeeps, GotoRun DEF rec
    <2>2. CASE OnError(p, next)
      BY <1>1, <1>4, <2>2, ErrorFrontier, ErrorLabel DEF rec
    <2>3. CASE OnError(p, rec)
      BY <1>1, <1>2, <2>3, ErrorFrontier, ErrorLabel DEF rec
    <2> QED BY <1>1, <2>1, <2>2, <2>3
  <1> QED BY <1>1, <1>5, <1>6, <1>7, <1>8 DEF Careful, rec

\* An entry is undone on a file that met no edit.
LEMMA CarefulUndo ==
  ASSUME IndInv, FilesInv, CarefulInv, NEW p \in Proc, UndoEntry(p)
  PROVE  Careful(p)
  <1> DEFINE rec == Rec(p)
             t   == Txn(p)
             i   == run[p].undo
             e   == rec.entries[i]
  <1>1. /\ pc[p] = "undo" /\ pc[p] # "idle" /\ i > 0
        /\ UNCHANGED <<journal, edits>> /\ Moves(p)
        /\ \/ /\ files' = UndoneFiles(rec, e)
              /\ \/ run' = [run EXCEPT ![p].undo = @ - 1] /\ UNCHANGED pc
                 \/ Release(p)
           \/ UNCHANGED files /\ Release(p)
    BY UndoEntryStep DEF UndoEntry, bounds
  <1>2. /\ Sound(rec) /\ SamePlan(rec, rec) /\ PlanOK(t, rec) /\ t \in Id
    BY <1>1, AtPhase DEF FilesInv
  <1>3. i \in Indices(rec)
    BY <1>1, <1>2, AtWork, RecordFields DEF Indices
  <1>4. Clean(t, rec, files)
    BY <1>1, <1>3 DEF CarefulInv, CarefulRun
  <1>5. Covered(t, rec, files, files')
    <2>1. Covered(t, rec, files, files)
      BY DEF Covered
    <2>2. Covered(t, rec, files, UndoneFiles(rec, e))
      BY <1>2, <1>3, <1>4, EntryCovered DEF IndInv
    <2> QED BY <1>1, <2>1, <2>2
  <1>6. Records(p) /\ journal'[t] # NoRecord
    BY <1>1, JournalStays, RecordHeld DEF FilesInv
  <1>7. Keeps(p) /\ pc'[p] \in {"undo", "idle"}
    <2>1. CASE run' = [run EXCEPT ![p].undo = @ - 1] /\ UNCHANGED pc
      <3> DEFINE less == [run[p] EXCEPT !.undo = @ - 1]
      <3>1. run[p] \in Run /\ run'[p] = less
        BY <1>1, <2>1, AtWork DEF IndInv, ControlOK
      <3>2. run'[p].rec = rec /\ run'[p].own = run[p].own
        BY <3>1 DEF Run, Rec
      <3>3. pc'[p] = "undo"
        BY <1>1, <2>1
      <3> HIDE DEF less
      <3> QED BY <1>2, <3>2, <3>3 DEF Keeps
    <2>2. CASE Release(p)
      BY <2>2, ReleaseRun, ReleaseKeeps
    <2> QED BY <1>1, <2>1, <2>2
  <1> HIDE DEF rec, i
  <1> QED BY <1>1, <1>4, <1>5, <1>6, <1>7 DEF Careful, rec

\* The keys are published with the record in the journal.
LEMMA CarefulMarkApplied ==
  ASSUME IndInv, FilesInv, CarefulInv, NEW p \in Proc, MarkApplied(p)
  PROVE  Careful(p)
  <1> DEFINE rec    == Rec(p)
             t      == Txn(p)
             marked == [rec EXCEPT !.status = "applied"]
  <1>1. /\ pc[p] = "markApplied" /\ pc[p] # "idle" /\ UNCHANGED <<files, edits>> /\ Moves(p)
        /\ \/ /\ Written(t, marked) /\ pc' = [pc EXCEPT ![p] = "temps"]
              /\ run' = [run EXCEPT ![p] = [@ EXCEPT !.rec = marked, !.own = FALSE]]
           \/ PerhapsWritten(t, marked) /\ OnError(p, marked)
    BY MarkAppliedStep DEF MarkApplied, bounds
  <1>2. Sound(rec) /\ SamePlan(rec, rec) /\ t \in Id
    BY <1>1, AtPhase DEF FilesInv
  <1>3. Sound(marked) /\ SamePlan(marked, rec) /\ marked # NoRecord
    BY <1>2, StatusField, SoundUpdates, SoundIsRecord DEF Status
  <1>4. journal[t] # NoRecord
    BY <1>1, RecordHeld
  <1> HIDE DEF marked
  <1>5. Records(p) /\ journal'[t] \in {journal[t], marked}
    BY <1>1, <1>2, <1>3, JournalFollows DEF FilesInv
  <1>6. Keeps(p) /\ pc'[p] \notin {"apply", "undo", "loaded"}
    <2>1. CASE /\ pc' = [pc EXCEPT ![p] = "temps"]
               /\ run' = [run EXCEPT ![p] = [@ EXCEPT !.rec = marked, !.own = FALSE]]
      <3> DEFINE done == [run[p] EXCEPT !.rec = marked, !.own = FALSE]
      <3>1. run[p] \in Run /\ run'[p] = done /\ pc'[p] = "temps"
        BY <1>1, <2>1, AtWork DEF IndInv, ControlOK
      <3>2. run'[p].rec = marked /\ run'[p].own = FALSE
        BY <3>1 DEF Run
      <3> HIDE DEF done
      <3> QED BY <1>3, <3>1, <3>2 DEF Keeps
    <2>2. CASE OnError(p, marked)
      BY <1>1, <1>3, <2>2, ErrorFrontier, ErrorLabel
    <2> QED BY <1>1, <2>1, <2>2
  <1> QED BY <1>1, <1>3, <1>4, <1>5, <1>6, QuietCareful

\* The record goes, and the run with it, unless commitRun.fail takes over.
LEMMA CarefulRemoveJournal ==
  ASSUME IndInv, FilesInv, CarefulInv, NEW p \in Proc, RemoveJournal(p)
  PROVE  Careful(p)
  <1> DEFINE rec == Rec(p)
             t   == Txn(p)
  <1>1. /\ pc[p] = "journal" /\ pc[p] \in Finishing /\ pc[p] # "idle"
        /\ UNCHANGED <<files, edits>> /\ Moves(p)
        /\ journal' \in {journal, [journal EXCEPT ![t] = NoRecord]}
        /\ Goto(p, "prune", rec) \/ OnError(p, rec)
    BY RemoveJournalStep DEF RemoveJournal, bounds, Finishing, Cleaning
  <1>2. /\ Sound(rec) /\ SamePlan(rec, rec) /\ t \in Id /\ run[p].rec = rec
        /\ Progress("journal", run[p]) /\ run[p].goal \in {"completed", "rolled_back"}
        /\ journal[t] # NoRecord => SamePlan(journal[t], rec)
    BY <1>1, AtPhase DEF FilesInv, Recorded
  <1>3. /\ Frontier(p) \in {0, Len(rec.entries)} /\ Frontier(p) = rec.committed
        /\ Frontier(p) = IF run[p].goal = "completed" THEN Len(rec.entries) ELSE 0
        /\ run[p].own => run[p].goal = "completed"
    BY <1>1, FinishingEnds DEF FilesInv
  <1>4. Records(p)
    <2>1. \A u \in Id : journal'[u] = journal[u] \/ journal'[u] = NoRecord
      BY <1>1 DEF IndInv, RecordsOK
    <2> QED BY <1>2, <2>1 DEF Records
  <1>5. /\ Keeps(p) /\ pc'[p] \in {"idle", "prune", "failWrite"}
        /\ pc'[p] = "failWrite" => run'[p].rec.committed = Len(rec.entries)
    <2>1. CASE Goto(p, "prune", rec)
      BY <1>1, <1>2, <2>1, GotoKeeps, GotoRun
    <2>2. CASE OnError(p, rec)
      <3>1. /\ Keeps(p) /\ pc'[p] \in {"idle", "failTemps", "failWrite"}
            /\ pc'[p] # "idle" => run[p].own /\ Frontier(p)' = rec.committed
            /\ pc'[p] = "failTemps" => rec.status = "staging"
        BY <1>1, <1>2, <2>2, ErrorFrontier, ErrorLabel
      <3>2. pc'[p] # "failTemps"
        BY <1>2, <3>1 DEF Progress
      <3>3. pc'[p] = "failWrite" => run'[p].rec.committed = rec.committed
        BY <3>1 DEF Frontier, Rec
      <3>4. pc'[p] = "failWrite" => rec.committed = Len(rec.entries)
        BY <1>3, <3>1
      <3> QED BY <3>1, <3>2, <3>3, <3>4
    <2> QED BY <1>1, <2>1, <2>2
  <1> QED BY <1>1, <1>3, <1>4, <1>5 DEF Careful, Covered

\* Retention touches neither files nor journal.
LEMMA CarefulPrune ==
  ASSUME IndInv, FilesInv, NEW p \in Proc, Prune(p)
  PROVE  Careful(p)
  <1>1. /\ pc[p] \in Finishing /\ pc[p] # "idle" /\ UNCHANGED <<files, edits, journal>>
        /\ Moves(p) /\ Release(p)
    BY PruneStep DEF Prune, bounds, Finishing, Cleaning
  <1>2. Keeps(p) /\ pc'[p] = "idle" /\ Records(p)
    BY <1>1, ReleaseKeeps, ReleaseRun, JournalStays DEF FilesInv
  <1>3. Frontier(p) \in {0, Len(Rec(p).entries)}
    BY <1>1, FinishingEnds DEF FilesInv
  <1> QED BY <1>1, <1>2, <1>3 DEF Careful, Covered

\* An undo starts from the recorded progress.
LEMMA StartUndoKeeps ==
  ASSUME IndInv, NEW p \in Proc, pc[p] # "idle", StartUndo(p, Rec(p)), SamePlan(Rec(p), Rec(p))
  PROVE  Keeps(p) /\ pc'[p] = "undo" /\ run'[p].undo = Rec(p).committed
  <1> DEFINE started == [run[p] EXCEPT !.rec = Rec(p), !.goal = "rolled_back",
                                       !.own = FALSE, !.undo = Rec(p).committed]
  <1>1. run[p] \in Run /\ run'[p] = started /\ pc'[p] = "undo"
    BY AtWork DEF IndInv, ControlOK, StartUndo
  <1>2. run'[p].rec = Rec(p) /\ run'[p].own = FALSE /\ run'[p].undo = Rec(p).committed
    BY <1>1 DEF Run
  <1> HIDE DEF started
  <1> QED BY <1>1, <1>2 DEF Keeps

\* commitRun.fail writes the record again before it undoes an entry.
LEMMA CarefulFailWrite ==
  ASSUME IndInv, FilesInv, CarefulInv, Guarded, NEW p \in Proc, FailWrite(p)
  PROVE  Careful(p)
  <1> DEFINE rec == Rec(p)
             t   == Txn(p)
  <1>1. /\ pc[p] = "failWrite" /\ pc[p] # "idle" /\ UNCHANGED <<files, edits>> /\ Moves(p)
        /\ Written(t, rec) \/ PerhapsWritten(t, rec)
        /\ StartUndo(p, rec) \/ Release(p)
    BY FailWriteStep DEF FailWrite, bounds
  <1>2. /\ Sound(rec) /\ SamePlan(rec, rec) /\ t \in Id /\ run[p].own
    BY <1>1, AtPhase DEF FilesInv, Intent
  <1>3. Records(p) /\ journal'[t] # NoRecord
    BY <1>1, <1>2, JournalFollows DEF FilesInv, Guarded
  <1>4. Clean(t, rec, files)
    BY <1>1, <1>2, AtTrack, NoForeignClean DEF FilesInv, IndInv, FilesOK
  <1>5. Keeps(p) /\ pc'[p] \in {"undo", "idle"}
    BY <1>1, <1>2, StartUndoKeeps, ReleaseKeeps, ReleaseRun
  <1> QED BY <1>1, <1>3, <1>4, <1>5 DEF Careful, Covered

\* Complete and Rollback go on only from a record whose entries are all accounted for.
LEMMA CarefulResume ==
  ASSUME IndInv, FilesInv, CarefulInv, NEW p \in Proc, Complete(p) \/ Rollback(p)
  PROVE  Careful(p)
  <1> DEFINE rec == Rec(p)
             t   == Txn(p)
  <1>1. /\ pc[p] = "loaded" /\ pc[p] # "idle" /\ UNCHANGED <<files, edits, journal>> /\ Moves(p)
    BY LoadedStep DEF Complete, Rollback, bounds, disk
  <1>2. /\ Sound(rec) /\ SamePlan(rec, rec) /\ t \in Id /\ journal[t] = rec
        /\ journal[t] # NoRecord
    BY <1>1, AtPhase, Loaded DEF FilesInv
  <1>3. PendingOK(t, rec, backups)
    BY <1>2 DEF FilesInv, PhaseInv, JournalOK
  <1>4. Clean(t, rec, files) \/ (rec.status = "staging" /\ ~rec.atomic /\ rec.committed = 0)
    BY <1>1, <1>3 DEF CarefulInv, CarefulRun, PendingOK
  <1>5. Records(p)
    BY <1>1, JournalStays DEF FilesInv
  <1>6. CASE Complete(p)
    <2>1. /\ Goto(p, IF rec.status = "applied" THEN "temps" ELSE "apply", rec)
          /\ rec.status # "staging"
      BY <1>6 DEF Complete, CanComplete
    <2>2. Keeps(p) /\ pc'[p] \in {"temps", "apply"}
      BY <1>1, <1>2, <2>1, GotoKeeps, GotoRun
    <2> QED BY <1>1, <1>2, <1>4, <1>5, <2>1, <2>2 DEF Careful, Covered
  <1>7. CASE Rollback(p)
    <2>1. Keeps(p) /\ pc'[p] = "undo" /\ run'[p].undo = rec.committed
      BY <1>1, <1>2, <1>7, StartUndoKeeps DEF Rollback
    <2> QED BY <1>1, <1>2, <1>4, <1>5, <2>1 DEF Careful, Covered
  <1> QED BY <1>6, <1>7

\* A crash leaves the record, or a change none or all of which is in effect.
LEMMA CarefulCrash ==
  ASSUME IndInv, FilesInv, CarefulInv, NEW p \in Proc, Crash(p)
  PROVE  Careful(p)
  <1>1. /\ pc[p] # "idle" /\ UNCHANGED <<files, edits, journal>> /\ Moves(p) /\ Release(p)
    BY CrashStep DEF Crash, disk
  <1>2. Keeps(p) /\ pc'[p] = "idle" /\ Records(p)
    BY <1>1, ReleaseKeeps, ReleaseRun, JournalStays DEF FilesInv
  <1>3. journal[Txn(p)] = NoRecord => Frontier(p) \in {0, Len(Rec(p).entries)}
    <2>1. CASE pc[p] = "begin"
      BY <1>1, <2>1, AtPhase DEF FilesInv, Progress, Frontier
    <2>2. CASE pc[p] = "prune"
      BY <2>2, FinishingEnds DEF FilesInv, Finishing, Cleaning
    <2>3. CASE pc[p] = "failWrite" /\ Rec(p).committed = Len(Rec(p).entries)
      BY <2>3 DEF Frontier
    <2> QED BY <1>1, <2>1, <2>2, <2>3 DEF CarefulInv, CarefulRun
  <1> QED BY <1>1, <1>2, <1>3 DEF Careful, Covered

\* A process that has the lock.
LEMMA StepCareful ==
  ASSUME IndInv, FilesInv, CarefulInv, Guarded, NEW p \in Proc, Step(p) \/ Crash(p)
  PROVE  Careful(p) /\ pc[p] # "idle"
  <1>1. pc[p] # "idle"
    BY DEF Step, Begin, MakeDirectory, WriteBackup, StageWrite, MarkStaged, ApplyEntry, Applied,
           MarkApplied, RemoveTemp, TempsRemoved, DiscardBackup, BackupsDiscarded, WriteHistory,
           RemoveJournal, Prune, FailTemps, FailWrite, UndoEntry, Undone, Complete, Rollback,
           Refuse, Crash
  <1>2. Careful(p)
    BY CarefulBegin, CarefulPrepare, CarefulMarkStaged, CarefulApply, CarefulMarkApplied,
       CarefulFinish, CarefulRemoveJournal, CarefulPrune, CarefulFailWrite, CarefulUndo,
       CarefulResume, CarefulCrash DEF Step
  <1> QED BY <1>1, <1>2

-----------------------------------------------------------------------------
(* Every step is an abstract one *)

\* What a process leaves behind is careful too.
LEMMA WorkCareful ==
  ASSUME IndInv, FilesInv, IndInv', CarefulInv, NEW p \in Proc, pc[p] # "idle", Careful(p)
  PROVE  CarefulInv'
  <1> DEFINE t   == Txn(p)
             rec == Rec(p)
  <1>1. \A q \in Proc \ {p} : pc'[q] = "idle"
    BY DEF Careful, Moves, IndInv, ControlOK
  <1>2. Sound(rec) /\ PlanOK(t, rec) /\ Unedited(t, rec, files) /\ Covered(t, rec, files, files')
    BY AtPhase DEF FilesInv, CarefulInv, CarefulRun, Careful
  <1>3. /\ Unedited(t, rec, files')
        /\ Clean(t, rec, files) => Clean(t, rec, files')
    BY <1>2, CoveredClean
  <1>4. CASE pc'[p] # "idle"
    <2>1. run'[p].txn = t /\ run'[p].rec.entries = rec.entries
      BY <1>4 DEF Careful, Moves, Keeps, SamePlan, Txn
    <2>2. /\ Unedited(t, run'[p].rec, files')
          /\ Clean(t, rec, files) => Clean(t, run'[p].rec, files')
      BY <1>3, <2>1, CleanOfPlan
    <2>3. journal'[t] = NoRecord =>
            \/ pc'[p] \in {"begin", "prune"}
            \/ pc'[p] = "failWrite" /\ run'[p].rec.committed = Len(run'[p].rec.entries)
      BY <1>4, <2>1 DEF Careful
    <2>4. CarefulRun(p)'
      BY <2>1, <2>2, <2>3 DEF CarefulRun, Careful, Txn, Rec
    <2> QED BY <1>1, <1>4, <2>4 DEF CarefulInv, NobodyWorks
  <1>5. CASE pc'[p] = "idle"
    <2>1. ASSUME NEW u \in Id, journal'[u] # NoRecord PROVE Unedited(u, journal'[u], files')
      <3>1. u = t
        BY <2>1 DEF Careful, Records, IndInv, OnePending, Pending, Txn
      <3>2. journal'[u].entries = rec.entries
        BY <2>1, <3>1 DEF Careful, Records, SamePlan
      <3> QED BY <1>3, <3>1, <3>2, CleanOfPlan
    <2> QED BY <1>1, <1>5, <2>1 DEF CarefulInv
  <1> QED BY <1>4, <1>5

\* Nothing happens to the workspace as a whole.
LEMMA AbstractStutter ==
  ASSUME Value' = Value, Target' = Target, edits' = edits, Open # {} <=> Open' # {}
  PROVE  [Workspace!Next]_(Workspace!vars)
  <1>1. (Open # {})' = (Open # {})
    OBVIOUS
  <1>2. UNCHANGED Workspace!vars
    BY <1>1, ImagesShown DEF Workspace!vars
  <1> QED BY <1>2

\* A step of a process at work changes nothing that is seen, or settles the change.
LEMMA WorkRefines ==
  ASSUME IndInv, FilesInv, ViewInv, IndInv', ViewInv', NEW p \in Proc, pc[p] # "idle", Careful(p)
  PROVE  [Workspace!Next]_(Workspace!vars)
  <1> DEFINE t   == Txn(p)
             rec == Rec(p)
  <1>1. Open = {t} /\ Shown(t, rec, files, Value, Target)
    BY DEF ViewInv
  <1>2. /\ Covered(t, rec, files, files') /\ UNCHANGED edits
        /\ Sound(rec) /\ t \in Id /\ files \in [File -> Content]
        /\ FileTracks(t, rec, Frontier(p), files)
    BY AtPhase, AtTrack DEF Careful, FilesInv, Tracks, IndInv, FilesOK
  <1>3. CASE pc'[p] # "idle"
    <2>1. Open' = {Txn(p)'} /\ Shown(Txn(p)', Rec(p)', files', Value', Target')
      BY <1>3 DEF ViewInv
    <2>2. Txn(p)' = t /\ Rec(p)'.entries = rec.entries
      BY <1>3 DEF Careful, Moves, Keeps, SamePlan, Txn, Rec
    <2>3. Shown(t, Rec(p)', files', Value', Target')
      BY <2>1, <2>2
    <2>4. Value' = Value /\ Target' = Target
      BY <1>1, <1>2, <2>2, <2>3, CoveredUnseen
    <2> QED BY <1>1, <1>2, <2>1, <2>4, AbstractStutter
  <1>4. CASE pc'[p] = "idle"
    <2>1. NobodyWorks'
      BY <1>4 DEF Careful, Moves, IndInv, ControlOK, NobodyWorks
    <2>2. CASE journal'[t] # NoRecord
      <3>1. Open' = {t} /\ Shown(t, journal'[t], files', Value', Target')
        BY <1>2, <2>1, <2>2 DEF ViewInv
      <3>2. journal'[t].entries = rec.entries
        BY <2>2 DEF Careful, Records, SamePlan
      <3>3. Value' = Value /\ Target' = Target
        BY <1>1, <1>2, <3>1, <3>2, CoveredUnseen
      <3> QED BY <1>1, <1>2, <3>1, <3>3, AbstractStutter
    <2>3. CASE journal'[t] = NoRecord
      <3>1. Pending' = {}
        BY <2>3 DEF Careful, Records, IndInv, OnePending, Pending, Txn
      <3>2. Open' = {} /\ Value' = files' /\ Target' = files'
        BY <2>1, <3>1 DEF ViewInv
      <3>3. files' = files /\ Frontier(p) \in {0, Len(rec.entries)}
        BY <1>4, <2>3 DEF Careful
      <3>4. Value' \in {Value, Target}
        BY <1>1, <1>2, <3>2, <3>3, EndsShown
      <3>5. Workspace!Settle
        BY <1>1, <1>2, <3>2, <3>4, ImagesShown DEF Workspace!Settle
      <3> QED BY <3>5 DEF Workspace!Next
    <2> QED BY <2>2, <2>3
  <1> QED BY <1>3, <1>4

\* The steps that touch neither files nor journal.
LEMMA OutsideRefines ==
  ASSUME CarefulInv, UNCHANGED <<files, journal, pc, run, edits>>
  PROVE  CarefulInv' /\ [Workspace!Next]_(Workspace!vars)
  <1>1. /\ \A t : InHand(t)' = InHand(t) /\ RecordOf(t)' = RecordOf(t)
        /\ Pending' = Pending
    BY DEF InHand, RecordOf, Pending, Rec
  <1>2. Open' = Open
    BY <1>1 DEF Open
  <1>3. OpenEntries' = OpenEntries
    BY <1>1, <1>2 DEF OpenEntries
  <1>4. Value' = Value /\ Target' = Target
    BY <1>3 DEF Value, Target
  <1>5. CarefulInv'
    BY DEF CarefulInv, CarefulRun, NobodyWorks, Txn, Rec
  <1> QED BY <1>2, <1>4, <1>5, AbstractStutter

\* A plan changes nothing yet: giving it up leaves the files as they are.
LEMMA StartCommitRefines ==
  ASSUME IndInv, FilesInv, ViewInv, IndInv', FilesInv', ViewInv', NEW p \in Proc, NEW q \in Requests,
         StartCommit(p, q)
  PROVE  CarefulInv' /\ [Workspace!Next]_(Workspace!vars)
  <1>1. PICK order \in Orders(q) :
          run' = [run EXCEPT ![p] = [txn |-> nextId, rec |-> PlanOf(q, order, nextId),
                                     goal |-> "completed", own |-> TRUE, undo |-> 0]]
    BY DEF StartCommit
  <1> DEFINE plan == PlanOf(q, order, nextId)
  <1>2. /\ NobodyWorks /\ Pending = {} /\ pc'[p] = "begin"
        /\ \A o \in Proc \ {p} : pc'[o] = "idle"
        /\ UNCHANGED <<files, journal, edits>> /\ nextId \in Id
    BY AllIdle, ConstantsAssumption
       DEF StartCommit, NoPending, disk, bounds, NobodyWorks, IndInv, ControlOK, CountersOK, Id
  <1>3. Txn(p)' = nextId /\ Rec(p)' = plan
    <2>1. p \in DOMAIN run
      BY DEF IndInv, ControlOK
    <2> QED BY <1>1, <2>1 DEF Txn, Rec
  <1>4. Tracks(nextId, plan, 0, files, dirs)
    BY <1>2, PlanTracks DEF StartCommit, FilesInv, IndInv
  <1>5. Sound(plan)
    BY <1>2, PlanSound DEF IndInv
  <1> HIDE DEF plan
  <1>6. Open = {} /\ Value = files /\ Target = files
    BY <1>2 DEF ViewInv
  <1>7. Open' = {nextId} /\ Shown(nextId, plan, files, Value', Target')
    BY <1>2, <1>3 DEF ViewInv
  <1>8. files \in [File -> Content] /\ \A f \in File : ~(files[f] > nextId)
    <2>1. files \in [File -> Content] /\ AgeInv /\ nextId \in Nat
      BY <1>2, ConstantsAssumption DEF IndInv, FilesOK, FilesInv, Id
    <2> QED BY <2>1, ConstantsAssumption DEF AgeInv, Content, Absent
  <1>9. Value' = files
    BY <1>4, <1>5, <1>7, <1>8, EndsShown DEF Tracks
  <1>10. Target' \in [File -> Content]
    BY <1>7 DEF Shown
  <1>11. Workspace!Begin
    BY <1>2, <1>6, <1>7, <1>9, <1>10, ImagesShown DEF Workspace!Begin
  <1>12. CarefulInv'
    <2>1. Unedited(nextId, plan, files)
      <3>1. \A i \in Indices(plan) : NoOpWrite(plan.entries[i]) => plan.entries[i].path \in File
        <4>1. \A i \in Indices(plan) : plan.entries[i] \in Entry
          BY <1>5, RecordFields DEF Indices
        <4> QED BY <4>1, EntryFields DEF NoOpWrite, FileAction, DirAction
      <3> QED BY <1>8, <3>1 DEF Unedited
    <2>2. CarefulRun(p)'
      BY <1>2, <1>3, <2>1 DEF CarefulRun
    <2> QED BY <1>2, <2>2 DEF CarefulInv, NobodyWorks
  <1> QED BY <1>11, <1>12 DEF Workspace!Next

-----------------------------------------------------------------------------
(* The steps that start while nobody works *)

\* Where loadPending can tell the state of every entry, none has met an edit, except
\* perhaps a write that changes nothing.
LEMMA ResolvedClean ==
  ASSUME FilesOK, NEW t \in Id, NEW rec, Sound(rec), PlanOK(t, rec),
         Shows(rec, "unknown") = {}, Unedited(t, rec, files)
  PROVE  Clean(t, rec, files)
  <1> SUFFICES ASSUME NEW i \in Indices(rec), NEW f \in File, Touches(rec.entries[i], f)
               PROVE  ~(files[f] > t)
    BY DEF Clean
  <1> DEFINE e == rec.entries[i]
  <1>1. /\ e \in Entry /\ EntryOK(t, rec, e)
        /\ e.action \in {"write", "move", "remove"}
        /\ f = e.path \/ (e.action = "move" /\ f = e.target)
    BY EntryReach DEF Touches
  <1>2. /\ t \in Nat /\ ~(Absent > t) /\ ~(t > t) /\ e.old < t
        /\ e.old \in Int /\ e.new \in Int
    BY <1>1, EntryFields, ConstantsAssumption DEF Id, Absent, Content, EntryOK
  <1>3. ~(e.old > t)
    BY <1>2
  <1>4. Evidence(e) # "unknown"
    BY DEF Shows
  <1>5. NoOpWrite(e) => ~(files[e.path] > t)
    BY DEF Unedited
  <1> HIDE DEF e
  <1>6. CASE e.action = "write"
    <2>1. CASE NoOpWrite(e)
      BY <1>1, <1>5, <1>6, <2>1
    <2>2. CASE ~NoOpWrite(e)
      <3>1. files[e.path] \in {Absent, e.new, e.old}
        BY <1>4, <1>6, <2>2 DEF Evidence
      <3>2. e.new = t
        BY <1>1, <1>6, <2>2 DEF EntryOK
      <3> QED BY <1>1, <1>2, <1>3, <1>6, <3>1, <3>2
    <2> QED BY <2>1, <2>2
  <1>7. CASE e.action = "move"
    <2>1. files[e.path] \in {Absent, e.new} /\ files[e.target] \in {Absent, e.new}
      BY <1>4, <1>7 DEF Evidence
    <2>2. e.new = e.old
      BY <1>1, <1>7 DEF EntryOK
    <2> QED BY <1>1, <1>2, <1>3, <2>1, <2>2
  <1>8. CASE e.action = "remove"
    <2>1. files[e.path] \in {Absent, e.old}
      BY <1>4, <1>8 DEF Evidence
    <2> QED BY <1>1, <1>2, <1>3, <1>8, <2>1
  <1> QED BY <1>1, <1>6, <1>7, <1>8

\* loadPending takes up the change that waits, and shows the same of it.
LEMMA LoadPendingRefines ==
  ASSUME IndInv, FilesInv, ViewInv, CarefulInv, IndInv', ViewInv', NEW p \in Proc, NEW t \in Id,
         NEW goal \in {"completed", "rolled_back"}, LoadPending(p, t, goal)
  PROVE  CarefulInv' /\ [Workspace!Next]_(Workspace!vars)
  <1> DEFINE rec     == journal[t]
             known   == Reconciled(rec)
             started == [txn |-> t, rec |-> known, goal |-> goal, own |-> FALSE, undo |-> 0]
  <1>1. /\ lock = NoProc /\ rec # NoRecord /\ Resolvable(rec)
        /\ \/ /\ Written(t, known)
              /\ pc' = [pc EXCEPT ![p] = "loaded"] /\ run' = [run EXCEPT ![p] = started]
           \/ PerhapsWritten(t, known) /\ UNCHANGED memory
        /\ UNCHANGED <<files, edits>>
    BY DEF LoadPending, bounds
  <1>2. Sound(rec) /\ PendingOK(t, rec, backups) /\ PlanOK(t, rec)
    BY <1>1 DEF IndInv, RecordsOK, FilesInv, PhaseInv, JournalOK, PendingOK
  <1>3. NobodyWorks
    BY <1>1, AllIdle DEF NobodyWorks
  <1>4. Open = {t} /\ Shown(t, rec, files, Value, Target) /\ Unedited(t, rec, files)
    BY <1>1, <1>3 DEF ViewInv, CarefulInv
  <1>5. SamePlan(known, rec) /\ known # NoRecord /\ known.entries = rec.entries
    BY <1>2, ReconciledPending DEF SamePlan
  <1>6. Clean(t, known, files) \/ (known.status = "staging" /\ ~known.atomic)
    <2>1. CASE rec.status = "staging" /\ ~rec.atomic
      BY <2>1 DEF Reconciled, NotReconciled
    <2>2. CASE ~(rec.status = "staging" /\ ~rec.atomic)
      <3>1. Shows(rec, "unknown") = {}
        BY <1>1, <2>2 DEF Resolvable
      <3>2. Clean(t, rec, files)
        BY <1>2, <1>4, <3>1, ResolvedClean DEF IndInv
      <3> QED BY <1>5, <3>2, CleanOfPlan
    <2> QED BY <2>1, <2>2
  <1>7. Unedited(t, known, files)
    BY <1>4, <1>5, CleanOfPlan
  <1>8. Covered(t, rec, files, files')
    BY <1>1 DEF Covered
  <1>9. \A u \in Id : journal'[u] = journal[u] \/ (u = t /\ journal'[u] = known)
    BY <1>1 DEF Written, PerhapsWritten, IndInv, RecordsOK
  <1>10. \A u \in Id : journal'[u] # NoRecord => u = t
    BY <1>1, <1>9 DEF IndInv, OnePending, Pending
  <1> HIDE DEF known
  <1>11. CASE /\ Written(t, known) /\ pc' = [pc EXCEPT ![p] = "loaded"]
              /\ run' = [run EXCEPT ![p] = started]
    <2>1. /\ journal'[t] = known /\ pc'[p] = "loaded" /\ run'[p] = started
          /\ \A q \in Proc : pc'[q] # "idle" => q = p
      BY <1>3, <1>11 DEF Written, IndInv, RecordsOK, ControlOK, NobodyWorks
    <2>2. Txn(p)' = t /\ Rec(p)' = known
      BY <2>1 DEF Txn, Rec
    <2> HIDE DEF started
    <2>3. CarefulRun(p)'
      BY <1>1, <1>5, <1>6, <1>7, <2>1, <2>2 DEF CarefulRun
    <2>4. CarefulInv'
      BY <2>1, <2>3 DEF CarefulInv, NobodyWorks
    <2>5. Open' = {t} /\ Shown(t, known, files', Value', Target')
      BY <2>1, <2>2 DEF ViewInv
    <2>6. Value' = Value /\ Target' = Target
      BY <1>4, <1>5, <1>8, <2>5, CoveredUnseen
    <2> QED BY <1>1, <1>4, <2>4, <2>5, <2>6, AbstractStutter
  <1>12. CASE PerhapsWritten(t, known) /\ UNCHANGED memory
    <2>1. NobodyWorks' /\ journal'[t] # NoRecord /\ journal'[t].entries = rec.entries
      BY <1>1, <1>3, <1>5, <1>9, <1>12 DEF memory, NobodyWorks
    <2>2. Unedited(t, journal'[t], files')
      BY <1>1, <1>4, <2>1, CleanOfPlan
    <2>3. CarefulInv'
      BY <1>10, <2>1, <2>2 DEF CarefulInv, NobodyWorks
    <2>4. Open' = {t} /\ Shown(t, journal'[t], files', Value', Target')
      BY <2>1 DEF ViewInv
    <2>5. Value' = Value /\ Target' = Target
      BY <1>4, <1>8, <2>1, <2>4, CoveredUnseen
    <2> QED BY <1>1, <1>4, <2>3, <2>4, <2>5, AbstractStutter
  <1> QED BY <1>1, <1>11, <1>12

\* An edit by another program shows in both outcomes, whatever of the change is in effect.
LEMMA EditRefines ==
  ASSUME IndInv, FilesInv, ViewInv, CarefulInv, IndInv', ViewInv', Guarded,
         NEW f \in File, Edit(f)
  PROVE  CarefulInv' /\ [Workspace!Next]_(Workspace!vars)
  <1>1. /\ lock = NoProc /\ edits' = edits + 1 /\ nextId \in Id
        /\ files' = [files EXCEPT ![f] = nextId] /\ files \in [File -> Content]
        /\ UNCHANGED <<journal, pc>>
    BY ConstantsAssumption DEF Edit, memory, IndInv, FilesOK, CountersOK, Id
  <1>2. NobodyWorks /\ NobodyWorks' /\ Pending' = Pending
    BY <1>1, AllIdle DEF NobodyWorks, Pending
  <1>3. \A g \in File : files'[g] = IF g = f THEN nextId ELSE files[g]
    BY <1>1
  <1>4. nextId \in Content /\ files' \in [File -> Content]
    BY <1>1, ConstantsAssumption DEF Id, Content, Absent
  <1>5. ASSUME /\ Value \in [File -> Content] /\ Value' \in [File -> Content]
               /\ Target \in [File -> Content] /\ Target' \in [File -> Content]
               /\ \A g \in File \ {f} : Value'[g] = Value[g] /\ Target'[g] = Target[g]
               /\ Value'[f] = nextId /\ Target'[f] = nextId
               /\ Open # {} <=> Open' # {}
        PROVE  [Workspace!Next]_(Workspace!vars)
    <2>1. Value' = [Value EXCEPT ![f] = nextId]
      BY <1>5
    <2>2. Target' = [Target EXCEPT ![f] = nextId]
      BY <1>5
    <2>3. (Open # {})' = (Open # {})
      BY <1>5
    <2>4. Workspace!Edit(f)
      BY <1>1, <1>4, <1>5, <2>1, <2>2, <2>3, ImagesShown DEF Workspace!Edit
    <2> QED BY <2>4 DEF Workspace!Next
  <1>6. CASE Pending = {}
    <2>1. /\ Open = {} /\ Value = files /\ Target = files
          /\ Open' = {} /\ Value' = files' /\ Target' = files'
      BY <1>2, <1>6 DEF ViewInv
    <2>2. [Workspace!Next]_(Workspace!vars)
      BY <1>1, <1>3, <1>4, <1>5, <2>1
    <2>3. CarefulInv'
      BY <1>2, <1>6 DEF CarefulInv, NobodyWorks, Pending
    <2> QED BY <2>2, <2>3
  <1>7. CASE Pending # {}
    <2>1. PICK t \in Id : journal[t] # NoRecord
      BY <1>7 DEF Pending
    <2> DEFINE rec == journal[t]
    <2>2. /\ Open = {t} /\ OpenEntries = Range(rec.entries)
          /\ Shown(t, rec, files, Value, Target) /\ Unedited(t, rec, files)
      BY <1>2, <2>1 DEF ViewInv, CarefulInv
    <2>3. Open' = {t} /\ Shown(t, rec, files', Value', Target')
      BY <1>1, <1>2, <2>1 DEF ViewInv
    <2>4. Sound(rec) /\ nextId > t
      BY <1>1, <2>1 DEF IndInv, RecordsOK, FilesInv, PhaseInv, JournalOK, Id
    <2>5. \A u \in Id : journal[u] # NoRecord => u = t
      BY <2>1 DEF IndInv, OnePending, Pending
    <2> HIDE DEF rec
    <2>6. ASSUME NEW g \in File \ {f} PROVE Value'[g] = Value[g] /\ Target'[g] = Target[g]
      <3>1. files'[g] = files[g]
        BY <1>3
      <3>2. CASE \E i \in Indices(rec) : Touches(rec.entries[i], g)
        <4>1. PICK i \in Indices(rec) : Touches(rec.entries[i], g)
          BY <3>2
        <4>2. /\ IF files[g] > t THEN Value[g] = files[g] /\ Target[g] = files[g]
                 ELSE /\ Value[g] = Before(rec.entries[i], g)
                      /\ Target[g] = After(rec.entries[i], g)
              /\ IF files'[g] > t THEN Value'[g] = files'[g] /\ Target'[g] = files'[g]
                 ELSE /\ Value'[g] = Before(rec.entries[i], g)
                      /\ Target'[g] = After(rec.entries[i], g)
          BY <2>2, <2>3, <4>1 DEF Shown
        <4> QED BY <3>1, <4>2
      <3>3. CASE ~\E i \in Indices(rec) : Touches(rec.entries[i], g)
        BY <2>2, <2>3, <3>1, <3>3 DEF Shown
      <3> QED BY <3>2, <3>3
    <2>7. Value'[f] = nextId /\ Target'[f] = nextId
      <3>1. files'[f] = nextId /\ files'[f] > t
        BY <1>3, <2>4
      <3>2. CASE \E i \in Indices(rec) : Touches(rec.entries[i], f)
        BY <2>3, <3>1, <3>2 DEF Shown
      <3>3. CASE ~\E i \in Indices(rec) : Touches(rec.entries[i], f)
        BY <2>3, <3>1, <3>3 DEF Shown
      <3> QED BY <3>2, <3>3
    <2>8. [Workspace!Next]_(Workspace!vars)
      BY <1>5, <2>2, <2>3, <2>6, <2>7 DEF Shown
    <2>9. Unedited(t, rec, files')
      <3> SUFFICES ASSUME NEW i \in Indices(rec), NoOpWrite(rec.entries[i])
                   PROVE  ~(files'[rec.entries[i].path] > t)
        BY DEF Unedited
      <3> DEFINE e == rec.entries[i]
      <3>1. e \in Entry /\ e \in Range(rec.entries)
        BY <2>4, RecordFields DEF Indices, Range
      <3>2. e.path \in File
        BY <3>1, EntryFields DEF NoOpWrite, FileAction, DirAction
      <3>3. e.path # f
        BY <2>2, <3>1 DEF Guarded
      <3> QED BY <1>3, <2>2, <3>2, <3>3 DEF Unedited
    <2>10. CarefulInv'
      BY <1>1, <1>2, <2>5, <2>9 DEF CarefulInv, NobodyWorks, rec
    <2> QED BY <2>8, <2>10
  <1> QED BY <1>6, <1>7

\* Every step is an abstract step or a stutter.
LEMMA NextRefines ==
  ASSUME IndInv, FilesInv, IndInv', FilesInv', CarefulInv, [Next]_vars, [Guarded]_vars
  PROVE  CarefulInv' /\ [Workspace!Next]_(Workspace!vars)
  <1>1. ViewInv /\ ViewInv'
    <2>1. ViewInv
      BY ViewHolds
    <2>2. ViewInv'
      BY ViewHolds, PTL
    <2> QED BY <2>1, <2>2
  <1>2. ASSUME UNCHANGED <<files, journal, pc, run, edits>>
        PROVE  CarefulInv' /\ [Workspace!Next]_(Workspace!vars)
    BY <1>2, OutsideRefines
  <1>3. CASE UNCHANGED vars
    BY <1>2, <1>3 DEF vars, disk, memory, bounds
  <1>4. ASSUME NEW p \in Proc, Step(p) \/ Crash(p), Guarded
        PROVE  CarefulInv' /\ [Workspace!Next]_(Workspace!vars)
    <2>1. Careful(p) /\ pc[p] # "idle"
      BY <1>4, StepCareful
    <2> QED BY <1>1, <2>1, WorkCareful, WorkRefines
  <1>5. ASSUME NEW p \in Proc, Read(p) \/ PruneAtStart(p) \/ \E f \in File : Note(p, f)
        PROVE  CarefulInv' /\ [Workspace!Next]_(Workspace!vars)
    BY <1>2, <1>5 DEF Read, PruneAtStart, Note, disk, memory, bounds
  <1>6. ASSUME NEW p \in Proc, NEW q \in Requests, StartCommit(p, q)
        PROVE  CarefulInv' /\ [Workspace!Next]_(Workspace!vars)
    BY <1>1, <1>6, StartCommitRefines
  <1>7. ASSUME NEW p \in Proc, NEW t \in Id, NEW goal \in {"completed", "rolled_back"},
               LoadPending(p, t, goal)
        PROVE  CarefulInv' /\ [Workspace!Next]_(Workspace!vars)
    BY <1>1, <1>7, LoadPendingRefines
  <1>8. ASSUME NEW f \in File, Edit(f), Guarded
        PROVE  CarefulInv' /\ [Workspace!Next]_(Workspace!vars)
    BY <1>1, <1>8, EditRefines
  <1>9. CASE Next /\ Guarded
    BY <1>4, <1>5, <1>6, <1>7, <1>8, <1>9 DEF Next
  <1> QED BY <1>3, <1>9

\* At the start no change is open.
LEMMA InitRefines == Init => CarefulInv /\ Workspace!Init
  <1> SUFFICES ASSUME Init PROVE CarefulInv /\ Workspace!Init
    OBVIOUS
  <1>1. NobodyWorks /\ Pending = {}
    BY DEF Init, NobodyWorks, Pending
  <1>2. CarefulInv
    BY <1>1 DEF CarefulInv, NobodyWorks, Pending
  <1>3. Open = {} /\ OpenEntries = {}
    <2>1. Open = {}
      BY <1>1 DEF Open, InHand, NobodyWorks
    <2> QED BY <2>1 DEF OpenEntries
  <1>4. Value = files /\ Target = files /\ files \in [File -> Content] /\ edits = 0
    <2>1. files \in [File -> Content] /\ edits = 0
      BY InitIndInv DEF IndInv, FilesOK, Init
    <2> QED BY <1>3, <2>1 DEF Value, Target, GivenUp, CarriedOut
  <1>5. Workspace!Init
    BY <1>3, <1>4, ImagesShown DEF Workspace!Init
  <1> QED BY <1>2, <1>5

\* All files of a change take effect or none does, through any number of crashes and I/O
\* errors, and an edit made meanwhile is kept: the transactions implement AtomicWorkspace,
\* as long as a record once removed is back in the journal before commitRun.fail undoes an
\* entry, and no edit hits a file that the open change rewrites with what it holds.
THEOREM GuardedRunsAreAtomic == Spec /\ [][Guarded]_vars => AllOrNothing
  <1>1. /\ IndInv /\ IndInv' /\ FilesInv /\ FilesInv' /\ CarefulInv /\ [Next]_vars /\ [Guarded]_vars
        => CarefulInv' /\ [Workspace!Next]_(Workspace!vars)
    BY NextRefines
  <1> QED BY <1>1, InitRefines, SpecIndInv, SpecFilesInv, PTL DEF Spec, AllOrNothing, Workspace!Spec

-----------------------------------------------------------------------------
(* With one failure, and no edit of a file that is rewritten as it is *)

\* A run that fails with its record already gone has had its failure.
FailedOnce == \A p \in Proc : pc[p] = "failWrite" /\ journal[Txn(p)] = NoRecord => faults > 0

\* A single failure is spent when the removal of the record fails, and the plan of a promised
\* request names no file that others write and it leaves as it is.
LEMMA OneFailureGuards ==
  ASSUME IndInv, FilesInv, FailedOnce, MaxFaults <= 1, SameIsOurs
  PROVE  Guarded
  <1>1. ASSUME NEW p \in Proc, FailWrite(p) PROVE journal'[Txn(p)] # NoRecord
    <2>1. pc[p] = "failWrite" /\ pc[p] # "idle"
      BY <1>1 DEF FailWrite
    <2>2. Txn(p) \in Id /\ Rec(p) # NoRecord
      BY <2>1, AtPhase DEF FilesInv
    <2>3. CASE Written(Txn(p), Rec(p))
      BY <2>2, <2>3 DEF Written, IndInv, RecordsOK
    <2>4. CASE PerhapsWritten(Txn(p), Rec(p)) /\ Fault
      <3>1. ~(faults > 0)
        BY <2>4, ConstantsAssumption DEF Fault, IndInv, CountersOK
      <3>2. journal[Txn(p)] # NoRecord
        BY <2>1, <3>1 DEF FailedOnce
      <3> QED BY <2>2, <2>4, <3>2 DEF PerhapsWritten, IndInv, RecordsOK
    <2> QED BY <1>1, <2>3, <2>4 DEF FailWrite
  <1>2. ASSUME NEW f \in File, Edit(f), NEW e \in OpenEntries, NoOpWrite(e) PROVE e.path # f
    <2>1. NobodyWorks /\ f \in Editable
      BY <1>2, AllIdle DEF Edit, NobodyWorks
    <2>2. Pending # {}
      BY <1>2, <2>1 DEF OpenEntries, Open, InHand, NobodyWorks
    <2>3. PICK t \in Id : journal[t] # NoRecord
      BY <2>2 DEF Pending
    <2>4. OpenEntries = Range(journal[t].entries)
      BY <2>1, <2>3, ViewHolds DEF ViewInv
    <2>5. Sound(journal[t]) /\ PlanOK(t, journal[t])
      BY <2>3 DEF IndInv, RecordsOK, FilesInv, PhaseInv, JournalOK, PendingOK
    <2>6. PICK i \in Indices(journal[t]) : e = journal[t].entries[i]
      BY <1>2, <2>4, <2>5, RecordFields DEF Range, Indices
    <2>7. EntryOK(t, journal[t], e)
      BY <2>5, <2>6 DEF PlanOK
    <2> QED BY <1>2, <2>1, <2>7 DEF EntryOK
  <1> QED BY <1>1, <1>2 DEF Guarded

\* A run reaches commitRun.fail without its record only from a failed removal of it.
LEMMA FailedOnceKept ==
  ASSUME IndInv, FilesInv, IndInv', FilesInv', CarefulInv, FailedOnce, Guarded, [Next]_vars
  PROVE  FailedOnce'
  <1> SUFFICES ASSUME NEW p \in Proc, pc'[p] = "failWrite", journal'[run'[p].txn] = NoRecord
               PROVE  faults' > 0
    BY DEF FailedOnce, Txn
  <1>1. CASE UNCHANGED <<pc, run, journal, faults>>
    BY <1>1 DEF FailedOnce, Txn
  <1>2. UNCHANGED vars => UNCHANGED <<pc, run, journal, faults>>
    BY DEF vars, disk, memory
  <1>3. ASSUME NEW q \in Proc, Step(q) \/ Crash(q)
        PROVE  faults' > 0
    <2>1. Careful(q) /\ pc[q] # "idle"
      BY <1>3, StepCareful
    <2>2. q = p
      BY <2>1 DEF Careful, Moves, IndInv, ControlOK
    <2>3. run'[p].txn = Txn(p) /\ Txn(p) \in Id /\ run'[p].rec.entries = Rec(p).entries
      BY <2>1, <2>2, AtPhase DEF Careful, Moves, Keeps, SamePlan, Txn, FilesInv
    <2>4. run[p].own
      <3>1. run'[p].own
        <4>1. RunsOK'
          BY DEF FilesInv, PhaseInv
        <4> QED BY <4>1 DEF RunsOK, Phase, RunOK, Intent
      <3> QED BY <2>1, <2>2, <3>1 DEF Careful, Keeps
    <2>5. pc[p] \notin {"begin", "prune", "failWrite"}
      <3>1. ASSUME Release(p) PROVE FALSE
        BY <3>1, ReleaseRun DEF Release, IndInv, ControlOK
      <3>2. ASSUME NEW label, NEW rec, Goto(p, label, rec), label # "failWrite" PROVE FALSE
        BY <3>2 DEF Goto, IndInv, ControlOK
      <3>3. ASSUME Begin(p) PROVE FALSE
        BY <3>1, <3>2, <3>3 DEF Begin
      <3>4. ASSUME Prune(p) PROVE FALSE
        BY <3>1, <3>4 DEF Prune
      <3>5. ASSUME FailWrite(p) PROVE FALSE
        BY <3>1, <3>5 DEF FailWrite, StartUndo, IndInv, ControlOK
      <3>6. ~Crash(p)
        BY <3>1 DEF Crash
      <3> QED BY <1>3, <2>2, <3>3, <3>4, <3>5, <3>6
              DEF Step, Begin, MakeDirectory, WriteBackup, StageWrite, MarkStaged, ApplyEntry,
                  Applied, MarkApplied, RemoveTemp, TempsRemoved, DiscardBackup, BackupsDiscarded,
                  WriteHistory, RemoveJournal, Prune, FailTemps, FailWrite, UndoEntry, Undone,
                  Complete, Rollback, Refuse
    <2>6. journal[Txn(p)] # NoRecord
      BY <2>1, <2>2, <2>4, <2>5, AtPhase DEF Recorded, FilesInv
    <2>7. PICK o \in Proc : RemoveJournal(o) /\ Txn(o) = Txn(p)
      BY <2>3, <2>6, OnlyRemoveJournal DEF Pending
    <2>8. o = p
      BY <2>1, <2>2, <2>7 DEF RemoveJournal, IndInv, ControlOK
    <2>9. ~Goto(p, "prune", Rec(p))
      BY DEF Goto, IndInv, ControlOK
    <2>10. Fault
      BY <2>6, <2>7, <2>8, <2>9 DEF RemoveJournal
    <2> QED BY <2>10, ConstantsAssumption DEF Fault, IndInv, CountersOK
  <1>4. ASSUME lock = NoProc,
               \/ UNCHANGED pc
               \/ \E q \in Proc, label \in {"begin", "loaded"} : pc' = [pc EXCEPT ![q] = label]
        PROVE  FALSE
    BY <1>4, AllIdle DEF IndInv, ControlOK
  <1>5. ASSUME NEW q \in Proc,
               \/ Read(q) \/ PruneAtStart(q) \/ \E f \in File : Note(q, f)
               \/ \E r \in Requests : StartCommit(q, r)
               \/ \E t \in Id, goal \in {"completed", "rolled_back"} : LoadPending(q, t, goal)
        PROVE  faults' > 0
    <2>1. CASE Read(q)
      BY <1>1, <2>1 DEF Read, disk, memory
    <2>2. CASE PruneAtStart(q) \/ \E f \in File : Note(q, f)
      BY <1>4, <2>2 DEF PruneAtStart, Note, memory
    <2>3. CASE \E r \in Requests : StartCommit(q, r)
      BY <1>4, <2>3 DEF StartCommit
    <2>4. CASE \E t \in Id, goal \in {"completed", "rolled_back"} : LoadPending(q, t, goal)
      BY <1>4, <2>4 DEF LoadPending, memory
    <2> QED BY <1>5, <2>1, <2>2, <2>3, <2>4
  <1>6. ASSUME NEW f \in File, Edit(f) PROVE faults' > 0
    BY <1>4, <1>6 DEF Edit, memory
  <1> QED BY <1>1, <1>2, <1>3, <1>5, <1>6 DEF Next

\* Of itself, the code keeps that promise if at most one I/O step fails, for any number of
\* crashes and edits, when no other program writes a file that a request may rewrite with
\* what it holds: the transactions implement AtomicWorkspace.
THEOREM ChangesAreAtomic == MaxFaults <= 1 /\ SameIsOurs /\ Spec => AllOrNothing
  <1>1. MaxFaults <= 1 /\ SameIsOurs => [](MaxFaults <= 1 /\ SameIsOurs)
    <2>1. MaxFaults <= 1 /\ SameIsOurs => (MaxFaults <= 1 /\ SameIsOurs)'
      BY DEF SameIsOurs
    <2> QED BY <2>1, PTL
  <1>2. Init => FailedOnce
    BY DEF Init, FailedOnce
  <1>3. /\ IndInv /\ FilesInv /\ IndInv' /\ FilesInv' /\ CarefulInv /\ FailedOnce
        /\ MaxFaults <= 1 /\ SameIsOurs /\ [Next]_vars
        => CarefulInv' /\ FailedOnce' /\ [Guarded]_vars
    <2> SUFFICES ASSUME IndInv, FilesInv, IndInv', FilesInv', CarefulInv, FailedOnce,
                        MaxFaults <= 1, SameIsOurs, [Next]_vars
                 PROVE  CarefulInv' /\ FailedOnce' /\ [Guarded]_vars
      OBVIOUS
    <2>1. Guarded
      BY OneFailureGuards
    <2> QED BY <2>1, NextRefines, FailedOnceKept
  <1>4. Spec /\ [][Guarded]_vars => AllOrNothing
    BY GuardedRunsAreAtomic
  <1> QED BY <1>1, <1>2, <1>3, <1>4, InitRefines, SpecIndInv, SpecFilesInv, PTL DEF Spec
=============================================================================
