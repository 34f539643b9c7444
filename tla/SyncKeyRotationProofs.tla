------------------------ MODULE SyncKeyRotationProofs ------------------------
(***************************************************************************)
(* What the vault and the rotation of the sync key promise, proved for any *)
(* number of workers, secrets, keys and writes to the bucket, and for any  *)
(* bounds on the requests.                                                 *)
(*                                                                         *)
(* RotInv types the state and ties it together: the record to the request  *)
(* that applies it, the lock and the mutex to their holders, the operation *)
(* on the bucket to the request that carries it out.  Before and After are *)
(* the disk without and with the pending change, and Now the one of the    *)
(* two that recovery finds: what the other invariants say is said of them, *)
(* since between two steps of a commit the disk is neither.                *)
(*                                                                         *)
(* KeyInv, for KeysAgree: everything sealed in Before and in After agrees  *)
(* with its vault, the memory has the key of Now, and so have the requests *)
(* that will write what they sealed earlier.                               *)
(*                                                                         *)
(* ServedInv, for SavedIsServed: Now holds what the user saved; an open    *)
(* vault that differs from the disk does so while a request that has yet   *)
(* to publish holds the mutex, or while one that will read the file again  *)
(* is under way.                                                           *)
(*                                                                         *)
(* RemInv, for RemoteOpens: without a journal the sync key of Before and   *)
(* of After opens the live object; with one, it does if the object is the  *)
(* one that the journal calls old; and a pending change of the key happens *)
(* only while both have a journal, and neither has in its state the        *)
(* generation that the journal calls old (Stable).  Claim says, plan by    *)
(* plan, what the operation under way may rely on, before and after each   *)
(* of its writes.                                                          *)
(***************************************************************************)
EXTENDS SyncKeyRotation, TLAPS

(* The contents of the files *)

Names == {"vault", "local", "config", "settings", "library", "state", "journal", "backups"}

\* Nothing is sealed without a key.
VaultContents == {x \in [key : Int, body : SUBSET Secrets] : x.key = 0 => x = Missing}
LibraryContents == [key : Int, body : {{}}]
SettingsBodies == [region : {0, 1}, sync : SyncKeys]
SettingsContents == {Missing} \cup [key : Int \ {0}, body : SettingsBodies]
JournalContents ==
  {NoJournal} \cup [phase : {"prepared", "advanced"}, old : Nat, oldCipher : Nat,
                    new : Nat, newCipher : Nat]

\* The files that generations are kept of.
KeptContents(f) ==
  IF f = "vault" THEN VaultContents ELSE IF f = "library" THEN LibraryContents
  ELSE IF f = "settings" THEN SettingsContents ELSE {Plain}

Generations ==
  {b \in UNION {[file : {f}, outer : Int, was : KeptContents(f)] :
                   f \in KeyBound \cup {"config"}} : b.was # Missing}

Contents(f) ==
  IF f \in KeyBound \cup {"config"} THEN KeptContents(f)
  ELSE IF f = "local" THEN Int ELSE IF f = "state" THEN Nat
  ELSE IF f = "journal" THEN JournalContents ELSE SUBSET Generations

IsDisk(d) ==
  DOMAIN d = Names /\ d = [f \in Names |-> d[f]] /\ \A f \in Names : d[f] \in Contents(f)

Entries == UNION {[file : {f}, old : Contents(f), new : Contents(f)] : f \in Names}

(* Requests and records *)

Kinds == {"none", "save", "initialise", "rekey", "settings", "pull", "config", "restore",
          "recover", "rotated"}
Ats == {"idle", "read", "commit", "apply", "done", "failed", "lock", "call"}
Ops == [kind : Kinds, at : Ats, entries : Seq(Entries), candidate : VaultContents]
Records == [kind : Kinds \ {"none", "recover"}, entries : Seq(Entries), done : Nat,
            outer : Int, status : {"staging", "staged", "applied"}]

\* The entries of a request, by its kind.
SavesOK(o) ==
  o.kind = "save" =>
    /\ Written(o.entries) = {"vault"}
    /\ \A i \in DOMAIN o.entries :
         o.entries[i].new = o.candidate /\ o.entries[i].new.key = o.entries[i].old.key
InitialisesOK(o) ==
  o.kind = "initialise" =>
    /\ Written(o.entries) = {"vault", "local"}
    /\ o.candidate.key # 0 /\ o.candidate.body = {}
    /\ \A i \in DOMAIN o.entries :
         /\ o.entries[i].file = "vault" =>
              o.entries[i].new = o.candidate /\ o.entries[i].old = Missing
         /\ o.entries[i].file = "local" => o.entries[i].new = LocalFor(o.candidate.key)
RekeysOK(o) ==
  o.kind = "rekey" =>
    /\ Written(o.entries) = {"local"} /\ o.candidate.key # 0
    /\ \A i \in DOMAIN o.entries : o.entries[i].new = LocalFor(o.candidate.key)
SettingsOK(o) ==
  o.kind \in {"settings", "rotated"} =>
    /\ Written(o.entries) \subseteq {"settings", "state", "journal"}
    /\ o.kind = "settings" => Written(o.entries) \subseteq {"settings"}
    /\ \A i \in DOMAIN o.entries :
         o.entries[i].file = "settings" => o.entries[i].new.key = o.entries[i].old.key
PullsOK(o) ==
  o.kind = "pull" =>
    /\ Written(o.entries) = {"library", "vault", "state"}
    /\ \A i, j \in DOMAIN o.entries :
         o.entries[i].file = "library" /\ o.entries[j].file = "vault" =>
           o.entries[i].new.key = o.entries[j].new.key
OthersOK(o) ==
  /\ o.kind = "config" => Written(o.entries) \subseteq {"config"}
  /\ o.kind = "restore" => Written(o.entries) \subseteq KeyBound

StagesOK(o) ==
  /\ o.kind = "none" <=> o.at = "idle"
  /\ o.at = "idle" => o = Idle
  /\ o.at = "read" => o.kind = "restore" /\ Len(o.entries) = 1
  /\ o.at = "lock" => o.kind = "restore"
  /\ o.kind = "recover" => o.at = "done"

OpShape(o) ==
  /\ o \in Ops
  /\ SavesOK(o) /\ InitialisesOK(o) /\ RekeysOK(o) /\ SettingsOK(o) /\ PullsOK(o)
  /\ OthersOK(o) /\ StagesOK(o)

RecordShape(r) ==
  r # NoRecord =>
    /\ r \in Records /\ r.done <= Len(r.entries)
    /\ r.status = "applied" =>
         r.done = Len(r.entries) /\ r.kind \in {"rekey", "initialise"}
    /\ r.status = "staging" =>
         r.done = 0 /\ r.kind \notin {"rekey", "initialise", "save"}
    /\ r.kind \notin {"rekey", "initialise"} => "local" \notin Written(r.entries)
    /\ r.kind \in {"settings", "config", "rotated"} => "vault" \notin Written(r.entries)
    /\ r.kind \in {"rekey", "initialise", "save"} => "vault" \in Written(r.entries)
    /\ r.kind = "initialise" =>
         Of(r.entries, "vault").old = Missing /\ Of(r.entries, "vault").new.body = {}
    /\ r.kind \in {"rekey", "initialise"} => r.outer = 0

(* Facts about contents, entries and the disk *)

\* The contents that a file may have, file by file.
LEMMA ContentsOf ==
  /\ Contents("vault") = VaultContents /\ Contents("library") = LibraryContents
  /\ Contents("settings") = SettingsContents /\ Contents("config") = {Plain}
  /\ Contents("local") = Int /\ Contents("state") = Nat
  /\ Contents("journal") = JournalContents /\ Contents("backups") = SUBSET Generations
  /\ \A f \in KeyBound \cup {"config"} : Contents(f) = KeptContents(f)
BY DEF Contents, KeptContents, KeyBound

\* An entry of a change names a file, what it held and what it will hold.
LEMMA EntryIs ==
  ASSUME NEW f \in Names, NEW old \in Contents(f), NEW new \in Contents(f)
  PROVE  /\ Entry(f, old, new) \in Entries
         /\ Entry(f, old, new).file = f /\ Entry(f, old, new).old = old
         /\ Entry(f, old, new).new = new
BY DEF Entry, Entries

\* An entry of a change is made of these three.
LEMMA EntryOf ==
  ASSUME NEW e \in Entries
  PROVE  /\ e.file \in Names /\ e.old \in Contents(e.file) /\ e.new \in Contents(e.file)
         /\ e = Entry(e.file, e.old, e.new)
BY DEF Entry, Entries

\* The entry that writes a file is one of the list ...
LEMMA OfIs ==
  ASSUME NEW entries, NEW f \in Written(entries)
  PROVE  \E i \in DOMAIN entries : entries[i].file = f /\ Of(entries, f) = entries[i]
BY DEF Written, Of

\* ... and holds what the file may hold.
LEMMA OfEntry ==
  ASSUME NEW entries \in Seq(Entries), NEW f \in Written(entries)
  PROVE  /\ Of(entries, f) \in Entries /\ Of(entries, f).file = f /\ f \in Names
         /\ Of(entries, f).old \in Contents(f) /\ Of(entries, f).new \in Contents(f)
<1>1. PICK i \in DOMAIN entries : entries[i].file = f /\ Of(entries, f) = entries[i]
  BY OfIs
<1>2. entries[i] \in Entries
  OBVIOUS
<1> QED BY <1>1, <1>2, EntryOf

\* A change of one file,
LEMMA OneEntry ==
  ASSUME NEW a \in Entries
  PROVE  /\ <<a>> \in Seq(Entries) /\ Len(<<a>>) = 1 /\ DOMAIN <<a>> = {1} /\ <<a>>[1] = a
         /\ Written(<<a>>) = {a.file}
BY DEF Written

\* of two,
LEMMA TwoEntries ==
  ASSUME NEW a \in Entries, NEW b \in Entries
  PROVE  /\ <<a, b>> \in Seq(Entries) /\ DOMAIN <<a, b>> = {1, 2}
         /\ <<a, b>>[1] = a /\ <<a, b>>[2] = b
         /\ Written(<<a, b>>) = {a.file, b.file}
BY DEF Written

\* of three,
LEMMA ThreeEntries ==
  ASSUME NEW a \in Entries, NEW b \in Entries, NEW c \in Entries
  PROVE  /\ <<a, b, c>> \in Seq(Entries) /\ DOMAIN <<a, b, c>> = {1, 2, 3}
         /\ <<a, b, c>>[1] = a /\ <<a, b, c>>[2] = b /\ <<a, b, c>>[3] = c
         /\ Written(<<a, b, c>>) = {a.file, b.file, c.file}
BY DEF Written

\* and of none.
LEMMA NoEntries ==
  /\ << >> \in Seq(Entries) /\ DOMAIN << >> = {} /\ Len(<< >>) = 0
  /\ Written(<< >>) = {}
BY DEF Written

\* A change writes the files of the workspace.
LEMMA WrittenNames ==
  ASSUME NEW entries \in Seq(Entries)
  PROVE  Written(entries) \subseteq Names
BY OfEntry

\* What a file holds when the first entries are applied.
LEMMA AppliedAt ==
  ASSUME NEW entries \in Seq(Entries), IsDisk(disk), NEW n \in Nat, NEW f \in Names
  PROVE  /\ f \notin Written(entries) => Applied(entries, n)[f] = disk[f]
         /\ f \in Written(entries) =>
              Applied(entries, n)[f] \in {Of(entries, f).old, Of(entries, f).new}
         /\ f \in Written(entries) /\ n = 0 =>
              Applied(entries, n)[f] = Of(entries, f).old
         /\ f \in Written(entries) /\ n = Len(entries) =>
              Applied(entries, n)[f] = Of(entries, f).new
<1>1. DOMAIN disk = Names
  BY DEF IsDisk
<1>2. Applied(entries, n)[f] =
        IF f \notin Written(entries) THEN disk[f]
        ELSE IF \E i \in 1 .. n : entries[i].file = f THEN Of(entries, f).new
        ELSE Of(entries, f).old
  BY <1>1 DEF Applied
<1>3. f \in Written(entries) /\ n = Len(entries) => \E i \in 1 .. n : entries[i].file = f
  BY DEF Written
<1> QED BY <1>2, <1>3

\* It stays a disk.
LEMMA AppliedIsDisk ==
  ASSUME NEW entries \in Seq(Entries), IsDisk(disk), NEW n \in Nat
  PROVE  IsDisk(Applied(entries, n))
<1>1. DOMAIN Applied(entries, n) = Names
      /\ Applied(entries, n) = [f \in Names |-> Applied(entries, n)[f]]
  BY DEF IsDisk, Applied
<1>2. ASSUME NEW f \in Names PROVE Applied(entries, n)[f] \in Contents(f)
  <2>1. disk[f] \in Contents(f)
    BY DEF IsDisk
  <2> QED BY <2>1, AppliedAt, OfEntry
<1> QED BY <1>1, <1>2 DEF IsDisk

\* However far an application got, where it starts and where it leads is the same.
LEMMA AppliedStays ==
  ASSUME NEW entries \in Seq(Entries), IsDisk(disk), NEW n, NEW k \in Nat,
         disk' = Applied(entries, k)
  PROVE  Applied(entries, n)' = Applied(entries, n)
<1> DEFINE A(d, f) == IF f \notin Written(entries) THEN d[f]
        ELSE IF \E i \in 1 .. n : entries[i].file = f THEN Of(entries, f).new
        ELSE Of(entries, f).old
<1>1. DOMAIN disk = Names /\ DOMAIN disk' = Names
  BY DEF IsDisk, Applied
<1>2. \A f \in Names : f \notin Written(entries) => disk'[f] = disk[f]
  BY <1>1, AppliedAt
<1>3. \A f \in Names : A(disk', f) = A(disk, f)
  BY <1>2
<1>4. Applied(entries, n) = [f \in Names |-> A(disk, f)]
  BY <1>1 DEF Applied
<1>5. Applied(entries, n)' = [f \in Names |-> A(disk', f)]
  BY <1>1 DEF Applied
<1> HIDE DEF A
<1> QED BY <1>3, <1>4, <1>5

(* The pending change *)

\* The files hold what the record has applied so far.
DiskLink == record # NoRecord => disk = Applied(record.entries, record.done)
\* The files and the record have their shapes, and belong together.
StoreInv == IsDisk(disk) /\ RecordShape(record) /\ DiskLink

\* The disk before the pending change, after it, and as recovery may find it if nothing
\* more is told: completed once it is marked applied, else rolled back.
Before == IF record = NoRecord THEN disk ELSE Applied(record.entries, 0)
After == IF record = NoRecord THEN disk ELSE Applied(record.entries, Len(record.entries))
\* What recovery finds.
Now == IF record # NoRecord /\ record.status = "applied" THEN After ELSE Before

\* A file that the change does not write is the same throughout.
NowhereElse(entries) ==
  \A f \in Names \ Written(entries) : Before[f] = disk[f] /\ After[f] = disk[f]

\* The parts of the record of a pending change.
LEMMA RecordParts ==
  ASSUME RecordShape(record), record # NoRecord
  PROVE  /\ record.entries \in Seq(Entries) /\ record.done \in Nat
         /\ Len(record.entries) \in Nat /\ record.done <= Len(record.entries)
         /\ record.kind \in Kinds \ {"none", "recover"}
         /\ record.status \in {"staging", "staged", "applied"} /\ record.outer \in Int
BY DEF RecordShape, Records

\* The pending change leaves every file as it was before it or as it will be after it.
LEMMA Settled ==
  ASSUME StoreInv
  PROVE  /\ IsDisk(Before) /\ IsDisk(After) /\ IsDisk(Now)
         /\ Now \in {Before, After}
         /\ \A f \in Names : disk[f] \in {Before[f], After[f]}
         /\ record = NoRecord => Before = disk /\ After = disk /\ Now = disk
         /\ record # NoRecord =>
              /\ record.done = 0 => disk = Before
              /\ record.done = Len(record.entries) => disk = After
              /\ record.status = "applied" => Now = After /\ disk = After
              /\ record.status # "applied" => Now = Before
              /\ record.status = "staging" => disk = Before
              /\ NowhereElse(record.entries)
              /\ \A f \in Written(record.entries) :
                   Before[f] = Of(record.entries, f).old /\ After[f] = Of(record.entries, f).new
<1>1. CASE record = NoRecord
  BY <1>1 DEF Before, After, Now, StoreInv
<1>2. CASE record # NoRecord
  <2>1. /\ record.entries \in Seq(Entries) /\ record.done \in Nat
        /\ Len(record.entries) \in Nat /\ record.done <= Len(record.entries)
        /\ disk = Applied(record.entries, record.done) /\ IsDisk(disk)
        /\ record.status = "applied" => record.done = Len(record.entries)
        /\ record.status = "staging" => record.done = 0
    BY <1>2, RecordParts DEF StoreInv, DiskLink, RecordShape
  <2>2. /\ Before = Applied(record.entries, 0)
        /\ After = Applied(record.entries, Len(record.entries))
    BY <1>2 DEF Before, After
  <2>3. IsDisk(Before) /\ IsDisk(After)
    BY <2>1, <2>2, AppliedIsDisk
  <2>4. \A f \in Names :
          /\ f \notin Written(record.entries) => Before[f] = disk[f] /\ After[f] = disk[f]
          /\ f \in Written(record.entries) =>
               /\ disk[f] \in {Of(record.entries, f).old, Of(record.entries, f).new}
               /\ Before[f] = Of(record.entries, f).old
               /\ After[f] = Of(record.entries, f).new
    <3> SUFFICES ASSUME NEW f \in Names
                 PROVE  /\ f \notin Written(record.entries) =>
                             Before[f] = disk[f] /\ After[f] = disk[f]
                        /\ f \in Written(record.entries) =>
                             /\ disk[f] \in {Of(record.entries, f).old, Of(record.entries, f).new}
                             /\ Before[f] = Of(record.entries, f).old
                             /\ After[f] = Of(record.entries, f).new
      OBVIOUS
    <3>1. f \in Written(record.entries) =>
            Applied(record.entries, record.done)[f]
              \in {Of(record.entries, f).old, Of(record.entries, f).new}
      BY <2>1, AppliedAt
    <3>2. /\ f \notin Written(record.entries) => Before[f] = disk[f]
          /\ f \in Written(record.entries) => Before[f] = Of(record.entries, f).old
      BY <2>1, <2>2, AppliedAt
    <3>3. /\ f \notin Written(record.entries) => After[f] = disk[f]
          /\ f \in Written(record.entries) => After[f] = Of(record.entries, f).new
      BY <2>1, <2>2, AppliedAt
    <3> QED BY <3>1, <3>2, <3>3, <2>1
  <2>5. Written(record.entries) \subseteq Names
    BY <2>1, WrittenNames
  <2> QED BY <1>2, <2>1, <2>2, <2>3, <2>4, <2>5 DEF Now, NowhereElse
<1> QED BY <1>1, <1>2

-----------------------------------------------------------------------------
(* What the steps do to it *)

\* Where neither the files nor the record change, nothing does.
LEMMA StoreStays ==
  ASSUME StoreInv, UNCHANGED <<disk, record>>
  PROVE  StoreInv' /\ Before' = Before /\ After' = After /\ Now' = Now
<1>1. \A e, n : Applied(e, n)' = Applied(e, n)
  BY DEF Applied
<1> QED BY <1>1 DEF StoreInv, DiskLink, Before, After, Now

\* With no change pending, the files may take other contents.
LEMMA StoreAlone ==
  ASSUME record' = NoRecord, IsDisk(disk')
  PROVE  StoreInv' /\ Before' = disk' /\ After' = disk' /\ Now' = disk'
BY DEF StoreInv, DiskLink, RecordShape, Before, After, Now

\* The pending change is completed or rolled back.
LEMMA StoreSettles ==
  ASSUME StoreInv, record' = NoRecord, disk' \in {Before, After}
  PROVE  StoreInv' /\ Before' = disk' /\ After' = disk' /\ Now' = disk'
BY Settled, StoreAlone

\* The record changes its progress or its status.
LEMMA StoreKeeps ==
  ASSUME StoreInv, record # NoRecord, record' # NoRecord, RecordShape(record'),
         record'.entries = record.entries,
         disk' = Applied(record.entries, record'.done)
  PROVE  /\ StoreInv' /\ Before' = Before /\ After' = After
         /\ Now' = IF record'.status = "applied" THEN After ELSE Before
<1>1. /\ record.entries \in Seq(Entries) /\ IsDisk(disk) /\ record'.done \in Nat
  BY RecordParts DEF StoreInv, RecordShape, Records
<1>2. PICK e \in Seq(Entries) : e = record.entries /\ e = record.entries'
  BY <1>1
<1>3. PICK k \in Nat : k = record.done'
  BY <1>1
<1>4. disk' = Applied(e, k)
  BY <1>2, <1>3
<1>5. \A n : Applied(e, n)' = Applied(e, n)
  BY <1>1, <1>4, AppliedStays
<1>6. IsDisk(disk')
  BY <1>1, <1>4, AppliedIsDisk
<1>7. Applied(e, k)' = Applied(record.entries, record.done)'
  BY <1>2, <1>3
<1>8. disk' = Applied(record.entries, record.done)'
  BY <1>4, <1>5, <1>7
<1>9. StoreInv'
  BY <1>6, <1>8 DEF StoreInv, DiskLink
<1>10. Applied(record.entries, 0)' = Applied(record.entries, 0)
  BY <1>2, <1>5
<1>11. Applied(record.entries, Len(record.entries))' = Applied(record.entries, Len(record.entries))
  <2>1. PICK n : n = Len(e)
    OBVIOUS
  <2>2. Applied(e, n)' = Applied(record.entries, Len(record.entries))'
    BY <1>2, <2>1
  <2> QED BY <1>2, <1>5, <2>1, <2>2
<1>12. Before' = Before /\ After' = After
  BY <1>10, <1>11 DEF Before, After
<1> QED BY <1>9, <1>12 DEF Now

\* A change begins on the disk as it is.
LEMMA StoreBegins ==
  ASSUME IsDisk(disk'), record' # NoRecord, RecordShape(record'), record'.done = 0,
         record'.status # "applied",
         \A f \in Written(record'.entries) : Of(record'.entries, f).old = disk'[f]
  PROVE  StoreInv' /\ Before' = disk' /\ Now' = disk'
<1>1. record'.entries \in Seq(Entries)
  BY DEF RecordShape, Records
<1>2. \A f \in Names : Applied(record.entries, 0)'[f] = disk'[f]
  BY <1>1 DEF Applied, IsDisk
<1>3. Applied(record.entries, 0)' = disk'
  <2>1. /\ disk' = [f \in Names |-> disk'[f]]
        /\ Applied(record.entries, 0)' = [f \in Names |-> Applied(record.entries, 0)'[f]]
    BY DEF IsDisk, Applied
  <2> QED BY <1>2, <2>1
<1>4. StoreInv'
  BY <1>3 DEF StoreInv, DiskLink
<1> QED BY <1>3, <1>4 DEF Before, Now

\* Every request has the shape of its kind.
OpsInv == op \in [Workers -> Ops] /\ \A w \in Workers : OpShape(op[w])

\* A request as it is made.
New(kind, entries, candidate) ==
  [kind |-> kind, at |-> "commit", entries |-> entries, candidate |-> candidate]

\* The parts of a request.
LEMMA OpParts ==
  ASSUME NEW o, OpShape(o)
  PROVE  /\ o \in Ops /\ o.kind \in Kinds /\ o.at \in Ats /\ o.entries \in Seq(Entries)
         /\ o.candidate \in VaultContents
         /\ o = [kind |-> o.kind, at |-> o.at, entries |-> o.entries, candidate |-> o.candidate]
         /\ StagesOK(o)
BY DEF OpShape, Ops

\* A worker without a request.
LEMMA IdleShape ==
  OpShape(Idle) /\ Idle.kind = "none" /\ Idle.at = "idle" /\ Idle.entries = << >>
  /\ Idle.candidate = Missing
<1>1. Missing \in VaultContents
  BY DEF VaultContents, Missing, Sealed
<1>2. Idle \in Ops
  BY <1>1, NoEntries DEF Idle, Ops, Kinds, Ats
<1> QED BY <1>2 DEF Idle, OpShape, SavesOK, InitialisesOK, RekeysOK, SettingsOK, PullsOK,
             OthersOK, StagesOK

\* A request that speaks to the bucket.
LEMMA CallShape ==
  LET o == [Idle EXCEPT !.kind = "rotated", !.at = "call"]
  IN  OpShape(o) /\ o.kind = "rotated" /\ o.at = "call" /\ o.entries = << >>
<1> DEFINE o == [Idle EXCEPT !.kind = "rotated", !.at = "call"]
<1>1. Missing \in VaultContents
  BY DEF VaultContents, Missing, Sealed
<1>2. o \in [kind : {"rotated"}, at : {"call"}, entries : {<< >>}, candidate : {Missing}]
  BY DEF Idle
<1>3. o \in Ops /\ o.kind = "rotated" /\ o.at = "call" /\ o.entries = << >>
  BY <1>1, <1>2, NoEntries DEF Ops, Kinds, Ats
<1> HIDE DEF o
<1>4. OpShape(o)
  BY <1>3, NoEntries DEF OpShape, SavesOK, InitialisesOK, RekeysOK, SettingsOK, PullsOK,
             OthersOK, StagesOK
<1> QED BY <1>3, <1>4 DEF o

\* A request as it is made.
LEMMA NewIs ==
  ASSUME NEW kind \in Kinds, NEW entries \in Seq(Entries), NEW candidate \in VaultContents
  PROVE  LET o == New(kind, entries, candidate)
         IN  o \in Ops /\ o.kind = kind /\ o.at = "commit" /\ o.entries = entries
             /\ o.candidate = candidate
BY DEF New, Ops, Ats

\* A file may be missing.
LEMMA MissingIn ==
  /\ Missing \in VaultContents /\ Missing \in LibraryContents /\ Missing \in SettingsContents
  /\ \A f \in KeyBound : Missing \in Contents(f)
  /\ Missing.key = 0 /\ Missing.body = {}
<1>1. Missing \in VaultContents /\ Missing \in LibraryContents /\ Missing \in SettingsContents
      /\ Missing.key = 0 /\ Missing.body = {}
  BY DEF VaultContents, LibraryContents, SettingsContents, Missing, Sealed
<1> QED BY <1>1, ContentsOf DEF KeyBound, KeptContents

\* Sealed contents have their key and their body.
LEMMA SealedIn ==
  ASSUME NEW key \in Int \ {0}
  PROVE  /\ \A body \in SUBSET Secrets : Sealed(key, body) \in VaultContents
         /\ Sealed(key, {}) \in LibraryContents
         /\ \A body \in SettingsBodies : Sealed(key, body) \in SettingsContents
         /\ \A body : Sealed(key, body).key = key /\ Sealed(key, body).body = body
BY DEF VaultContents, LibraryContents, SettingsContents, Sealed

\* The request of VaultService.save: the vault, under its key.
LEMMA SaveShape ==
  ASSUME NEW old \in VaultContents, NEW new \in VaultContents, new.key = old.key
  PROVE  OpShape(New("save", <<Entry("vault", old, new)>>, new))
<1> DEFINE e == Entry("vault", old, new)
<1>1. e \in Entries /\ e.file = "vault" /\ e.old = old /\ e.new = new
  BY EntryIs, ContentsOf DEF Names
<1> HIDE DEF e
<1> DEFINE s == <<e>>
<1>2. s \in Seq(Entries) /\ DOMAIN s = {1} /\ s[1] = e /\ Written(s) = {"vault"}
  BY <1>1, OneEntry
<1> HIDE DEF s
<1> DEFINE o == New("save", s, new)
<1>3. o \in Ops /\ o.kind = "save" /\ o.at = "commit" /\ o.entries = s /\ o.candidate = new
  BY <1>2, NewIs DEF Kinds
<1> HIDE DEF o
<1>4. OpShape(o)
  BY <1>1, <1>2, <1>3 DEF OpShape, SavesOK, InitialisesOK, RekeysOK, SettingsOK, PullsOK,
             OthersOK, StagesOK
<1> QED BY <1>4 DEF o, s, e

\* The request of a first vault: the vault and the local secret of its key.
LEMMA InitialiseShape ==
  ASSUME NEW key \in Int \ {0}, NEW local \in Int
  PROVE  OpShape(New("initialise", <<Entry("vault", Missing, Sealed(key, {})),
                                     Entry("local", local, LocalFor(key))>>, Sealed(key, {})))
<1> DEFINE new == Sealed(key, {})
           e == Entry("vault", Missing, new)
           g == Entry("local", local, LocalFor(key))
<1>1. new \in VaultContents /\ new.key = key /\ new.body = {} /\ LocalFor(key) \in Int
  BY SealedIn DEF LocalFor
<1> HIDE DEF new
<1>2. /\ e \in Entries /\ e.file = "vault" /\ e.old = Missing /\ e.new = new
      /\ g \in Entries /\ g.file = "local" /\ g.new = LocalFor(key)
  BY <1>1, EntryIs, ContentsOf, MissingIn DEF Names
<1> HIDE DEF e, g
<1> DEFINE s == <<e, g>>
<1>3. s \in Seq(Entries) /\ DOMAIN s = {1, 2} /\ s[1] = e /\ s[2] = g
      /\ Written(s) = {"vault", "local"}
  BY <1>2, TwoEntries
<1> HIDE DEF s
<1> DEFINE o == New("initialise", s, new)
<1>4. o \in Ops /\ o.kind = "initialise" /\ o.at = "commit" /\ o.entries = s /\ o.candidate = new
  BY <1>1, <1>3, NewIs DEF Kinds
<1> HIDE DEF o
<1>5. OpShape(o)
  BY <1>1, <1>2, <1>3, <1>4 DEF OpShape, SavesOK, InitialisesOK, RekeysOK, SettingsOK, PullsOK,
             OthersOK, StagesOK
<1> QED BY <1>5 DEF o, s, e, g, new

\* The request of a new password: the local secret, and the rest once it commits.
LEMMA RekeyShape ==
  ASSUME NEW new \in VaultContents, new.key # 0, NEW local \in Int
  PROVE  OpShape(New("rekey", <<Entry("local", local, LocalFor(new.key))>>, new))
<1> DEFINE e == Entry("local", local, LocalFor(new.key))
<1>0. LocalFor(new.key) \in Int
  BY DEF LocalFor, VaultContents
<1>1. e \in Entries /\ e.file = "local" /\ e.new = LocalFor(new.key)
  BY <1>0, EntryIs, ContentsOf DEF Names
<1> HIDE DEF e
<1> DEFINE s == <<e>>
<1>2. s \in Seq(Entries) /\ DOMAIN s = {1} /\ s[1] = e /\ Written(s) = {"local"}
  BY <1>1, OneEntry
<1> HIDE DEF s
<1> DEFINE o == New("rekey", s, new)
<1>3. o \in Ops /\ o.kind = "rekey" /\ o.at = "commit" /\ o.entries = s /\ o.candidate = new
  BY <1>2, NewIs DEF Kinds
<1> HIDE DEF o
<1>4. OpShape(o)
  BY <1>1, <1>2, <1>3 DEF OpShape, SavesOK, InitialisesOK, RekeysOK, SettingsOK, PullsOK,
             OthersOK, StagesOK
<1> QED BY <1>4 DEF o, s, e

\* The request that writes the settings, a state or a journal.
LEMMA SettingsShape ==
  ASSUME NEW kind \in {"settings", "rotated"}, NEW f \in {"settings", "state", "journal"},
         NEW old \in Contents(f), NEW new \in Contents(f), f = "settings" => new.key = old.key,
         kind = "settings" => f = "settings"
  PROVE  OpShape(New(kind, <<Entry(f, old, new)>>, Missing))
<1> DEFINE e == Entry(f, old, new)
<1>1. e \in Entries /\ e.file = f /\ e.old = old /\ e.new = new
  BY EntryIs, ContentsOf DEF Names
<1> HIDE DEF e
<1> DEFINE s == <<e>>
<1>2. s \in Seq(Entries) /\ DOMAIN s = {1} /\ s[1] = e /\ Written(s) = {f}
  BY <1>1, OneEntry
<1> HIDE DEF s
<1> DEFINE o == New(kind, s, Missing)
<1>3. o \in Ops /\ o.kind = kind /\ o.at = "commit" /\ o.entries = s
  BY <1>2, NewIs, MissingIn DEF Kinds
<1> HIDE DEF o
<1>4. OpShape(o)
  BY <1>1, <1>2, <1>3 DEF OpShape, SavesOK, InitialisesOK, RekeysOK, SettingsOK, PullsOK,
             OthersOK, StagesOK
<1> QED BY <1>4 DEF o, s, e

\* The request of a pull: the library and the vault, sealed here, and the state.
LEMMA PullShape ==
  ASSUME NEW key \in Int \ {0}, NEW old1 \in LibraryContents, NEW old2 \in VaultContents,
         NEW old3 \in Nat, NEW state \in Nat
  PROVE  OpShape(New("pull", <<Entry("library", old1, Sealed(key, {})),
                               Entry("vault", old2, Sealed(key, Travelled)),
                               Entry("state", old3, state)>>, Missing))
<1> DEFINE e == Entry("library", old1, Sealed(key, {}))
           g == Entry("vault", old2, Sealed(key, Travelled))
           h == Entry("state", old3, state)
<1>0. Travelled \in SUBSET Secrets
  BY VaultAssumption
<1>1. Sealed(key, {}) \in LibraryContents /\ Sealed(key, Travelled) \in VaultContents
      /\ Sealed(key, {}).key = key /\ Sealed(key, Travelled).key = key
  BY <1>0, SealedIn
<1>2. /\ e \in Entries /\ e.file = "library" /\ e.new.key = key
      /\ g \in Entries /\ g.file = "vault" /\ g.new.key = key
      /\ h \in Entries /\ h.file = "state"
  <2>1. {"library", "vault", "state"} \subseteq Names
    BY DEF Names
  <2>2. e \in Entries /\ e.file = "library" /\ e.new.key = key
    BY <1>1, <2>1, EntryIs, ContentsOf
  <2>3. g \in Entries /\ g.file = "vault" /\ g.new.key = key
    BY <1>1, <2>1, EntryIs, ContentsOf
  <2>4. h \in Entries /\ h.file = "state"
    BY <1>1, <2>1, EntryIs, ContentsOf
  <2> QED BY <2>2, <2>3, <2>4
<1> HIDE DEF e, g, h
<1> DEFINE s == <<e, g, h>>
<1>3. s \in Seq(Entries) /\ DOMAIN s = {1, 2, 3} /\ s[1] = e /\ s[2] = g /\ s[3] = h
      /\ Written(s) = {"library", "vault", "state"}
  BY <1>2, ThreeEntries
<1> HIDE DEF s
<1> DEFINE o == New("pull", s, Missing)
<1>4. o \in Ops /\ o.kind = "pull" /\ o.at = "commit" /\ o.entries = s
  BY <1>3, NewIs, MissingIn DEF Kinds
<1> HIDE DEF o
<1>5. OpShape(o)
  BY <1>2, <1>3, <1>4 DEF OpShape, SavesOK, InitialisesOK, RekeysOK, SettingsOK, PullsOK,
             OthersOK, StagesOK
<1> QED BY <1>5 DEF o, s, e, g, h

\* The request of a file that nothing seals.
LEMMA ConfigShape ==
  OpShape(New("config", <<Entry("config", Plain, Plain)>>, Missing))
<1> DEFINE e == Entry("config", Plain, Plain)
<1>1. e \in Entries /\ e.file = "config"
  BY EntryIs, ContentsOf DEF Names
<1> HIDE DEF e
<1> DEFINE s == <<e>>
<1>2. s \in Seq(Entries) /\ DOMAIN s = {1} /\ s[1] = e /\ Written(s) = {"config"}
  BY <1>1, OneEntry
<1> HIDE DEF s
<1> DEFINE o == New("config", s, Missing)
<1>3. o \in Ops /\ o.kind = "config" /\ o.at = "commit" /\ o.entries = s
  BY <1>2, NewIs, MissingIn DEF Kinds
<1> HIDE DEF o
<1>4. OpShape(o)
  BY <1>1, <1>2, <1>3 DEF OpShape, SavesOK, InitialisesOK, RekeysOK, SettingsOK, PullsOK,
             OthersOK, StagesOK
<1> QED BY <1>4 DEF o, s, e

\* The request that writes a kept generation back.
LEMMA RestoreShape ==
  ASSUME NEW f \in KeyBound, NEW old \in Contents(f), NEW new \in Contents(f),
         NEW at \in {"read", "commit"}
  PROVE  OpShape([kind |-> "restore", at |-> at, entries |-> <<Entry(f, old, new)>>,
                  candidate |-> Missing])
<1> DEFINE e == Entry(f, old, new)
<1>1. e \in Entries /\ e.file = f
  BY EntryIs, ContentsOf DEF Names, KeyBound
<1> HIDE DEF e
<1> DEFINE s == <<e>>
<1>2. s \in Seq(Entries) /\ Len(s) = 1 /\ DOMAIN s = {1} /\ s[1] = e /\ Written(s) = {f}
  BY <1>1, OneEntry
<1> HIDE DEF s
<1> DEFINE o == [kind |-> "restore", at |-> at, entries |-> s, candidate |-> Missing]
<1>3. o \in Ops /\ o.kind = "restore" /\ o.at = at /\ o.entries = s
  BY <1>2, MissingIn DEF Kinds, Ats, Ops
<1> HIDE DEF o
<1>4. OpShape(o)
  BY <1>1, <1>2, <1>3 DEF OpShape, SavesOK, InitialisesOK, RekeysOK, SettingsOK, PullsOK,
             OthersOK, StagesOK
<1> QED BY <1>4 DEF o, s, e

\* The request of a recovery, which is done at once.
LEMMA RecoverShape ==
  ASSUME NEW entries \in Seq(Entries)
  PROVE  OpShape([kind |-> "recover", at |-> "done", entries |-> entries, candidate |-> Missing])
<1> DEFINE o == [kind |-> "recover", at |-> "done", entries |-> entries, candidate |-> Missing]
<1>3. o \in Ops /\ o.kind = "recover" /\ o.at = "done"
  BY MissingIn DEF Kinds, Ats, Ops
<1> HIDE DEF o
<1>4. OpShape(o)
  BY <1>3 DEF OpShape, SavesOK, InitialisesOK, RekeysOK, SettingsOK, PullsOK,
             OthersOK, StagesOK
<1> QED BY <1>4 DEF o

\* A request keeps its shape as it goes through its stages.
LEMMA MovedShape ==
  ASSUME NEW o, OpShape(o), o.at \in {"commit", "apply"} \/ (o.at = "done" /\ o.kind = "restore"),
         NEW at \in {"apply", "done", "failed", "lock"}, at = "lock" => o.kind = "restore"
  PROVE  LET p == [o EXCEPT !.at = at]
         IN  OpShape(p) /\ p.at = at /\ p.kind = o.kind /\ p.entries = o.entries
             /\ p.candidate = o.candidate
<1> DEFINE p == [o EXCEPT !.at = at]
<1>1. p.at = at /\ p.kind = o.kind /\ p.entries = o.entries /\ p.candidate = o.candidate
      /\ p \in Ops /\ o \in Ops
  BY DEF Ops, OpShape, Ats
<1> HIDE DEF p
<1>2. StagesOK(p)
  BY <1>1 DEF StagesOK, OpShape
<1>3. OpShape(p)
  BY <1>1, <1>2 DEF OpShape, SavesOK, InitialisesOK, RekeysOK, SettingsOK, PullsOK, OthersOK
<1> QED BY <1>1, <1>3 DEF p

\* One request is replaced.
LEMMA OpSet ==
  ASSUME OpsInv, NEW w \in Workers, NEW o, OpShape(o), op' = [op EXCEPT ![w] = o]
  PROVE  /\ OpsInv' /\ op'[w] = o /\ \A v \in Workers : v # w => op'[v] = op[v]
<1>1. o \in Ops
  BY DEF OpShape
<1>2. /\ op' \in [Workers -> Ops] /\ op'[w] = o
      /\ \A v \in Workers : v # w => op'[v] = op[v]
  BY <1>1 DEF OpsInv
<1>3. \A v \in Workers : OpShape(op'[v])
  BY <1>2 DEF OpsInv
<1>4. OpsInv'
  BY <1>2, <1>3 DEF OpsInv
<1> QED BY <1>2, <1>4

\* One request goes to another stage.
LEMMA OpMoves ==
  ASSUME OpsInv, NEW w \in Workers, NEW at \in {"apply", "done", "failed", "lock"},
         op[w].at \in {"commit", "apply"} \/ (op[w].at = "done" /\ op[w].kind = "restore"),
         at = "lock" => op[w].kind = "restore", Moves(w, at)
  PROVE  /\ OpsInv' /\ op'[w].at = at /\ op'[w].kind = op[w].kind
         /\ op'[w].entries = op[w].entries /\ op'[w].candidate = op[w].candidate
         /\ \A v \in Workers : v # w => op'[v] = op[v]
<1> DEFINE p == [op[w] EXCEPT !.at = at]
<1>1. OpShape(op[w])
  BY DEF OpsInv
<1>2. /\ OpShape(p) /\ p.at = at /\ p.kind = op[w].kind /\ p.entries = op[w].entries
      /\ p.candidate = op[w].candidate
  BY <1>1, MovedShape
<1>3. op' = [op EXCEPT ![w] = p]
  BY DEF Moves
<1> HIDE DEF p
<1> QED BY <1>2, <1>3, OpSet

\* The entries of a change, as a set.
Elems(s) == {s[i] : i \in DOMAIN s}

\* The entries say what is written.
LEMMA ElemsFacts ==
  ASSUME NEW s \in Seq(Entries)
  PROVE  /\ Elems(s) \subseteq Entries /\ Written(s) = {e.file : e \in Elems(s)}
         /\ \A f \in Written(s) : Of(s, f) \in Elems(s) /\ Of(s, f).file = f
<1>1. Elems(s) \subseteq Entries /\ Written(s) = {e.file : e \in Elems(s)}
  BY DEF Elems, Written
<1>2. \A f \in Written(s) : Of(s, f) \in Elems(s) /\ Of(s, f).file = f
  BY OfIs DEF Elems
<1> QED BY <1>1, <1>2

\* The entries of two lists in a row.
LEMMA ElemsJoin ==
  ASSUME NEW s \in Seq(Entries), NEW t \in Seq(Entries)
  PROVE  s \o t \in Seq(Entries) /\ Elems(s \o t) = Elems(s) \cup Elems(t)
<1>1. s \o t \in Seq(Entries)
  OBVIOUS
<1>2. ASSUME NEW i \in DOMAIN (s \o t) PROVE (s \o t)[i] \in Elems(s) \cup Elems(t)
  <2>1. CASE i <= Len(s)
    BY <2>1 DEF Elems
  <2>2. CASE i > Len(s)
    <3>1. i - Len(s) \in DOMAIN t /\ (s \o t)[i] = t[i - Len(s)]
      BY <2>2
    <3> QED BY <3>1 DEF Elems
  <2> QED BY <2>1, <2>2
<1>3. ASSUME NEW i \in DOMAIN s PROVE s[i] \in Elems(s \o t)
  <2>1. i \in DOMAIN (s \o t) /\ (s \o t)[i] = s[i]
    OBVIOUS
  <2> QED BY <2>1 DEF Elems
<1>4. ASSUME NEW i \in DOMAIN t PROVE t[i] \in Elems(s \o t)
  <2>1. i + Len(s) \in DOMAIN (s \o t) /\ (s \o t)[i + Len(s)] = t[i]
    OBVIOUS
  <2> QED BY <2>1 DEF Elems
<1>5. Elems(s \o t) \subseteq Elems(s) \cup Elems(t)
  BY <1>2 DEF Elems
<1>6. Elems(s) \cup Elems(t) \subseteq Elems(s \o t)
  BY <1>3, <1>4 DEF Elems
<1> QED BY <1>1, <1>5, <1>6

\* The entry of a list of one.
LEMMA ElemsOne ==
  ASSUME NEW e \in Entries
  PROVE  <<e>> \in Seq(Entries) /\ Elems(<<e>>) = {e}
<1> DEFINE s == <<e>>
<1>1. s \in Seq(Entries) /\ DOMAIN s = {1} /\ s[1] = e
  BY OneEntry
<1> HIDE DEF s
<1>2. Elems(s) = {e}
  BY <1>1 DEF Elems
<1> QED BY <1>1, <1>2 DEF s

\* An empty list has none.
LEMMA ElemsNone == << >> \in Seq(Entries) /\ Elems(<< >>) = {}
BY NoEntries DEF Elems

\* Sealed again, the contents keep their kind.
LEMMA ReSealedKept ==
  ASSUME NEW f \in KeyBound, NEW x \in KeptContents(f), x # Missing, NEW key \in Int \ {0}
  PROVE  Sealed(key, x.body) \in KeptContents(f) /\ Sealed(key, x.body) # Missing
         /\ Sealed(key, x.body).key = key
<1>1. Sealed(key, x.body).key = key
  BY DEF Sealed
<1>2. Sealed(key, x.body) # Missing
  BY <1>1, MissingIn
<1>3. CASE f = "vault"
  BY <1>1, <1>2, <1>3, SealedIn DEF KeptContents, VaultContents
<1>4. CASE f = "library"
  BY <1>1, <1>2, <1>4, SealedIn DEF KeptContents, LibraryContents
<1>5. CASE f = "settings"
  BY <1>1, <1>2, <1>5, SealedIn DEF KeptContents, SettingsContents
<1> QED BY <1>3, <1>4, <1>5 DEF KeyBound

\* A kept generation has the file, the key that seals it and what it held.
LEMMA GenerationIs ==
  ASSUME NEW f \in KeyBound \cup {"config"}, NEW outer \in Int, NEW was \in KeptContents(f),
         was # Missing
  PROVE  [file |-> f, outer |-> outer, was |-> was] \in Generations
BY DEF Generations

\* It is made of these.
LEMMA GenerationOf ==
  ASSUME NEW b \in Generations
  PROVE  /\ b.file \in KeyBound \cup {"config"} /\ b.outer \in Int
         /\ b.was \in KeptContents(b.file) /\ b.was # Missing
         /\ b = [file |-> b.file, outer |-> b.outer, was |-> b.was]
BY DEF Generations

\* A generation sealed again has the new key, outside and inside.
LEMMA ReSealedGeneration ==
  ASSUME NEW b \in Generations, NEW key \in Int \ {0}
  PROVE  /\ ResealedBackup(b, key) \in Generations
         /\ ResealedBackup(b, key).outer = key /\ ResealedBackup(b, key).file = b.file
         /\ b.file \in KeyBound => ResealedBackup(b, key).was.key = key
<1> DEFINE w == IF b.file \in KeyBound THEN Sealed(key, b.was.body) ELSE b.was
           r == ResealedBackup(b, key)
<1>0. b \in [file : {b.file}, outer : Int, was : {b.was}]
  BY GenerationOf
<1>1. r \in [file : {b.file}, outer : {key}, was : {w}]
  BY <1>0 DEF ResealedBackup
<1>2. w \in KeptContents(b.file) /\ w # Missing /\ (b.file \in KeyBound => w.key = key)
  BY GenerationOf, ReSealedKept
<1> HIDE DEF w, r
<1>3. r = [file |-> b.file, outer |-> key, was |-> w]
  BY <1>1
<1>4. r \in Generations
  BY <1>2, <1>3, GenerationOf, GenerationIs
<1> QED BY <1>2, <1>3, <1>4 DEF r

\* What a change of password writes.
ReSealing(e, key) ==
  \/ e.file \in {"library", "settings"} /\ disk[e.file] # Missing
     /\ e.new.key = key /\ e.new.body = e.old.body
  \/ /\ e.file = "backups"
     /\ \A b \in e.new : b.outer = key /\ (b.file \in KeyBound => b.was.key = key)

\* A sealed file that is there is sealed again, and keeps its body.
LEMMA ReSealedElems ==
  ASSUME IsDisk(disk), NEW f \in {"library", "settings"}, NEW key \in Int \ {0}
  PROVE  /\ ReSealed(f, key) \in Seq(Entries)
         /\ \A e \in Elems(ReSealed(f, key)) :
              e.file = f /\ e.old = disk[f] /\ disk[f] # Missing /\ e.new.key = key
              /\ e.new.body = e.old.body
         /\ disk[f] # Missing => f \in {e.file : e \in Elems(ReSealed(f, key))}
<1>0. f \in Names /\ f \in KeyBound
  BY DEF Names, KeyBound
<1>1. CASE disk[f] = Missing
  BY <1>1, ElemsNone DEF ReSealed
<1>2. CASE disk[f] # Missing
  <2> DEFINE new == Sealed(key, disk[f].body)
             e == Entry(f, disk[f], new)
  <2>1. disk[f] \in Contents(f) /\ disk[f] \in KeptContents(f)
    BY <1>0, ContentsOf DEF IsDisk
  <2>2. new \in KeptContents(f) /\ new.key = key /\ new.body = disk[f].body
    BY <1>0, <1>2, <2>1, ReSealedKept DEF Sealed
  <2>3. new \in Contents(f)
    BY <1>0, <2>2, ContentsOf
  <2> HIDE DEF new
  <2>4. e \in Entries /\ e.file = f /\ e.old = disk[f] /\ e.new = new
    BY <1>0, <2>1, <2>3, EntryIs
  <2>5. ReSealed(f, key) = <<e>>
    BY <1>2 DEF ReSealed, new
  <2> HIDE DEF e
  <2>6. <<e>> \in Seq(Entries) /\ Elems(<<e>>) = {e}
    BY <2>4, ElemsOne
  <2> QED BY <1>2, <2>2, <2>4, <2>5, <2>6
<1> QED BY <1>1, <1>2

\* So are all generations of it.
LEMMA BackupsEntry ==
  ASSUME IsDisk(disk), NEW key \in Int \ {0}
  PROVE  LET new == {ResealedBackup(b, key) : b \in disk.backups}
             e == Entry("backups", disk.backups, new)
         IN  /\ e \in Entries /\ e.file = "backups" /\ e.old = disk.backups
             /\ \A b \in e.new : b.outer = key /\ (b.file \in KeyBound => b.was.key = key)
<1> DEFINE new == {ResealedBackup(b, key) : b \in disk.backups}
           e == Entry("backups", disk.backups, new)
<1>1. disk.backups \in SUBSET Generations /\ "backups" \in Names
  BY ContentsOf DEF IsDisk, Names
<1>2. new \in SUBSET Generations
      /\ \A b \in new : b.outer = key /\ (b.file \in KeyBound => b.was.key = key)
  BY <1>1, ReSealedGeneration
<1> HIDE DEF new
<1>3. e \in Entries /\ e.file = "backups" /\ e.old = disk.backups /\ e.new = new
  <2>1. disk.backups \in Contents("backups") /\ new \in Contents("backups")
    BY <1>1, <1>2, ContentsOf
  <2> QED BY <1>1, <2>1, EntryIs
<1> QED BY <1>2, <1>3 DEF new, e

\* The entries of ChangeMasterPassword: everything sealed, under the new key.
LEMMA RekeyEntries ==
  ASSUME IsDisk(disk), NEW new \in VaultContents, new.key # 0, NEW tail \in Seq(Entries),
         Written(tail) = {"local"},
         \A i \in DOMAIN tail : tail[i].new = LocalFor(new.key)
  PROVE  LET es == ReSealKeyBoundArtifacts(new.key) \o <<Entry("vault", disk.vault, new)>> \o tail
         IN  /\ es \in Seq(Entries)
             /\ {"backups", "vault", "local"} \subseteq Written(es)
             /\ \A f \in {"library", "settings"} : disk[f] # Missing => f \in Written(es)
             /\ \A e \in Elems(es) :
                  /\ e.file # "local" => e.old = disk[e.file]
                  /\ e.file = "vault" => e.new = new
                  /\ e.file = "local" => e \in Elems(tail) /\ e.new = LocalFor(new.key)
                  /\ e.file \in {"vault", "local"} \/ ReSealing(e, new.key)
<1> DEFINE key == new.key
           l == ReSealed("library", key)
           s == ReSealed("settings", key)
           be == Entry("backups", disk.backups, {ResealedBackup(b, key) : b \in disk.backups})
           ve == Entry("vault", disk.vault, new)
           es == (((l \o s) \o <<be>>) \o <<ve>>) \o tail
<1>0. key \in Int \ {0}
  BY DEF VaultContents
<1>1. /\ l \in Seq(Entries)
      /\ \A e \in Elems(l) :
           e.file = "library" /\ e.old = disk["library"] /\ disk["library"] # Missing
           /\ e.new.key = key /\ e.new.body = e.old.body
      /\ disk["library"] # Missing => "library" \in {e.file : e \in Elems(l)}
  BY <1>0, ReSealedElems
<1>2. /\ s \in Seq(Entries)
      /\ \A e \in Elems(s) :
           e.file = "settings" /\ e.old = disk["settings"] /\ disk["settings"] # Missing
           /\ e.new.key = key /\ e.new.body = e.old.body
      /\ disk["settings"] # Missing => "settings" \in {e.file : e \in Elems(s)}
  BY <1>0, ReSealedElems
<1>3. /\ be \in Entries /\ be.file = "backups" /\ be.old = disk["backups"]
      /\ \A b \in be.new : b.outer = key /\ (b.file \in KeyBound => b.was.key = key)
  BY <1>0, BackupsEntry
<1>4. ve \in Entries /\ ve.file = "vault" /\ ve.old = disk["vault"] /\ ve.new = new
  BY EntryIs, ContentsOf DEF IsDisk, Names
<1>5. /\ Elems(tail) \subseteq Entries
      /\ \A e \in Elems(tail) : e.file = "local" /\ e.new = LocalFor(new.key)
      /\ "local" \in {e.file : e \in Elems(tail)}
  <2>1. Elems(tail) \subseteq Entries /\ Written(tail) = {e.file : e \in Elems(tail)}
    BY ElemsFacts
  <2>2. \A e \in Elems(tail) : e.new = LocalFor(new.key)
    BY DEF Elems
  <2>3. \A e \in Elems(tail) : e.file \in {x.file : x \in Elems(tail)}
    OBVIOUS
  <2> QED BY <2>1, <2>2, <2>3
<1>6. ReSealKeyBoundArtifacts(new.key) \o <<Entry("vault", disk.vault, new)>> \o tail = es
  BY DEF ReSealKeyBoundArtifacts
<1> HIDE DEF l, s, be, ve
<1>7. <<be>> \in Seq(Entries) /\ Elems(<<be>>) = {be} /\ <<ve>> \in Seq(Entries)
      /\ Elems(<<ve>>) = {ve}
  BY <1>3, <1>4, ElemsOne
<1>8. l \o s \in Seq(Entries) /\ Elems(l \o s) = Elems(l) \cup Elems(s)
  BY <1>1, <1>2, ElemsJoin
<1>9. (l \o s) \o <<be>> \in Seq(Entries)
      /\ Elems((l \o s) \o <<be>>) = Elems(l \o s) \cup {be}
  BY <1>7, <1>8, ElemsJoin
<1>10. ((l \o s) \o <<be>>) \o <<ve>> \in Seq(Entries)
       /\ Elems(((l \o s) \o <<be>>) \o <<ve>>) = Elems((l \o s) \o <<be>>) \cup {ve}
  BY <1>7, <1>9, ElemsJoin
<1>11. es \in Seq(Entries)
       /\ Elems(es) = Elems(((l \o s) \o <<be>>) \o <<ve>>) \cup Elems(tail)
  BY <1>10, ElemsJoin
<1>12. Elems(es) = Elems(l) \cup Elems(s) \cup {be, ve} \cup Elems(tail)
  BY <1>8, <1>9, <1>10, <1>11
<1> HIDE DEF es
<1>13. Written(es) = {e.file : e \in Elems(es)}
  BY <1>11, ElemsFacts
<1>14. /\ {"backups", "vault", "local"} \subseteq Written(es)
       /\ \A f \in {"library", "settings"} : disk[f] # Missing => f \in Written(es)
  BY <1>1, <1>2, <1>3, <1>4, <1>5, <1>12, <1>13
<1>15. ASSUME NEW e \in Elems(es)
       PROVE  /\ e.file # "local" => e.old = disk[e.file]
              /\ e.file = "vault" => e.new = new
              /\ e.file = "local" => e \in Elems(tail) /\ e.new = LocalFor(new.key)
              /\ e.file \in {"vault", "local"} \/ ReSealing(e, new.key)
  <2>1. CASE e \in Elems(l)
    BY <1>1, <2>1 DEF ReSealing
  <2>2. CASE e \in Elems(s)
    BY <1>2, <2>2 DEF ReSealing
  <2>3. CASE e = be
    BY <1>3, <2>3 DEF ReSealing
  <2>4. CASE e = ve
    BY <1>4, <2>4
  <2>5. CASE e \in Elems(tail)
    BY <1>5, <2>5
  <2> QED BY <1>12, <2>1, <2>2, <2>3, <2>4, <2>5
<1> QED BY <1>6, <1>11, <1>14, <1>15

\* The shapes of the state.
Shapes == StoreInv /\ OpsInv /\ vault \in VaultContents /\ keys \in Nat

\* What a commit of request o may find in its entries.
BuiltOK(o, entries) ==
  /\ entries \in Seq(Entries)
  /\ \A f \in Written(entries) : Of(entries, f).old = disk[f]
  /\ \A e \in Elems(entries) : e.old = disk[e.file]
  /\ o.kind # "rekey" => entries = o.entries /\ "backups" \notin Written(entries)
  /\ o.kind = "rekey" =>
       /\ {"backups", "vault", "local"} \subseteq Written(entries)
       /\ Of(entries, "vault").new = o.candidate
       /\ Of(entries, "local").new = LocalFor(o.candidate.key)
       /\ \A f \in {"library", "settings"} : disk[f] # Missing => f \in Written(entries)
       /\ \A f \in Written(entries) :
            f \in {"vault", "local"} \/ ReSealing(Of(entries, f), o.candidate.key)

\* A change that is accepted finds what it expects to replace.
LEMMA AcceptableOld ==
  ASSUME NEW entries \in Seq(Entries),
         \A i \in DOMAIN entries : disk[entries[i].file] = entries[i].old
  PROVE  /\ \A f \in Written(entries) : Of(entries, f).old = disk[f]
         /\ \A e \in Elems(entries) : e.old = disk[e.file]
<1>1. \A e \in Elems(entries) : e.old = disk[e.file]
  BY DEF Elems
<1> QED BY <1>1, ElemsFacts

\* What a commit that is accepted will write.
LEMMA BuiltFacts ==
  ASSUME Shapes, NEW w \in Workers, op[w].at = "commit", Acceptable(w)
  PROVE  BuiltOK(op[w], Built(w)) /\ op[w].kind \notin {"none", "recover"}
<1>1. /\ OpShape(op[w]) /\ IsDisk(disk) /\ op[w].entries \in Seq(Entries)
      /\ op[w].kind \in Kinds /\ op[w].kind \notin {"none", "recover"}
      /\ op[w].candidate \in VaultContents
  <2>1. OpShape(op[w]) /\ IsDisk(disk)
    BY DEF Shapes, OpsInv, StoreInv
  <2>2. op[w].kind \in Kinds /\ op[w].kind \notin {"none", "recover"}
    BY <2>1, OpParts DEF StagesOK
  <2> QED BY <2>1, <2>2, OpParts
<1>2. /\ \A f \in Written(op[w].entries) : Of(op[w].entries, f).old = disk[f]
      /\ \A e \in Elems(op[w].entries) : e.old = disk[e.file]
  BY <1>1, AcceptableOld DEF Acceptable
<1>3. CASE op[w].kind # "rekey"
  <2>1. Built(w) = op[w].entries
    BY <1>3 DEF Built
  <2>2. "backups" \notin Written(op[w].entries)
    BY <1>1, <1>3 DEF OpShape, SavesOK, InitialisesOK, SettingsOK, PullsOK, OthersOK, Kinds,
         KeyBound
  <2> QED BY <1>1, <1>2, <1>3, <2>1, <2>2 DEF BuiltOK
<1>4. CASE op[w].kind = "rekey"
  <2> DEFINE new == op[w].candidate
             tail == op[w].entries
             es == ReSealKeyBoundArtifacts(new.key) \o <<Entry("vault", disk.vault, new)>> \o tail
  <2>1. Built(w) = es
    BY <1>4 DEF Built
  <2>2. /\ new.key # 0 /\ Written(tail) = {"local"}
        /\ \A i \in DOMAIN tail : tail[i].new = LocalFor(new.key)
    BY <1>1, <1>4 DEF OpShape, RekeysOK
  <2>3. /\ es \in Seq(Entries)
        /\ {"backups", "vault", "local"} \subseteq Written(es)
        /\ \A f \in {"library", "settings"} : disk[f] # Missing => f \in Written(es)
        /\ \A e \in Elems(es) :
             /\ e.file # "local" => e.old = disk[e.file]
             /\ e.file = "vault" => e.new = new
             /\ e.file = "local" => e \in Elems(tail) /\ e.new = LocalFor(new.key)
             /\ e.file \in {"vault", "local"} \/ ReSealing(e, new.key)
    BY <1>1, <2>2, RekeyEntries
  <2> HIDE DEF es
  <2>4. \A f \in Written(es) : Of(es, f) \in Elems(es) /\ Of(es, f).file = f
    BY <2>3, ElemsFacts
  <2>5. /\ \A e \in Elems(es) : e.old = disk[e.file]
        /\ \A f \in Written(es) : Of(es, f).old = disk[f]
    BY <1>2, <2>3, <2>4
  <2>6. Of(es, "vault").new = new /\ Of(es, "local").new = LocalFor(new.key)
    BY <2>3, <2>4
  <2>7. \A f \in Written(es) : f \in {"vault", "local"} \/ ReSealing(Of(es, f), new.key)
    BY <2>3, <2>4
  <2> QED BY <1>4, <2>1, <2>3, <2>5, <2>6, <2>7 DEF BuiltOK
<1> QED BY <1>1, <1>3, <1>4

Begun(kind, entries, outer, status) ==
  [kind |-> kind, entries |-> entries, done |-> 0, outer |-> outer, status |-> status]

\* The kinds that the entries of a record are of.
LEMMA BegunShape ==
  ASSUME NEW o, OpShape(o), o.kind \notin {"none", "recover"}, NEW entries, BuiltOK(o, entries),
         NEW outer \in Int, Mode(o.kind) = "discard" => outer = 0,
         NEW status \in {"staging", "staged"}, status = "staging" => Mode(o.kind) = "plain"
  PROVE  LET r == Begun(o.kind, entries, outer, status)
         IN  /\ RecordShape(r) /\ r # NoRecord /\ r.kind = o.kind /\ r.entries = entries
             /\ r.done = 0 /\ r.outer = outer /\ r.status = status
<1> DEFINE r == Begun(o.kind, entries, outer, status)
<1>1. o.kind \in Kinds \ {"none", "recover"} /\ o.entries \in Seq(Entries)
  BY OpParts
<1>2. r \in Records /\ r # NoRecord /\ r.kind = o.kind /\ r.entries = entries
      /\ r.done = 0 /\ r.outer = outer /\ r.status = status
  BY <1>1 DEF Begun, Records, BuiltOK, NoRecord, Kinds
<1> HIDE DEF r
<1>3. /\ r.kind \notin {"rekey", "initialise"} => "local" \notin Written(r.entries)
      /\ r.kind \in {"settings", "config", "rotated"} => "vault" \notin Written(r.entries)
      /\ r.kind \in {"rekey", "initialise", "save"} => "vault" \in Written(r.entries)
  <2>1. CASE o.kind \in {"rekey", "initialise"}
    BY <1>2, <2>1 DEF BuiltOK, OpShape, InitialisesOK
  <2>2. CASE o.kind \notin {"rekey", "initialise"}
    <3>1. entries = o.entries
      BY <2>2 DEF BuiltOK
    <3>2. /\ "local" \notin Written(o.entries)
          /\ o.kind \in {"settings", "config", "rotated"} => "vault" \notin Written(o.entries)
          /\ o.kind = "save" => "vault" \in Written(o.entries)
      BY <1>1, <2>2 DEF OpShape, SavesOK, SettingsOK, PullsOK, OthersOK, Kinds, KeyBound
    <3> QED BY <1>2, <2>2, <3>1, <3>2
  <2> QED BY <2>1, <2>2
<1>4. r.kind = "initialise" =>
         Of(r.entries, "vault").old = Missing /\ Of(r.entries, "vault").new.body = {}
  <2> SUFFICES ASSUME o.kind = "initialise"
               PROVE  Of(entries, "vault").old = Missing /\ Of(entries, "vault").new.body = {}
    BY <1>2
  <2>1. entries = o.entries /\ "vault" \in Written(o.entries)
    BY DEF BuiltOK, OpShape, InitialisesOK
  <2>2. PICK i \in DOMAIN o.entries :
          o.entries[i].file = "vault" /\ Of(o.entries, "vault") = o.entries[i]
    BY <2>1, OfIs
  <2> QED BY <2>1, <2>2 DEF OpShape, InitialisesOK
<1>5. /\ r.status = "staging" => r.done = 0 /\ r.kind \notin {"rekey", "initialise", "save"}
      /\ r.kind \in {"rekey", "initialise"} => r.outer = 0
  BY <1>2 DEF Mode
<1>6. Len(entries) \in Nat
  BY DEF BuiltOK
<1>7. RecordShape(r)
  BY <1>2, <1>3, <1>4, <1>5, <1>6 DEF RecordShape
<1> QED BY <1>2, <1>7 DEF r

\* The generations that a commit keeps.
LEMMA KeptGenerations ==
  ASSUME NEW o, NEW entries, BuiltOK(o, entries), NEW outer \in Int
  PROVE  /\ BackupsOf(o.kind, entries, outer) \in SUBSET Generations
         /\ \A b \in BackupsOf(o.kind, entries, outer) :
              b.outer = outer /\ b.file \in KeyBound \cup {"config"} /\ b.was = disk[b.file]
              /\ Kept(o.kind, entries) # {}
<1> SUFFICES ASSUME NEW i \in Kept(o.kind, entries)
             PROVE  LET b == [file |-> entries[i].file, outer |-> outer, was |-> entries[i].old]
                    IN  b \in Generations /\ b.outer = outer
                        /\ b.file \in KeyBound \cup {"config"} /\ b.was = disk[b.file]
  BY DEF BackupsOf
<1>1. /\ entries \in Seq(Entries) /\ i \in DOMAIN entries
      /\ entries[i].file \in KeyBound \cup {"config"} /\ entries[i].old # Missing
      /\ o.kind # "rekey"
  BY DEF BuiltOK, Kept, Mode
<1>2. /\ entries[i] \in Entries /\ entries[i].old \in KeptContents(entries[i].file)
      /\ entries[i].old = disk[entries[i].file]
  BY <1>1, EntryOf, ContentsOf DEF BuiltOK, Elems
<1>3. [file |-> entries[i].file, outer |-> outer, was |-> entries[i].old] \in Generations
  BY <1>1, <1>2, GenerationIs
<1> QED BY <1>1, <1>2, <1>3

\* The requests that hold mutationMutex to their end.
Owners == {"save", "initialise", "rekey", "settings", "pull"}

\* The request that applies has the lock; one that owns the mutex holds it.
Tied(w) ==
  /\ op[w].at = "apply" <=> lock = w
  /\ op[w].kind \in Owners => owner = w

\* The record is the one that the request at work has begun.
Linked(r, o) ==
  /\ r # NoRecord /\ r.kind = o.kind /\ r.status = "staged"
  /\ o.kind # "rekey" => r.entries = o.entries
  /\ o.kind = "rekey" => Of(r.entries, "vault").new = o.candidate

\* A change of password or a first vault that is not yet marked applied: recovery drops it.
Discards(r) == r # NoRecord /\ r.kind \in {"rekey", "initialise"} /\ r.status # "applied"

\* The lock, the record, the owner of the mutex and the requests belong together.
Ties ==
  /\ lock \in Workers \cup {NoWorker} /\ owner \in Workers \cup {NoWorker}
  /\ up \in BOOLEAN
  /\ \A w \in Workers : Tied(w)
  /\ lock # NoWorker => Linked(record, op[lock])
  /\ up /\ Discards(record) => lock # NoWorker
  /\ ~up => /\ vault = Closed /\ lock = NoWorker /\ owner = NoWorker
            /\ \A w \in Workers : op[w] = Idle

\* The shapes and the ties.
VaultInv == Shapes /\ Ties

\* Where a change leads that begins on the disk as it is.
LEMMA AfterBegins ==
  ASSUME IsDisk(disk'), RecordShape(record'), record' # NoRecord
  PROVE  \A f \in Names :
           /\ f \notin Written(record'.entries) => After'[f] = disk'[f]
           /\ f \in Written(record'.entries) => After'[f] = Of(record'.entries, f).new
<1>1. record'.entries \in Seq(Entries)
  BY DEF RecordShape, Records
<1> SUFFICES ASSUME NEW f \in Names
             PROVE  /\ f \notin Written(record'.entries) => After'[f] = disk'[f]
                    /\ f \in Written(record'.entries) => After'[f] = Of(record'.entries, f).new
  OBVIOUS
<1>2. After' = [g \in Names |-> IF g \notin Written(record'.entries) THEN disk'[g]
        ELSE IF \E i \in 1 .. Len(record'.entries) : record'.entries[i].file = g
             THEN Of(record'.entries, g).new
        ELSE Of(record'.entries, g).old]
  BY DEF After, Applied, IsDisk
<1>3. f \in Written(record'.entries) =>
        \E i \in 1 .. Len(record'.entries) : record'.entries[i].file = f
  BY <1>1 DEF Written
<1> QED BY <1>2, <1>3

\* Only the request of w changes, and what it asks for stays.
OnlyMoves(w) ==
  /\ op'[w].kind = op[w].kind /\ op'[w].entries = op[w].entries
  /\ op'[w].candidate = op[w].candidate
  /\ \A v \in Workers : v # w => op'[v] = op[v]

\* One request goes to another stage, and keeps what it asks for.
LEMMA OpOnlyMoves ==
  ASSUME OpsInv, NEW w \in Workers, NEW at \in {"apply", "done", "failed"},
         op[w].at \in {"commit", "apply"}, Moves(w, at)
  PROVE  OpsInv' /\ op'[w].at = at /\ OnlyMoves(w)
<1>1. at # "lock" /\ at \in {"apply", "done", "failed", "lock"}
  OBVIOUS
<1> QED BY <1>1, OpMoves DEF OnlyMoves

\* New generations are sealed with the key in memory, and hold what the disk does.
Backs ==
  /\ \A f \in Names \ {"backups"} : disk'[f] = disk[f]
  /\ \A b \in disk'.backups \ disk.backups :
       /\ vault # Closed /\ b.outer = vault.key /\ b.file \in KeyBound \cup {"config"}
       /\ b.was = disk[b.file]

\* What Begins does: the change is recorded, or fails before it writes anything.
LEMMA BeginsEffect ==
  ASSUME VaultInv, NEW w \in Workers, Begins(w)
  PROVE  /\ Shapes' /\ OnlyMoves(w) /\ op[w].at = "commit" /\ lock = NoWorker
         /\ record = NoRecord /\ Before' = disk' /\ Now' = disk' /\ Backs
         /\ BuiltOK(op[w], Built(w))
         /\ vault' = vault /\ owner' = owner /\ up' = up
         /\ record' # NoRecord =>
              /\ record'.kind = op[w].kind /\ record'.entries = Built(w)
              /\ record'.status \in {"staging", "staged"}
         /\ \/ /\ op'[w].at = "apply" /\ lock' = w /\ record' # NoRecord
               /\ record'.status = "staged"
               /\ carried' = (carried \/ Carries(op[w].kind, Built(w)))
            \/ /\ op'[w].at = "failed" /\ lock' = lock /\ disk' = disk /\ carried' = carried
               /\ record' # NoRecord => record'.status = "staging"
               /\ Mode(op[w].kind) # "discard"
<1> DEFINE kind == op[w].kind
           entries == Built(w)
           outer == IF Kept(kind, entries) = {} THEN 0 ELSE vault.key
<1>1. /\ op[w].at = "commit" /\ lock = NoWorker /\ record = NoRecord
      /\ BuiltOK(op[w], Built(w)) /\ kind \notin {"none", "recover"}
  BY BuiltFacts DEF Begins, VaultInv
<1>2. /\ Shapes /\ OpsInv /\ IsDisk(disk) /\ vault \in VaultContents /\ vault.key \in Int
      /\ OpShape(op[w]) /\ keys \in Nat
  BY DEF VaultInv, Shapes, OpsInv, StoreInv, VaultContents
<1>3. outer \in Int /\ (Mode(kind) = "discard" => outer = 0 /\ Kept(kind, entries) = {})
  BY <1>2 DEF Kept
<1>4. vault' = vault /\ owner' = owner /\ up' = up /\ keys' = keys
  BY DEF Begins
<1>5. /\ BackupsOf(kind, entries, outer) \in SUBSET Generations
      /\ \A b \in BackupsOf(kind, entries, outer) :
           b.outer = outer /\ b.file \in KeyBound \cup {"config"} /\ b.was = disk[b.file]
           /\ Kept(kind, entries) # {}
  BY <1>1, <1>3, KeptGenerations
<1>6. CASE /\ Kept(kind, entries) = {} \/ vault # Closed
           /\ record' = [kind |-> kind, entries |-> entries, done |-> 0,
                         outer |-> outer, status |-> "staged"]
           /\ disk' = [disk EXCEPT !.backups = @ \cup BackupsOf(kind, entries, outer)]
           /\ lock' = w
           /\ carried' = (carried \/ Carries(kind, entries))
           /\ Moves(w, "apply")
  <2>1. /\ RecordShape(record') /\ record' # NoRecord /\ record'.kind = kind
        /\ record'.entries = entries /\ record'.done = 0 /\ record'.status = "staged"
    <3>1. /\ OpShape(op[w]) /\ BuiltOK(op[w], entries) /\ outer \in Int
          /\ Mode(op[w].kind) = "discard" => outer = 0
          /\ op[w].kind \notin {"none", "recover"}
      BY <1>1, <1>2, <1>3
    <3>0. \A e, u : BuiltOK(op[w], e) /\ u \in Int /\ (Mode(op[w].kind) = "discard" => u = 0) =>
            LET r == Begun(op[w].kind, e, u, "staged")
            IN  /\ RecordShape(r) /\ r # NoRecord /\ r.kind = op[w].kind /\ r.entries = e
                /\ r.done = 0 /\ r.status = "staged"
      BY <3>1, BegunShape
    <3> HIDE DEF outer, entries
    <3> DEFINE r == Begun(op[w].kind, entries, outer, "staged")
    <3>2. /\ RecordShape(r) /\ r # NoRecord /\ r.kind = op[w].kind /\ r.entries = entries
          /\ r.done = 0 /\ r.status = "staged"
      BY <3>0, <3>1
    <3>3. record' = r
      BY <1>6 DEF Begun
    <3> QED BY <3>2, <3>3
  <2>2. /\ OpsInv' /\ op'[w].at = "apply" /\ OnlyMoves(w)
    <3>1. Moves(w, "apply") /\ op[w].at \in {"commit", "apply"} /\ OpsInv
      BY <1>1, <1>2, <1>6
    <3> QED BY <3>1, OpOnlyMoves
  <2>3. /\ IsDisk(disk') /\ Backs
    <3>1. disk.backups \in SUBSET Generations /\ "backups" \in Names
      BY <1>2, ContentsOf DEF IsDisk, Names
    <3>2. /\ DOMAIN disk' = Names /\ disk' = [f \in Names |-> disk'[f]]
          /\ \A f \in Names \ {"backups"} : disk'[f] = disk[f]
          /\ disk'["backups"] = disk["backups"] \cup BackupsOf(kind, entries, outer)
      BY <1>2, <1>6, <3>1 DEF IsDisk
    <3>3. disk'["backups"] \in Contents("backups")
      BY <1>5, <3>1, <3>2, ContentsOf
    <3>4. IsDisk(disk')
      BY <1>2, <3>2, <3>3 DEF IsDisk
    <3>5. \A b \in disk'.backups \ disk.backups :
             b \in BackupsOf(kind, entries, outer)
      BY <3>2
    <3>6. Kept(kind, entries) # {} => vault # Closed /\ outer = vault.key
      BY <1>6
    <3> QED BY <1>5, <3>2, <3>4, <3>5, <3>6 DEF Backs
  <2>4. \A f \in Written(entries) : Of(entries, f).old = disk'[f]
    <3>1. entries \in Seq(Entries) /\ Written(entries) \subseteq Names
      BY <1>1, WrittenNames DEF BuiltOK
    <3>2. CASE kind = "rekey"
      <4>1. BackupsOf(kind, entries, outer) = {}
        BY <3>2 DEF Mode, Kept, BackupsOf
      <4>2. disk' = disk
        BY <1>2, <1>6, <4>1 DEF IsDisk
      <4> QED BY <1>1, <4>2 DEF BuiltOK
    <3>3. CASE kind # "rekey"
      <4>1. "backups" \notin Written(entries)
        BY <1>1, <3>3 DEF BuiltOK
      <4> QED BY <1>1, <2>3, <3>1, <4>1 DEF BuiltOK, Backs
    <3> QED BY <3>2, <3>3
  <2>5. StoreInv' /\ Before' = disk' /\ Now' = disk'
    BY <2>1, <2>3, <2>4, StoreBegins
  <2>6. Shapes'
    BY <1>2, <1>4, <2>2, <2>5 DEF Shapes
  <2> QED BY <1>1, <1>4, <1>6, <2>1, <2>2, <2>3, <2>5, <2>6
<1>7. CASE /\ ~(Kept(kind, entries) = {} \/ vault # Closed)
           /\ record' = IF Mode(kind) = "atomic" THEN NoRecord
                        ELSE [kind |-> kind, entries |-> entries, done |-> 0,
                              outer |-> 0, status |-> "staging"]
           /\ Moves(w, "failed")
           /\ UNCHANGED <<disk, lock, carried>>
  <2>1. OpsInv' /\ op'[w].at = "failed" /\ OnlyMoves(w)
    <3>1. Moves(w, "failed") /\ op[w].at \in {"commit", "apply"} /\ OpsInv
      BY <1>1, <1>2, <1>7
    <3> QED BY <3>1, OpOnlyMoves
  <2>2. Mode(kind) # "discard"
    BY <1>7 DEF Kept
  <2>3. Backs
    BY <1>7 DEF Backs
  <2>4. CASE Mode(kind) = "atomic"
    <3>1. record' = NoRecord
      BY <1>7, <2>4
    <3>2. StoreInv' /\ Before' = disk' /\ Now' = disk'
      BY <1>2, <1>7, <3>1, StoreAlone
    <3>3. Shapes'
      BY <1>2, <1>4, <2>1, <3>2 DEF Shapes
    <3> QED BY <1>1, <1>4, <1>7, <2>1, <2>2, <2>3, <3>1, <3>2, <3>3
  <2>5. CASE Mode(kind) = "plain"
    <3>1. /\ RecordShape(record') /\ record' # NoRecord /\ record'.kind = kind
          /\ record'.entries = entries /\ record'.done = 0 /\ record'.status = "staging"
      <4>1. /\ OpShape(op[w]) /\ BuiltOK(op[w], entries) /\ Mode(op[w].kind) = "plain"
            /\ op[w].kind \notin {"none", "recover"}
        BY <1>1, <1>2, <2>5
      <4>0. \A e : BuiltOK(op[w], e) =>
              LET r == Begun(op[w].kind, e, 0, "staging")
              IN  /\ RecordShape(r) /\ r # NoRecord /\ r.kind = op[w].kind /\ r.entries = e
                  /\ r.done = 0 /\ r.status = "staging"
        BY <4>1, BegunShape
      <4> HIDE DEF outer, entries
      <4> DEFINE r == Begun(op[w].kind, entries, 0, "staging")
      <4>2. /\ RecordShape(r) /\ r # NoRecord /\ r.kind = op[w].kind /\ r.entries = entries
            /\ r.done = 0 /\ r.status = "staging"
        BY <4>0, <4>1
      <4>3. record' = r
        BY <1>7, <2>5 DEF Begun
      <4> QED BY <4>2, <4>3
    <3>2. \A f \in Written(entries) : Of(entries, f).old = disk'[f]
      BY <1>1, <1>7 DEF BuiltOK
    <3>3. StoreInv' /\ Before' = disk' /\ Now' = disk'
      BY <1>2, <1>7, <3>1, <3>2, StoreBegins
    <3>4. Shapes'
      BY <1>2, <1>4, <2>1, <3>3 DEF Shapes
    <3> QED BY <1>1, <1>4, <1>7, <2>1, <2>2, <2>3, <3>1, <3>3, <3>4
  <2> QED BY <2>2, <2>4, <2>5 DEF Mode
<1> QED BY <1>6, <1>7 DEF Begins

\* What Applies does: one more file is written, and the change leads where it did.
LEMMA AppliesEffect ==
  ASSUME VaultInv, NEW w \in Workers, Applies(w)
  PROVE  /\ Shapes' /\ op' = op /\ lock = w /\ lock' = lock
         /\ record # NoRecord /\ record' # NoRecord /\ record'.kind = record.kind
         /\ record'.entries = record.entries /\ record'.status = record.status
         /\ record.status = "staged"
         /\ Before' = Before /\ After' = After /\ Now' = Now
         /\ \A f \in Names \ Written(record.entries) : disk'[f] = disk[f]
<1>1. /\ Shapes /\ StoreInv /\ RecordShape(record) /\ lock = w /\ Linked(record, op[w])
      /\ w # NoWorker /\ IsDisk(disk)
  BY VaultAssumption DEF Applies, VaultInv, Ties, Tied, Shapes, StoreInv
<1>2. record # NoRecord /\ record.status = "staged" /\ record \in Records
      /\ record.done < Len(record.entries)
  BY <1>1 DEF Linked, RecordShape, Applies
<1>3. /\ record' \in Records /\ record'.kind = record.kind /\ record'.entries = record.entries
      /\ record'.status = record.status /\ record'.done = record.done + 1
      /\ record'.outer = record.outer
  <2>1. record' = [record EXCEPT !.done = @ + 1]
    BY DEF Applies
  <2> QED BY <1>2, <2>1 DEF Records
<1>4. record' # NoRecord
  BY <1>3 DEF Records, NoRecord
<1>5. RecordShape(record')
  BY <1>1, <1>2, <1>3 DEF RecordShape, Records
<1>6. disk' = Applied(record.entries, record'.done)
  BY <1>3 DEF Applies
<1>7. /\ StoreInv' /\ Before' = Before /\ After' = After
      /\ Now' = IF record'.status = "applied" THEN After ELSE Before
  BY <1>1, <1>2, <1>3, <1>4, <1>5, <1>6, StoreKeeps
<1>8. Now = Before
  BY <1>1, <1>2, Settled
<1>9. Shapes' /\ op' = op /\ lock' = lock
  BY <1>1, <1>7 DEF Shapes, Applies, memoryVars, OpsInv
<1>10. \A f \in Names \ Written(record.entries) : disk'[f] = disk[f]
  <2>1. record.entries \in Seq(Entries) /\ record'.done \in Nat
    BY <1>2, <1>3 DEF Records
  <2> QED BY <1>1, <1>6, <2>1, AppliedAt
<1> QED BY <1>1, <1>2, <1>3, <1>4, <1>7, <1>8, <1>9, <1>10

\* What Ends does: the change is done, and may leave its record behind, marked applied.
LEMMA EndsEffect ==
  ASSUME VaultInv, NEW w \in Workers, Ends(w)
  PROVE  /\ Shapes' /\ OnlyMoves(w) /\ op[w].at = "apply" /\ op'[w].at = "done"
         /\ lock = w /\ lock' = NoWorker /\ Linked(record, op[w]) /\ record.status = "staged"
         /\ disk = After /\ disk' = disk /\ Now' = After /\ Before' \in {Before, After}
         /\ After' = After /\ carried' = carried /\ up' = up /\ owner' = owner
         /\ \/ record' = NoRecord /\ Before' = After
            \/ /\ record' # NoRecord /\ record'.kind = record.kind
               /\ record'.entries = record.entries /\ record'.status = "applied"
               /\ record.kind \in {"rekey", "initialise"}
<1>1. /\ Shapes /\ StoreInv /\ RecordShape(record) /\ lock = w /\ Linked(record, op[w])
      /\ w # NoWorker /\ IsDisk(disk) /\ OpsInv /\ vault \in VaultContents
  BY VaultAssumption DEF Ends, VaultInv, Ties, Tied, Shapes, StoreInv
<1>2. record # NoRecord /\ record.status = "staged" /\ record \in Records
      /\ record.done = Len(record.entries) /\ op[w].at = "apply"
  BY <1>1 DEF Linked, RecordShape, Ends
<1>3. disk = After /\ disk' = disk
  BY <1>1, <1>2, Settled DEF Ends
<1>4. OpsInv' /\ OnlyMoves(w) /\ op'[w].at = "done"
  <2>1. Moves(w, "done") /\ op[w].at \in {"commit", "apply"} /\ OpsInv
    BY <1>1, <1>2 DEF Ends
  <2>2. OpsInv' /\ OnlyMoves(w) /\ op'[w].at = "done"
    BY <2>1, OpOnlyMoves
  <2> QED BY <2>2 DEF Ends
<1>5. vault' \in VaultContents /\ keys' \in Nat
  <2>1. op[w].candidate \in VaultContents
    BY <1>1 DEF OpsInv, OpShape, Ops
  <2> QED BY <1>1, <2>1 DEF Ends, PublishesInside, Shapes
<1>6. CASE record' = NoRecord
  <2>1. StoreInv' /\ Before' = disk' /\ After' = disk' /\ Now' = disk'
    BY <1>1, <1>3, <1>6, StoreSettles
  <2>2. Shapes'
    BY <1>4, <1>5, <2>1 DEF Shapes
  <2> QED BY <1>1, <1>2, <1>3, <1>4, <1>6, <2>1, <2>2 DEF Ends
<1>7. CASE Mode(record.kind) = "discard" /\ record' = [record EXCEPT !.status = "applied"]
  <2>1. /\ record' \in Records /\ record'.kind = record.kind /\ record'.entries = record.entries
        /\ record'.status = "applied" /\ record'.done = record.done
        /\ record'.outer = record.outer
    BY <1>2, <1>7 DEF Records
  <2>2. record' # NoRecord /\ record.kind \in {"rekey", "initialise"}
    BY <2>1, <1>7 DEF Records, NoRecord, Mode
  <2>3. RecordShape(record')
    BY <1>1, <1>2, <2>1, <2>2 DEF RecordShape, Records
  <2>4. disk' = Applied(record.entries, record'.done)
    BY <1>1, <1>2, <1>3, <2>1 DEF StoreInv, DiskLink
  <2>5. /\ StoreInv' /\ Before' = Before /\ After' = After
        /\ Now' = IF record'.status = "applied" THEN After ELSE Before
    BY <1>1, <1>2, <2>1, <2>2, <2>3, <2>4, StoreKeeps
  <2>6. Shapes'
    BY <1>4, <1>5, <2>5 DEF Shapes
  <2> QED BY <1>1, <1>2, <1>3, <1>4, <2>1, <2>2, <2>5, <2>6 DEF Ends
<1> QED BY <1>6, <1>7 DEF Ends

\* What Fails does: the change is rolled back, or stays for a recovery.
LEMMA FailsEffect ==
  ASSUME VaultInv, NEW w \in Workers, Fails(w)
  PROVE  /\ Shapes' /\ OnlyMoves(w) /\ op[w].at = "apply" /\ op'[w].at = "failed"
         /\ lock = w /\ lock' = NoWorker /\ Linked(record, op[w]) /\ record.status = "staged"
         /\ vault' = vault /\ Now' = Now /\ Before' = Before
         /\ \/ /\ record' = NoRecord /\ Mode(record.kind) # "plain" /\ disk' = Before
               /\ After' = Before
            \/ /\ UNCHANGED <<disk, record>> /\ After' = After
               /\ record.kind \notin {"rekey", "initialise"}
<1>1. /\ Shapes /\ StoreInv /\ RecordShape(record) /\ lock = w /\ Linked(record, op[w])
      /\ w # NoWorker /\ IsDisk(disk) /\ OpsInv /\ vault \in VaultContents /\ keys \in Nat
  BY VaultAssumption DEF Fails, VaultInv, Ties, Tied, Shapes, StoreInv
<1>2. record # NoRecord /\ record.status = "staged" /\ op[w].at = "apply"
  BY <1>1 DEF Linked, Fails
<1>3. OpsInv' /\ OnlyMoves(w) /\ op'[w].at = "failed" /\ vault' = vault /\ keys' = keys
  <2>1. Moves(w, "failed") /\ op[w].at \in {"commit", "apply"} /\ OpsInv
    BY <1>1, <1>2 DEF Fails
  <2>2. OpsInv' /\ OnlyMoves(w) /\ op'[w].at = "failed"
    BY <2>1, OpOnlyMoves
  <2> QED BY <2>2 DEF Fails
<1>4. Now = Before
  BY <1>1, <1>2, Settled
<1>5. CASE /\ Mode(record.kind) # "plain" /\ CanRollBack(record, vault.key)
           /\ disk' = Applied(record.entries, 0) /\ record' = NoRecord
  <2>1. disk' = Before
    BY <1>2, <1>5 DEF Before
  <2>2. StoreInv' /\ Before' = disk' /\ After' = disk' /\ Now' = disk'
    BY <1>1, <1>5, <2>1, StoreSettles
  <2>3. Shapes'
    BY <1>1, <1>3, <2>2 DEF Shapes
  <2> QED BY <1>1, <1>2, <1>3, <1>4, <1>5, <2>1, <2>2, <2>3 DEF Fails
<1>6. CASE /\ ~(Mode(record.kind) # "plain" /\ CanRollBack(record, vault.key))
           /\ UNCHANGED <<disk, record>>
  <2>1. StoreInv' /\ Before' = Before /\ After' = After /\ Now' = Now
    BY <1>1, <1>6, StoreStays
  <2>2. Shapes'
    BY <1>1, <1>3, <2>1 DEF Shapes
  <2>3. record.kind \notin {"rekey", "initialise"}
    BY <1>1, <1>2, <1>6 DEF RecordShape, CanRollBack, Mode
  <2> QED BY <1>1, <1>2, <1>3, <1>6, <2>1, <2>2, <2>3 DEF Fails
<1> QED BY <1>5, <1>6 DEF Fails

\* The contents of the files of a disk.
LEMMA DiskTypes ==
  ASSUME NEW d, IsDisk(d)
  PROVE  /\ d.vault \in VaultContents /\ d.local \in Int /\ d.library \in LibraryContents
         /\ d.settings \in SettingsContents /\ d.state \in Nat /\ d.journal \in JournalContents
         /\ d.backups \in SUBSET Generations /\ d.config = Plain
<1>1. \A f \in Names : d[f] \in Contents(f)
  BY DEF IsDisk
<1>2. Contents("config") = {Plain}
  BY ContentsOf
<1> QED BY <1>1, <1>2, ContentsOf DEF Names

OthersStay(w) == \A v \in Workers : v # w => op'[v] = op[v]

\* A request is served by an engine that runs.
LEMMA BusyUp ==
  ASSUME VaultInv, NEW w \in Workers, op[w].at # "idle"
  PROVE  up /\ op[w] # Idle
BY IdleShape DEF VaultInv, Ties

\* A worker is idle, or has a request of some kind.
LEMMA IdleAt ==
  ASSUME VaultInv, NEW w \in Workers
  PROVE  /\ op[w] = Idle <=> op[w].at = "idle"
         /\ op[w].kind = "none" <=> op[w].at = "idle"
         /\ op[w].kind = "recover" => op[w].at = "done"
<1>1. OpShape(op[w])
  BY DEF VaultInv, Shapes, OpsInv
<1> QED BY <1>1, IdleShape, OpParts DEF StagesOK

\* A step of one request that leaves the files, the record and the lock alone.
LEMMA OpStep ==
  ASSUME VaultInv, NEW w \in Workers, NEW o, OpShape(o), op' = [op EXCEPT ![w] = o],
         UNCHANGED <<disk, record, lock, up>>, up, op[w].at # "apply", o.at # "apply",
         vault' \in VaultContents, keys' \in Nat, owner' \in Workers \cup {NoWorker},
         o.kind \in Owners => owner' = w,
         \A v \in Workers : v # w /\ owner = v => owner' = v
  PROVE  VaultInv' /\ op'[w] = o /\ OthersStay(w)
<1>1. OpsInv' /\ op'[w] = o /\ OthersStay(w)
  BY OpSet DEF VaultInv, Shapes, OthersStay
<1>2. StoreInv'
  BY StoreStays DEF VaultInv, Shapes
<1>3. Shapes'
  BY <1>1, <1>2 DEF Shapes
<1>4. \A v \in Workers : v # w => Tied(v)'
  BY <1>1 DEF OthersStay, VaultInv, Ties, Tied
<1>5. Tied(w)'
  BY <1>1 DEF VaultInv, Ties, Tied
<1>6. lock # NoWorker => lock # w /\ lock \in Workers
  BY DEF VaultInv, Ties, Tied
<1>7. lock' # NoWorker => Linked(record', op'[lock'])
  BY <1>1, <1>6 DEF VaultInv, Ties, OthersStay
<1>8. up' /\ Discards(record') => lock' # NoWorker
  BY DEF VaultInv, Ties
<1>9. Ties'
  BY <1>4, <1>5, <1>7, <1>8 DEF VaultInv, Ties
<1> QED BY <1>1, <1>3, <1>9 DEF VaultInv

\* The requests that have something to publish or to read again.
Publishers == {"save", "initialise", "pull", "restore", "recover"}

\* What a pull asks for is what it was given.
PullEntries(w) ==
  \A i \in DOMAIN op'[w].entries :
     op'[w].entries[i].file = "vault" =>
       op'[w].entries[i].new.key = vault.key /\ op'[w].entries[i].old = disk.vault

\* Nothing but the request of w changes, and it has nothing to publish.
NoNews(w) ==
  /\ UNCHANGED <<disk, record, lock, up, vault, saved, overtaken, carried>>
  /\ OthersStay(w) /\ op[w].at # "apply" /\ op'[w].at # "apply"
  /\ op[w].at # "done" \/ op[w].kind \notin Publishers
  /\ op'[w].at # "done"
  /\ op'[w].kind = "pull" =>
       \/ op[w].kind = "pull" /\ op'[w].entries = op[w].entries
       \/ vault # Closed /\ PullEntries(w) /\ owner = NoWorker

\* A rotation and the states that are recorded see nothing of it.
StaysRotated(w) ==
  /\ op'[w].kind = "rotated" <=> op[w].kind = "rotated"
  /\ op'[w].entries # op[w].entries => "state" \notin Written(op'[w].entries)

\* Only a pull and a rotation record a state.
LEMMA StateKinds ==
  ASSUME NEW o, OpShape(o), "state" \in Written(o.entries)
  PROVE  o.kind \in {"pull", "rotated", "recover"}
<1>1. o.kind \in Kinds /\ (o.kind = "none" => o = Idle)
  BY OpParts DEF StagesOK
<1>2. o.kind # "none"
  BY <1>1, IdleShape, NoEntries
<1> QED BY <1>1, <1>2 DEF OpShape, SavesOK, InitialisesOK, RekeysOK, SettingsOK, OthersOK, Kinds,
             KeyBound

\* A worker without a request gets one.
LEMMA AsksStep ==
  ASSUME VaultInv, NEW w \in Workers, op[w] = Idle, up, NEW o, OpShape(o),
         op' = [op EXCEPT ![w] = o], o.at \in {"commit", "read", "call"},
         UNCHANGED <<storageVars, vault, up, ghostVars>>, keys' \in Nat,
         \/ owner = NoWorker /\ owner' = w
         \/ owner' = owner /\ o.kind \notin Owners
  PROVE  /\ VaultInv' /\ op'[w] = o /\ OthersStay(w)
         /\ o.kind # "pull" => NoNews(w)
         /\ o.kind \notin {"pull", "rotated"} => StaysRotated(w)
         /\ op[w].kind = "none"
<1>1. op[w].at = "idle" /\ op[w].kind = "none"
  BY IdleShape
<1>2. /\ VaultInv' /\ op'[w] = o /\ OthersStay(w)
  <2>1. vault' \in VaultContents /\ owner \in Workers \cup {NoWorker} /\ NoWorker \notin Workers
    BY VaultAssumption DEF VaultInv, Ties, Shapes
  <2>2. owner' \in Workers \cup {NoWorker} /\ (o.kind \in Owners => owner' = w)
    BY <2>1
  <2>3. \A v \in Workers : v # w /\ owner = v => owner' = v
    BY <2>1
  <2> QED BY <1>1, <2>1, <2>2, <2>3, OpStep DEF storageVars
<1>3. "state" \in Written(o.entries) => o.kind \in {"pull", "rotated", "recover"}
  BY StateKinds
<1>4. o.kind # "recover"
  BY OpParts DEF StagesOK
<1>5. o.kind # "pull" => NoNews(w)
  BY <1>1, <1>2 DEF NoNews, storageVars, ghostVars
<1> QED BY <1>1, <1>2, <1>3, <1>4, <1>5 DEF StaysRotated

\* A first vault is asked for ...
LEMMA InitialiseEffect ==
  ASSUME VaultInv, NEW w \in Workers, NEW sign \in {1, -1}, Initialise(w, sign)
  PROVE  VaultInv' /\ NoNews(w) /\ StaysRotated(w)
<1> DEFINE key == sign * (keys + 1)
           o == New("initialise", <<Entry("vault", Missing, Sealed(key, {})),
                                    Entry("local", disk.local, LocalFor(key))>>, Sealed(key, {}))
<1>1. keys \in Nat /\ key \in Int \ {0} /\ disk.local \in Int
  BY DiskTypes DEF VaultInv, Shapes, StoreInv
<1>2. OpShape(o)
  BY <1>1, InitialiseShape
<1>3. op' = [op EXCEPT ![w] = o]
  BY DEF Initialise, Goes, New
<1>4. o.kind = "initialise" /\ o.at = "commit"
  BY DEF New
<1>5. /\ op[w] = Idle /\ up /\ UNCHANGED <<storageVars, vault, up, ghostVars>>
      /\ keys' \in Nat /\ owner = NoWorker /\ owner' = w
  BY <1>1 DEF Initialise, Asks, Holds
<1> HIDE DEF o
<1> QED BY <1>2, <1>3, <1>4, <1>5, AsksStep

\* ... or a secret is saved ...
LEMMA SaveEffect ==
  ASSUME VaultInv, NEW w \in Workers, NEW s \in Secrets, Save(w, s)
  PROVE  VaultInv' /\ NoNews(w) /\ StaysRotated(w)
<1> DEFINE body == IF s \in vault.body THEN vault.body \ {s} ELSE vault.body \cup {s}
           clone == Sealed(vault.key, body)
           o == New("save", <<Entry("vault", vault, clone)>>, clone)
<1>1. /\ vault \in VaultContents /\ vault # Missing /\ vault.key # 0 /\ vault.key \in Int
      /\ body \in SUBSET Secrets
  BY DEF VaultInv, Shapes, VaultContents, Save, Closed
<1>2. clone \in VaultContents /\ clone.key = vault.key
  BY <1>1, SealedIn
<1> HIDE DEF clone
<1>3. OpShape(o)
  BY <1>1, <1>2, SaveShape
<1>4. op' = [op EXCEPT ![w] = o]
  BY DEF Save, Goes, New, clone
<1>5. o.kind = "save" /\ o.at = "commit"
  BY DEF New
<1>6. /\ op[w] = Idle /\ up /\ UNCHANGED <<storageVars, vault, up, ghostVars>>
      /\ keys' \in Nat /\ owner = NoWorker /\ owner' = w
  BY <1>1 DEF Save, Asks, Holds, VaultInv, Shapes
<1> HIDE DEF o
<1> QED BY <1>3, <1>4, <1>5, <1>6, AsksStep

\* ... or the password is changed ...
LEMMA ChangeEffect ==
  ASSUME VaultInv, NEW w \in Workers, NEW sign \in {1, -1}, ChangeMasterPassword(w, sign)
  PROVE  VaultInv' /\ NoNews(w) /\ StaysRotated(w)
<1> DEFINE key == sign * (keys + 1)
           new == Sealed(key, vault.body)
           o == New("rekey", <<Entry("local", disk.local, LocalFor(new.key))>>, new)
<1>1. keys \in Nat /\ key \in Int \ {0} /\ disk.local \in Int /\ vault.body \in SUBSET Secrets
  BY DiskTypes DEF VaultInv, Shapes, StoreInv, VaultContents
<1>2. new \in VaultContents /\ new.key = key
  BY <1>1, SealedIn
<1>3. op' = [op EXCEPT ![w] = o]
  BY <1>2 DEF ChangeMasterPassword, Goes, New
<1> HIDE DEF new
<1>4. OpShape(o)
  BY <1>1, <1>2, RekeyShape
<1>5. o.kind = "rekey" /\ o.at = "commit"
  BY DEF New
<1>6. /\ op[w] = Idle /\ up /\ UNCHANGED <<storageVars, vault, up, ghostVars>>
      /\ keys' \in Nat /\ owner = NoWorker /\ owner' = w
  BY <1>1 DEF ChangeMasterPassword, Asks, Holds
<1> HIDE DEF o
<1> QED BY <1>3, <1>4, <1>5, <1>6, AsksStep

\* The settings are sealed with the key in memory, and so is what replaces them.
LEMMA WriteSettingsShape ==
  ASSUME VaultInv, NEW w \in Workers, NEW kind \in {"settings", "rotated"},
         NEW body \in SettingsBodies, WriteSettings(w, kind, body)
  PROVE  \E o : /\ OpShape(o) /\ o.kind = kind /\ o.at = "commit"
                /\ op' = [op EXCEPT ![w] = o]
<1> DEFINE new == Sealed(vault.key, body)
           o == New(kind, <<Entry("settings", disk.settings, new)>>, Missing)
<1>1. /\ vault.key \in Int \ {0} /\ disk.settings \in SettingsContents
      /\ disk.settings.key = vault.key
  BY DiskTypes DEF VaultInv, Shapes, StoreInv, VaultContents, WriteSettings, Closed
<1>2. new \in SettingsContents /\ new.key = vault.key
  BY <1>1, SealedIn
<1>3. op' = [op EXCEPT ![w] = o]
  BY DEF WriteSettings, Goes, New
<1> HIDE DEF new
<1>4. OpShape(o)
  BY <1>1, <1>2, SettingsShape, ContentsOf
<1>5. o.kind = kind /\ o.at = "commit"
  BY DEF New
<1> QED BY <1>3, <1>4, <1>5

\* ... or the settings ...
LEMMA SetSyncSettingsEffect ==
  ASSUME VaultInv, NEW w \in Workers, SetSyncSettings(w)
  PROVE  VaultInv' /\ NoNews(w) /\ StaysRotated(w)
<1>1. PICK region \in {disk.settings.body.region, 1 - disk.settings.body.region} :
        WriteSettings(w, "settings", [disk.settings.body EXCEPT !.region = region])
  BY DEF SetSyncSettings
<1> DEFINE body == [disk.settings.body EXCEPT !.region = region]
<1>2. body \in SettingsBodies
  <2>1. disk.settings \in SettingsContents /\ disk.settings.key # 0
    BY <1>1, DiskTypes DEF VaultInv, Shapes, StoreInv, VaultContents, WriteSettings, Closed
  <2>2. disk.settings.body \in SettingsBodies
    BY <2>1, MissingIn DEF SettingsContents
  <2> QED BY <2>2 DEF SettingsBodies
<1> HIDE DEF body
<1>3. PICK o : OpShape(o) /\ o.kind = "settings" /\ o.at = "commit" /\ op' = [op EXCEPT ![w] = o]
  BY <1>1, <1>2, WriteSettingsShape DEF body
<1>4. /\ op[w] = Idle /\ up /\ UNCHANGED <<storageVars, vault, up, ghostVars>>
      /\ keys' \in Nat /\ owner = NoWorker /\ owner' = w
  BY <1>1 DEF SetSyncSettings, Asks, WriteSettings, Holds, VaultInv, Shapes
<1> QED BY <1>3, <1>4, AsksStep

\* ... or a file that nothing seals ...
LEMMA SaveConfigEffect ==
  ASSUME VaultInv, NEW w \in Workers, SaveConfig(w)
  PROVE  VaultInv' /\ NoNews(w) /\ StaysRotated(w)
<1> DEFINE o == New("config", <<Entry("config", Plain, Plain)>>, Missing)
<1>1. OpShape(o)
  BY ConfigShape
<1>2. op' = [op EXCEPT ![w] = o] /\ o.kind = "config" /\ o.at = "commit"
  BY DEF SaveConfig, Goes, New
<1>3. /\ op[w] = Idle /\ up /\ UNCHANGED <<storageVars, vault, up, ghostVars>>
      /\ keys' \in Nat /\ owner' = owner
  BY DEF SaveConfig, Asks, VaultInv, Shapes
<1> HIDE DEF o
<1> QED BY <1>1, <1>2, <1>3, AsksStep DEF Owners

\* ... or a generation is to be restored ...
LEMMA RestoreEffect ==
  ASSUME VaultInv, NEW w \in Workers, NEW b \in disk.backups, Restore(w, b)
  PROVE  VaultInv' /\ NoNews(w) /\ StaysRotated(w)
<1> DEFINE o == [kind |-> "restore", at |-> "read", entries |-> <<Entry(b.file, Missing, b.was)>>,
                 candidate |-> Missing]
<1>1. b \in Generations /\ b.file \in KeyBound
  BY DiskTypes DEF Restore, VaultInv, Shapes, StoreInv
<1>2. b.was \in Contents(b.file) /\ Missing \in Contents(b.file)
  BY <1>1, GenerationOf, ContentsOf, MissingIn
<1>3. OpShape(o)
  BY <1>1, <1>2, RestoreShape
<1>4. op' = [op EXCEPT ![w] = o] /\ o.kind = "restore" /\ o.at = "read"
  BY DEF Restore
<1>5. /\ op[w] = Idle /\ up /\ UNCHANGED <<storageVars, vault, up, ghostVars>>
      /\ keys' \in Nat /\ owner' = owner
  BY DEF Restore, Asks, VaultInv, Shapes
<1> HIDE DEF o
<1> QED BY <1>3, <1>4, <1>5, AsksStep DEF Owners

\* ... or the files of another machine have come.
LEMMA PullEffect ==
  ASSUME VaultInv, NEW w \in Workers, NEW state \in Nat, Pull(w, state)
  PROVE  /\ VaultInv' /\ NoNews(w) /\ op[w].kind = "none" /\ op'[w].kind = "pull"
         /\ \A i \in DOMAIN op'[w].entries :
              op'[w].entries[i].file = "state" => op'[w].entries[i].new = state
<1> DEFINE e == Entry("vault", disk.vault, Sealed(vault.key, Travelled))
           o == New("pull", <<Entry("library", disk.library, Sealed(vault.key, {})), e,
                              Entry("state", disk.state, state)>>, Missing)
<1>1. /\ vault.key \in Int \ {0} /\ disk.library \in LibraryContents
      /\ disk.vault \in VaultContents /\ disk.state \in Nat
  BY DiskTypes DEF VaultInv, Shapes, StoreInv, VaultContents, Pull, Closed
<1>2. OpShape(o)
  BY <1>1, PullShape
<1>3. op' = [op EXCEPT ![w] = o] /\ o.kind = "pull" /\ o.at = "commit"
  BY DEF Pull, Goes, New
<1>4. /\ op[w] = Idle /\ up /\ UNCHANGED <<storageVars, vault, up, ghostVars>>
      /\ keys' \in Nat /\ owner = NoWorker /\ owner' = w /\ vault # Closed
  BY DEF Pull, Asks, Holds, VaultInv, Shapes
<1>5. \A i \in DOMAIN o.entries : o.entries[i].file = "vault" => o.entries[i] = e
  BY DEF New, Entry
<1>6. e.old = disk.vault /\ e.new.key = vault.key
  BY <1>1, SealedIn DEF Entry
<1>10. \A i \in DOMAIN o.entries : o.entries[i].file = "state" => o.entries[i].new = state
  BY DEF New, Entry
<1> HIDE DEF o, e
<1>7. VaultInv' /\ op'[w] = o /\ OthersStay(w) /\ op[w].kind = "none"
  BY <1>2, <1>3, <1>4, AsksStep
<1>8. PullEntries(w)
  BY <1>5, <1>6, <1>7 DEF PullEntries
<1>9. op[w].at = "idle"
  BY <1>4, IdleShape
<1>11. NoNews(w)
  BY <1>3, <1>4, <1>7, <1>8, <1>9 DEF NoNews, storageVars, ghostVars
<1> QED BY <1>3, <1>7, <1>10, <1>11

\* A restore reads the file that it will replace.
LEMMA RestoreReadsEffect ==
  ASSUME VaultInv, NEW w \in Workers, RestoreReads(w)
  PROVE  VaultInv' /\ NoNews(w) /\ StaysRotated(w)
<1> DEFINE x == disk[op[w].entries[1].file]
           o == [op[w] EXCEPT !.at = "commit", !.entries[1].old = x]
<1>1. /\ OpShape(op[w]) /\ op[w].at = "read" /\ op[w] \in Ops /\ IsDisk(disk)
      /\ owner \in Workers \cup {NoWorker} /\ NoWorker \notin Workers
  BY VaultAssumption DEF VaultInv, Shapes, OpsInv, RestoreReads, StoreInv, Ties
<1>2. /\ op[w].kind = "restore" /\ Len(op[w].entries) = 1 /\ op[w].entries \in Seq(Entries)
      /\ Written(op[w].entries) \subseteq KeyBound
  BY <1>1, OpParts DEF OpShape, StagesOK, OthersOK
<1> DEFINE e == op[w].entries[1]
           s == <<Entry(e.file, x, e.new)>>
<1>3. op[w].entries = <<e>> /\ e \in Entries /\ e.file \in KeyBound
  BY <1>2 DEF Written
<1>4. e.new \in Contents(e.file) /\ x \in Contents(e.file) /\ e = Entry(e.file, e.old, e.new)
  BY <1>1, <1>3, EntryOf DEF IsDisk
<1>5. [op[w].entries EXCEPT ![1].old = x] = s
  <2>1. [e EXCEPT !.old = x] = Entry(e.file, x, e.new)
    BY <1>4 DEF Entry
  <2>2. [op[w].entries EXCEPT ![1].old = x] = <<[e EXCEPT !.old = x]>>
    BY <1>3
  <2> QED BY <2>1, <2>2
<1>6. /\ o.kind = "restore" /\ o.at = "commit" /\ o.entries = s
      /\ o.candidate = op[w].candidate
  BY <1>1, <1>2, <1>5 DEF Ops
<1>7. OpShape(o)
  <2> DEFINE r == [kind |-> "restore", at |-> "commit", entries |-> s, candidate |-> Missing]
  <2>1. OpShape(r) /\ r.entries = s
    BY <1>3, <1>4, RestoreShape
  <2>2. s \in Seq(Entries) /\ Written(s) \subseteq KeyBound
    BY <2>1 DEF OpShape, Ops, OthersOK
  <2>3. o \in Ops
    BY <1>1, <1>6, <2>2 DEF Ops, Ats, Kinds
  <2> HIDE DEF o, s, r
  <2> QED BY <1>6, <2>2, <2>3 DEF OpShape, SavesOK, InitialisesOK, RekeysOK, SettingsOK,
               PullsOK, OthersOK, StagesOK
<1>8. op' = [op EXCEPT ![w] = o]
  BY DEF RestoreReads
<1> HIDE DEF o
<1>9. /\ UNCHANGED <<storageVars, vault, owner, up, keys, ghostVars>>
      /\ op[w].at # "apply" /\ o.at # "apply" /\ op[w].at # "idle"
  BY <1>1, <1>6 DEF RestoreReads
<1>10. VaultInv' /\ op'[w] = o /\ OthersStay(w)
  <2>1. up
    BY <1>9, BusyUp
  <2>2. vault' \in VaultContents /\ keys' \in Nat
    BY <1>9 DEF VaultInv, Shapes
  <2>3. o.kind \in Owners => owner' = w
    BY <1>6 DEF Owners
  <2> QED BY <1>1, <1>7, <1>8, <1>9, <2>1, <2>2, <2>3, OpStep DEF storageVars
<1>11. "state" \notin Written(o.entries)
  BY <1>6, <1>7, StateKinds
<1> QED BY <1>1, <1>2, <1>6, <1>9, <1>10, <1>11 DEF NoNews, StaysRotated, storageVars, ghostVars

\* A request fails, or has read back what there was to read, and goes on.
LEMMA MovesStep ==
  ASSUME VaultInv, NEW w \in Workers, NEW at \in {"done", "failed", "lock"},
         op[w].at = "commit" \/ (op[w].at = "done" /\ op[w].kind = "restore"),
         at = "lock" => op[w].kind = "restore", Moves(w, at),
         UNCHANGED <<storageVars, up, owner, keys>>, vault' \in VaultContents
  PROVE  VaultInv' /\ OnlyMoves(w) /\ op'[w].at = at
<1>1. OpShape(op[w]) /\ owner \in Workers \cup {NoWorker} /\ keys \in Nat
      /\ (op[w].kind \in Owners => owner = w)
  BY DEF VaultInv, Shapes, OpsInv, Ties, Tied
<1> DEFINE p == [op[w] EXCEPT !.at = at]
<1>2. /\ OpShape(p) /\ p.at = at /\ p.kind = op[w].kind /\ p.entries = op[w].entries
      /\ p.candidate = op[w].candidate
  <2>1. PICK o : o = op[w]
    OBVIOUS
  <2>2. /\ OpShape(o) /\ at \in {"apply", "done", "failed", "lock"}
        /\ o.at \in {"commit", "apply"} \/ (o.at = "done" /\ o.kind = "restore")
        /\ at = "lock" => o.kind = "restore"
    BY <1>1, <2>1
  <2>3. LET q == [o EXCEPT !.at = at]
        IN  OpShape(q) /\ q.at = at /\ q.kind = o.kind /\ q.entries = o.entries
            /\ q.candidate = o.candidate
    BY <2>2, MovedShape
  <2> QED BY <2>1, <2>3
<1>3. op' = [op EXCEPT ![w] = p]
  BY DEF Moves
<1> HIDE DEF p
<1>4. up
  BY BusyUp
<1>5. VaultInv' /\ op'[w] = p /\ OthersStay(w)
  BY <1>1, <1>2, <1>3, <1>4, OpStep DEF storageVars
<1> QED BY <1>2, <1>5 DEF OnlyMoves, OthersStay

\* A request is refused: what it would replace has changed, or something is pending.
LEMMA RefusedEffect ==
  ASSUME VaultInv, NEW w \in Workers, Refused(w)
  PROVE  VaultInv' /\ NoNews(w) /\ StaysRotated(w)
<1>1. /\ op[w].at = "commit" /\ Moves(w, "failed")
      /\ UNCHANGED <<storageVars, vault, owner, up, keys, ghostVars>>
  BY DEF Refused
<1>2. vault' \in VaultContents
  BY <1>1 DEF VaultInv, Shapes
<1>3. VaultInv' /\ OnlyMoves(w) /\ op'[w].at = "failed"
  BY <1>1, <1>2, MovesStep
<1> QED BY <1>1, <1>3 DEF NoNews, StaysRotated, OnlyMoves, OthersStay, storageVars, ghostVars

\* A request is over.
LEMMA FinishStep ==
  ASSUME VaultInv, NEW w \in Workers, op[w].at \notin {"idle", "apply"}, Finish(w),
         UNCHANGED <<storageVars, up, keys>>, vault' \in VaultContents
  PROVE  VaultInv' /\ op'[w] = Idle /\ OthersStay(w)
<1>1. OpShape(Idle) /\ Idle.at = "idle" /\ Idle.kind \notin Owners
  BY IdleShape DEF Owners
<1>2. up /\ owner' \in Workers \cup {NoWorker} /\ keys \in Nat
  BY BusyUp DEF Finish, Released, VaultInv, Ties, Shapes
<1>3. \A v \in Workers : v # w /\ owner = v => owner' = v
  BY DEF Finish, Released
<1>4. op' = [op EXCEPT ![w] = Idle]
  BY DEF Finish
<1> QED BY <1>1, <1>2, <1>3, <1>4, OpStep DEF storageVars

\* A request returns, with nothing to publish.
LEMMA ReturnsEffect ==
  ASSUME VaultInv, NEW w \in Workers, Returns(w)
  PROVE  VaultInv' /\ NoNews(w) /\ StaysRotated(w)
<1>1. /\ op[w].at \in {"failed", "done"} /\ Finish(w)
      /\ UNCHANGED <<storageVars, vault, up, keys, ghostVars>>
      /\ op[w].at # "done" \/ op[w].kind \notin Publishers
      /\ op[w].kind # "rotated"
  BY DEF Returns, Publishers
<1>2. vault' \in VaultContents
  BY <1>1 DEF VaultInv, Shapes
<1>3. VaultInv' /\ op'[w] = Idle /\ OthersStay(w)
  BY <1>1, <1>2, FinishStep
<1> QED BY <1>1, <1>3, IdleShape, NoEntries DEF NoNews, StaysRotated, storageVars, ghostVars

-----------------------------------------------------------------------------
(* The steps of the commit *)

\* A change begins,
LEMMA BeginsKeeps ==
  ASSUME VaultInv, NEW w \in Workers, Begins(w)
  PROVE  VaultInv'
<1>1. /\ Shapes' /\ OnlyMoves(w) /\ op[w].at = "commit" /\ lock = NoWorker
      /\ BuiltOK(op[w], Built(w)) /\ owner' = owner /\ up' = up
      /\ record' # NoRecord =>
           /\ record'.kind = op[w].kind /\ record'.entries = Built(w)
           /\ record'.status \in {"staging", "staged"}
      /\ \/ /\ op'[w].at = "apply" /\ lock' = w /\ record' # NoRecord
            /\ record'.status = "staged"
         \/ /\ op'[w].at = "failed" /\ lock' = lock
            /\ record' # NoRecord => record'.status = "staging"
            /\ Mode(op[w].kind) # "discard"
  BY BeginsEffect
<1>2. up /\ NoWorker \notin Workers /\ Ties
  BY <1>1, BusyUp, VaultAssumption DEF VaultInv
<1>3. \A v \in Workers : Tied(v)'
  BY <1>1, <1>2 DEF Ties, Tied, OnlyMoves
<1>4. lock' # NoWorker => Linked(record', op'[lock'])
  BY <1>1, <1>2 DEF Linked, OnlyMoves, BuiltOK
<1>5. up' /\ Discards(record') => lock' # NoWorker
  BY <1>1, <1>2 DEF Discards, Mode
<1>6. Ties'
  BY <1>1, <1>2, <1>3, <1>4, <1>5 DEF Ties
<1> QED BY <1>1, <1>6 DEF VaultInv

\* is applied file by file,
LEMMA AppliesKeeps ==
  ASSUME VaultInv, NEW w \in Workers, Applies(w)
  PROVE  VaultInv'
<1>1. /\ Shapes' /\ op' = op /\ lock = w /\ lock' = lock
      /\ record # NoRecord /\ record' # NoRecord /\ record'.kind = record.kind
      /\ record'.entries = record.entries /\ record'.status = record.status
  BY AppliesEffect
<1>2. /\ UNCHANGED <<owner, up, vault>> /\ Ties /\ w # NoWorker
  BY VaultAssumption DEF Applies, memoryVars, VaultInv
<1>3. Linked(record', op'[lock'])
  BY <1>1, <1>2 DEF Ties, Linked
<1>4. Ties'
  BY <1>1, <1>2, <1>3 DEF Ties, Tied
<1> QED BY <1>1, <1>4 DEF VaultInv

\* ends,
LEMMA EndsKeeps ==
  ASSUME VaultInv, NEW w \in Workers, Ends(w)
  PROVE  VaultInv'
<1>1. /\ Shapes' /\ OnlyMoves(w) /\ op[w].at = "apply" /\ op'[w].at = "done"
      /\ lock = w /\ lock' = NoWorker /\ up' = up /\ owner' = owner
      /\ record' = NoRecord \/ record'.status = "applied"
  BY EndsEffect
<1>2. up /\ NoWorker \notin Workers /\ Ties
  BY <1>1, BusyUp, VaultAssumption DEF VaultInv
<1>3. \A v \in Workers : Tied(v)'
  BY <1>1, <1>2 DEF Ties, Tied, OnlyMoves
<1>4. Ties'
  BY <1>1, <1>2, <1>3 DEF Ties, Discards
<1> QED BY <1>1, <1>4 DEF VaultInv

\* or fails.
LEMMA FailsKeeps ==
  ASSUME VaultInv, NEW w \in Workers, Fails(w)
  PROVE  VaultInv'
<1>1. /\ Shapes' /\ OnlyMoves(w) /\ op[w].at = "apply" /\ op'[w].at = "failed"
      /\ lock = w /\ lock' = NoWorker
      /\ record' = NoRecord \/ (record' = record /\ record.kind \notin {"rekey", "initialise"})
  BY FailsEffect
<1>2. up /\ NoWorker \notin Workers /\ Ties /\ UNCHANGED <<owner, up>>
  BY <1>1, BusyUp, VaultAssumption DEF VaultInv, Fails
<1>3. \A v \in Workers : Tied(v)'
  BY <1>1, <1>2 DEF Ties, Tied, OnlyMoves
<1>4. Ties'
  BY <1>1, <1>2, <1>3 DEF Ties, Discards
<1> QED BY <1>1, <1>4 DEF VaultInv

-----------------------------------------------------------------------------
(* The vault in memory *)

\* A save or a first vault is published to memory.
LEMMA PublishesKeeps ==
  ASSUME VaultInv, NEW w \in Workers, Publishes(w)
  PROVE  VaultInv' /\ op'[w] = Idle /\ OthersStay(w)
<1>1. /\ op[w].at \notin {"idle", "apply"} /\ Finish(w) /\ UNCHANGED <<storageVars, up, keys>>
  BY DEF Publishes
<1>2. vault' \in VaultContents
  BY DEF Publishes, VaultInv, Shapes, OpsInv, Ops
<1> QED BY <1>1, <1>2, FinishStep

\* The vault in memory is read again after a pull, a restore or a recovery.
LEMMA ReloadsKeeps ==
  ASSUME VaultInv, NEW w \in Workers, Reloads(w)
  PROVE  /\ VaultInv' /\ OthersStay(w)
         /\ \/ op'[w] = Idle
            \/ op'[w].at = "lock" /\ op'[w].kind = "restore"
<1>1. /\ op[w].at = "done" /\ UNCHANGED <<storageVars, up, keys>>
  BY DEF Reloads
<1>2. vault' \in VaultContents
  <2>1. vault \in VaultContents /\ disk.vault \in VaultContents
    BY DiskTypes DEF VaultInv, Shapes, StoreInv
  <2> QED BY <2>1 DEF Reloads, Reload
<1>3. CASE Finish(w)
  BY <1>1, <1>2, <1>3, FinishStep
<1>4. CASE op[w].kind = "restore" /\ Moves(w, "lock") /\ UNCHANGED owner
  <2>1. VaultInv' /\ OnlyMoves(w) /\ op'[w].at = "lock"
    BY <1>1, <1>2, <1>4, MovesStep
  <2> QED BY <1>4, <2>1 DEF OnlyMoves, OthersStay
<1> QED BY <1>3, <1>4 DEF Reloads

\* The vault is locked after a restore whose contents this key does not open.
LEMMA LocksKeeps ==
  ASSUME VaultInv, NEW w \in Workers, LocksAfterRestore(w)
  PROVE  VaultInv' /\ op'[w] = Idle /\ OthersStay(w)
<1>1. /\ op[w].at = "lock" /\ Finish(w) /\ UNCHANGED <<storageVars, up, keys>>
      /\ vault' \in VaultContents
  BY MissingIn DEF LocksAfterRestore, Closed
<1> QED BY <1>1, FinishStep

\* Only the memory changes.
LEMMA MemoryStep ==
  ASSUME VaultInv, UNCHANGED <<storageVars, owner, op, up, keys>>, vault' \in VaultContents,
         up \/ vault' = vault
  PROVE  VaultInv' /\ Before' = Before /\ After' = After /\ Now' = Now
<1>1. StoreInv' /\ Before' = Before /\ After' = After /\ Now' = Now
  BY StoreStays DEF VaultInv, Shapes, storageVars
<1>2. Shapes'
  BY <1>1 DEF VaultInv, Shapes, OpsInv
<1>3. Ties'
  BY DEF VaultInv, Ties, Tied, storageVars
<1> QED BY <1>1, <1>2, <1>3 DEF VaultInv

\* The idle timer closes the vault.
LEMMA IdleClosesKeeps ==
  ASSUME VaultInv, IdleCloses
  PROVE  VaultInv' /\ Before' = Before /\ After' = After /\ Now' = Now
<1>1. vault' \in VaultContents
  BY MissingIn DEF IdleCloses, Closed
<1>2. up
  BY MissingIn DEF IdleCloses, VaultInv, Ties, Closed
<1> QED BY <1>1, <1>2, MemoryStep DEF IdleCloses

\* The vault is unlocked with the password.
LEMMA UnlockKeeps ==
  ASSUME VaultInv, Unlock
  PROVE  VaultInv' /\ Before' = Before /\ After' = After /\ Now' = Now
<1>1. vault' \in VaultContents
  BY DiskTypes DEF Unlock, VaultInv, Shapes, StoreInv
<1> QED BY <1>1, MemoryStep DEF Unlock

(* Steps that settle the pending change, or write beside it *)

\* A change of password or a first vault left over is settled, whatever else is pending.
LEMMA SettledFirstIs ==
  ASSUME StoreInv
  PROVE  /\ SettledFirst \in {Now, disk}
         /\ SettledFirst.local = Now.local
         /\ BeforeUnlock => record # NoRecord /\ SettledFirst = Now
         /\ ~BeforeUnlock => SettledFirst = disk /\ ~Discards(record)
<1>1. /\ IsDisk(disk)
      /\ record = NoRecord => Now = disk
      /\ record # NoRecord =>
           /\ record.status = "applied" => Now = After
           /\ record.status # "applied" => Now = Before
           /\ NowhereElse(record.entries)
  BY Settled DEF StoreInv
<1>2. BeforeUnlock => record # NoRecord
  BY DEF BeforeUnlock, NoRecord
<1>3. BeforeUnlock => SettledFirst = Now
  <2> SUFFICES ASSUME BeforeUnlock PROVE SettledFirst = Now
    OBVIOUS
  <2>1. record # NoRecord /\ RecordShape(record)
    BY <1>2 DEF StoreInv
  <2>2. SettledFirst = IF record.status = "applied" THEN After ELSE Before
    BY <2>1 DEF SettledFirst, Before, After
  <2> QED BY <1>1, <2>1, <2>2
<1>4. ~BeforeUnlock => SettledFirst = disk /\ ~Discards(record)
  BY DEF SettledFirst, BeforeUnlock, Discards
<1>5. ~BeforeUnlock => disk.local = Now.local
  <2> SUFFICES ASSUME ~BeforeUnlock, record # NoRecord PROVE disk.local = Now.local
    BY <1>1
  <2>1. "local" \notin Written(record.entries)
    BY DEF BeforeUnlock, StoreInv, RecordShape
  <2>2. "local" \in Names \ Written(record.entries)
    BY <2>1 DEF Names
  <2> QED BY <1>1, <2>2 DEF NowhereElse
<1> QED BY <1>2, <1>3, <1>4, <1>5

\* What AutoUnlock does: it settles a change of password first, and opens the vault.
LEMMA AutoUnlockEffect ==
  ASSUME StoreInv, vault \in VaultContents, AutoUnlock
  PROVE  /\ StoreInv' /\ Now' = Now /\ vault' \in VaultContents
         /\ ~Discards(record')
         /\ \/ UNCHANGED <<disk, record>> /\ Before' = Before /\ After' = After
            \/ record' = NoRecord /\ disk' = Now
         /\ vault' = IF AutoUnlocks THEN disk'.vault ELSE vault
<1> DEFINE afterwards == AutoUnlocks /\ ~BeforeUnlock /\ record.kind = "save"
           final == IF afterwards THEN Applied(record.entries, 0) ELSE SettledFirst
<1>1. /\ disk' = final
      /\ record' = IF BeforeUnlock \/ afterwards THEN NoRecord ELSE record
      /\ vault' = IF AutoUnlocks THEN final.vault ELSE vault
  BY DEF AutoUnlock
<1>2. /\ BeforeUnlock => SettledFirst = Now
      /\ ~BeforeUnlock => SettledFirst = disk /\ ~Discards(record)
      /\ IsDisk(Now) /\ Now \in {Before, After}
  BY SettledFirstIs, Settled
<1>3. CASE BeforeUnlock
  <2>1. disk' = Now /\ record' = NoRecord
    BY <1>1, <1>2, <1>3
  <2>2. StoreInv' /\ Now' = disk'
    BY <1>2, <2>1, StoreSettles
  <2>3. vault' \in VaultContents
    BY <1>1, <1>2, <1>3, DiskTypes
  <2> QED BY <1>1, <1>2, <1>3, <2>1, <2>2, <2>3 DEF Discards
<1>4. CASE afterwards
  <2>1. record # NoRecord /\ record.status # "applied"
    BY <1>4 DEF NoRecord, StoreInv, RecordShape
  <2>2. Now = Before /\ Before = Applied(record.entries, 0)
    BY <2>1 DEF Now, Before
  <2>3. disk' = Now /\ record' = NoRecord
    BY <1>1, <1>4, <2>2
  <2>4. StoreInv' /\ Now' = disk'
    BY <1>2, <2>3, StoreSettles
  <2>5. vault' \in VaultContents
    BY <1>1, <1>2, <1>4, <2>2, DiskTypes
  <2> QED BY <1>1, <1>2, <1>4, <2>3, <2>4, <2>5 DEF Discards
<1>5. CASE ~BeforeUnlock /\ ~afterwards
  <2>1. UNCHANGED <<disk, record>>
    BY <1>1, <1>2, <1>5
  <2>2. StoreInv' /\ Before' = Before /\ After' = After /\ Now' = Now
    BY <2>1, StoreStays
  <2>3. vault' \in VaultContents
    BY <1>1, <1>2, <1>5, DiskTypes DEF StoreInv
  <2> QED BY <1>1, <1>2, <1>5, <2>1, <2>2, <2>3 DEF Discards
<1> QED BY <1>3, <1>4, <1>5

\* What is on disk changes while no commit is at work.
LEMMA QuietStore ==
  ASSUME VaultInv, StoreInv', lock = NoWorker, UNCHANGED <<lock, owner, op, keys>>,
         vault' \in VaultContents, up' = TRUE, ~Discards(record')
  PROVE  VaultInv'
<1>1. Shapes'
  BY DEF VaultInv, Shapes, OpsInv
<1>2. Ties'
  BY DEF VaultInv, Ties, Tied
<1> QED BY <1>1, <1>2 DEF VaultInv

\* The engine starts.
LEMMA StartKeeps ==
  ASSUME VaultInv, Start
  PROVE  VaultInv'
<1>1. lock = NoWorker
  BY DEF VaultInv, Ties, Start
<1>2. StoreInv /\ vault \in VaultContents /\ AutoUnlock
  BY DEF VaultInv, Shapes, Start
<1>3. StoreInv' /\ vault' \in VaultContents /\ ~Discards(record')
  BY <1>2, AutoUnlockEffect
<1>4. up' = TRUE /\ UNCHANGED <<lock, owner, op, keys>>
  BY DEF Start
<1> QED BY <1>1, <1>3, <1>4, QuietStore

\* The vault is locked; or, locked already, is opened by the local secret.
LEMMA LockManuallyEffect ==
  ASSUME VaultInv, LockManually
  PROVE  /\ VaultInv' /\ op' = op
         /\ \/ UNCHANGED <<disk, record>> /\ vault' \in {Closed, vault}
            \/ vault = Closed /\ AutoUnlock
<1>1. /\ StoreInv /\ vault \in VaultContents /\ lock = NoWorker /\ up /\ ~Discards(record)
  BY DEF VaultInv, Shapes, Ties, LockManually
<1>2. UNCHANGED <<lock, owner, op, up, keys>> /\ up' = TRUE
  BY DEF LockManually, VaultInv, Ties
<1>3. CASE UNCHANGED <<disk, record>> /\ vault' \in {Closed, vault}
  <2>1. StoreInv' /\ vault' \in VaultContents
    BY <1>1, <1>3, MissingIn, StoreStays DEF Closed
  <2> QED BY <1>1, <1>2, <1>3, <2>1, QuietStore DEF Discards
<1>4. CASE vault = Closed /\ AutoUnlock
  <2>1. StoreInv' /\ vault' \in VaultContents /\ ~Discards(record')
    BY <1>1, <1>4, AutoUnlockEffect
  <2> QED BY <1>1, <1>2, <1>4, <2>1, QuietStore
<1> QED BY <1>3, <1>4 DEF LockManually

\* The library is written beside the transactions, under the key in memory.
LEMMA SaveLibraryEffect ==
  ASSUME VaultInv, NEW w \in Workers, SaveLibrary(w)
  PROVE  /\ VaultInv' /\ op' = op /\ record = NoRecord /\ record' = NoRecord /\ owner = NoWorker
         /\ Now = disk /\ Now' = disk' /\ vault # Closed /\ vault' = vault /\ lock' = lock
         /\ \A f \in Names \ {"library"} : disk'[f] = disk[f]
         /\ disk'.library.key = vault.key
<1> DEFINE new == Sealed(vault.key, {})
<1>1. /\ IsDisk(disk) /\ vault \in VaultContents /\ vault.key \in Int \ {0}
      /\ disk' = [disk EXCEPT !.library = new] /\ record = NoRecord /\ record' = NoRecord
      /\ lock = NoWorker /\ up /\ vault # Closed /\ owner = NoWorker
  BY DEF VaultInv, Shapes, StoreInv, VaultContents, SaveLibrary, Closed, Asks
<1>2. new \in LibraryContents /\ new.key = vault.key
  BY <1>1, SealedIn
<1> HIDE DEF new
<1>3. /\ IsDisk(disk') /\ disk'.library = new
      /\ \A f \in Names \ {"library"} : disk'[f] = disk[f]
  <2>1. /\ DOMAIN disk' = Names /\ disk' = [f \in Names |-> disk'[f]] /\ disk'["library"] = new
        /\ \A f \in Names \ {"library"} : disk'[f] = disk[f]
    BY <1>1 DEF IsDisk, Names
  <2> QED BY <1>1, <1>2, <2>1, ContentsOf DEF IsDisk
<1>4. StoreInv' /\ Now' = disk' /\ Now = disk
  BY <1>1, <1>3, StoreAlone DEF Now, Before
<1>5. UNCHANGED <<lock, owner, op, keys, vault, up>>
  BY DEF SaveLibrary, memoryVars
<1>6. VaultInv'
  BY <1>1, <1>4, <1>5, QuietStore DEF Discards
<1> QED BY <1>1, <1>2, <1>3, <1>4, <1>5, <1>6

\* What Recover does: a change left behind is completed or rolled back.
LEMMA RecoverEffect ==
  ASSUME VaultInv, NEW w \in Workers, NEW action, Recover(w, action)
  PROVE  /\ VaultInv' /\ record # NoRecord /\ record' = NoRecord /\ lock = NoWorker
         /\ Now' = disk' /\ vault' = vault /\ op[w] = Idle /\ OthersStay(w)
         /\ op'[w].kind = "recover" /\ op'[w].at = "done" /\ op'[w].entries = record.entries
         /\ ~Discards(record) /\ overtaken' = overtaken /\ carried' = carried
         /\ \/ /\ disk' = Now /\ saved' = saved
            \/ /\ disk' = After /\ record.status = "staged" /\ Mode(record.kind) = "plain"
               /\ saved' = Owed(record.kind, record.entries)
<1> DEFINE o == [kind |-> "recover", at |-> "done", entries |-> record.entries,
                 candidate |-> Missing]
<1>1. /\ StoreInv /\ Shapes /\ OpsInv /\ lock = NoWorker /\ up /\ record # NoRecord
      /\ op[w] = Idle /\ record' = NoRecord /\ record.entries \in Seq(Entries)
      /\ ~Discards(record) /\ op' = [op EXCEPT ![w] = o]
      /\ UNCHANGED <<lock, vault, owner, up, keys, overtaken, carried>>
  <2>1. VaultInv /\ StoreInv /\ Shapes /\ OpsInv /\ lock = NoWorker /\ up /\ record # NoRecord
    BY DEF VaultInv, Shapes, Recover
  <2>2. record.entries \in Seq(Entries)
    BY <2>1, RecordParts DEF StoreInv
  <2> QED BY <2>1, <2>2 DEF Recover, Ties, VaultInv
<1>2. OpShape(o) /\ o.kind = "recover" /\ o.at = "done" /\ o.entries = record.entries
  BY <1>1, RecoverShape
<1> HIDE DEF o
<1>3. OpsInv' /\ op'[w] = o /\ OthersStay(w)
  BY <1>1, <1>2, OpSet DEF OthersStay
<1>4. Before = Applied(record.entries, 0) /\ After = Applied(record.entries, Len(record.entries))
      /\ Now = IF record.status = "applied" THEN After ELSE Before
  BY <1>1 DEF Before, After, Now
<1>5. \/ disk' = Now /\ saved' = saved
      \/ /\ disk' = After /\ record.status = "staged" /\ Mode(record.kind) = "plain"
         /\ saved' = Owed(record.kind, record.entries)
  <2>1. CASE /\ CanComplete /\ disk' = Applied(record.entries, Len(record.entries))
             /\ saved' = IF record.status = "staged" THEN Owed(record.kind, record.entries)
                         ELSE saved
    BY <1>4, <2>1 DEF CanComplete
  <2>2. CASE /\ record.status # "applied" /\ disk' = Applied(record.entries, 0)
             /\ UNCHANGED saved
    BY <1>4, <2>2
  <2> QED BY <2>1, <2>2 DEF Recover
<1>6. disk' \in {Before, After}
  BY <1>4, <1>5
<1>7. StoreInv' /\ Now' = disk'
  BY <1>1, <1>6, StoreSettles
<1>8. Shapes'
  BY <1>1, <1>3, <1>7 DEF Shapes
<1>9. Ties'
  <2>1. \A v \in Workers : Tied(v)'
    BY <1>1, <1>2, <1>3, VaultAssumption DEF VaultInv, Ties, Tied, OthersStay, Owners
  <2> QED BY <1>1, <2>1 DEF VaultInv, Ties, Discards
<1> QED BY <1>1, <1>2, <1>3, <1>5, <1>7, <1>8, <1>9 DEF VaultInv

\* What Crash does: the memory is lost, the files and the record stay.
LEMMA CrashEffect ==
  ASSUME VaultInv, Crash
  PROVE  /\ VaultInv' /\ Before' = Before /\ After' = After /\ Now' = Now
         /\ vault' = Closed /\ lock' = NoWorker /\ \A w \in Workers : op'[w] = Idle
<1>1. /\ UNCHANGED <<disk, record, keys>> /\ vault' = Closed /\ lock' = NoWorker
      /\ owner' = NoWorker /\ up' = FALSE /\ op' = [w \in Workers |-> Idle]
  BY DEF Crash
<1>2. StoreInv' /\ Before' = Before /\ After' = After /\ Now' = Now
  BY <1>1, StoreStays DEF VaultInv, Shapes
<1>3. Shapes'
  <2>1. Idle \in Ops /\ OpShape(Idle) /\ Closed \in VaultContents
    BY IdleShape, MissingIn DEF OpShape, Closed
  <2> QED BY <1>1, <1>2, <2>1 DEF VaultInv, Shapes, OpsInv
<1>4. Ties'
  BY <1>1, IdleShape, VaultAssumption DEF Ties, Tied, Owners
<1> QED BY <1>1, <1>2, <1>3, <1>4 DEF VaultInv

\* How an engine that was never started finds its files.
LEMMA InitShape ==
  ASSUME NEW files, NEW first, NEW bounds, IsDisk(files), first \in VaultContents,
         VaultInit(files, first, bounds)
  PROVE  VaultInv /\ Now = files
<1>1. StoreInv /\ Now = files
  BY DEF VaultInit, StoreInv, RecordShape, DiskLink, Now, Before
<1>2. Shapes
  <2>1. Idle \in Ops /\ OpShape(Idle)
    BY IdleShape DEF OpShape
  <2> QED BY <1>1, <2>1 DEF VaultInit, Shapes, OpsInv
<1>3. Ties
  BY IdleShape, VaultAssumption DEF VaultInit, Ties, Tied, Owners, Discards
<1> QED BY <1>1, <1>2, <1>3 DEF VaultInv

(* The operation on the bucket *)

\* The stages of an operation on the bucket.
Stages == {"resolve", "choose", "ensure", "send", "get", "state", "clear", "commit",
           "prepare", "put", "advance", "undo"}
\* The objects that p writes have put there.
Objs(p) == [etag : 1 .. p, cipher : 1 .. p, key : SyncKeys]
\* The operations under way, over a bucket of p writes.
Syncs(p) ==
  [by : Workers, todo : Seq(Stages), new : Nat, read : SettingsBodies, object : Objs(p),
   sealed : 0 .. p, etag : 0 .. p, undo : BOOLEAN]

\* What is still to do needs a key that may be entered, or a ciphertext.
Fit(todo, new, sealed) ==
  /\ todo \in Seq(Stages)
  /\ \A i \in DOMAIN todo :
       /\ todo[i] \in {"resolve", "choose", "commit", "put"} => new \in SyncKeys
       /\ todo[i] \in {"prepare", "put", "advance"} => sealed # 0

\* An operation that may be under way.
SyncShape(s, p) == s \in Syncs(p) /\ Fit(s.todo, s.new, s.sealed)

\* The operation under way is that of the one request that rotates.
SyncTied ==
  /\ sync # NoSync => SyncShape(sync, puts)
  /\ \A w \in Workers : op[w].kind = "rotated" <=> sync.by = w

\* No state is recorded that the bucket has not had.
StatesUpTo(entries, n) ==
  \A i \in DOMAIN entries : entries[i].file = "state" => entries[i].new <= n
\* The states on disk, recorded and asked for are of objects that were there.
StatesIn ==
  /\ Before.state <= puts
  /\ record # NoRecord => StatesUpTo(record.entries, puts)
  /\ \A w \in Workers : StatesUpTo(op[w].entries, puts)

\* The bucket has an object, and a number of writes.
BucketOK == puts \in 1 .. MaxPuts /\ remote \in Objs(puts)

\* The shapes and ties of the vault and the operation on the bucket.
RotInv == VaultInv /\ SyncTied /\ StatesIn /\ BucketOK

-----------------------------------------------------------------------------

\* Nothing to do needs nothing.
LEMMA FitNone == ASSUME NEW new, NEW sealed PROVE Fit(<< >>, new, sealed)
BY DEF Fit

\* What is left to do needs no more than before.
LEMMA FitTail ==
  ASSUME NEW todo, NEW new, NEW sealed, Fit(todo, new, sealed), todo # << >>
  PROVE  /\ Fit(Tail(todo), new, sealed) /\ Head(todo) \in Stages
         /\ Head(todo) \in {"resolve", "choose", "commit", "put"} => new \in SyncKeys
         /\ Head(todo) \in {"prepare", "put", "advance"} => sealed # 0
<1>1. todo \in Seq(Stages) /\ 1 \in DOMAIN todo /\ Head(todo) = todo[1]
  BY DEF Fit
<1>2. Tail(todo) \in Seq(Stages)
  BY <1>1
<1>3. \A i \in DOMAIN Tail(todo) : i + 1 \in DOMAIN todo /\ Tail(todo)[i] = todo[i + 1]
  BY <1>1
<1> QED BY <1>1, <1>2, <1>3 DEF Fit

\* Nor does removing the journal first.
LEMMA FitClear ==
  ASSUME NEW todo, NEW new, NEW sealed, Fit(todo, new, sealed)
  PROVE  Fit(<<"clear">> \o todo, new, sealed)
<1> DEFINE s == <<"clear">> \o todo
<1>1. todo \in Seq(Stages) /\ <<"clear">> \in Seq(Stages) /\ Len(<<"clear">>) = 1
  BY DEF Fit, Stages
<1>2. s \in Seq(Stages) /\ s[1] = "clear"
  BY <1>1
<1>3. \A i \in DOMAIN s : i = 1 \/ (i - 1 \in DOMAIN todo /\ s[i] = todo[i - 1])
  BY <1>1
<1> HIDE DEF s
<1>4. Fit(s, new, sealed)
  BY <1>2, <1>3 DEF Fit
<1> QED BY <1>4 DEF s

\* What one write to a local file needs.
LEMMA FitOne ==
  ASSUME NEW a \in {"clear", "state", "commit"}, NEW new, NEW sealed,
         a = "commit" => new \in SyncKeys
  PROVE  Fit(<<a>>, new, sealed)
BY DEF Fit, Stages

\* The plans that begin, go on with or replace an operation.
LEMMA FitLists ==
  ASSUME NEW new, NEW sealed
  PROVE  /\ Fit(<<"ensure", "send", "state">>, new, sealed)
         /\ Fit(<<"ensure", "get", "state">>, new, sealed)
         /\ Fit(<<"undo", "state", "clear">>, new, sealed)
         /\ new \in SyncKeys =>
              /\ Fit(<<"resolve", "choose">>, new, sealed)
              /\ Fit(<<"state", "clear", "choose">>, new, sealed)
              /\ Fit(<<"state", "commit", "clear">>, new, sealed)
<1>1. Fit(<<"ensure", "send", "state">>, new, sealed)
  BY DEF Fit, Stages
<1>2. Fit(<<"ensure", "get", "state">>, new, sealed)
  BY DEF Fit, Stages
<1>3. Fit(<<"undo", "state", "clear">>, new, sealed)
  BY DEF Fit, Stages
<1>4. ASSUME new \in SyncKeys PROVE Fit(<<"resolve", "choose">>, new, sealed)
  BY <1>4 DEF Fit, Stages
<1>5. ASSUME new \in SyncKeys PROVE Fit(<<"state", "clear", "choose">>, new, sealed)
  BY <1>5 DEF Fit, Stages
<1>6. ASSUME new \in SyncKeys PROVE Fit(<<"state", "commit", "clear">>, new, sealed)
  BY <1>6 DEF Fit, Stages
<1> QED BY <1>1, <1>2, <1>3, <1>4, <1>5, <1>6

\* The plan of a rotation.
LEMMA FitFresh ==
  ASSUME NEW new \in SyncKeys, NEW sealed, sealed # 0
  PROVE  Fit(FreshPlan, new, sealed)
<1>1. FreshPlan \in Seq(Stages)
  BY DEF FreshPlan, Stages
<1> QED BY <1>1 DEF Fit

\* What the bucket has had stays so.
LEMMA ObjsGrow ==
  ASSUME NEW p \in Nat, NEW q \in Nat, p <= q
  PROVE  /\ \A o \in Objs(p) : o \in Objs(q)
         /\ \A s : SyncShape(s, p) => SyncShape(s, q)
<1>1. ASSUME NEW o \in Objs(p) PROVE o \in Objs(q)
  BY <1>1 DEF Objs
<1>2. 0 .. p \subseteq 0 .. q
  OBVIOUS
<1>3. ASSUME NEW s, SyncShape(s, p) PROVE SyncShape(s, q)
  <2>1. s \in Syncs(q)
    BY <1>1, <1>2, <1>3 DEF SyncShape, Syncs
  <2> QED BY <1>3, <2>1 DEF SyncShape
<1> QED BY <1>1, <1>3

\* The parts of the operation under way.
LEMMA SyncParts ==
  ASSUME RotInv, NEW w \in Workers, sync.by = w
  PROVE  /\ sync # NoSync /\ SyncShape(sync, puts) /\ op[w].kind = "rotated" /\ up
         /\ sync.todo \in Seq(Stages) /\ sync.new \in Nat /\ sync.read \in SettingsBodies
         /\ sync.object \in Objs(puts) /\ sync.sealed \in 0 .. puts /\ sync.etag \in 0 .. puts
         /\ sync.undo \in BOOLEAN /\ Fit(sync.todo, sync.new, sync.sealed)
         /\ sync \in [by : {w}, todo : {sync.todo}, new : {sync.new}, read : {sync.read},
                      object : {sync.object}, sealed : {sync.sealed}, etag : {sync.etag},
                      undo : {sync.undo}]
         /\ sync.todo # << >> =>
              /\ Stage = Head(sync.todo) /\ Fit(Tail(sync.todo), sync.new, sync.sealed)
              /\ Stage \in {"resolve", "choose", "commit", "put"} => sync.new \in SyncKeys
              /\ Stage \in {"prepare", "put", "advance"} => sync.sealed # 0
         /\ sync.todo = << >> => Stage = "over"
<1>1. sync # NoSync
  BY VaultAssumption DEF NoSync
<1>2. SyncShape(sync, puts) /\ op[w].kind = "rotated"
  BY <1>1 DEF RotInv, SyncTied
<1>3. /\ sync.todo \in Seq(Stages) /\ sync.new \in Nat /\ sync.read \in SettingsBodies
      /\ sync.object \in Objs(puts) /\ sync.sealed \in 0 .. puts /\ sync.etag \in 0 .. puts
      /\ sync.undo \in BOOLEAN /\ Fit(sync.todo, sync.new, sync.sealed)
      /\ sync \in [by : {w}, todo : {sync.todo}, new : {sync.new}, read : {sync.read},
                   object : {sync.object}, sealed : {sync.sealed}, etag : {sync.etag},
                   undo : {sync.undo}]
  BY <1>2 DEF SyncShape, Syncs
<1>4. up
  BY <1>2, IdleShape DEF RotInv, VaultInv, Ties
<1>5. sync.todo # << >> =>
              /\ Stage = Head(sync.todo) /\ Fit(Tail(sync.todo), sync.new, sync.sealed)
              /\ Stage \in {"resolve", "choose", "commit", "put"} => sync.new \in SyncKeys
              /\ Stage \in {"prepare", "put", "advance"} => sync.sealed # 0
  BY <1>3, FitTail DEF Stage
<1> QED BY <1>1, <1>2, <1>3, <1>4, <1>5 DEF Stage

\* The operation goes on, with these in its place.
Changed(w, todo, object, sealed, etag, undo) ==
  sync' \in [by : {w}, todo : {todo}, new : {sync.new}, read : {sync.read},
             object : {object}, sealed : {sealed}, etag : {etag}, undo : {undo}]

\* It goes on with other parts,
LEMMA ChangedShape ==
  ASSUME RotInv, NEW w \in Workers, sync.by = w, puts' \in Nat, puts <= puts',
         NEW todo, NEW object \in Objs(puts'), NEW sealed \in 0 .. puts', NEW etag \in 0 .. puts',
         NEW undo \in BOOLEAN, Fit(todo, sync.new, sealed),
         Changed(w, todo, object, sealed, etag, undo)
  PROVE  sync' # NoSync /\ sync'.by = w /\ SyncShape(sync', puts')
<1>1. sync.new \in Nat /\ sync.read \in SettingsBodies
  BY SyncParts
<1>2. /\ sync'.by = w /\ sync'.todo = todo /\ sync'.new = sync.new /\ sync'.sealed = sealed
      /\ sync' \in [by : {w}, todo : {todo}, new : {sync.new}, read : {sync.read},
             object : {object}, sealed : {sealed}, etag : {etag}, undo : {undo}]
  BY DEF Changed
<1>3. todo \in Seq(Stages)
  BY DEF Fit
<1>4. sync' \in Syncs(puts')
  BY <1>1, <1>2, <1>3 DEF Syncs
<1>5. sync' # NoSync
  BY <1>2, VaultAssumption DEF NoSync
<1> QED BY <1>2, <1>4, <1>5 DEF SyncShape

\* or with the same but for what is left to do.
LEMMA GoesChanged ==
  ASSUME RotInv, NEW w \in Workers, sync.by = w, puts' \in Nat, puts <= puts',
         NEW todo, Fit(todo, sync.new, sync.sealed), Goes_(todo)
  PROVE  sync' # NoSync /\ sync'.by = w /\ SyncShape(sync', puts')
<1>1. /\ sync.object \in Objs(puts) /\ sync.sealed \in 0 .. puts /\ sync.etag \in 0 .. puts
      /\ sync.undo \in BOOLEAN
      /\ sync \in [by : {w}, todo : {sync.todo}, new : {sync.new}, read : {sync.read},
                      object : {sync.object}, sealed : {sync.sealed}, etag : {sync.etag},
                      undo : {sync.undo}]
  BY SyncParts
<1>2. Changed(w, todo, sync.object, sync.sealed, sync.etag, sync.undo)
  BY <1>1 DEF Changed, Goes_
<1>3. puts \in Nat
  BY DEF RotInv, BucketOK
<1>4. sync.object \in Objs(puts') /\ sync.sealed \in 0 .. puts' /\ sync.etag \in 0 .. puts'
  BY <1>1, <1>3, ObjsGrow
<1>5. PICK ob, se, et, un : ob = sync.object /\ se = sync.sealed /\ et = sync.etag /\ un = sync.undo
  OBVIOUS
<1> QED BY <1>1, <1>2, <1>4, <1>5, ChangedShape

(* Steps that read or write the bucket *)

\* What the bucket has had it has had later on.
LEMMA StatesGrow ==
  ASSUME NEW entries \in Seq(Entries), NEW p \in Nat, NEW q \in Nat, p <= q,
         StatesUpTo(entries, p)
  PROVE  StatesUpTo(entries, q)
<1> SUFFICES ASSUME NEW i \in DOMAIN entries, entries[i].file = "state"
             PROVE  entries[i].new <= q
  BY DEF StatesUpTo
<1>1. entries[i] \in Entries
  OBVIOUS
<1>2. entries[i].new \in Nat
  BY <1>1, EntryOf, ContentsOf
<1> QED BY <1>2 DEF StatesUpTo

\* A step beside the vault: the operation and the bucket alone change.
LEMMA AlongStep ==
  ASSUME RotInv, UNCHANGED <<storageVars, memoryVars>>, puts' \in 1 .. MaxPuts, puts <= puts',
         remote' \in Objs(puts'), sync'.by = sync.by, sync' # NoSync => SyncShape(sync', puts')
  PROVE  RotInv' /\ Before' = Before /\ After' = After /\ Now' = Now
<1>1. VaultInv' /\ Before' = Before /\ After' = After /\ Now' = Now
  <2>1. UNCHANGED <<storageVars, owner, op, up, keys>> /\ vault' = vault
        /\ vault' \in VaultContents
    BY DEF RotInv, VaultInv, Shapes, memoryVars
  <2> QED BY <2>1, MemoryStep DEF RotInv
<1>2. op' = op
  BY DEF memoryVars
<1>3. SyncTied'
  BY <1>2 DEF RotInv, SyncTied
<1>4. StatesIn'
  <2>1. Before.state \in Nat /\ puts \in Nat /\ puts' \in Nat
    BY Settled, DiskTypes DEF RotInv, VaultInv, Shapes, BucketOK
  <2>2. \A v \in Workers : StatesUpTo(op[v].entries, puts')
    <3> SUFFICES ASSUME NEW v \in Workers PROVE StatesUpTo(op[v].entries, puts')
      OBVIOUS
    <3>1. op[v].entries \in Seq(Entries) /\ StatesUpTo(op[v].entries, puts)
      BY DEF RotInv, VaultInv, Shapes, OpsInv, Ops, StatesIn
    <3> QED BY <2>1, <3>1, StatesGrow
  <2>3. record # NoRecord => StatesUpTo(record.entries, puts')
    <3> SUFFICES ASSUME record # NoRecord PROVE StatesUpTo(record.entries, puts')
      OBVIOUS
    <3>1. record.entries \in Seq(Entries) /\ StatesUpTo(record.entries, puts)
      BY RecordParts DEF RotInv, VaultInv, Shapes, StoreInv, StatesIn
    <3> QED BY <2>1, <3>1, StatesGrow
  <2>4. Before.state <= puts'
    BY <2>1 DEF RotInv, StatesIn
  <2>5. record' = record
    BY DEF storageVars
  <2> QED BY <1>1, <1>2, <2>2, <2>3, <2>4, <2>5 DEF StatesIn
<1>5. BucketOK'
  BY DEF BucketOK
<1> QED BY <1>1, <1>3, <1>4, <1>5 DEF RotInv

\* A step that reads: only what is to be done changes, and what it has learned.
LEMMA ReadStep ==
  ASSUME RotInv, NEW w \in Workers, sync.by = w,
         UNCHANGED <<storageVars, memoryVars, remote, puts>>,
         sync'.by = w, SyncShape(sync', puts)
  PROVE  RotInv'
<1>1. puts' \in 1 .. MaxPuts /\ puts <= puts' /\ remote' \in Objs(puts') /\ puts' = puts
  BY DEF RotInv, BucketOK
<1> QED BY <1>1, AlongStep

\* Only what is left to do changes.
LEMMA GoesStep ==
  ASSUME RotInv, NEW w \in Workers, sync.by = w,
         UNCHANGED <<storageVars, memoryVars, remote, puts>>,
         NEW todo, Fit(todo, sync.new, sync.sealed), Goes_(todo)
  PROVE  RotInv'
<1>1. puts' \in Nat /\ puts <= puts' /\ puts' = puts
  BY DEF RotInv, BucketOK
<1>2. sync'.by = w /\ SyncShape(sync', puts)
  BY <1>1, GoesChanged
<1> QED BY <1>2, ReadStep

\* ResolveKeyRecovery finds out which generation is live.
LEMMA ResolveKeeps ==
  ASSUME RotInv, NEW w \in Workers, ResolveKeyRecovery(w)
  PROVE  RotInv'
<1>1. /\ sync.by = w /\ Stage = "resolve" /\ sync.todo # << >>
      /\ UNCHANGED <<storageVars, memoryVars, remote, puts>>
  BY DEF ResolveKeyRecovery, Calls, LocallyUnchanged, Stage
<1>2. /\ sync.new \in SyncKeys /\ Fit(Tail(sync.todo), sync.new, sync.sealed)
      /\ sync.object \in Objs(puts) /\ sync.sealed \in 0 .. puts /\ sync.undo \in BOOLEAN
      /\ sync \in [by : {w}, todo : {sync.todo}, new : {sync.new}, read : {sync.read},
                   object : {sync.object}, sealed : {sync.sealed}, etag : {sync.etag},
                   undo : {sync.undo}]
  BY <1>1, SyncParts
<1>3. CASE Proceeds
  BY <1>1, <1>2, <1>3, GoesStep DEF Proceeds
<1>4. CASE Stops
  BY <1>1, <1>4, FitNone, GoesStep DEF Stops
<1>5. ASSUME NEW todo \in {<<"state", "clear", "choose">>, <<"state", "commit", "clear">>},
             sync' = [sync EXCEPT !.todo = todo, !.etag = remote.etag]
      PROVE  RotInv'
  <2>1. Fit(todo, sync.new, sync.sealed)
    BY <1>2, FitLists
  <2>2. remote.etag \in 0 .. puts /\ puts' = puts /\ puts \in Nat
    BY <1>1 DEF RotInv, BucketOK, Objs
  <2>3. Changed(w, todo, sync.object, sync.sealed, remote.etag, sync.undo)
    BY <1>2, <1>5 DEF Changed
  <2>4. PICK ob, se, et, un :
          ob = sync.object /\ se = sync.sealed /\ et = remote.etag /\ un = sync.undo
    OBVIOUS
  <2>5. sync'.by = w /\ SyncShape(sync', puts')
    BY <1>1, <1>2, <2>1, <2>2, <2>3, <2>4, ChangedShape
  <2> QED BY <1>1, <2>2, <2>5, ReadStep
<1> QED BY <1>3, <1>4, <1>5 DEF ResolveKeyRecovery

\* EnsureNoKeyRecovery does, before a push or a pull.
LEMMA EnsureKeeps ==
  ASSUME RotInv, NEW w \in Workers, EnsureNoKeyRecovery(w)
  PROVE  RotInv'
<1>1. /\ sync.by = w /\ Stage = "ensure" /\ sync.todo # << >>
      /\ UNCHANGED <<storageVars, memoryVars, remote, puts>>
  BY DEF EnsureNoKeyRecovery, Calls, LocallyUnchanged, Stage
<1>2. Fit(Tail(sync.todo), sync.new, sync.sealed)
  BY <1>1, SyncParts
<1>3. CASE Proceeds
  BY <1>1, <1>2, <1>3, GoesStep DEF Proceeds
<1>4. CASE Stops
  BY <1>1, <1>4, FitNone, GoesStep DEF Stops
<1>5. CASE Goes_(<<"clear">> \o Tail(sync.todo))
  <2>1. PICK t : t = Tail(sync.todo)
    OBVIOUS
  <2>2. Fit(<<"clear">> \o t, sync.new, sync.sealed)
    BY <1>2, <2>1, FitClear
  <2> QED BY <1>1, <1>5, <2>1, <2>2, GoesStep
<1> QED BY <1>3, <1>4, <1>5 DEF EnsureNoKeyRecovery

\* A pull gets the live object.
LEMMA GetsKeeps ==
  ASSUME RotInv, NEW w \in Workers, Gets(w)
  PROVE  RotInv'
<1>1. /\ sync.by = w /\ Stage = "get" /\ sync.todo # << >>
      /\ UNCHANGED <<storageVars, memoryVars, remote, puts>>
  BY DEF Gets, Calls, LocallyUnchanged, Stage
<1>2. /\ Fit(Tail(sync.todo), sync.new, sync.sealed)
      /\ sync.object \in Objs(puts) /\ sync.sealed \in 0 .. puts /\ sync.undo \in BOOLEAN
      /\ sync \in [by : {w}, todo : {sync.todo}, new : {sync.new}, read : {sync.read},
                   object : {sync.object}, sealed : {sync.sealed}, etag : {sync.etag},
                   undo : {sync.undo}]
  BY <1>1, SyncParts
<1>3. CASE Stops
  BY <1>1, <1>3, FitNone, GoesStep DEF Stops
<1>4. CASE sync' = [sync EXCEPT !.todo = Tail(@), !.etag = remote.etag]
  <2>2. remote.etag \in 0 .. puts /\ puts' = puts /\ puts \in Nat
    BY <1>1 DEF RotInv, BucketOK, Objs
  <2>3. Changed(w, Tail(sync.todo), sync.object, sync.sealed, remote.etag, sync.undo)
    BY <1>2, <1>4 DEF Changed
  <2>4. PICK t, ob, se, et, un : t = Tail(sync.todo) /\ ob = sync.object /\ se = sync.sealed
                                 /\ et = remote.etag /\ un = sync.undo
    OBVIOUS
  <2>5. sync'.by = w /\ SyncShape(sync', puts')
    BY <1>1, <1>2, <2>2, <2>3, <2>4, ChangedShape
  <2> QED BY <1>1, <2>2, <2>5, ReadStep
<1> QED BY <1>3, <1>4 DEF Gets

\* A rotation opens the live object with its key and chooses how to go on.
LEMMA ChoosesKeeps ==
  ASSUME RotInv, NEW w \in Workers, Chooses(w)
  PROVE  RotInv'
<1>1. /\ sync.by = w /\ Stage = "choose" /\ sync.todo # << >>
      /\ UNCHANGED <<storageVars, memoryVars, remote>> /\ remote \in Objs(puts)
      /\ puts \in 1 .. MaxPuts /\ puts \in Nat /\ MaxPuts \in Nat
  BY RotationAssumption DEF Chooses, Calls, LocallyUnchanged, Stage, RotInv, BucketOK
<1>2. /\ sync.new \in SyncKeys /\ sync.etag \in 0 .. puts /\ sync.undo \in BOOLEAN
      /\ sync \in [by : {w}, todo : {sync.todo}, new : {sync.new}, read : {sync.read},
                   object : {sync.object}, sealed : {sync.sealed}, etag : {sync.etag},
                   undo : {sync.undo}]
  BY <1>1, SyncParts
<1>3. CASE Goes_(<<"commit">>) /\ UNCHANGED puts
  <2>1. Fit(<<"commit">>, sync.new, sync.sealed)
    BY <1>2, FitOne
  <2> QED BY <1>1, <1>3, <2>1, GoesStep
<1>4. CASE Stops /\ UNCHANGED puts
  BY <1>1, <1>4, FitNone, GoesStep DEF Stops
<1>5. CASE /\ puts < MaxPuts /\ puts' = puts + 1
           /\ sync' = [sync EXCEPT !.todo = FreshPlan, !.object = remote, !.sealed = puts + 1]
  <2>1. /\ puts' \in Nat /\ puts <= puts' /\ puts' \in 1 .. MaxPuts /\ puts' \in 0 .. puts'
        /\ sync.etag \in 0 .. puts' /\ puts' # 0
    BY <1>1, <1>2, <1>5
  <2>2. remote \in Objs(puts')
    BY <1>1, <2>1, ObjsGrow
  <2>3. Fit(FreshPlan, sync.new, puts')
    BY <1>2, <2>1, FitFresh
  <2>4. Changed(w, FreshPlan, remote, puts', sync.etag, sync.undo)
    BY <1>2, <1>5 DEF Changed
  <2>5. PICK t, se, et, un : t = FreshPlan /\ se = puts' /\ et = sync.etag /\ un = sync.undo
    OBVIOUS
  <2>6. sync'.by = w /\ SyncShape(sync', puts')
    BY <1>1, <1>2, <2>1, <2>2, <2>3, <2>4, <2>5, ChangedShape
  <2> QED BY <1>1, <2>1, <2>2, <2>6, AlongStep
<1> QED BY <1>3, <1>4, <1>5 DEF Chooses

\* The settings have the new key, or changed meanwhile: no key is written.
LEMMA CommitsNoKeyKeeps ==
  ASSUME RotInv, NEW w \in Workers, CommitsNoKey(w)
  PROVE  RotInv'
<1>1. /\ sync.by = w /\ UNCHANGED <<storageVars, memoryVars, remote, puts>> /\ Abandons
  BY DEF CommitsNoKey, Calls, LocallyUnchanged
<1> DEFINE todo == IF sync.undo THEN <<"undo", "state", "clear">> ELSE << >>
<1>2. Fit(todo, sync.new, sync.sealed)
  BY FitLists, FitNone
<1>3. /\ sync.object \in Objs(puts) /\ sync.sealed \in 0 .. puts /\ sync.etag \in 0 .. puts
      /\ sync \in [by : {w}, todo : {sync.todo}, new : {sync.new}, read : {sync.read},
                   object : {sync.object}, sealed : {sync.sealed}, etag : {sync.etag},
                   undo : {sync.undo}]
  BY <1>1, SyncParts
<1> HIDE DEF todo
<1>4. Changed(w, todo, sync.object, sync.sealed, sync.etag, FALSE)
  BY <1>1, <1>3 DEF Changed, Abandons, todo
<1>5. puts' = puts /\ puts \in Nat
  BY <1>1 DEF RotInv, BucketOK
<1>6. PICK ob, se, et : ob = sync.object /\ se = sync.sealed /\ et = sync.etag
  OBVIOUS
<1>7. /\ puts' \in Nat /\ puts <= puts' /\ FALSE \in BOOLEAN /\ ob \in Objs(puts')
      /\ se \in 0 .. puts' /\ et \in 0 .. puts'
  BY <1>3, <1>5, <1>6
<1>9. Fit(todo, sync.new, se) /\ Changed(w, todo, ob, se, et, FALSE)
  BY <1>2, <1>4, <1>6
<1>8. sync'.by = w /\ SyncShape(sync', puts')
  BY <1>1, <1>7, <1>9, ChangedShape
<1> QED BY <1>1, <1>5, <1>8, ReadStep

-----------------------------------------------------------------------------

\* A conditional write to the bucket, with each of its outcomes.
LEMMA PutsStep ==
  ASSUME RotInv, NEW w \in Workers, sync.by = w, sync.todo # << >>,
         UNCHANGED <<storageVars, memoryVars>>, puts' \in 1 .. MaxPuts, puts <= puts',
         NEW object \in Objs(puts'), NEW match, NEW undo \in BOOLEAN, NEW refused,
         Fit(refused, sync.new, sync.sealed), Puts(w, object, match, undo, refused)
  PROVE  RotInv'
<1>1. /\ Fit(Tail(sync.todo), sync.new, sync.sealed)
      /\ sync.object \in Objs(puts) /\ sync.sealed \in 0 .. puts
      /\ sync \in [by : {w}, todo : {sync.todo}, new : {sync.new}, read : {sync.read},
                   object : {sync.object}, sealed : {sync.sealed}, etag : {sync.etag},
                   undo : {sync.undo}]
  BY SyncParts
<1>2. remote \in Objs(puts) /\ puts \in Nat /\ puts' \in Nat
  BY DEF RotInv, BucketOK
<1>3. remote \in Objs(puts') /\ sync.object \in Objs(puts') /\ sync.sealed \in 0 .. puts'
  BY <1>1, <1>2, ObjsGrow
<1>4. remote' \in Objs(puts')
  BY <1>3 DEF Puts
<1>5. CASE Goes_(refused)
  <2>1. sync'.by = w /\ SyncShape(sync', puts')
    BY <1>2, <1>5, GoesChanged
  <2> QED BY <1>4, <2>1, AlongStep
<1>6. CASE Stops
  <2>1. sync'.by = w /\ SyncShape(sync', puts')
    BY <1>2, <1>6, FitNone, GoesChanged DEF Stops
  <2> QED BY <1>4, <2>1, AlongStep
<1>7. CASE sync' = [sync EXCEPT !.todo = Tail(@), !.etag = object.etag, !.undo = undo]
  <2>1. object.etag \in 0 .. puts'
    BY <1>2 DEF Objs
  <2>2. Changed(w, Tail(sync.todo), sync.object, sync.sealed, object.etag, undo)
    BY <1>1, <1>7 DEF Changed
  <2>3. PICK t, ob, se, et : t = Tail(sync.todo) /\ ob = sync.object /\ se = sync.sealed
                                 /\ et = object.etag
    OBVIOUS
  <2>4. sync'.by = w /\ SyncShape(sync', puts')
    BY <1>1, <1>2, <1>3, <2>1, <2>2, <2>3, ChangedShape
  <2> QED BY <1>4, <2>4, AlongStep
<1> QED BY <1>5, <1>6, <1>7 DEF Puts

\* The re-sealed object is put.
LEMMA PutsResealedKeeps ==
  ASSUME RotInv, NEW w \in Workers, PutsResealed(w)
  PROVE  RotInv'
<1>1. /\ sync.by = w /\ sync.todo # << >> /\ Stage = "put" /\ puts' = puts
      /\ UNCHANGED <<storageVars, memoryVars>>
      /\ Puts(w, Object(sync.sealed, sync.sealed, sync.new), sync.object.etag, TRUE, <<"clear">>)
  BY DEF PutsResealed, Calls, LocallyUnchanged, Stage
<1>2. sync.new \in SyncKeys /\ sync.sealed # 0 /\ sync.sealed \in 0 .. puts
  BY <1>1, SyncParts
<1>3. puts' \in 1 .. MaxPuts /\ puts <= puts' /\ puts \in Nat
  BY <1>1 DEF RotInv, BucketOK
<1>4. Object(sync.sealed, sync.sealed, sync.new) \in Objs(puts')
  BY <1>1, <1>2, <1>3 DEF Object, Objs
<1>5. PICK object, match : object = Object(sync.sealed, sync.sealed, sync.new)
                           /\ match = sync.object.etag
  OBVIOUS
<1>6. Fit(<<"clear">>, sync.new, sync.sealed)
  BY FitOne
<1> QED BY <1>1, <1>3, <1>4, <1>5, <1>6, PutsStep

\* The old object is put back.
LEMMA PutsBackKeeps ==
  ASSUME RotInv, NEW w \in Workers, PutsBack(w)
  PROVE  RotInv'
<1>1. /\ sync.by = w /\ sync.todo # << >> /\ UNCHANGED <<storageVars, memoryVars>>
      /\ puts \in 1 .. MaxPuts /\ puts \in Nat /\ MaxPuts \in Nat
  BY RotationAssumption DEF PutsBack, Calls, LocallyUnchanged, Stage, RotInv, BucketOK
<1>2. sync.object \in Objs(puts) /\ Fit(<< >>, sync.new, sync.sealed)
  BY <1>1, SyncParts, FitNone
<1>3. CASE Puts(w, sync.object, sync.etag, FALSE, << >>) /\ UNCHANGED puts
  <2>1. PICK object, match : object = sync.object /\ match = sync.etag
    OBVIOUS
  <2>2. /\ puts' \in 1 .. MaxPuts /\ puts <= puts' /\ object \in Objs(puts')
        /\ FALSE \in BOOLEAN
    BY <1>1, <1>2, <1>3, <2>1
  <2>3. Puts(w, object, match, FALSE, << >>)
    BY <1>3, <2>1
  <2> QED BY <1>1, <1>2, <2>2, <2>3, PutsStep
<1>4. CASE /\ puts < MaxPuts /\ puts' = puts + 1
           /\ Puts(w, [sync.object EXCEPT !.etag = puts + 1], sync.etag, FALSE, << >>)
  <2>1. /\ puts' \in Nat /\ puts <= puts' /\ puts' \in 1 .. MaxPuts
    BY <1>1, <1>4
  <2>2. [sync.object EXCEPT !.etag = puts + 1] \in Objs(puts')
    BY <1>1, <1>2, <1>4, <2>1 DEF Objs
  <2>3. PICK object, match : object = [sync.object EXCEPT !.etag = puts + 1] /\ match = sync.etag
    OBVIOUS
  <2> QED BY <1>1, <1>2, <1>4, <2>1, <2>2, <2>3, PutsStep
<1> QED BY <1>3, <1>4 DEF PutsBack

\* A push sends this machine's files.
LEMMA SendsKeeps ==
  ASSUME RotInv, NEW w \in Workers, Sends(w)
  PROVE  RotInv'
<1>0. puts \in 1 .. MaxPuts /\ puts \in Nat /\ MaxPuts \in Nat
  BY RotationAssumption DEF RotInv, BucketOK
<1>1. /\ sync.by = w /\ sync.todo # << >> /\ UNCHANGED <<storageVars, memoryVars>>
      /\ puts \in 1 .. MaxPuts /\ puts \in Nat /\ MaxPuts \in Nat
      /\ puts < MaxPuts /\ puts' = puts + 1
      /\ Puts(w, Object(puts + 1, puts + 1, sync.read.sync), disk.state, FALSE, << >>)
  BY <1>0 DEF Sends, Calls, LocallyUnchanged, Stage
<1>2. sync.read \in SettingsBodies /\ Fit(<< >>, sync.new, sync.sealed)
  BY <1>1, SyncParts, FitNone
<1>3. /\ puts' \in Nat /\ puts <= puts' /\ puts' \in 1 .. MaxPuts
  BY <1>1
<1>4. Object(puts + 1, puts + 1, sync.read.sync) \in Objs(puts')
  BY <1>1, <1>2, <1>3 DEF Objs, Object, SettingsBodies
<1>5. PICK object, match : object = Object(puts + 1, puts + 1, sync.read.sync) /\ match = disk.state
  OBVIOUS
<1> QED BY <1>1, <1>2, <1>3, <1>4, <1>5, PutsStep

\* Another machine pushes.
LEMMA OtherPushKeeps ==
  ASSUME RotInv, OtherPush
  PROVE  RotInv'
<1>1. /\ puts \in 1 .. MaxPuts /\ puts \in Nat /\ MaxPuts \in Nat
      /\ puts < MaxPuts /\ puts' = puts + 1 /\ remote' = Object(puts + 1, puts + 1, 1)
      /\ UNCHANGED <<storageVars, memoryVars, sync>>
  BY RotationAssumption DEF OtherPush, RotInv, BucketOK
<1>2. /\ puts' \in Nat /\ puts <= puts' /\ puts' \in 1 .. MaxPuts
  BY <1>1
<1>3. remote' \in Objs(puts')
  BY <1>1, <1>2, RotationAssumption DEF Objs, Object
<1>4. sync' # NoSync => SyncShape(sync', puts')
  BY <1>1, <1>2, ObjsGrow DEF RotInv, SyncTied
<1> QED BY <1>1, <1>2, <1>3, <1>4, AlongStep

(* Steps of the vault, seen from the rotation *)

\* A step that records no state, or one the bucket has had.
LEMMA KeepsRot ==
  ASSUME RotInv, VaultInv', UNCHANGED <<sync, puts, remote>>,
         \A v \in Workers : op'[v].kind = "rotated" <=> op[v].kind = "rotated",
         Before'.state <= puts,
         record' # NoRecord => StatesUpTo(record'.entries, puts),
         \A v \in Workers : StatesUpTo(op'[v].entries, puts)
  PROVE  RotInv'
BY DEF RotInv, SyncTied, StatesIn, BucketOK

\* The states on either side of the pending change are of objects that were there.
LEMMA AfterState ==
  ASSUME RotInv
  PROVE  Before.state <= puts /\ After.state <= puts /\ Now.state <= puts /\ disk.state <= puts
<1>1. StoreInv /\ Before.state <= puts /\ "state" \in Names
  BY DEF RotInv, VaultInv, Shapes, StatesIn, Names
<1>2. After.state <= puts
  <2>1. CASE record = NoRecord
    BY <1>1, <2>1, Settled
  <2>2. CASE record # NoRecord
    <3>1. /\ record.entries \in Seq(Entries) /\ StatesUpTo(record.entries, puts)
          /\ NowhereElse(record.entries)
          /\ \A f \in Written(record.entries) : After[f] = Of(record.entries, f).new
      BY <1>1, <2>2, RecordParts, Settled DEF StoreInv, RotInv, StatesIn
    <3>2. CASE "state" \notin Written(record.entries)
      BY <1>1, <3>1, <3>2 DEF NowhereElse
    <3>3. CASE "state" \in Written(record.entries)
      <4>1. PICK i \in DOMAIN record.entries :
              record.entries[i].file = "state" /\ Of(record.entries, "state") = record.entries[i]
        BY <3>3, OfIs
      <4> QED BY <3>1, <3>3, <4>1 DEF StatesUpTo
    <3> QED BY <3>2, <3>3
  <2> QED BY <2>1, <2>2
<1> QED BY <1>1, <1>2, Settled

\* A change that records no state records none too late.
LEMMA NoStates ==
  ASSUME NEW entries, "state" \notin Written(entries), NEW n
  PROVE  StatesUpTo(entries, n)
BY DEF StatesUpTo, Written

\* One request changes and has nothing to publish.
LEMMA NoNewsRot ==
  ASSUME RotInv, VaultInv', NEW w \in Workers, NoNews(w), UNCHANGED <<sync, puts, remote>>,
         op'[w].kind = "rotated" <=> op[w].kind = "rotated",
         StatesUpTo(op'[w].entries, puts)
  PROVE  RotInv'
<1>1. Before' = Before /\ record' = record
  BY StoreStays DEF RotInv, VaultInv, Shapes, NoNews
<1>2. \A v \in Workers : v # w => op'[v] = op[v]
  BY DEF NoNews, OthersStay
<1>3. \A v \in Workers : StatesUpTo(op'[v].entries, puts)
  BY <1>2 DEF RotInv, StatesIn
<1> QED BY <1>1, <1>2, <1>3, KeepsRot DEF RotInv, StatesIn

\* Nor does a rotation see anything of it.
LEMMA PlainRot ==
  ASSUME RotInv, VaultInv', NEW w \in Workers, NoNews(w), StaysRotated(w),
         UNCHANGED <<sync, puts, remote>>
  PROVE  RotInv'
<1>1. StatesUpTo(op'[w].entries, puts)
  BY NoStates DEF StaysRotated, RotInv, StatesIn
<1> QED BY <1>1, NoNewsRot DEF StaysRotated

\* A change begins,
LEMMA BeginsRot ==
  ASSUME RotInv, NEW w \in Workers, Begins(w), UNCHANGED <<sync, puts, remote>>
  PROVE  RotInv'
<1>1. VaultInv' /\ VaultInv
  BY BeginsKeeps DEF RotInv
<1>2. /\ OnlyMoves(w) /\ record = NoRecord /\ Before' = disk' /\ Backs /\ BuiltOK(op[w], Built(w))
      /\ record' # NoRecord => record'.entries = Built(w)
  BY <1>1, BeginsEffect
<1>3. Before'.state <= puts
  <2>1. "state" \in Names \ {"backups"}
    BY DEF Names
  <2> QED BY <1>2, <2>1, AfterState DEF Backs
<1>4. record' # NoRecord => StatesUpTo(record'.entries, puts)
  <2>1. CASE op[w].kind = "rekey"
    <3>1. "state" \notin Written(Built(w))
      <4> SUFFICES ASSUME "state" \in Written(Built(w)) PROVE FALSE
        OBVIOUS
      <4>1. Built(w) \in Seq(Entries) /\ ReSealing(Of(Built(w), "state"), op[w].candidate.key)
        BY <1>2, <2>1 DEF BuiltOK
      <4>2. Of(Built(w), "state").file = "state"
        BY <4>1, OfEntry
      <4> QED BY <4>1, <4>2 DEF ReSealing
    <3> QED BY <1>2, <3>1, NoStates
  <2>2. CASE op[w].kind # "rekey"
    BY <1>2, <2>2 DEF BuiltOK, RotInv, StatesIn
  <2> QED BY <2>1, <2>2
<1>5. \A v \in Workers : /\ op'[v].kind = "rotated" <=> op[v].kind = "rotated"
                         /\ StatesUpTo(op'[v].entries, puts)
  BY <1>2 DEF OnlyMoves, RotInv, StatesIn
<1> QED BY <1>1, <1>3, <1>4, <1>5, KeepsRot

\* is applied,
LEMMA AppliesRot ==
  ASSUME RotInv, NEW w \in Workers, Applies(w), UNCHANGED <<sync, puts, remote>>
  PROVE  RotInv'
<1>1. VaultInv' /\ VaultInv
  BY AppliesKeeps DEF RotInv
<1>2. op' = op /\ Before' = Before /\ record'.entries = record.entries /\ record # NoRecord
  BY <1>1, AppliesEffect
<1> QED BY <1>1, <1>2, KeepsRot DEF RotInv, StatesIn

\* ends,
LEMMA EndsRot ==
  ASSUME RotInv, NEW w \in Workers, Ends(w), UNCHANGED <<sync, puts, remote>>
  PROVE  RotInv'
<1>1. VaultInv' /\ VaultInv
  BY EndsKeeps DEF RotInv
<1>2. /\ OnlyMoves(w) /\ Before' \in {Before, After} /\ Linked(record, op[w])
      /\ record' = NoRecord \/ record'.entries = record.entries
  BY <1>1, EndsEffect
<1>3. \A v \in Workers : /\ op'[v].kind = "rotated" <=> op[v].kind = "rotated"
                         /\ StatesUpTo(op'[v].entries, puts)
  BY <1>2 DEF OnlyMoves, RotInv, StatesIn
<1>4. record # NoRecord /\ Before'.state <= puts
  BY <1>2, AfterState DEF Linked
<1> QED BY <1>1, <1>2, <1>3, <1>4, KeepsRot DEF RotInv, StatesIn

\* or fails.
LEMMA FailsRot ==
  ASSUME RotInv, NEW w \in Workers, Fails(w), UNCHANGED <<sync, puts, remote>>
  PROVE  RotInv'
<1>1. VaultInv' /\ VaultInv
  BY FailsKeeps DEF RotInv
<1>2. /\ OnlyMoves(w) /\ Before' = Before
      /\ record' = NoRecord \/ record' = record
  BY <1>1, FailsEffect
<1>3. \A v \in Workers : /\ op'[v].kind = "rotated" <=> op[v].kind = "rotated"
                         /\ StatesUpTo(op'[v].entries, puts)
  BY <1>2 DEF OnlyMoves, RotInv, StatesIn
<1> QED BY <1>1, <1>2, <1>3, KeepsRot DEF RotInv, StatesIn

\* The request is over, or has the vault locked.
LEMMA OverRot ==
  ASSUME RotInv, VaultInv', NEW w \in Workers, OthersStay(w), op[w].kind # "rotated",
         \/ op'[w] = Idle
         \/ op'[w].at = "lock" /\ op'[w].kind = "restore",
         UNCHANGED <<disk, record, sync, puts, remote>>
  PROVE  RotInv'
<1>1. Before' = Before /\ record' = record
  BY StoreStays DEF RotInv, VaultInv, Shapes
<1>2. \A v \in Workers : v # w => op'[v] = op[v]
  BY DEF OthersStay
<1>3. op'[w].kind # "rotated" /\ OpShape(op'[w])
  BY IdleShape DEF VaultInv, Shapes, OpsInv
<1>4. "state" \notin Written(op'[w].entries)
  <2>1. op'[w].kind \in {"none", "restore"}
    BY IdleShape
  <2> QED BY <1>3, <2>1, StateKinds
<1>5. \A v \in Workers : StatesUpTo(op'[v].entries, puts)
  BY <1>2, <1>4, NoStates DEF RotInv, StatesIn
<1> QED BY <1>1, <1>2, <1>3, <1>5, KeepsRot DEF RotInv, StatesIn

\* The requests stay, and what is left on disk was there before or after the change.
LEMMA StoreRot ==
  ASSUME RotInv, VaultInv', UNCHANGED <<op, sync, puts, remote>>,
         \/ UNCHANGED <<disk, record>>
         \/ record' = NoRecord /\ disk'.state \in {Before.state, After.state}
  PROVE  RotInv'
<1>1. CASE UNCHANGED <<disk, record>>
  <2>1. Before' = Before
    BY <1>1, StoreStays DEF RotInv, VaultInv, Shapes
  <2> QED BY <1>1, <2>1, KeepsRot DEF RotInv, StatesIn
<1>2. CASE record' = NoRecord /\ disk'.state \in {Before.state, After.state}
  <2>1. Before' = disk'
    BY <1>2 DEF Before
  <2>2. Before'.state <= puts
    BY <1>2, <2>1, AfterState
  <2> QED BY <1>2, <2>2, KeepsRot DEF RotInv, StatesIn
<1> QED BY <1>1, <1>2

\* The vault is opened by the local secret.
LEMMA UnlockRot ==
  ASSUME RotInv, VaultInv', AutoUnlock, UNCHANGED <<op, sync, puts, remote>>
  PROVE  RotInv'
<1>1. StoreInv /\ vault \in VaultContents
  BY DEF RotInv, VaultInv, Shapes
<1>2. Now \in {Before, After}
  BY <1>1, Settled
<1>3. UNCHANGED <<disk, record>> \/ (record' = NoRecord /\ disk' = Now)
  BY <1>1, AutoUnlockEffect
<1>4. UNCHANGED <<disk, record>>
      \/ (record' = NoRecord /\ disk'.state \in {Before.state, After.state})
  BY <1>2, <1>3
<1> QED BY <1>4, StoreRot

\* A step of any request,
LEMMA StepRot ==
  ASSUME RotInv, NEW w \in Workers, Step(w), UNCHANGED <<sync, puts, remote>>
  PROVE  RotInv'
<1>0. VaultInv
  BY DEF RotInv
<1>1. CASE RestoreReads(w)
  BY <1>0, <1>1, RestoreReadsEffect, PlainRot
<1>2. CASE Begins(w)
  BY <1>2, BeginsRot
<1>3. CASE Refused(w)
  BY <1>0, <1>3, RefusedEffect, PlainRot
<1>4. CASE Applies(w)
  BY <1>4, AppliesRot
<1>5. CASE Ends(w)
  BY <1>5, EndsRot
<1>6. CASE Fails(w)
  BY <1>6, FailsRot
<1>7. CASE Publishes(w)
  <2>1. op[w].kind # "rotated" /\ UNCHANGED <<disk, record>>
    BY <1>7 DEF Publishes, storageVars
  <2> QED BY <1>0, <1>7, <2>1, PublishesKeeps, OverRot
<1>8. CASE Reloads(w)
  <2>1. op[w].kind # "rotated" /\ UNCHANGED <<disk, record>>
    BY <1>8 DEF Reloads, storageVars
  <2> QED BY <1>0, <1>8, <2>1, ReloadsKeeps, OverRot
<1>9. CASE LocksAfterRestore(w)
  <2>1. UNCHANGED <<disk, record>>
    BY <1>9 DEF LocksAfterRestore, storageVars
  <2>2. op[w].kind # "rotated"
    <3>1. OpShape(op[w]) /\ op[w].at = "lock"
      BY <1>0, <1>9 DEF VaultInv, Shapes, OpsInv, LocksAfterRestore
    <3> QED BY <3>1 DEF OpShape, StagesOK
  <2> QED BY <1>0, <1>9, <2>1, <2>2, LocksKeeps, OverRot
<1>10. CASE Returns(w)
  BY <1>0, <1>10, ReturnsEffect, PlainRot
<1> QED BY <1>1, <1>2, <1>3, <1>4, <1>5, <1>6, <1>7, <1>8, <1>9, <1>10 DEF Step

\* a new request,
LEMMA RequestRot ==
  ASSUME RotInv, NEW w \in Workers, Request(w), UNCHANGED <<sync, puts, remote>>
  PROVE  RotInv'
<1>0. VaultInv
  BY DEF RotInv
<1>1. ASSUME NEW sign \in {1, -1}, Initialise(w, sign) PROVE RotInv'
  BY <1>0, <1>1, InitialiseEffect, PlainRot
<1>2. ASSUME NEW sign \in {1, -1}, ChangeMasterPassword(w, sign) PROVE RotInv'
  BY <1>0, <1>2, ChangeEffect, PlainRot
<1>3. ASSUME NEW s \in Secrets, Save(w, s) PROVE RotInv'
  BY <1>0, <1>3, SaveEffect, PlainRot
<1>4. CASE SetSyncSettings(w)
  BY <1>0, <1>4, SetSyncSettingsEffect, PlainRot
<1>5. CASE SaveLibrary(w)
  <2>1. /\ VaultInv' /\ op' = op /\ record = NoRecord /\ record' = NoRecord
        /\ \A f \in Names \ {"library"} : disk'[f] = disk[f]
    BY <1>0, <1>5, SaveLibraryEffect
  <2>2. disk'.state = Before.state
    BY <2>1 DEF Names, Before
  <2> QED BY <2>1, <2>2, StoreRot
<1>6. CASE SaveConfig(w)
  BY <1>0, <1>6, SaveConfigEffect, PlainRot
<1>7. ASSUME NEW b \in disk.backups, Restore(w, b) PROVE RotInv'
  BY <1>0, <1>7, RestoreEffect, PlainRot
<1> QED BY <1>1, <1>2, <1>3, <1>4, <1>5, <1>6, <1>7 DEF Request

\* or any other step of the vault, with the operation left alone.
LEMMA VaultStepRot ==
  ASSUME RotInv, VaultStep, UNCHANGED <<sync, puts, remote>>
  PROVE  RotInv'
<1>0. VaultInv
  BY DEF RotInv
<1>1. CASE IdleCloses
  <2>1. VaultInv' /\ UNCHANGED <<disk, record, op>>
    BY <1>0, <1>1, IdleClosesKeeps DEF IdleCloses, storageVars
  <2> QED BY <2>1, StoreRot
<1>2. CASE Unlock
  <2>1. VaultInv' /\ UNCHANGED <<disk, record, op>>
    BY <1>0, <1>2, UnlockKeeps DEF Unlock, storageVars
  <2> QED BY <2>1, StoreRot
<1>3. CASE LockManually
  <2>1. VaultInv' /\ op' = op /\ (UNCHANGED <<disk, record>> \/ AutoUnlock)
    BY <1>0, <1>3, LockManuallyEffect
  <2> QED BY <2>1, StoreRot, UnlockRot
<1>4. CASE Start
  <2>1. VaultInv' /\ op' = op /\ AutoUnlock
    BY <1>0, <1>4, StartKeeps DEF Start
  <2> QED BY <2>1, UnlockRot
<1> QED BY <1>1, <1>2, <1>3, <1>4, StepRot, RequestRot DEF VaultStep

\* The request of an operation that speaks to the bucket.
Called == [Idle EXCEPT !.kind = "rotated", !.at = "call"]

\* It has nothing to write.
LEMMA CalledShape ==
  OpShape(Called) /\ Called.kind = "rotated" /\ Called.at = "call" /\ Called.entries = << >>
  /\ \A n : StatesUpTo(Called.entries, n)
<1>1. OpShape(Called) /\ Called.kind = "rotated" /\ Called.at = "call" /\ Called.entries = << >>
  BY CallShape DEF Called
<1> QED BY <1>1, NoEntries DEF StatesUpTo

\* A request that changes short of being done has nothing to publish.
LEMMA NoNewsShape ==
  ASSUME VaultInv, NEW w \in Workers, OthersStay(w), op[w].at \notin {"apply"},
         op[w].at = "done" => op[w].kind \notin Publishers,
         op'[w].at \notin {"apply", "done"}, op'[w].kind # "pull",
         UNCHANGED <<storageVars, vault, up, ghostVars>>
  PROVE  NoNews(w)
BY DEF NoNews, storageVars, ghostVars

\* A step of the request that rotates.
LEMMA CallStep ==
  ASSUME RotInv, NEW w \in Workers, sync.by = w, op[w].at \in {"call", "done", "failed"},
         NEW o, OpShape(o), o.kind = "rotated", o.at \in {"commit", "call"},
         op' = [op EXCEPT ![w] = o], UNCHANGED <<storageVars, vault, up, keys, ghostVars>>,
         \/ owner = NoWorker /\ owner' = w
         \/ owner' = owner
         \/ Released(w)
  PROVE  VaultInv' /\ op'[w] = o /\ NoNews(w)
<1>1. /\ VaultInv /\ up /\ op[w].kind = "rotated" /\ vault' \in VaultContents
      /\ keys' \in Nat /\ owner \in Workers \cup {NoWorker} /\ NoWorker \notin Workers
  BY SyncParts, VaultAssumption DEF RotInv, VaultInv, Shapes, Ties
<1>2. owner' \in Workers \cup {NoWorker} /\ \A v \in Workers : v # w /\ owner = v => owner' = v
  BY <1>1 DEF Released
<1>3. VaultInv' /\ op'[w] = o /\ OthersStay(w)
  BY <1>1, <1>2, OpStep DEF storageVars, Owners
<1> QED BY <1>1, <1>3, NoNewsShape DEF Publishers

\* A push, a pull or a change of the key begins.
LEMMA OperatesKeeps ==
  ASSUME RotInv, NEW w \in Workers, NEW kind, NEW new \in Nat, NEW todo, Fit(todo, new, 0),
         Operates(w, kind, new, todo)
  PROVE  RotInv' /\ NoNews(w)
<1>1. /\ VaultInv /\ op[w] = Idle /\ up /\ sync = NoSync /\ owner' = owner
      /\ UNCHANGED <<storageVars, vault, up, ghostVars>> /\ keys' \in Nat
      /\ op' = [op EXCEPT ![w] = Called] /\ remote' = remote /\ puts' = puts
      /\ sync' = [by |-> w, todo |-> todo, new |-> new, read |-> disk.settings.body,
                  object |-> remote, sealed |-> 0, etag |-> 0, undo |-> FALSE]
  BY DEF Operates, Asks, RotInv, VaultInv, Shapes, Called
<1>2. VaultInv' /\ op'[w] = Called /\ OthersStay(w) /\ NoNews(w) /\ op[w].kind = "none"
  <2>1. OpShape(Called) /\ Called.at \in {"commit", "read", "call"} /\ Called.kind = "rotated"
        /\ Called.kind \notin Owners /\ Called.kind # "pull"
    BY CalledShape DEF Owners
  <2>2. PICK o : o = Called
    OBVIOUS
  <2> QED BY <1>1, <2>1, <2>2, AsksStep
<1>3. disk.settings.body \in SettingsBodies
  <2>1. disk.settings \in SettingsContents /\ disk.settings.key # 0
    BY <1>1, DiskTypes DEF Operates, VaultInv, Shapes, StoreInv, VaultContents, Closed
  <2> QED BY <2>1, MissingIn DEF SettingsContents
<1>4. SyncTied'
  <2>1. sync'.by = w /\ sync'.todo = todo /\ sync'.new = new /\ sync'.sealed = 0
    BY <1>1
  <2>2. todo \in Seq(Stages) /\ remote \in Objs(puts) /\ puts \in Nat /\ 0 \in 0 .. puts
    BY DEF Fit, RotInv, BucketOK
  <2>3. sync' \in Syncs(puts)
    BY <1>1, <1>3, <2>2 DEF Syncs
  <2>4. SyncShape(sync', puts')
    BY <1>1, <2>1, <2>3 DEF SyncShape
  <2>5. \A v \in Workers : op'[v].kind = "rotated" <=> sync'.by = v
    BY <1>1, <1>2, <2>1, CalledShape, VaultAssumption DEF RotInv, SyncTied, NoSync, OthersStay
  <2> QED BY <2>4, <2>5 DEF SyncTied
<1>5. StatesIn' /\ BucketOK'
  <2>1. Before' = Before /\ record' = record
    BY <1>1, StoreStays DEF RotInv, VaultInv, Shapes, storageVars
  <2>2. \A v \in Workers : StatesUpTo(op'[v].entries, puts)
    BY <1>2, CalledShape DEF OthersStay, RotInv, StatesIn
  <2> QED BY <1>1, <2>1, <2>2 DEF RotInv, StatesIn, BucketOK
<1> QED BY <1>2, <1>4, <1>5 DEF RotInv

\* The journal and the state are written one at a time.
LEMMA LocalEntryIs ==
  ASSUME RotInv, NEW w \in Workers, sync.by = w, Stage \in {"prepare", "advance", "clear", "state"}
  PROVE  \E f \in {"state", "journal"} : \E old, new :
           /\ old \in Contents(f) /\ new \in Contents(f) /\ LocalEntry = Entry(f, old, new)
           /\ f = "state" => new <= puts
<1>1. /\ sync.object \in Objs(puts) /\ sync.sealed \in Nat /\ sync.etag \in 0 .. puts
      /\ sync.etag \in Nat /\ puts \in Nat /\ sync.etag <= puts
      /\ disk.journal \in JournalContents /\ disk.state \in Nat
  BY SyncParts, DiskTypes DEF RotInv, VaultInv, Shapes, StoreInv, BucketOK
<1>2. Contents("journal") = JournalContents /\ Contents("state") = Nat
  BY ContentsOf
<1>3. \A phase \in {"prepared", "advanced"} : Journal(phase) \in JournalContents
  BY <1>1 DEF Journal, JournalContents, Objs
<1>4. NoJournal \in JournalContents
  BY DEF JournalContents
<1>5. CASE Stage = "state"
  <2>1. LocalEntry = Entry("state", disk.state, sync.etag)
    BY <1>5 DEF LocalEntry
  <2> QED BY <1>1, <1>2, <2>1
<1>6. CASE Stage \in {"prepare", "advance", "clear"}
  <2>1. PICK new \in JournalContents : LocalEntry = Entry("journal", disk.journal, new)
    BY <1>3, <1>4, <1>6 DEF LocalEntry
  <2> QED BY <1>1, <1>2, <2>1
<1> QED BY <1>5, <1>6

\* The write of a journal or a state is asked for,
LEMMA CommitsKeeps ==
  ASSUME RotInv, NEW w \in Workers, Commits(w)
  PROVE  RotInv' /\ NoNews(w)
<1>1. /\ sync.by = w /\ op[w].at = "call" /\ Stage \in {"prepare", "advance", "clear", "state"}
      /\ Goes(w, "rotated", <<LocalEntry>>, Missing)
      /\ UNCHANGED <<storageVars, vault, owner, up, keys, ghostVars>>
      /\ UNCHANGED <<sync, puts, remote>> /\ op[w].kind = "rotated"
  <2>1. op[w].kind = "rotated"
    BY DEF Commits, Calls, RotInv, SyncTied
  <2> QED BY <2>1 DEF Commits, Calls, rotationVars
<1>2. PICK f, old, new : f \in {"state", "journal"} /\
           /\ old \in Contents(f) /\ new \in Contents(f) /\ LocalEntry = Entry(f, old, new)
           /\ f = "state" => new <= puts
  BY <1>1, LocalEntryIs
<1> DEFINE e == Entry(f, old, new)
           o == New("rotated", <<e>>, Missing)
<1>3. OpShape(o)
  BY <1>2, SettingsShape
<1>4. op' = [op EXCEPT ![w] = o] /\ o.kind = "rotated" /\ o.at = "commit" /\ o.entries = <<e>>
  BY <1>1, <1>2 DEF Goes, New
<1>5. StatesUpTo(o.entries, puts)
  <2>1. e.file = f /\ e.new = new
    BY DEF Entry
  <2> HIDE DEF e
  <2> QED BY <1>2, <1>4, <2>1 DEF StatesUpTo
<1> HIDE DEF o
<1>6. VaultInv' /\ op'[w] = o /\ NoNews(w)
  BY <1>1, <1>3, <1>4, CallStep
<1> QED BY <1>1, <1>4, <1>5, <1>6, NoNewsRot

\* or that of the settings with the new key.
LEMMA CommitsKeyKeeps ==
  ASSUME RotInv, NEW w \in Workers, CommitsKey(w)
  PROVE  RotInv' /\ NoNews(w)
<1> DEFINE body == [sync.read EXCEPT !.sync = sync.new]
<1>1. /\ sync.by = w /\ op[w].at = "call" /\ Stage = "commit" /\ sync.todo # << >>
      /\ WriteSettings(w, "rotated", body)
      /\ UNCHANGED <<sync, puts, remote>> /\ op[w].kind = "rotated" /\ VaultInv
  <2>1. op[w].kind = "rotated"
    BY DEF CommitsKey, Calls, RotInv, SyncTied
  <2> QED BY <2>1 DEF CommitsKey, Calls, rotationVars, Stage, RotInv
<1>2. body \in SettingsBodies
  <2>1. sync.read \in SettingsBodies /\ sync.new \in SyncKeys
    BY <1>1, SyncParts
  <2> QED BY <2>1 DEF SettingsBodies
<1> HIDE DEF body
<1>3. \E o : /\ OpShape(o) /\ o.kind = "rotated" /\ o.at = "commit" /\ op' = [op EXCEPT ![w] = o]
             /\ "state" \notin Written(o.entries)
  <2> DEFINE new == Sealed(vault.key, body)
             e == Entry("settings", disk.settings, new)
             o == New("rotated", <<e>>, Missing)
  <2>1. /\ vault.key \in Int \ {0} /\ disk.settings \in SettingsContents
        /\ disk.settings.key = vault.key
    BY <1>1, DiskTypes DEF VaultInv, Shapes, StoreInv, VaultContents, WriteSettings, Closed
  <2>2. new \in SettingsContents /\ new.key = vault.key
    BY <1>2, <2>1, SealedIn
  <2>3. op' = [op EXCEPT ![w] = o]
    BY <1>1 DEF WriteSettings, Goes, New
  <2> HIDE DEF new
  <2>4. OpShape(o)
    BY <2>1, <2>2, SettingsShape, ContentsOf
  <2>5. o.kind = "rotated" /\ o.at = "commit" /\ o.entries = <<e>> /\ e.file = "settings"
    BY DEF New, Entry
  <2>6. "state" \notin Written(o.entries)
    <3> HIDE DEF o, e
    <3> QED BY <2>5 DEF Written
  <2> HIDE DEF o
  <2> QED BY <2>3, <2>4, <2>5, <2>6
<1>4. PICK o : /\ OpShape(o) /\ o.kind = "rotated" /\ o.at = "commit" /\ op' = [op EXCEPT ![w] = o]
               /\ "state" \notin Written(o.entries)
  BY <1>3
<1>5. /\ UNCHANGED <<storageVars, vault, up, keys, ghostVars>> /\ owner = NoWorker /\ owner' = w
  BY <1>1 DEF WriteSettings, Holds
<1>6. VaultInv' /\ op'[w] = o /\ NoNews(w)
  BY <1>1, <1>4, <1>5, CallStep
<1>7. StatesUpTo(o.entries, puts)
  BY <1>4, NoStates
<1> QED BY <1>1, <1>4, <1>6, <1>7, NoNewsRot

\* The operation goes on after a write, or is abandoned when it failed.
LEMMA ContinuesKeeps ==
  ASSUME RotInv, NEW w \in Workers, Continues(w)
  PROVE  RotInv' /\ NoNews(w)
<1>1. /\ sync.by = w /\ op[w].at \in {"done", "failed"} /\ Released(w)
      /\ op' = [op EXCEPT ![w] = Called]
      /\ UNCHANGED <<storageVars, vault, up, keys, ghostVars>> /\ UNCHANGED <<puts, remote>>
      /\ op[w].kind = "rotated"
      /\ IF op[w].at = "done"
         THEN sync' = [sync EXCEPT !.todo = Tail(@), !.undo = @ /\ Stage # "commit"]
         ELSE Abandons
  <2>1. op[w].kind = "rotated"
    BY DEF Continues, RotInv, SyncTied
  <2> QED BY <2>1 DEF Continues, Called
<1>2. VaultInv' /\ op'[w] = Called /\ NoNews(w)
  <2>1. OpShape(Called) /\ Called.kind = "rotated" /\ Called.at \in {"commit", "call"}
    BY CalledShape
  <2>2. PICK o : o = Called
    OBVIOUS
  <2> QED BY <1>1, <2>1, <2>2, CallStep
<1> DEFINE todo == IF op[w].at = "done" THEN Tail(sync.todo)
                   ELSE IF sync.undo THEN <<"undo", "state", "clear">> ELSE << >>
           undo == IF op[w].at = "done" THEN sync.undo /\ Stage # "commit" ELSE FALSE
<1>3. /\ sync.object \in Objs(puts) /\ sync.sealed \in 0 .. puts /\ sync.etag \in 0 .. puts
      /\ sync.undo \in BOOLEAN
      /\ sync \in [by : {w}, todo : {sync.todo}, new : {sync.new}, read : {sync.read},
                   object : {sync.object}, sealed : {sync.sealed}, etag : {sync.etag},
                   undo : {sync.undo}]
      /\ sync.todo # << >> => Fit(Tail(sync.todo), sync.new, sync.sealed)
      /\ Fit(sync.todo, sync.new, sync.sealed)
  BY <1>1, SyncParts
<1>4. Fit(todo, sync.new, sync.sealed)
  <2>1. sync.todo = << >> => Tail(sync.todo) = << >>
    OBVIOUS
  <2> QED BY <1>3, <2>1, FitLists, FitNone
<1>5. undo \in BOOLEAN
  BY <1>3
<1>6. Changed(w, todo, sync.object, sync.sealed, sync.etag, undo)
  <2>1. CASE op[w].at = "done"
    <3>1. sync' = [sync EXCEPT !.todo = Tail(@), !.undo = @ /\ Stage # "commit"]
      BY <1>1, <2>1
    <3>2. todo = Tail(sync.todo) /\ undo = (sync.undo /\ Stage # "commit")
      BY <2>1
    <3> HIDE DEF todo, undo
    <3> QED BY <1>3, <3>1, <3>2 DEF Changed
  <2>2. CASE op[w].at # "done"
    <3>1. sync' = [sync EXCEPT !.todo = todo, !.undo = undo]
      BY <1>1, <2>2 DEF Abandons
    <3> HIDE DEF todo, undo
    <3> QED BY <1>3, <3>1 DEF Changed
  <2> QED BY <2>1, <2>2
<1> HIDE DEF todo, undo
<1>7. puts' = puts /\ puts \in Nat
  BY <1>1 DEF RotInv, BucketOK
<1>8. PICK ob, se, et : ob = sync.object /\ se = sync.sealed /\ et = sync.etag
  OBVIOUS
<1>9. sync'.by = w /\ SyncShape(sync', puts')
  <2>1. /\ puts' \in Nat /\ puts <= puts' /\ ob \in Objs(puts')
        /\ se \in 0 .. puts' /\ et \in 0 .. puts'
    BY <1>3, <1>7, <1>8
  <2>2. Fit(todo, sync.new, se) /\ Changed(w, todo, ob, se, et, undo)
    BY <1>4, <1>6, <1>8
  <2> QED BY <1>1, <1>5, <2>1, <2>2, ChangedShape
<1>10. SyncTied'
  BY <1>1, <1>2, <1>9, CalledShape DEF SyncTied, RotInv, NoNews, OthersStay
<1>11. StatesIn' /\ BucketOK'
  <2>1. Before' = Before /\ record' = record
    BY <1>1, StoreStays DEF RotInv, VaultInv, Shapes, storageVars
  <2>2. \A v \in Workers : StatesUpTo(op'[v].entries, puts)
    BY <1>2, CalledShape DEF NoNews, OthersStay, RotInv, StatesIn
  <2> QED BY <1>1, <2>1, <2>2 DEF RotInv, StatesIn, BucketOK
<1> QED BY <1>2, <1>10, <1>11 DEF RotInv

\* The operation is over.
LEMMA AnswersKeeps ==
  ASSUME RotInv, NEW w \in Workers, Answers(w)
  PROVE  RotInv' /\ NoNews(w)
<1>1. /\ sync.by = w /\ op[w].at = "call" /\ sync' = NoSync /\ owner' = owner
      /\ op' = [op EXCEPT ![w] = Idle]
      /\ UNCHANGED <<storageVars, vault, up, keys, ghostVars>> /\ UNCHANGED <<puts, remote>>
      /\ op[w].kind = "rotated" /\ VaultInv /\ up
  <2>1. op[w].kind = "rotated" /\ up
    BY SyncParts DEF Answers, Calls
  <2> QED BY <2>1 DEF Answers, Calls, RotInv
<1>2. VaultInv' /\ op'[w] = Idle /\ OthersStay(w)
  <2>1. OpShape(Idle) /\ Idle.at # "apply" /\ Idle.kind \notin Owners
    BY IdleShape DEF Owners
  <2>2. vault' \in VaultContents /\ keys' \in Nat /\ owner' \in Workers \cup {NoWorker}
    BY <1>1 DEF VaultInv, Shapes, Ties
  <2>3. PICK o : o = Idle
    OBVIOUS
  <2> QED BY <1>1, <2>1, <2>2, <2>3, OpStep DEF storageVars
<1>3. NoNews(w)
  BY <1>1, <1>2, IdleShape, NoNewsShape
<1>4. SyncTied'
  BY <1>1, <1>2, IdleShape, VaultAssumption DEF SyncTied, RotInv, OthersStay, NoSync
<1>5. StatesIn' /\ BucketOK'
  <2>1. Before' = Before /\ record' = record
    BY <1>1, StoreStays DEF RotInv, VaultInv, Shapes, storageVars
  <2>2. "state" \notin Written(Idle.entries)
    BY IdleShape, NoEntries
  <2>3. \A v \in Workers : StatesUpTo(op'[v].entries, puts)
    BY <1>2, <2>2, NoStates DEF OthersStay, RotInv, StatesIn
  <2> QED BY <1>1, <2>1, <2>3 DEF RotInv, StatesIn, BucketOK
<1> QED BY <1>2, <1>3, <1>4, <1>5 DEF RotInv

\* A pull has its files written.
LEMMA PullsKeeps ==
  ASSUME RotInv, NEW w \in Workers, PullsFiles(w)
  PROVE  RotInv' /\ NoNews(w)
<1>1. /\ remote.etag \in Nat /\ remote.etag <= puts /\ Pull(w, remote.etag) /\ VaultInv
      /\ UNCHANGED <<sync, puts, remote>>
  BY DEF PullsFiles, RotInv, BucketOK, Objs, rotationVars
<1>2. /\ VaultInv' /\ NoNews(w) /\ op[w].kind = "none" /\ op'[w].kind = "pull"
      /\ \A i \in DOMAIN op'[w].entries :
           op'[w].entries[i].file = "state" => op'[w].entries[i].new = remote.etag
  BY <1>1, PullEffect
<1>3. StatesUpTo(op'[w].entries, puts)
  BY <1>1, <1>2 DEF StatesUpTo
<1> QED BY <1>1, <1>2, <1>3, NoNewsRot

\* A recovery, with what it may stray from.
LEMMA RecoversKeeps ==
  ASSUME RotInv, NEW w \in Workers, NEW action, Recovers(w, action)
  PROVE  RotInv'
<1>1. VaultInv /\ Recover(w, action) /\ UNCHANGED <<sync, puts, remote>>
  BY DEF Recovers, RotInv
<1>2. /\ VaultInv' /\ record # NoRecord /\ record' = NoRecord
      /\ Now' = disk' /\ op[w] = Idle /\ OthersStay(w)
      /\ op'[w].kind = "recover" /\ op'[w].entries = record.entries
      /\ disk' \in {Now, After}
  BY <1>1, RecoverEffect
<1>3. Before'.state <= puts
  BY <1>2, AfterState DEF Before
<1>4. \A v \in Workers : /\ op'[v].kind = "rotated" <=> op[v].kind = "rotated"
                         /\ StatesUpTo(op'[v].entries, puts)
  BY <1>2, IdleShape DEF OthersStay, RotInv, StatesIn
<1> QED BY <1>1, <1>2, <1>3, <1>4, KeepsRot

\* The engine dies, and the operation with it.
LEMMA KilledKeeps ==
  ASSUME RotInv, Killed
  PROVE  RotInv'
<1>1. /\ VaultInv /\ Crash /\ sync' = NoSync /\ UNCHANGED <<remote, puts>> /\ record' = record
  BY DEF Killed, RotInv, Crash
<1>2. VaultInv' /\ Before' = Before /\ \A w \in Workers : op'[w] = Idle
  BY <1>1, CrashEffect
<1>3. SyncTied'
  BY <1>1, <1>2, IdleShape, VaultAssumption DEF SyncTied, NoSync
<1>4. "state" \notin Written(Idle.entries)
  BY IdleShape, NoEntries
<1>5. StatesIn' /\ BucketOK'
  BY <1>1, <1>2, <1>4, NoStates DEF RotInv, StatesIn, BucketOK
<1> QED BY <1>2, <1>3, <1>5 DEF RotInv

\* Every step.
LEMMA NextRot ==
  ASSUME RotInv, Next
  PROVE  RotInv'
<1>1. CASE VaultStep /\ UNCHANGED rotationVars
  BY <1>1, VaultStepRot DEF rotationVars
<1>2. ASSUME NEW w \in Workers, Rotation(w) PROVE RotInv'
  <2>1. ASSUME NEW new \in SyncKeys, ReplaceKey(w, new) PROVE RotInv'
    <3>1. new \in Nat /\ Fit(<<"resolve", "choose">>, new, 0)
      BY RotationAssumption, FitLists
    <3> QED BY <2>1, <3>1, OperatesKeeps DEF ReplaceKey
  <2>2. CASE Push(w)
    <3>1. Fit(<<"ensure", "send", "state">>, 0, 0)
      BY FitLists
    <3> QED BY <2>2, <3>1, OperatesKeeps DEF Push
  <2>3. CASE Fetch(w)
    <3>1. Fit(<<"ensure", "get", "state">>, 0, 0)
      BY FitLists
    <3> QED BY <2>3, <3>1, OperatesKeeps DEF Fetch
  <2> QED BY <1>2, <2>1, <2>2, <2>3, PullsKeeps, ResolveKeeps, EnsureKeeps, ChoosesKeeps,
             GetsKeeps, PutsResealedKeeps, PutsBackKeeps, SendsKeeps, CommitsKeeps,
             CommitsKeyKeeps, CommitsNoKeyKeeps, ContinuesKeeps, AnswersKeeps DEF Rotation
<1>3. ASSUME NEW w \in Workers, NEW action, Recovers(w, action) PROVE RotInv'
  BY <1>3, RecoversKeeps
<1>4. CASE OtherPush
  BY <1>4, OtherPushKeeps
<1>5. CASE Killed
  BY <1>5, KilledKeeps
<1> QED BY <1>1, <1>2, <1>3, <1>4, <1>5 DEF Next

\* Nor does a stuttering step disturb anything.
LEMMA StutterRot ==
  ASSUME RotInv, UNCHANGED vars
  PROVE  RotInv'
<1>1. UNCHANGED <<storageVars, memoryVars, remote, puts, sync>>
  BY DEF vars, vaultVars, rotationVars
<1>2. puts' \in 1 .. MaxPuts /\ puts <= puts' /\ remote' \in Objs(puts') /\ sync'.by = sync.by
      /\ (sync' # NoSync => SyncShape(sync', puts'))
  BY <1>1 DEF RotInv, BucketOK, SyncTied
<1> QED BY <1>1, <1>2, AlongStep

\* A machine with the files of a workspace.
Started(files, first) ==
  /\ IsDisk(files) /\ first \in VaultContents /\ files.state <= 1

\* How the engine finds the files of such a machine.
LEMMA InitRot ==
  ASSUME NEW files, NEW first, NEW bounds, Started(files, first),
         RotationInit(files, first, bounds)
  PROVE  RotInv /\ Now = files
<1>1. VaultInv /\ Now = files /\ Before = files
  BY InitShape DEF Started, RotationInit, VaultInit, Before
<1>2. SyncTied
  BY IdleShape, VaultAssumption DEF RotationInit, VaultInit, SyncTied, NoSync
<1>3. "state" \notin Written(Idle.entries)
  BY IdleShape, NoEntries
<1>4. StatesIn
  BY <1>1, <1>3, NoStates DEF Started, StatesIn, RotationInit, VaultInit
<1>5. BucketOK
  BY RotationAssumption DEF BucketOK, RotationInit, Objs, Object
<1> QED BY <1>1, <1>2, <1>4, <1>5 DEF RotInv

(* The keys *)

\* Everything sealed in d is sealed with the key of its vault.
Agrees(d) ==
  LET k == d.vault.key IN
  /\ \A b \in d.backups : b.outer \in {0, k} /\ (b.file \in KeyBound => b.was.key \in {0, k})
  /\ d.library.key \in {0, k} /\ d.settings.key \in {0, k}
  /\ d.local = LocalFor(k)

\* The changes that bring a new key.
Renews(r) == r.kind \in {"rekey", "initialise"}

\* A change that may still be completed leads to such a disk, and only a change of
\* password or a first vault changes its key.
StoreKeys ==
  /\ Agrees(Now)
  /\ record # NoRecord /\ record.status # "staging" =>
       Agrees(After) /\ (~Renews(record) => After.vault.key = Before.vault.key)

\* An open vault has the key that counts.
OpenKey == vault # Closed => vault.key = Now.vault.key

\* A pull writes the vault under the key it was sealed with when the pull was asked for.
PullsKey(o) ==
  o.kind = "pull" =>
    \A i \in DOMAIN o.entries :
       o.entries[i].file = "vault" => o.entries[i].new.key = o.entries[i].old.key
\* A save or a first vault that is about to be published.
Publishing(o) == o.kind \in {"save", "initialise"} /\ o.at = "done"

\* Pulls, and what is about to be published have the key that counts.
OpKeys ==
  \A w \in Workers :
    PullsKey(op[w]) /\ (Publishing(op[w]) => op[w].candidate.key = Now.vault.key)

\* While nothing sealed with another key was written back, all keys agree.
KeyInv == ~carried => StoreKeys /\ OpenKey /\ OpKeys

-----------------------------------------------------------------------------

\* While nobody owns the mutex no change of password is under way.
LEMMA NoDiscard ==
  ASSUME VaultInv, up, owner = NoWorker
  PROVE  ~Discards(record)
<1> SUFFICES ASSUME Discards(record) PROVE FALSE
  OBVIOUS
<1>1. lock \in Workers /\ lock # NoWorker
  BY VaultAssumption DEF VaultInv, Ties
<1>2. op[lock].kind \in Owners
  BY <1>1 DEF VaultInv, Ties, Linked, Discards, Owners
<1> QED BY <1>1, <1>2 DEF VaultInv, Ties, Tied

\* Short of a change of password, the disk has the key that counts.
LEMMA DiskKey ==
  ASSUME StoreInv, StoreKeys, ~Discards(record)
  PROVE  disk.vault.key = Now.vault.key
<1>1. "vault" \in Names
  BY DEF Names
<1>2. CASE record = NoRecord
  BY <1>2, Settled
<1>3. CASE record # NoRecord /\ record.status \in {"applied", "staging"}
  <2>1. disk = Now
    BY <1>3, Settled
  <2> QED BY <2>1
<1>4. CASE record # NoRecord /\ record.status = "staged"
  <2>1. ~Renews(record)
    BY <1>4 DEF Discards, Renews
  <2>2. After.vault.key = Before.vault.key /\ Now = Before
    BY <1>4, <2>1, Settled DEF StoreKeys
  <2>3. disk.vault \in {Before.vault, After.vault}
    BY <1>1, Settled
  <2> QED BY <2>2, <2>3
<1> QED BY <1>2, <1>3, <1>4, RecordParts DEF StoreInv

\* Two disks that differ in nothing sealed.
LEMMA AgreesSame ==
  ASSUME NEW d, NEW e, Agrees(d), e.vault.key = d.vault.key, e.backups = d.backups,
         e.library = d.library, e.settings.key = d.settings.key, e.local = d.local
  PROVE  Agrees(e)
BY DEF Agrees

\* The keys on disk stay when the contents of the files do.
LEMMA StoreKeysStay ==
  ASSUME StoreKeys, Now' = Now, After' = After, Before' = Before, record' = record
  PROVE  StoreKeys'
BY DEF StoreKeys, Agrees, Renews

\* So do those of the requests when the key that counts does.
LEMMA OpKeysStay ==
  ASSUME OpKeys, Now'.vault.key = Now.vault.key,
         \A v \in Workers :
            \/ op'[v] = op[v]
            \/ op'[v].kind # "pull" /\ ~Publishing(op'[v])
            \/ op'[v].kind = op[v].kind /\ op'[v].entries = op[v].entries
               /\ ~Publishing(op'[v])
  PROVE  OpKeys'
<1> SUFFICES ASSUME NEW v \in Workers
             PROVE  /\ PullsKey(op'[v])
                    /\ Publishing(op'[v]) => op'[v].candidate.key = Now'.vault.key
  BY DEF OpKeys
<1>1. PullsKey(op[v]) /\ (Publishing(op[v]) => op[v].candidate.key = Now.vault.key)
  BY DEF OpKeys
<1>2. CASE op'[v] = op[v]
  BY <1>1, <1>2
<1>3. CASE op'[v].kind # "pull" /\ ~Publishing(op'[v])
  BY <1>3 DEF PullsKey
<1>4. CASE op'[v].kind = op[v].kind /\ op'[v].entries = op[v].entries /\ ~Publishing(op'[v])
  BY <1>1, <1>4 DEF PullsKey
<1> QED BY <1>2, <1>3, <1>4

\* One request changes and has nothing to publish.
LEMMA NoNewsKeys ==
  ASSUME VaultInv, KeyInv, NEW w \in Workers, NoNews(w)
  PROVE  KeyInv'
<1> SUFFICES ASSUME ~carried' PROVE (StoreKeys /\ OpenKey /\ OpKeys)'
  BY DEF KeyInv
<1>1. ~carried /\ StoreKeys /\ OpenKey /\ OpKeys /\ UNCHANGED <<disk, record, vault, up>>
  BY DEF KeyInv, NoNews
<1>2. Before' = Before /\ After' = After /\ Now' = Now
  BY <1>1, StoreStays DEF VaultInv, Shapes
<1>3. StoreKeys' /\ OpenKey'
  BY <1>1, <1>2, StoreKeysStay DEF OpenKey
<1>4. ~Publishing(op'[w])
  BY DEF Publishing, NoNews
<1>5. ASSUME vault # Closed, PullEntries(w), owner = NoWorker
      PROVE  PullsKey(op'[w])
  <2>1. up
    BY <1>5 DEF VaultInv, Ties
  <2>2. disk.vault.key = vault.key
    BY <1>1, <1>5, <2>1, NoDiscard, DiskKey DEF OpenKey, VaultInv, Shapes
  <2> QED BY <1>5, <2>2 DEF PullsKey, PullEntries
<1>6. PullsKey(op'[w])
  BY <1>1, <1>5 DEF NoNews, OpKeys, PullsKey
<1>7. OpKeys'
  BY <1>1, <1>2, <1>4, <1>6 DEF OpKeys, NoNews, OthersStay
<1> QED BY <1>3, <1>7

\* A step that only opens or closes the vault, or ends a request.
LEMMA MemoryKeys ==
  ASSUME VaultInv, KeyInv, UNCHANGED <<disk, record, carried>>,
         \A v \in Workers : op'[v] = op[v] \/ (op'[v].kind # "pull" /\ ~Publishing(op'[v])),
         ~carried /\ StoreKeys /\ OpenKey /\ OpKeys =>
            vault' = Closed \/ vault'.key = Now.vault.key \/ vault' = vault
  PROVE  KeyInv'
<1> SUFFICES ASSUME ~carried' PROVE (StoreKeys /\ OpenKey /\ OpKeys)'
  BY DEF KeyInv
<1>1. ~carried /\ StoreKeys /\ OpenKey /\ OpKeys
  BY DEF KeyInv
<1>2. Before' = Before /\ After' = After /\ Now' = Now
  BY StoreStays DEF VaultInv, Shapes
<1>3. StoreKeys' /\ OpKeys'
  BY <1>1, <1>2, StoreKeysStay, OpKeysStay
<1>4. OpenKey'
  BY <1>1, <1>2 DEF OpenKey
<1> QED BY <1>3, <1>4

\* What is published has the key that counts.
LEMMA PublishesKeys ==
  ASSUME VaultInv, KeyInv, NEW w \in Workers, Publishes(w)
  PROVE  KeyInv'
<1>1. /\ UNCHANGED <<disk, record, carried>> /\ vault' = op[w].candidate /\ Publishing(op[w])
  BY DEF Publishes, storageVars, Publishing
<1>2. op'[w] = Idle /\ OthersStay(w)
  BY PublishesKeeps
<1>3. \A v \in Workers : op'[v] = op[v] \/ (op'[v].kind # "pull" /\ ~Publishing(op'[v]))
  BY <1>2, IdleShape DEF OthersStay, Publishing
<1>4. OpKeys => vault'.key = Now.vault.key
  BY <1>1 DEF OpKeys
<1> QED BY <1>1, <1>3, <1>4, MemoryKeys

\* So has what is read again from the disk.
LEMMA ReloadsKeys ==
  ASSUME VaultInv, KeyInv, NEW w \in Workers, Reloads(w)
  PROVE  KeyInv'
<1>1. /\ UNCHANGED <<disk, record, carried>>
      /\ vault' = vault \/ (vault # Closed /\ vault' = disk.vault /\ disk.vault.key = vault.key)
  BY DEF Reloads, storageVars, Reload
<1>2. OthersStay(w) /\ (op'[w] = Idle \/ (op'[w].at = "lock" /\ op'[w].kind = "restore"))
  BY ReloadsKeeps
<1>3. \A v \in Workers : op'[v] = op[v] \/ (op'[v].kind # "pull" /\ ~Publishing(op'[v]))
  BY <1>2, IdleShape DEF OthersStay, Publishing
<1>4. OpenKey => vault' = vault \/ vault'.key = Now.vault.key
  BY <1>1 DEF OpenKey
<1> QED BY <1>1, <1>3, <1>4, MemoryKeys

\* The vault is locked after a restore,
LEMMA LocksKeys ==
  ASSUME VaultInv, KeyInv, NEW w \in Workers, LocksAfterRestore(w)
  PROVE  KeyInv'
<1>1. UNCHANGED <<disk, record, carried>> /\ vault' = Closed
  BY DEF LocksAfterRestore, storageVars, ghostVars
<1>2. op'[w] = Idle /\ OthersStay(w)
  BY LocksKeeps
<1>3. \A v \in Workers : op'[v] = op[v] \/ (op'[v].kind # "pull" /\ ~Publishing(op'[v]))
  BY <1>2, IdleShape DEF OthersStay, Publishing
<1> QED BY <1>1, <1>3, MemoryKeys

\* by the idle timer,
LEMMA IdleKeys ==
  ASSUME VaultInv, KeyInv, IdleCloses
  PROVE  KeyInv'
<1>1. UNCHANGED <<disk, record, carried, op>> /\ vault' = Closed
  BY DEF IdleCloses, storageVars, ghostVars
<1> QED BY <1>1, MemoryKeys

\* or unlocked.
LEMMA UnlockKeys ==
  ASSUME VaultInv, KeyInv, Unlock
  PROVE  KeyInv'
<1>1. UNCHANGED <<disk, record, carried, op>> /\ vault' = disk.vault /\ up /\ owner = NoWorker
  BY DEF Unlock, storageVars, ghostVars
<1>2. StoreKeys => disk.vault.key = Now.vault.key
  BY <1>1, NoDiscard, DiskKey DEF VaultInv, Shapes
<1> QED BY <1>1, <1>2, MemoryKeys

\* Nothing sealed changes.
LEMMA StutterKeys ==
  ASSUME VaultInv, KeyInv, UNCHANGED <<disk, record, carried, op, vault>>
  PROVE  KeyInv'
BY MemoryKeys

-----------------------------------------------------------------------------

\* A file of a change is written: it leads where it did.
LEMMA AppliesKeys ==
  ASSUME VaultInv, KeyInv, NEW w \in Workers, Applies(w)
  PROVE  KeyInv'
<1> SUFFICES ASSUME ~carried' PROVE (StoreKeys /\ OpenKey /\ OpKeys)'
  BY DEF KeyInv
<1>1. ~carried /\ StoreKeys /\ OpenKey /\ OpKeys /\ vault' = vault
  BY DEF KeyInv, Applies, ghostVars, memoryVars
<1>2. /\ op' = op /\ Before' = Before /\ After' = After /\ Now' = Now
      /\ record # NoRecord /\ record' # NoRecord /\ record'.kind = record.kind
      /\ record'.status = record.status
  BY AppliesEffect
<1>3. StoreKeys'
  BY <1>1, <1>2 DEF StoreKeys, Agrees, Renews
<1>4. OpenKey' /\ OpKeys'
  BY <1>1, <1>2, OpKeysStay DEF OpenKey
<1> QED BY <1>3, <1>4

\* A change is rolled back, or left.
LEMMA FailsKeys ==
  ASSUME VaultInv, KeyInv, NEW w \in Workers, Fails(w)
  PROVE  KeyInv'
<1> SUFFICES ASSUME ~carried' PROVE (StoreKeys /\ OpenKey /\ OpKeys)'
  BY DEF KeyInv
<1>1. ~carried /\ StoreKeys /\ OpenKey /\ OpKeys
  BY DEF KeyInv, Fails, ghostVars
<1>2. /\ OnlyMoves(w) /\ op'[w].at = "failed" /\ vault' = vault /\ Now' = Now
      /\ Before' = Before /\ (record' = NoRecord \/ (record' = record /\ After' = After))
  BY FailsEffect
<1>3. StoreKeys'
  <2>1. CASE record' = NoRecord
    BY <1>1, <1>2, <2>1 DEF StoreKeys, Agrees
  <2>2. CASE record' = record /\ After' = After
    BY <1>1, <1>2, <2>2, StoreKeysStay
  <2> QED BY <1>2, <2>1, <2>2
<1>4. OpKeys'
  BY <1>1, <1>2, OpKeysStay DEF OnlyMoves, Publishing
<1> QED BY <1>1, <1>2, <1>3, <1>4 DEF OpenKey

\* A crash leaves the files, and closes the vault.
LEMMA CrashKeys ==
  ASSUME VaultInv, KeyInv, Crash
  PROVE  KeyInv'
<1>1. /\ UNCHANGED <<disk, record, carried>> /\ vault' = Closed
      /\ \A w \in Workers : op'[w] = Idle
  BY CrashEffect DEF Crash, ghostVars
<1>2. \A v \in Workers : op'[v].kind # "pull" /\ ~Publishing(op'[v])
  BY <1>1, IdleShape DEF Publishing
<1> QED BY <1>1, <1>2, MemoryKeys

\* A change of password left over is settled before the vault is opened.
LEMMA AutoUnlockKeys ==
  ASSUME VaultInv, KeyInv, AutoUnlock, UNCHANGED <<carried, op>>
  PROVE  KeyInv'
<1> SUFFICES ASSUME ~carried' PROVE (StoreKeys /\ OpenKey /\ OpKeys)'
  BY DEF KeyInv
<1>1. ~carried /\ StoreKeys /\ OpenKey /\ OpKeys /\ StoreInv /\ vault \in VaultContents
  BY DEF KeyInv, VaultInv, Shapes
<1>2. /\ StoreInv' /\ Now' = Now /\ ~Discards(record')
      /\ \/ UNCHANGED <<disk, record>> /\ Before' = Before /\ After' = After
         \/ record' = NoRecord /\ disk' = Now
      /\ vault' = IF AutoUnlocks THEN disk'.vault ELSE vault
  BY <1>1, AutoUnlockEffect
<1>3. StoreKeys'
  <2>1. CASE UNCHANGED <<disk, record>> /\ Before' = Before /\ After' = After
    BY <1>1, <1>2, <2>1, StoreKeysStay
  <2>2. CASE record' = NoRecord
    BY <1>1, <1>2, <2>2 DEF StoreKeys, Agrees
  <2> QED BY <1>2, <2>1, <2>2
<1>4. disk'.vault.key = Now'.vault.key
  <2>1. CASE UNCHANGED <<disk, record>>
    <3>1. ~Discards(record)
      BY <1>2, <2>1 DEF Discards
    <3> QED BY <1>1, <1>2, <2>1, <3>1, DiskKey
  <2>2. CASE disk' = Now
    BY <1>2, <2>2
  <2> QED BY <1>2, <2>1, <2>2
<1>5. OpenKey'
  BY <1>1, <1>2, <1>4 DEF OpenKey
<1>6. OpKeys'
  BY <1>1, <1>2, OpKeysStay
<1> QED BY <1>3, <1>5, <1>6

\* The vault is locked, or opens itself.
LEMMA LockManuallyKeys ==
  ASSUME VaultInv, KeyInv, LockManually
  PROVE  KeyInv'
<1>1. op' = op /\ carried' = carried
      /\ ((UNCHANGED <<disk, record>> /\ vault' \in {Closed, vault}) \/ AutoUnlock)
  BY LockManuallyEffect DEF LockManually, ghostVars
<1> QED BY <1>1, MemoryKeys, AutoUnlockKeys

\* The engine starts.
LEMMA StartKeys ==
  ASSUME VaultInv, KeyInv, Start
  PROVE  KeyInv'
<1>1. op' = op /\ carried' = carried /\ AutoUnlock
  BY DEF Start, ghostVars
<1> QED BY <1>1, AutoUnlockKeys

\* The library is sealed with the key in memory.
LEMMA SaveLibraryKeys ==
  ASSUME VaultInv, KeyInv, NEW w \in Workers, SaveLibrary(w)
  PROVE  KeyInv'
<1> SUFFICES ASSUME ~carried' PROVE (StoreKeys /\ OpenKey /\ OpKeys)'
  BY DEF KeyInv
<1>1. ~carried /\ StoreKeys /\ OpenKey /\ OpKeys
  BY DEF KeyInv, SaveLibrary, ghostVars
<1>2. /\ op' = op /\ record = NoRecord /\ record' = NoRecord
      /\ Now = disk /\ Now' = disk' /\ vault # Closed /\ vault' = vault
      /\ \A f \in Names \ {"library"} : disk'[f] = disk[f]
      /\ disk'.library.key = vault.key
  BY SaveLibraryEffect
<1>3. disk'.vault = disk.vault /\ disk'.backups = disk.backups /\ disk'.settings = disk.settings
      /\ disk'.local = disk.local
  BY <1>2 DEF Names
<1>4. Agrees(Now')
  <2>1. Agrees(disk) /\ vault.key = disk.vault.key
    BY <1>1, <1>2 DEF StoreKeys, OpenKey
  <2> QED BY <1>2, <1>3, <2>1 DEF Agrees
<1>5. StoreKeys'
  BY <1>2, <1>4 DEF StoreKeys, Agrees
<1>6. Now'.vault.key = Now.vault.key
  BY <1>2, <1>3
<1>7. OpenKey' /\ OpKeys'
  BY <1>1, <1>2, <1>6, OpKeysStay DEF OpenKey
<1> QED BY <1>5, <1>7

\* A recovery completes or drops a change that was left behind.
LEMMA RecoverKeys ==
  ASSUME VaultInv, KeyInv, NEW w \in Workers, NEW action, Recover(w, action)
  PROVE  KeyInv'
<1> SUFFICES ASSUME ~carried' PROVE (StoreKeys /\ OpenKey /\ OpKeys)'
  BY DEF KeyInv
<1>1. /\ record # NoRecord /\ record' = NoRecord /\ Now' = disk' /\ vault' = vault
      /\ OthersStay(w) /\ op'[w].kind = "recover" /\ carried' = carried
      /\ disk' = Now \/ (disk' = After /\ record.status = "staged" /\ Mode(record.kind) = "plain")
  BY RecoverEffect
<1>2. ~carried /\ StoreKeys /\ OpenKey /\ OpKeys /\ StoreInv
  BY <1>1 DEF KeyInv, VaultInv, Shapes
<1>3. Agrees(Now') /\ Now'.vault.key = Now.vault.key
  <2>1. CASE disk' = Now
    BY <1>1, <1>2, <2>1 DEF StoreKeys
  <2>2. CASE disk' = After /\ record.status = "staged" /\ Mode(record.kind) = "plain"
    <3>1. ~Renews(record) /\ Now = Before
      BY <1>1, <1>2, <2>2, Settled DEF Renews, Mode
    <3> QED BY <1>1, <1>2, <2>2, <3>1 DEF StoreKeys
  <2> QED BY <1>1, <2>1, <2>2
<1>4. StoreKeys'
  BY <1>1, <1>3 DEF StoreKeys, Agrees
<1>5. OpKeys'
  BY <1>1, <1>2, <1>3, OpKeysStay DEF OthersStay, Publishing
<1> QED BY <1>1, <1>2, <1>3, <1>4, <1>5 DEF OpenKey

\* The keys of what a request other than a change of password writes.
LEMMA WritesKeys ==
  ASSUME NEW o, OpShape(o), o.kind \notin {"none", "recover", "rekey"}, BuiltOK(o, o.entries),
         PullsKey(o), IsDisk(disk), Agrees(disk), ~Carries(o.kind, o.entries),
         NEW f \in Written(o.entries)
  PROVE  /\ f \in {"library", "settings"} => Of(o.entries, f).new.key \in {0, disk.vault.key}
         /\ f = "vault" /\ o.kind # "initialise" =>
              Of(o.entries, f).new.key = disk.vault.key
         /\ f = "local" => o.kind = "initialise"
         /\ f # "backups"
<1>1. PICK i \in DOMAIN o.entries : o.entries[i].file = f /\ Of(o.entries, f) = o.entries[i]
  BY OfIs
<1>2. /\ o.entries[i].old = disk[f] /\ o.kind \in Kinds /\ o.entries \in Seq(Entries)
  BY <1>1, OpParts DEF BuiltOK, Elems
<1>3. disk.settings.key \in {0, disk.vault.key} /\ disk.library.key \in {0, disk.vault.key}
  BY DEF Agrees
<1>4. CASE o.kind = "save"
  BY <1>1, <1>2, <1>4 DEF OpShape, SavesOK
<1>5. CASE o.kind = "initialise"
  BY <1>1, <1>2, <1>5 DEF OpShape, InitialisesOK
<1>6. CASE o.kind \in {"settings", "rotated"}
  BY <1>1, <1>2, <1>3, <1>6 DEF OpShape, SettingsOK
<1>7. CASE o.kind = "pull"
  <2>1. Written(o.entries) = {"library", "vault", "state"}
    BY <1>7 DEF OpShape, PullsOK
  <2>2. PICK j \in DOMAIN o.entries : o.entries[j].file = "vault"
    BY <2>1 DEF Written
  <2>3. o.entries[j].new.key = disk.vault.key
    BY <1>7, <2>2 DEF PullsKey, BuiltOK, Elems
  <2>4. f = "library" => o.entries[i].new.key = disk.vault.key
    BY <1>1, <1>7, <2>2, <2>3 DEF OpShape, PullsOK
  <2>5. f = "vault" => o.entries[i].new.key = disk.vault.key
    BY <1>1, <1>2, <1>7 DEF PullsKey
  <2> QED BY <1>1, <2>1, <2>4, <2>5
<1>8. CASE o.kind = "config"
  BY <1>1, <1>8 DEF OpShape, OthersOK
<1>9. CASE o.kind = "restore"
  <2>1. f \in KeyBound
    BY <1>9 DEF OpShape, OthersOK
  <2>2. o.entries[i].new.key = disk.vault.key
    BY <1>1, <1>9, <2>1 DEF Carries
  <2> QED BY <1>1, <2>1, <2>2 DEF KeyBound
<1> QED BY <1>2, <1>4, <1>5, <1>6, <1>7, <1>8, <1>9 DEF Kinds

\* New generations are sealed with the key that counts.
LEMMA BacksAgree ==
  ASSUME Backs, IsDisk(disk), Agrees(disk), vault # Closed => vault.key = disk.vault.key
  PROVE  Agrees(disk')
<1>1. /\ disk'.vault = disk.vault /\ disk'.library = disk.library
      /\ disk'.settings = disk.settings /\ disk'.local = disk.local
  BY DEF Backs, Names
<1>2. ASSUME NEW b \in disk'.backups
      PROVE  b.outer \in {0, disk.vault.key}
             /\ (b.file \in KeyBound => b.was.key \in {0, disk.vault.key})
  <2>1. CASE b \in disk.backups
    BY <2>1 DEF Agrees
  <2>2. CASE b \notin disk.backups
    <3>1. /\ vault # Closed /\ b.outer = vault.key /\ b.was = disk[b.file]
      BY <2>2 DEF Backs
    <3>2. b.file \in KeyBound => disk[b.file].key \in {0, disk.vault.key}
      BY DEF Agrees, KeyBound
    <3> QED BY <3>1, <3>2
  <2> QED BY <2>1, <2>2
<1> QED BY <1>1, <1>2 DEF Agrees

\* What a change will write agrees with the disk, or all of it is written anew.
LEMMA BeginsKeys ==
  ASSUME VaultInv, KeyInv, NEW w \in Workers, Begins(w)
  PROVE  KeyInv'
<1> SUFFICES ASSUME ~carried' PROVE (StoreKeys /\ OpenKey /\ OpKeys)'
  BY DEF KeyInv
<1>1. /\ OnlyMoves(w) /\ op[w].at = "commit"
      /\ record = NoRecord /\ Before' = disk' /\ Now' = disk' /\ Backs
      /\ BuiltOK(op[w], Built(w)) /\ vault' = vault /\ StoreInv'
      /\ record' # NoRecord =>
           /\ record'.kind = op[w].kind /\ record'.entries = Built(w)
           /\ record'.status \in {"staging", "staged"}
      /\ \/ /\ op'[w].at = "apply" /\ record'.status = "staged" /\ record' # NoRecord
            /\ carried' = (carried \/ Carries(op[w].kind, Built(w)))
         \/ /\ op'[w].at = "failed" /\ carried' = carried
            /\ record' # NoRecord => record'.status = "staging"
  BY BeginsEffect DEF Shapes
<1>2. /\ ~carried /\ StoreKeys /\ OpenKey /\ OpKeys /\ StoreInv /\ IsDisk(disk)
      /\ OpShape(op[w])
  <2>1. ~carried
    BY <1>1
  <2>2. StoreKeys /\ OpenKey /\ OpKeys
    BY <2>1 DEF KeyInv
  <2>3. StoreInv /\ OpsInv
    BY DEF VaultInv, Shapes
  <2>4. IsDisk(disk)
    BY <2>3 DEF StoreInv
  <2>5. OpShape(op[w])
    BY <2>3 DEF OpsInv
  <2> QED BY <2>1, <2>2, <2>3, <2>4, <2>5
<1>3. Now = disk /\ Agrees(disk) /\ (vault # Closed => vault.key = disk.vault.key)
  BY <1>1, <1>2, Settled DEF StoreKeys, OpenKey
<1>4. Agrees(disk')
  BY <1>1, <1>2, <1>3, BacksAgree
<1>5. \A f \in Names \ {"backups"} : disk'[f] = disk[f]
  BY <1>1 DEF Backs
<1>6. disk'.vault = disk.vault
  BY <1>5 DEF Names
<1>7. ASSUME record' # NoRecord, record'.status # "staging"
      PROVE  Agrees(After') /\ (~Renews(record') => After'.vault.key = Before'.vault.key)
  <2>1. /\ ~Carries(op[w].kind, Built(w)) /\ record'.entries = Built(w)
        /\ record'.kind = op[w].kind
    BY <1>1, <1>7
  <2>2. \A f \in Names :
           /\ f \notin Written(Built(w)) => After'[f] = disk'[f]
           /\ f \in Written(Built(w)) => After'[f] = Of(Built(w), f).new
    BY <1>1, <1>7, <2>1, AfterBegins DEF StoreInv
  <2>3. {"vault", "local", "library", "settings", "backups"} \subseteq Names
    BY DEF Names
  <2>4. CASE op[w].kind = "rekey"
    <3> DEFINE k == op[w].candidate.key
               es == Built(w)
    <3>1. /\ {"backups", "vault", "local"} \subseteq Written(es)
          /\ Of(es, "vault").new = op[w].candidate
          /\ Of(es, "local").new = LocalFor(k)
          /\ \A f \in {"library", "settings"} : disk[f] # Missing => f \in Written(es)
          /\ \A f \in Written(es) : f \in {"vault", "local"} \/ ReSealing(Of(es, f), k)
          /\ es \in Seq(Entries)
      BY <1>1, <2>4 DEF BuiltOK
    <3>2. \A f \in Written(es) : Of(es, f).file = f
      BY <3>1, OfEntry
    <3>3. After'.vault.key = k /\ After'.local = LocalFor(k)
      BY <2>2, <2>3, <3>1
    <3>4. \A b \in After'.backups : b.outer = k /\ (b.file \in KeyBound => b.was.key = k)
      <4>1. ReSealing(Of(es, "backups"), k) /\ Of(es, "backups").file = "backups"
        BY <3>1, <3>2
      <4>2. After'.backups = Of(es, "backups").new
        BY <2>2, <2>3, <3>1
      <4> QED BY <4>1, <4>2 DEF ReSealing
    <3>5. ASSUME NEW f \in {"library", "settings"} PROVE After'[f].key \in {0, k}
      <4>1. CASE f \in Written(es)
        <5>1. ReSealing(Of(es, f), k) /\ Of(es, f).file = f /\ After'[f] = Of(es, f).new
          BY <2>2, <2>3, <3>1, <3>2, <4>1
        <5> QED BY <5>1 DEF ReSealing
      <4>2. CASE f \notin Written(es)
        <5>1. disk[f] = Missing /\ After'[f] = disk'[f] /\ disk'[f] = disk[f]
          BY <1>5, <2>2, <2>3, <3>1, <4>2
        <5> QED BY <5>1, MissingIn
      <4> QED BY <4>1, <4>2
    <3> HIDE DEF k
    <3>6. Agrees(After')
      BY <3>3, <3>4, <3>5 DEF Agrees
    <3> QED BY <2>1, <2>4, <3>6 DEF Renews
  <2>5. CASE op[w].kind # "rekey"
    <3>1. Built(w) = op[w].entries /\ op[w].kind \notin {"none", "recover"}
      BY <1>1, <1>2, <2>5, BuiltFacts DEF BuiltOK, OpShape, StagesOK
    <3>2. PullsKey(op[w]) /\ op[w].entries \in Seq(Entries)
      BY <1>2, OpParts DEF OpKeys
    <3>3. \A f \in Written(op[w].entries) :
            /\ f \in {"library", "settings"} => Of(op[w].entries, f).new.key \in {0, disk.vault.key}
            /\ f = "vault" /\ op[w].kind # "initialise" =>
                 Of(op[w].entries, f).new.key = disk.vault.key
            /\ f = "local" => op[w].kind = "initialise"
            /\ f # "backups"
      <4>1. PICK o : o = op[w]
        OBVIOUS
      <4>2. OpShape(o) /\ o.kind \notin {"none", "recover", "rekey"} /\ BuiltOK(o, o.entries)
            /\ PullsKey(o) /\ ~Carries(o.kind, o.entries)
        BY <1>1, <1>2, <2>1, <2>5, <3>1, <3>2, <4>1
      <4> QED BY <1>2, <1>3, <4>1, <4>2, WritesKeys
    <3>4. After'.backups = disk'.backups
      BY <2>2, <2>3, <3>1, <3>3
    <3>5. \A f \in {"library", "settings"} : After'[f].key \in {0, disk.vault.key}
      BY <1>4, <1>6, <2>2, <2>3, <3>1, <3>3 DEF Agrees
    <3>6. CASE op[w].kind # "initialise"
      <4>1. After'.local = disk'.local /\ After'.vault.key = disk.vault.key
        BY <1>6, <2>2, <2>3, <3>1, <3>3, <3>6
      <4>2. Agrees(After')
        BY <1>4, <1>6, <3>4, <3>5, <4>1 DEF Agrees
      <4> QED BY <1>1, <1>6, <4>1, <4>2
    <3>7. CASE op[w].kind = "initialise"
      <4>1. /\ Written(op[w].entries) = {"vault", "local"}
            /\ \A i \in DOMAIN op[w].entries :
                 /\ op[w].entries[i].file = "vault" =>
                      op[w].entries[i].new = op[w].candidate /\ op[w].entries[i].old = Missing
                 /\ op[w].entries[i].file = "local" =>
                      op[w].entries[i].new = LocalFor(op[w].candidate.key)
        BY <1>2, <3>7 DEF OpShape, InitialisesOK
      <4>2. PICK i \in DOMAIN op[w].entries : op[w].entries[i].file = "vault"
                 /\ Of(op[w].entries, "vault") = op[w].entries[i]
        BY <4>1, OfIs
      <4>3. PICK j \in DOMAIN op[w].entries : op[w].entries[j].file = "local"
                 /\ Of(op[w].entries, "local") = op[w].entries[j]
        BY <4>1, OfIs
      <4>4. /\ After'.vault = op[w].candidate /\ After'.local = LocalFor(op[w].candidate.key)
        BY <2>2, <2>3, <3>1, <4>1, <4>2, <4>3
      <4>5. disk.vault.key = 0
        BY <1>1, <3>1, <4>1, <4>2, MissingIn DEF BuiltOK, Elems
      <4>6. Agrees(After')
        BY <1>4, <1>6, <3>4, <3>5, <4>4, <4>5 DEF Agrees
      <4> QED BY <2>1, <3>7, <4>6 DEF Renews
    <3> QED BY <3>6, <3>7
  <2> QED BY <2>4, <2>5
<1>8. StoreKeys'
  BY <1>1, <1>4, <1>7 DEF StoreKeys, Agrees, Renews
<1>9. OpenKey'
  BY <1>1, <1>3, <1>6 DEF OpenKey
<1>10. OpKeys'
  <2>1. Now'.vault.key = Now.vault.key
    BY <1>1, <1>3, <1>6
  <2>2. op'[w].at # "done"
    BY <1>1
  <2> QED BY <1>1, <1>2, <2>1, <2>2, OpKeysStay DEF OnlyMoves, Publishing
<1> QED BY <1>8, <1>9, <1>10

\* A change that is done leads to files that agree.
LEMMA EndsKeys ==
  ASSUME VaultInv, KeyInv, NEW w \in Workers, Ends(w)
  PROVE  KeyInv'
<1> SUFFICES ASSUME ~carried' PROVE (StoreKeys /\ OpenKey /\ OpKeys)'
  BY DEF KeyInv
<1>1. /\ OnlyMoves(w) /\ op[w].at = "apply" /\ op'[w].at = "done"
      /\ lock = w /\ Linked(record, op[w]) /\ record.status = "staged"
      /\ Now' = After /\ After' = After /\ carried' = carried
      /\ \/ record' = NoRecord
         \/ /\ record' # NoRecord /\ record'.kind = record.kind
            /\ record'.entries = record.entries /\ record.kind \in {"rekey", "initialise"}
      /\ vault' = IF op[w].kind = "rekey" THEN op[w].candidate ELSE vault
  BY EndsEffect DEF Ends, PublishesInside
<1>2. /\ ~carried /\ StoreKeys /\ OpenKey /\ OpKeys /\ StoreInv /\ OpShape(op[w])
      /\ vault \in VaultContents /\ record # NoRecord /\ record.kind = op[w].kind
  BY <1>1 DEF KeyInv, VaultInv, Shapes, OpsInv, Linked
<1>3. /\ Agrees(After) /\ (~Renews(record) => After.vault.key = Before.vault.key)
      /\ Now = Before
  BY <1>1, <1>2, Settled DEF StoreKeys
<1>4. StoreKeys'
  BY <1>1, <1>3 DEF StoreKeys, Agrees, Renews
<1>5. "vault" \in Written(record.entries) => After.vault = Of(record.entries, "vault").new
                                             /\ Before.vault = Of(record.entries, "vault").old
  BY <1>2, Settled
<1>6. op[w].kind = "rekey" => After.vault = op[w].candidate
  BY <1>1, <1>2, <1>5 DEF Linked, StoreInv, RecordShape
<1>7. op[w].kind \in {"save", "initialise"} => After.vault = op[w].candidate
  <2> SUFFICES ASSUME op[w].kind \in {"save", "initialise"}
               PROVE  After.vault = op[w].candidate
    OBVIOUS
  <2>1. record.entries = op[w].entries /\ "vault" \in Written(op[w].entries)
    BY <1>1, <1>2 DEF Linked, OpShape, SavesOK, InitialisesOK
  <2>2. PICK i \in DOMAIN op[w].entries : op[w].entries[i].file = "vault"
                 /\ Of(op[w].entries, "vault") = op[w].entries[i]
    BY <2>1, OfIs
  <2>3. op[w].entries[i].new = op[w].candidate
    BY <1>2, <2>2 DEF OpShape, SavesOK, InitialisesOK
  <2> QED BY <1>5, <2>1, <2>2, <2>3
<1>8. OpenKey'
  <2> SUFFICES ASSUME vault' # Closed PROVE vault'.key = Now'.vault.key
    BY DEF OpenKey, Closed
  <2>1. CASE op[w].kind = "rekey"
    BY <1>1, <1>6, <2>1
  <2>2. CASE op[w].kind = "initialise"
    <3>1. Before.vault = Missing /\ vault # Closed
      BY <1>1, <1>2, <1>5, <2>2 DEF StoreInv, RecordShape, Closed
    <3>2. vault.key = 0
      BY <1>2, <1>3, <3>1, MissingIn DEF OpenKey
    <3> QED BY <1>2, <3>1, <3>2 DEF VaultContents, Closed
  <2>3. CASE op[w].kind \notin {"rekey", "initialise"}
    <3>1. vault' = vault /\ After.vault.key = Before.vault.key
      BY <1>1, <1>2, <1>3, <2>3 DEF Renews
    <3>2. vault # Closed
      BY <3>1 DEF Closed
    <3>3. vault.key = Now.vault.key
      BY <1>2, <3>2 DEF OpenKey
    <3> QED BY <1>1, <1>3, <3>1, <3>3
  <2> QED BY <2>1, <2>2, <2>3
<1>9. OpKeys'
  <2> SUFFICES ASSUME NEW v \in Workers
               PROVE  /\ PullsKey(op'[v])
                      /\ Publishing(op'[v]) => op'[v].candidate.key = Now'.vault.key
    BY DEF OpKeys
  <2>1. PullsKey(op[v]) /\ (Publishing(op[v]) => op[v].candidate.key = Now.vault.key)
    BY <1>2 DEF OpKeys
  <2>2. CASE v = w
    BY <1>1, <1>7, <2>1, <2>2 DEF OnlyMoves, PullsKey, Publishing
  <2>3. CASE v # w
    <3>1. op'[v] = op[v]
      BY <1>1, <2>3 DEF OnlyMoves
    <3>2. CASE ~Renews(record)
      BY <1>1, <1>3, <2>1, <3>1, <3>2
    <3>3. CASE Renews(record)
      <4>1. owner = w
        BY <1>2, <3>3 DEF Renews, VaultInv, Ties, Tied, Owners
      <4>2. ~Publishing(op[v])
        BY <2>3, <4>1 DEF VaultInv, Ties, Tied, Owners, Publishing
      <4> QED BY <2>1, <3>1, <4>2
    <3> QED BY <3>2, <3>3
  <2> QED BY <2>2, <2>3
<1> QED BY <1>4, <1>8, <1>9

-----------------------------------------------------------------------------

\* A step of any request,
LEMMA StepKeys ==
  ASSUME VaultInv, KeyInv, NEW w \in Workers, Step(w)
  PROVE  KeyInv'
<1>1. CASE RestoreReads(w)
  BY <1>1, RestoreReadsEffect, NoNewsKeys
<1>2. CASE Refused(w)
  BY <1>2, RefusedEffect, NoNewsKeys
<1>3. CASE Returns(w)
  BY <1>3, ReturnsEffect, NoNewsKeys
<1> QED BY <1>1, <1>2, <1>3, BeginsKeys, AppliesKeys, EndsKeys, FailsKeys, PublishesKeys,
           ReloadsKeys, LocksKeys DEF Step

\* a new request,
LEMMA RequestKeys ==
  ASSUME VaultInv, KeyInv, NEW w \in Workers, Request(w)
  PROVE  KeyInv'
<1>1. ASSUME NEW sign \in {1, -1}, Initialise(w, sign) PROVE KeyInv'
  BY <1>1, InitialiseEffect, NoNewsKeys
<1>2. ASSUME NEW sign \in {1, -1}, ChangeMasterPassword(w, sign) PROVE KeyInv'
  BY <1>2, ChangeEffect, NoNewsKeys
<1>3. ASSUME NEW s \in Secrets, Save(w, s) PROVE KeyInv'
  BY <1>3, SaveEffect, NoNewsKeys
<1>4. CASE SetSyncSettings(w)
  BY <1>4, SetSyncSettingsEffect, NoNewsKeys
<1>6. CASE SaveConfig(w)
  BY <1>6, SaveConfigEffect, NoNewsKeys
<1>7. ASSUME NEW b \in disk.backups, Restore(w, b) PROVE KeyInv'
  BY <1>7, RestoreEffect, NoNewsKeys
<1> QED BY <1>1, <1>2, <1>3, <1>4, <1>6, <1>7, SaveLibraryKeys DEF Request

\* a step beside the vault,
LEMMA AlongKeys ==
  ASSUME RotInv, KeyInv, UNCHANGED <<storageVars, memoryVars, ghostVars>>
  PROVE  KeyInv'
<1>1. UNCHANGED <<disk, record, carried, op, vault>> /\ VaultInv
  BY DEF storageVars, memoryVars, ghostVars, RotInv
<1> QED BY <1>1, StutterKeys

\* a step of the operation on the bucket,
LEMMA RotationKeys ==
  ASSUME RotInv, KeyInv, NEW w \in Workers, Rotation(w)
  PROVE  KeyInv'
<1>0. VaultInv
  BY DEF RotInv
<1>1. ASSUME NEW new \in SyncKeys, ReplaceKey(w, new) PROVE KeyInv'
  <2>1. new \in Nat /\ Fit(<<"resolve", "choose">>, new, 0)
    BY RotationAssumption, FitLists
  <2>2. NoNews(w)
    BY <1>1, <2>1, OperatesKeeps DEF ReplaceKey
  <2> QED BY <1>0, <2>2, NoNewsKeys
<1>2. CASE Push(w)
  <2>1. Fit(<<"ensure", "send", "state">>, 0, 0)
    BY FitLists
  <2>2. NoNews(w)
    BY <1>2, <2>1, OperatesKeeps DEF Push
  <2> QED BY <1>0, <2>2, NoNewsKeys
<1>3. CASE Fetch(w)
  <2>1. Fit(<<"ensure", "get", "state">>, 0, 0)
    BY FitLists
  <2>2. NoNews(w)
    BY <1>3, <2>1, OperatesKeeps DEF Fetch
  <2> QED BY <1>0, <2>2, NoNewsKeys
<1>4. CASE PullsFiles(w)
  BY <1>0, <1>4, PullsKeeps, NoNewsKeys
<1>5. CASE Commits(w)
  BY <1>0, <1>5, CommitsKeeps, NoNewsKeys
<1>6. CASE CommitsKey(w)
  BY <1>0, <1>6, CommitsKeyKeeps, NoNewsKeys
<1>7. CASE Continues(w)
  BY <1>0, <1>7, ContinuesKeeps, NoNewsKeys
<1>8. CASE Answers(w)
  BY <1>0, <1>8, AnswersKeeps, NoNewsKeys
<1>9. CASE \/ ResolveKeyRecovery(w) \/ EnsureNoKeyRecovery(w) \/ Chooses(w) \/ Gets(w)
           \/ PutsResealed(w) \/ PutsBack(w) \/ Sends(w) \/ CommitsNoKey(w)
  <2>1. LocallyUnchanged
    BY <1>9 DEF ResolveKeyRecovery, EnsureNoKeyRecovery, Chooses, Gets, PutsResealed, PutsBack,
         Sends, CommitsNoKey
  <2> QED BY <2>1, AlongKeys DEF LocallyUnchanged
<1> QED BY <1>1, <1>2, <1>3, <1>4, <1>5, <1>6, <1>7, <1>8, <1>9 DEF Rotation

\* any step,
LEMMA NextKeys ==
  ASSUME RotInv, KeyInv, Next
  PROVE  KeyInv'
<1>0. VaultInv
  BY DEF RotInv
<1>1. CASE VaultStep
  BY <1>0, <1>1, StepKeys, RequestKeys, IdleKeys, UnlockKeys, LockManuallyKeys, StartKeys
     DEF VaultStep
<1>2. ASSUME NEW w \in Workers, NEW action, Recovers(w, action) PROVE KeyInv'
  BY <1>0, <1>2, RecoverKeys DEF Recovers
<1>3. CASE OtherPush
  BY <1>3, AlongKeys DEF OtherPush
<1>4. CASE Killed
  BY <1>0, <1>4, CrashKeys DEF Killed
<1> QED BY <1>1, <1>2, <1>3, <1>4, RotationKeys DEF Next

\* and no step at all keep the keys.
LEMMA StutterOfKeys ==
  ASSUME RotInv, KeyInv, UNCHANGED vars
  PROVE  KeyInv'
BY AlongKeys DEF vars, vaultVars

\* The invariant says of the disk what KeysAgree does.
LEMMA KeyInvAgree ==
  ASSUME VaultInv, KeyInv
  PROVE  KeysAgree
<1> SUFFICES ASSUME ~carried
             PROVE  /\ AutoUnlockWorks
                    /\ Quiet /\ disk.vault # Missing =>
                         /\ ArtifactKeys \subseteq {0, disk.vault.key}
                         /\ disk.local = LocalFor(disk.vault.key)
  BY DEF KeysAgree
<1>1. StoreKeys /\ StoreInv /\ Agrees(Now) /\ Now.vault \in VaultContents
  BY Settled, DiskTypes DEF KeyInv, VaultInv, Shapes, StoreKeys
<1>2. AutoUnlockWorks
  <2> SUFFICES ASSUME SettledFirst.local < 0 PROVE SettledFirst.vault.key = SettledFirst.local
    BY DEF AutoUnlockWorks, AutoUnlocks
  <2>1. SettledFirst.local = LocalFor(Now.vault.key)
    BY <1>1, SettledFirstIs DEF Agrees
  <2>2. SettledFirst.local = Now.vault.key
    BY <1>1, <2>1 DEF LocalFor, VaultContents
  <2>3. SettledFirst.vault.key = Now.vault.key
    BY <1>1, SettledFirstIs, DiskKey
  <2> QED BY <2>2, <2>3
<1>3. ASSUME record = NoRecord
      PROVE  ArtifactKeys \subseteq {0, disk.vault.key} /\ disk.local = LocalFor(disk.vault.key)
  <2>1. Agrees(disk)
    BY <1>1, <1>3, Settled
  <2> QED BY <2>1 DEF Agrees, ArtifactKeys, KeysOf
<1> QED BY <1>2, <1>3 DEF Quiet

(* The theorems of the types and the keys *)

\* The shapes are those that TypeOK names, and more.
LEMMA RotTypes ==
  ASSUME RotInv
  PROVE  TypeOK
<1>1. /\ IsDisk(disk) /\ vault \in VaultContents /\ OpsInv /\ RecordShape(record)
      /\ SyncTied /\ BucketOK /\ Ties
  BY DEF RotInv, VaultInv, Shapes, StoreInv
<1>2. /\ disk.vault \in VaultContents /\ disk.local \in Int /\ disk.library \in LibraryContents
      /\ disk.settings \in SettingsContents /\ disk.state \in Nat
      /\ disk.journal \in JournalContents
  BY <1>1, DiskTypes
<1>3. \A f \in {"vault", "library", "settings"} : disk[f].key \in Int
  <2>1. disk.vault.key \in Int
    BY <1>2 DEF VaultContents
  <2>2. disk.library.key \in Int
    BY <1>2 DEF LibraryContents
  <2>3. disk.settings.key \in Int
    BY <1>2 DEF SettingsContents, Missing, Sealed
  <2> QED BY <2>1, <2>2, <2>3
<1>4. disk.vault.body \subseteq Secrets /\ vault.body \subseteq Secrets
  BY <1>1, <1>2 DEF VaultContents
<1>5. disk.state \in 0 .. puts
  <2>1. disk.state <= puts
    BY AfterState
  <2>2. puts \in Nat
    BY <1>1, RotationAssumption DEF BucketOK
  <2> QED BY <1>2, <2>1, <2>2
<1>6. disk.journal.phase \in {"none", "prepared", "advanced"}
  BY <1>2 DEF JournalContents, NoJournal
<1>7. lock \in Workers \cup {NoWorker} /\ owner \in Workers \cup {NoWorker}
  BY <1>1 DEF Ties
<1>8. record # NoRecord =>
        /\ record.done \in 0 .. Len(record.entries)
        /\ record.status \in {"staging", "staged", "applied"}
  BY <1>1, RecordParts
<1>9. \A w \in Workers :
        op[w].at \in {"idle", "read", "commit", "apply", "done", "failed", "lock", "call"}
  BY <1>1, OpParts DEF OpsInv, Ats
<1>10. /\ puts \in 1 .. MaxPuts /\ remote.key \in SyncKeys
       /\ remote.etag \in 1 .. puts /\ remote.cipher \in 1 .. puts
  BY <1>1 DEF BucketOK, Objs
<1>11. sync.by \in Workers \cup {NoWorker}
  <2>1. CASE sync = NoSync
    BY <2>1 DEF NoSync
  <2>2. CASE sync # NoSync
    BY <1>1, <2>2 DEF SyncTied, SyncShape, Syncs
  <2> QED BY <2>1, <2>2
<1> QED BY <1>2, <1>3, <1>4, <1>5, <1>6, <1>7, <1>8, <1>9, <1>10, <1>11 DEF TypeOK

\* A machine on which everything sealed is sealed with the key of its vault, and with its
\* vault open or closed.
SettledStart(files, first) ==
  Started(files, first) /\ Agrees(files) /\ first \in {Closed, files.vault}

\* Such a machine starts with keys that agree.
LEMMA InitKeys ==
  ASSUME NEW files, NEW first, NEW bounds, SettledStart(files, first),
         RotationInit(files, first, bounds)
  PROVE  RotInv /\ KeyInv
<1>1. RotInv /\ Now = files
  BY InitRot DEF SettledStart
<1>2. /\ record = NoRecord /\ vault = first /\ op = [w \in Workers |-> Idle]
  BY DEF RotationInit, VaultInit
<1>3. StoreKeys
  BY <1>1, <1>2 DEF StoreKeys, SettledStart
<1>4. OpenKey
  BY <1>1, <1>2 DEF OpenKey, SettledStart
<1>5. OpKeys
  BY <1>2, IdleShape DEF OpKeys, PullsKey, Publishing
<1> QED BY <1>1, <1>3, <1>4, <1>5 DEF KeyInv

\* What every state satisfies, from any such machine.
THEOREM RotationTypes ==
  ASSUME NEW files, NEW first, NEW bounds, Started(files, first)
  PROVE  RotationSpec(files, first, bounds) => []TypeOK
<1>1. RotationInit(files, first, bounds) => RotInv
  BY InitRot
<1>2. RotInv /\ [Next]_vars => RotInv'
  BY NextRot, StutterRot
<1>3. RotInv => TypeOK
  BY RotTypes
<1> QED BY <1>1, <1>2, <1>3, PTL DEF RotationSpec

\* KeysAgree: whatever the workers do with the vault, the settings and the bucket, and
\* wherever the engine dies, all that is sealed on disk is sealed with one key, but for a
\* change that is under way and for an older key that the user himself brought back.
THEOREM RotationKeepsKeys ==
  ASSUME NEW files, NEW first, NEW bounds, SettledStart(files, first)
  PROVE  RotationSpec(files, first, bounds) => []KeysAgree
<1>1. RotationInit(files, first, bounds) => RotInv /\ KeyInv
  BY InitKeys
<1>2. RotInv /\ KeyInv /\ [Next]_vars => RotInv' /\ KeyInv'
  BY NextRot, StutterRot, NextKeys, StutterOfKeys
<1>3. RotInv /\ KeyInv => KeysAgree
  BY KeyInvAgree DEF RotInv
<1> QED BY <1>1, <1>2, <1>3, PTL DEF RotationSpec

(* What the user is served *)

\* A change that writes the vault is pending.
VaultPending == record # NoRecord /\ "vault" \in Written(record.entries)

\* A request that has written the vault and has yet to publish it.
Reloading(o) == o.at = "done" /\ o.kind \in Publishers /\ "vault" \in Written(o.entries)
\* Some request has yet to publish what it wrote.
WillReload == \E w \in Workers : Reloading(op[w])

\* The vault that counts holds what the user saved.
SavedInv == ~overtaken => Now.vault.body = saved

\* What is open differs from the disk only across a commit of the vault; a commit that
\* undoes itself is begun over a vault that is what it will put back.
OpenInv == vault # Closed /\ vault # disk.vault => VaultPending \/ WillReload
\* While a commit that may undo itself is at work, the vault in memory is what undoing it
\* leaves, or will be read again.
HeldInv ==
  lock # NoWorker /\ VaultPending /\ Mode(record.kind) # "plain" =>
    vault \in {Closed, Before.vault} \/ WillReload

\* The inductive invariant of SavedIsServed.
ServedInv == SavedInv /\ (~overtaken /\ ~carried => OpenInv /\ HeldInv)

-----------------------------------------------------------------------------

\* Who has to publish still has to.
LEMMA WillStay ==
  ASSUME WillReload, \A v \in Workers : op'[v] = op[v] \/ ~Reloading(op[v])
  PROVE  WillReload'
<1>1. PICK w \in Workers : Reloading(op[w])
  BY DEF WillReload
<1>2. op'[w] = op[w]
  BY <1>1
<1>3. Reloading(op'[w])
  BY <1>1, <1>2
<1> QED BY <1>3 DEF WillReload

\* A step that leaves the files alone, and closes the vault or leaves it as it is.
LEMMA MemoryServed ==
  ASSUME VaultInv, ServedInv, UNCHANGED <<disk, record, saved>>,
         ~overtaken' => ~overtaken, ~carried' => ~carried, lock' \in {lock, NoWorker},
         \/ vault' = Closed
         \/ vault' = vault /\ \A v \in Workers : op'[v] = op[v] \/ ~Reloading(op[v])
  PROVE  ServedInv'
<1>1. Before' = Before /\ Now' = Now
  BY StoreStays DEF VaultInv, Shapes
<1>2. SavedInv'
  BY <1>1 DEF ServedInv, SavedInv
<1>3. VaultPending' = VaultPending
  BY DEF VaultPending
<1>4. CASE vault' = Closed
  BY <1>2, <1>4 DEF ServedInv, OpenInv, HeldInv, Closed
<1>5. CASE vault' = vault /\ \A v \in Workers : op'[v] = op[v] \/ ~Reloading(op[v])
  <2>1. WillReload => WillReload'
    BY <1>5, WillStay
  <2>2. OpenInv => OpenInv'
    BY <1>3, <1>5, <2>1 DEF OpenInv, Closed
  <2>3. HeldInv => HeldInv'
    BY <1>1, <1>3, <1>5, <2>1 DEF HeldInv, Closed, Mode
  <2> QED BY <1>2, <2>2, <2>3 DEF ServedInv
<1> QED BY <1>4, <1>5

\* One request changes and has nothing to publish.
LEMMA NoNewsServed ==
  ASSUME VaultInv, ServedInv, NEW w \in Workers, NoNews(w)
  PROVE  ServedInv'
<1>1. /\ UNCHANGED <<disk, record, lock, vault, saved, overtaken, carried>>
  BY DEF NoNews
<1>2. \A v \in Workers : op'[v] = op[v] \/ ~Reloading(op[v])
  BY DEF NoNews, OthersStay, Reloading
<1> QED BY <1>1, <1>2, MemoryServed

\* What is published is what was saved.
LEMMA PublishesServed ==
  ASSUME VaultInv, ServedInv, NEW w \in Workers, Publishes(w)
  PROVE  ServedInv'
<1>1. /\ UNCHANGED <<disk, record, lock, saved, carried>> /\ vault' = op[w].candidate
      /\ overtaken' = (overtaken \/ disk.vault # op[w].candidate)
      /\ op[w].at = "done" /\ op[w].kind \in {"save", "initialise"}
  BY DEF Publishes, storageVars
<1>2. Now' = Now
  BY <1>1, StoreStays DEF VaultInv, Shapes
<1>3. SavedInv'
  BY <1>1, <1>2 DEF ServedInv, SavedInv
<1>4. ~overtaken' => OpenInv'
  BY <1>1 DEF OpenInv
<1>5. HeldInv'
  <2> SUFFICES ASSUME lock' # NoWorker, Mode(record'.kind) # "plain"
               PROVE  FALSE
    BY DEF HeldInv
  <2>1. lock \in Workers /\ Linked(record, op[lock]) /\ op[lock].at = "apply"
    BY <1>1 DEF VaultInv, Ties, Tied
  <2>2. op[lock].kind \in Owners
    BY <1>1, <2>1 DEF Linked, Mode, Owners
  <2>3. owner = lock /\ owner = w
    BY <1>1, <2>1, <2>2 DEF VaultInv, Ties, Tied, Owners
  <2> QED BY <1>1, <2>1, <2>3
<1> QED BY <1>3, <1>4, <1>5 DEF ServedInv

\* What is read again from the disk is, too.
LEMMA ReloadsServed ==
  ASSUME VaultInv, KeyInv, ServedInv, NEW w \in Workers, Reloads(w)
  PROVE  ServedInv'
<1>1. /\ UNCHANGED <<disk, record, lock, saved, carried>>
      /\ op[w].at = "done" /\ op[w].kind \in {"pull", "restore", "recover"}
      /\ overtaken' = (overtaken \/ ("vault" \in Written(op[w].entries) /\ VaultPending))
      /\ "vault" \notin Written(op[w].entries) => vault' = vault
      /\ "vault" \in Written(op[w].entries) => Reload
  BY DEF Reloads, storageVars, VaultPending
<1>2. OthersStay(w)
  BY ReloadsKeeps
<1>3. CASE "vault" \notin Written(op[w].entries)
  <2>1. (~overtaken' => ~overtaken) /\ vault' = vault
    BY <1>1, <1>3
  <2>2. \A v \in Workers : op'[v] = op[v] \/ ~Reloading(op[v])
    BY <1>2, <1>3 DEF OthersStay, Reloading
  <2> QED BY <1>1, <2>1, <2>2, MemoryServed
<1>4. CASE "vault" \in Written(op[w].entries)
  <2>1. Now' = Now
    BY <1>1, StoreStays DEF VaultInv, Shapes
  <2>2. SavedInv'
    BY <1>1, <2>1 DEF ServedInv, SavedInv
  <2>3. ASSUME ~overtaken', ~carried' PROVE OpenInv' /\ HeldInv'
    <3>1. ~VaultPending /\ ~VaultPending' /\ ~carried
      BY <1>1, <1>4, <2>3 DEF VaultPending
    <3>2. OpenKey /\ StoreInv
      BY <3>1 DEF KeyInv, VaultInv, Shapes
    <3>3. Now.vault = disk.vault
      <4>1. "vault" \in Names
        BY DEF Names
      <4>2. CASE record = NoRecord
        BY <3>2, <4>2, Settled
      <4>3. CASE record # NoRecord
        <5>1. "vault" \notin Written(record.entries)
          BY <3>1, <4>3 DEF VaultPending
        <5>2. NowhereElse(record.entries) /\ Now \in {Before, After}
          BY <3>2, <4>3, Settled
        <5> QED BY <4>1, <5>1, <5>2 DEF NowhereElse
      <4> QED BY <4>2, <4>3
    <3>4. vault' = Closed \/ vault' = disk.vault
      BY <1>1, <1>4, <3>2, <3>3 DEF Reload, OpenKey
    <3>5. OpenInv'
      BY <1>1, <3>4 DEF OpenInv, Closed
    <3> QED BY <3>1, <3>5 DEF HeldInv
  <2> QED BY <2>2, <2>3 DEF ServedInv
<1> QED BY <1>3, <1>4

\* The vault is unlocked.
LEMMA UnlockServed ==
  ASSUME VaultInv, ServedInv, Unlock
  PROVE  ServedInv'
<1>1. /\ UNCHANGED <<disk, record, lock, saved, overtaken, carried, op>>
      /\ vault' = disk.vault /\ owner = NoWorker
  BY DEF Unlock, storageVars, ghostVars
<1>2. Now' = Now
  BY <1>1, StoreStays DEF VaultInv, Shapes
<1>3. SavedInv'
  BY <1>1, <1>2 DEF ServedInv, SavedInv
<1>4. OpenInv'
  BY <1>1 DEF OpenInv
<1>5. HeldInv'
  <2> SUFFICES ASSUME lock' # NoWorker, Mode(record'.kind) # "plain"
               PROVE  FALSE
    BY DEF HeldInv
  <2>1. lock \in Workers /\ lock # NoWorker /\ Linked(record, op[lock])
    BY <1>1 DEF VaultInv, Ties
  <2>2. op[lock].kind \in Owners
    BY <1>1, <2>1 DEF Linked, Mode, Owners
  <2> QED BY <1>1, <2>1, <2>2 DEF VaultInv, Ties, Tied
<1> QED BY <1>3, <1>4, <1>5 DEF ServedInv

\* A change begins.  Until it is marked applied, the vault that counts is the old one.
LEMMA BeginsServed ==
  ASSUME VaultInv, ServedInv, NEW w \in Workers, Begins(w)
  PROVE  ServedInv'
<1>1. /\ OnlyMoves(w) /\ op[w].at = "commit" /\ lock = NoWorker
      /\ record = NoRecord /\ Before' = disk' /\ Now' = disk' /\ Backs /\ vault' = vault
      /\ \/ carried' = (carried \/ Carries(op[w].kind, Built(w)))
         \/ lock' = lock /\ carried' = carried
  BY BeginsEffect
<1>2. saved' = saved /\ overtaken' = overtaken
  BY DEF Begins
<1>3. disk'.vault = disk.vault
  BY <1>1 DEF Backs, Names
<1>4. Now = disk
  BY <1>1, Settled DEF VaultInv, Shapes
<1>5. SavedInv'
  BY <1>1, <1>2, <1>3, <1>4 DEF ServedInv, SavedInv
<1>6. ASSUME ~overtaken', ~carried' PROVE OpenInv' /\ HeldInv'
  <2>1. OpenInv /\ ~VaultPending
    <3>1. ~carried
      <4>1. carried' = (carried \/ Carries(op[w].kind, Built(w))) \/ carried' = carried
        BY <1>1
      <4> QED BY <1>6, <4>1
    <3>2. ~overtaken
      BY <1>2, <1>6
    <3> QED BY <1>1, <3>1, <3>2 DEF ServedInv, VaultPending
  <2>2. \A v \in Workers : op'[v] = op[v] \/ ~Reloading(op[v])
    BY <1>1 DEF OnlyMoves, Reloading
  <2>3. WillReload => WillReload'
    BY <2>2, WillStay
  <2> QED BY <1>1, <1>3, <2>1, <2>3 DEF OpenInv, HeldInv, Closed
<1> QED BY <1>5, <1>6 DEF ServedInv

\* A file of it is written.
LEMMA AppliesServed ==
  ASSUME VaultInv, ServedInv, NEW w \in Workers, Applies(w)
  PROVE  ServedInv'
<1>1. /\ op' = op /\ lock' = lock /\ record # NoRecord /\ record' # NoRecord
      /\ record'.kind = record.kind /\ record'.entries = record.entries
      /\ Before' = Before /\ Now' = Now
      /\ \A f \in Names \ Written(record.entries) : disk'[f] = disk[f]
  BY AppliesEffect
<1>2. UNCHANGED <<vault, saved, overtaken, carried>>
  BY DEF Applies, memoryVars, ghostVars
<1>3. SavedInv'
  BY <1>1, <1>2 DEF ServedInv, SavedInv
<1>4. VaultPending' = VaultPending /\ (~VaultPending => disk'.vault = disk.vault)
  BY <1>1 DEF VaultPending, Names
<1>5. WillReload => WillReload'
  BY <1>1, WillStay
<1>6. OpenInv => OpenInv'
  BY <1>2, <1>4, <1>5 DEF OpenInv, Closed
<1>7. HeldInv => HeldInv'
  BY <1>1, <1>2, <1>4, <1>5 DEF HeldInv, Closed, Mode
<1> QED BY <1>2, <1>3, <1>6, <1>7 DEF ServedInv

\* It is rolled back, or left.
LEMMA FailsServed ==
  ASSUME VaultInv, ServedInv, NEW w \in Workers, Fails(w)
  PROVE  ServedInv'
<1>1. /\ OnlyMoves(w) /\ op[w].at = "apply" /\ lock = w /\ lock' = NoWorker
      /\ vault' = vault /\ Now' = Now /\ record # NoRecord
      /\ \/ record' = NoRecord /\ Mode(record.kind) # "plain" /\ disk' = Before
         \/ UNCHANGED <<disk, record>>
  BY FailsEffect DEF Linked
<1>2. UNCHANGED <<saved, overtaken, carried>> /\ w # NoWorker
  BY VaultAssumption DEF Fails, ghostVars
<1>3. SavedInv'
  BY <1>1, <1>2 DEF ServedInv, SavedInv
<1>4. \A v \in Workers : op'[v] = op[v] \/ ~Reloading(op[v])
  BY <1>1 DEF OnlyMoves, Reloading
<1>5. WillReload => WillReload'
  BY <1>4, WillStay
<1>6. HeldInv'
  BY <1>1 DEF HeldInv
<1>7. OpenInv /\ HeldInv => OpenInv'
  <2>1. CASE UNCHANGED <<disk, record>>
    BY <1>1, <1>5, <2>1 DEF OpenInv, VaultPending, Closed
  <2>2. CASE record' = NoRecord /\ Mode(record.kind) # "plain" /\ disk' = Before
    <3>1. CASE VaultPending
      BY <1>1, <1>2, <1>5, <2>2, <3>1 DEF HeldInv, OpenInv, Closed
    <3>2. CASE ~VaultPending
      <4>1. "vault" \in Names /\ "vault" \notin Written(record.entries)
        BY <1>1, <3>2 DEF VaultPending, Names
      <4>2. NowhereElse(record.entries)
        BY <1>1, Settled DEF VaultInv, Shapes
      <4>3. disk'.vault = disk.vault
        BY <2>2, <4>1, <4>2 DEF NowhereElse
      <4> QED BY <1>1, <1>5, <3>2, <4>3 DEF OpenInv, Closed
    <3> QED BY <3>1, <3>2
  <2> QED BY <1>1, <2>1, <2>2
<1> QED BY <1>2, <1>3, <1>6, <1>7 DEF ServedInv

\* What the user is owed is what the finished change leaves.
LEMMA OwedIs ==
  ASSUME VaultInv, record # NoRecord, record.status = "staged", Now.vault.body = saved,
         record.kind # "rekey"
  PROVE  After.vault.body = Owed(record.kind, record.entries)
<1>1. /\ StoreInv /\ RecordShape(record) /\ Now = Before /\ NowhereElse(record.entries)
      /\ \A f \in Written(record.entries) :
           Before[f] = Of(record.entries, f).old /\ After[f] = Of(record.entries, f).new
  BY Settled DEF VaultInv, Shapes, StoreInv
<1>2. CASE "vault" \notin Written(record.entries)
  <2>1. After.vault = Before.vault
    BY <1>1, <1>2 DEF NowhereElse, Names
  <2> QED BY <1>1, <1>2, <2>1 DEF Owed
<1>3. CASE "vault" \in Written(record.entries)
  <2>1. /\ After.vault = Of(record.entries, "vault").new
        /\ Before.vault = Of(record.entries, "vault").old
    BY <1>1, <1>3
  <2>2. record.kind \in {"save", "restore", "pull", "initialise"}
    BY <1>1, <1>3, RecordParts DEF RecordShape, Kinds
  <2>3. CASE record.kind = "initialise"
    <3>1. Before.vault = Missing /\ After.vault.body = {}
      BY <1>1, <2>1, <2>3 DEF RecordShape
    <3> QED BY <1>1, <2>3, <3>1 DEF Owed, Missing, Sealed
  <2>4. CASE record.kind \in {"save", "restore", "pull"}
    BY <1>3, <2>1, <2>4 DEF Owed
  <2> QED BY <2>2, <2>3, <2>4
<1> QED BY <1>2, <1>3

\* It is done, and what it wrote is now what the user saved.
LEMMA EndsServed ==
  ASSUME VaultInv, ServedInv, NEW w \in Workers, Ends(w)
  PROVE  ServedInv'
<1>1. /\ OnlyMoves(w) /\ op[w].at = "apply" /\ op'[w].at = "done"
      /\ lock' = NoWorker /\ Linked(record, op[w]) /\ record.status = "staged"
      /\ disk = After /\ disk' = disk /\ Now' = After /\ carried' = carried
      /\ vault' = IF op[w].kind = "rekey" THEN op[w].candidate ELSE vault
      /\ saved' = Owed(record.kind, record.entries)
      /\ overtaken' = (overtaken \/ (op[w].kind = "rekey" /\ op[w].candidate.body # saved))
  BY EndsEffect DEF Ends, PublishesInside
<1>2. /\ record # NoRecord /\ record.kind = op[w].kind /\ RecordShape(record) /\ StoreInv
      /\ OpShape(op[w])
  BY <1>1 DEF Linked, VaultInv, Shapes, StoreInv, OpsInv
<1>3. ASSUME op[w].kind = "rekey" PROVE After.vault = op[w].candidate
  <2>1. "vault" \in Written(record.entries) /\ Of(record.entries, "vault").new = op[w].candidate
    BY <1>1, <1>2, <1>3 DEF Linked, RecordShape
  <2> QED BY <1>2, <2>1, Settled
<1>4. SavedInv'
  <2> SUFFICES ASSUME ~overtaken' PROVE After.vault.body = Owed(record.kind, record.entries)
    BY <1>1 DEF SavedInv
  <2>1. ~overtaken /\ Now.vault.body = saved
    BY <1>1 DEF ServedInv, SavedInv
  <2>2. CASE op[w].kind = "rekey"
    BY <1>1, <1>2, <1>3, <2>2 DEF Owed
  <2>3. CASE op[w].kind # "rekey"
    BY <1>1, <1>2, <2>1, <2>3, OwedIs
  <2> QED BY <2>2, <2>3
<1>5. HeldInv'
  BY <1>1 DEF HeldInv
<1>6. ASSUME ~overtaken', ~carried' PROVE OpenInv'
  <2>1. CASE op[w].kind = "rekey"
    BY <1>1, <1>3, <2>1 DEF OpenInv
  <2>2. CASE op[w].kind # "rekey" /\ VaultPending
    <3>1. record.entries = op[w].entries /\ "vault" \in Written(op[w].entries)
      BY <1>1, <2>2 DEF Linked, VaultPending
    <3>2. op[w].kind \in Publishers
      BY <1>2, <2>2, RecordParts DEF VaultPending, RecordShape, Kinds, Publishers
    <3>3. Reloading(op'[w])
      BY <1>1, <3>1, <3>2 DEF Reloading, OnlyMoves
    <3> QED BY <3>3 DEF OpenInv, WillReload
  <2>3. CASE op[w].kind # "rekey" /\ ~VaultPending
    <3>1. OpenInv
      BY <1>1, <1>6 DEF ServedInv
    <3>2. \A v \in Workers : op'[v] = op[v] \/ ~Reloading(op[v])
      BY <1>1 DEF OnlyMoves, Reloading
    <3>3. WillReload => WillReload'
      BY <3>2, WillStay
    <3> QED BY <1>1, <2>3, <3>1, <3>3 DEF OpenInv, Closed
  <2> QED BY <2>1, <2>2, <2>3
<1> QED BY <1>4, <1>5, <1>6 DEF ServedInv

\* The vault opens itself, with what is on disk once a change of password is settled.
LEMMA AutoUnlockServed ==
  ASSUME VaultInv, ServedInv, AutoUnlock, lock' = NoWorker, vault = Closed,
         UNCHANGED <<saved, overtaken, carried>>
  PROVE  ServedInv'
<1>1. Now' = Now /\ vault' = IF AutoUnlocks THEN disk'.vault ELSE vault
  BY AutoUnlockEffect DEF VaultInv, Shapes
<1>2. SavedInv'
  BY <1>1 DEF ServedInv, SavedInv
<1>3. OpenInv' /\ HeldInv'
  BY <1>1 DEF OpenInv, HeldInv, Closed
<1> QED BY <1>2, <1>3 DEF ServedInv

\* The vault is locked, or opens itself.
LEMMA LockManuallyServed ==
  ASSUME VaultInv, ServedInv, LockManually
  PROVE  ServedInv'
<1>1. /\ op' = op /\ lock = NoWorker /\ lock' = lock /\ UNCHANGED <<saved, overtaken, carried>>
      /\ \/ UNCHANGED <<disk, record>> /\ vault' \in {Closed, vault}
         \/ vault = Closed /\ AutoUnlock
  BY LockManuallyEffect DEF LockManually, ghostVars
<1>2. CASE UNCHANGED <<disk, record>> /\ vault' \in {Closed, vault}
  BY <1>1, <1>2, MemoryServed
<1>3. CASE vault = Closed /\ AutoUnlock
  BY <1>1, <1>3, AutoUnlockServed
<1> QED BY <1>1, <1>2, <1>3

\* The engine starts.
LEMMA StartServed ==
  ASSUME VaultInv, ServedInv, Start
  PROVE  ServedInv'
<1>1. /\ vault = Closed /\ lock' = NoWorker /\ AutoUnlock
      /\ UNCHANGED <<saved, overtaken, carried>>
  BY DEF Start, ghostVars, VaultInv, Ties
<1> QED BY <1>1, AutoUnlockServed

\* The library is no part of the vault.
LEMMA SaveLibraryServed ==
  ASSUME VaultInv, ServedInv, NEW w \in Workers, SaveLibrary(w)
  PROVE  ServedInv'
<1>1. /\ op' = op /\ record = NoRecord /\ record' = NoRecord
      /\ Now = disk /\ Now' = disk' /\ vault' = vault
      /\ \A f \in Names \ {"library"} : disk'[f] = disk[f]
  BY SaveLibraryEffect
<1>2. UNCHANGED <<saved, overtaken, carried>>
  BY DEF SaveLibrary, ghostVars
<1>3. disk'.vault = disk.vault
  BY <1>1 DEF Names
<1>4. WillReload => WillReload'
  BY <1>1, WillStay
<1>5. SavedInv'
  BY <1>1, <1>2, <1>3 DEF ServedInv, SavedInv
<1>6. OpenInv => OpenInv'
  BY <1>1, <1>3, <1>4 DEF OpenInv, VaultPending, Closed
<1>7. HeldInv'
  BY <1>1 DEF HeldInv, VaultPending
<1> QED BY <1>2, <1>5, <1>6, <1>7 DEF ServedInv

\* A recovery completes a change, and the user is owed it, or drops it.
LEMMA RecoverServed ==
  ASSUME VaultInv, ServedInv, NEW w \in Workers, NEW action, Recover(w, action)
  PROVE  ServedInv'
<1>1. /\ record # NoRecord /\ record' = NoRecord /\ Now' = disk' /\ vault' = vault
      /\ op[w] = Idle /\ OthersStay(w)
      /\ op'[w].kind = "recover" /\ op'[w].at = "done" /\ op'[w].entries = record.entries
      /\ overtaken' = overtaken /\ carried' = carried
      /\ \/ disk' = Now /\ saved' = saved
         \/ /\ disk' = After /\ record.status = "staged" /\ Mode(record.kind) = "plain"
            /\ saved' = Owed(record.kind, record.entries)
  BY RecoverEffect
<1>2. SavedInv'
  <2> SUFFICES ASSUME ~overtaken PROVE disk'.vault.body = saved'
    BY <1>1 DEF SavedInv
  <2>1. Now.vault.body = saved
    BY DEF ServedInv, SavedInv
  <2>2. Mode(record.kind) = "plain" => record.kind # "rekey"
    BY DEF Mode
  <2> QED BY <1>1, <2>1, <2>2, OwedIs
<1>3. HeldInv'
  BY <1>1 DEF HeldInv, VaultPending
<1>4. OpenInv => OpenInv'
  <2>1. CASE VaultPending
    <3>1. Reloading(op'[w])
      BY <1>1, <2>1 DEF VaultPending, Reloading, Publishers
    <3> QED BY <3>1 DEF OpenInv, WillReload
  <2>2. CASE ~VaultPending
    <3>1. "vault" \in Names /\ "vault" \notin Written(record.entries)
      BY <1>1, <2>2 DEF VaultPending, Names
    <3>2. NowhereElse(record.entries) /\ Now \in {Before, After}
      BY <1>1, Settled DEF VaultInv, Shapes
    <3>3. disk'.vault = disk.vault
      BY <1>1, <3>1, <3>2 DEF NowhereElse
    <3>4. \A v \in Workers : op'[v] = op[v] \/ ~Reloading(op[v])
      BY <1>1, IdleShape DEF OthersStay, Reloading
    <3>5. WillReload => WillReload'
      BY <3>4, WillStay
    <3> QED BY <1>1, <2>2, <3>3, <3>5 DEF OpenInv, Closed
  <2> QED BY <2>1, <2>2
<1> QED BY <1>1, <1>2, <1>3, <1>4 DEF ServedInv

\* The idle timer closes the vault.
LEMMA IdleServed ==
  ASSUME VaultInv, ServedInv, IdleCloses
  PROVE  ServedInv'
<1>1. UNCHANGED <<disk, record, lock, saved, overtaken, carried>> /\ vault' = Closed
  BY DEF IdleCloses, storageVars, ghostVars
<1> QED BY <1>1, MemoryServed

\* It is locked after a restore.
LEMMA LocksServed ==
  ASSUME VaultInv, ServedInv, NEW w \in Workers, LocksAfterRestore(w)
  PROVE  ServedInv'
<1>1. UNCHANGED <<disk, record, lock, saved, overtaken, carried>> /\ vault' = Closed
  BY DEF LocksAfterRestore, storageVars, ghostVars
<1> QED BY <1>1, MemoryServed

\* A crash closes it.
LEMMA CrashServed ==
  ASSUME VaultInv, ServedInv, Crash
  PROVE  ServedInv'
<1>1. UNCHANGED <<disk, record, saved, overtaken, carried>> /\ vault' = Closed /\ lock' = NoWorker
  BY DEF Crash, ghostVars
<1> QED BY <1>1, MemoryServed

-----------------------------------------------------------------------------

\* A step of any request,
LEMMA StepServed ==
  ASSUME VaultInv, KeyInv, ServedInv, NEW w \in Workers, Step(w)
  PROVE  ServedInv'
<1>1. CASE RestoreReads(w)
  BY <1>1, RestoreReadsEffect, NoNewsServed
<1>2. CASE Refused(w)
  BY <1>2, RefusedEffect, NoNewsServed
<1>3. CASE Returns(w)
  BY <1>3, ReturnsEffect, NoNewsServed
<1> QED BY <1>1, <1>2, <1>3, BeginsServed, AppliesServed, EndsServed, FailsServed,
           PublishesServed, ReloadsServed, LocksServed DEF Step

\* a new request,
LEMMA RequestServed ==
  ASSUME VaultInv, ServedInv, NEW w \in Workers, Request(w)
  PROVE  ServedInv'
<1>1. ASSUME NEW sign \in {1, -1}, Initialise(w, sign) PROVE ServedInv'
  BY <1>1, InitialiseEffect, NoNewsServed
<1>2. ASSUME NEW sign \in {1, -1}, ChangeMasterPassword(w, sign) PROVE ServedInv'
  BY <1>2, ChangeEffect, NoNewsServed
<1>3. ASSUME NEW s \in Secrets, Save(w, s) PROVE ServedInv'
  BY <1>3, SaveEffect, NoNewsServed
<1>4. CASE SetSyncSettings(w)
  BY <1>4, SetSyncSettingsEffect, NoNewsServed
<1>6. CASE SaveConfig(w)
  BY <1>6, SaveConfigEffect, NoNewsServed
<1>7. ASSUME NEW b \in disk.backups, Restore(w, b) PROVE ServedInv'
  BY <1>7, RestoreEffect, NoNewsServed
<1> QED BY <1>1, <1>2, <1>3, <1>4, <1>6, <1>7, SaveLibraryServed DEF Request

\* a step beside the vault,
LEMMA AlongServed ==
  ASSUME RotInv, ServedInv, UNCHANGED <<storageVars, memoryVars, ghostVars>>
  PROVE  ServedInv'
<1>1. VaultInv /\ UNCHANGED <<disk, record, lock, vault, op, saved, overtaken, carried>>
  BY DEF storageVars, memoryVars, ghostVars, RotInv
<1> QED BY <1>1, MemoryServed

\* a step of the operation on the bucket,
LEMMA RotationServed ==
  ASSUME RotInv, ServedInv, NEW w \in Workers, Rotation(w)
  PROVE  ServedInv'
<1>0. VaultInv
  BY DEF RotInv
<1>1. ASSUME NEW new \in SyncKeys, ReplaceKey(w, new) PROVE ServedInv'
  <2>1. new \in Nat /\ Fit(<<"resolve", "choose">>, new, 0)
    BY RotationAssumption, FitLists
  <2>2. NoNews(w)
    BY <1>1, <2>1, OperatesKeeps DEF ReplaceKey
  <2> QED BY <1>0, <2>2, NoNewsServed
<1>2. CASE Push(w)
  <2>1. Fit(<<"ensure", "send", "state">>, 0, 0)
    BY FitLists
  <2>2. NoNews(w)
    BY <1>2, <2>1, OperatesKeeps DEF Push
  <2> QED BY <1>0, <2>2, NoNewsServed
<1>3. CASE Fetch(w)
  <2>1. Fit(<<"ensure", "get", "state">>, 0, 0)
    BY FitLists
  <2>2. NoNews(w)
    BY <1>3, <2>1, OperatesKeeps DEF Fetch
  <2> QED BY <1>0, <2>2, NoNewsServed
<1>4. CASE PullsFiles(w)
  BY <1>0, <1>4, PullsKeeps, NoNewsServed
<1>5. CASE Commits(w)
  BY <1>0, <1>5, CommitsKeeps, NoNewsServed
<1>6. CASE CommitsKey(w)
  BY <1>0, <1>6, CommitsKeyKeeps, NoNewsServed
<1>7. CASE Continues(w)
  BY <1>0, <1>7, ContinuesKeeps, NoNewsServed
<1>8. CASE Answers(w)
  BY <1>0, <1>8, AnswersKeeps, NoNewsServed
<1>9. CASE \/ ResolveKeyRecovery(w) \/ EnsureNoKeyRecovery(w) \/ Chooses(w) \/ Gets(w)
           \/ PutsResealed(w) \/ PutsBack(w) \/ Sends(w) \/ CommitsNoKey(w)
  <2>1. LocallyUnchanged
    BY <1>9 DEF ResolveKeyRecovery, EnsureNoKeyRecovery, Chooses, Gets, PutsResealed, PutsBack,
         Sends, CommitsNoKey
  <2> QED BY <2>1, AlongServed DEF LocallyUnchanged
<1> QED BY <1>1, <1>2, <1>3, <1>4, <1>5, <1>6, <1>7, <1>8, <1>9 DEF Rotation

\* and any step keep what the user is served.
LEMMA NextServed ==
  ASSUME RotInv, KeyInv, ServedInv, Next
  PROVE  ServedInv'
<1>0. VaultInv
  BY DEF RotInv
<1>1. CASE VaultStep
  BY <1>0, <1>1, StepServed, RequestServed, IdleServed, UnlockServed, LockManuallyServed,
     StartServed DEF VaultStep
<1>2. ASSUME NEW w \in Workers, NEW action, Recovers(w, action) PROVE ServedInv'
  BY <1>0, <1>2, RecoverServed DEF Recovers
<1>3. CASE OtherPush
  BY <1>3, AlongServed DEF OtherPush
<1>4. CASE Killed
  BY <1>0, <1>4, CrashServed DEF Killed
<1> QED BY <1>1, <1>2, <1>3, <1>4, RotationServed DEF Next

\* The invariant says of memory and disk what SavedIsServed does.
LEMMA ServedInvServes ==
  ASSUME VaultInv, ServedInv
  PROVE  SavedIsServed
<1> SUFFICES ASSUME Quiet, ~overtaken, ~carried
             PROVE  disk.vault.body = saved /\ (vault # Closed => vault = disk.vault)
  BY DEF SavedIsServed
<1>1. Now = disk /\ ~VaultPending
  BY Settled DEF Quiet, VaultPending, VaultInv, Shapes
<1>2. ~WillReload
  BY IdleShape DEF Quiet, WillReload, Reloading
<1> QED BY <1>1, <1>2 DEF ServedInv, SavedInv, OpenInv

\* Such a machine starts with nothing saved that it would not serve.
LEMMA InitServed ==
  ASSUME NEW files, NEW first, NEW bounds, SettledStart(files, first),
         RotationInit(files, first, bounds)
  PROVE  RotInv /\ KeyInv /\ ServedInv
<1>1. RotInv /\ KeyInv /\ Now = files
  BY InitKeys, InitRot DEF SettledStart
<1>2. saved = files.vault.body /\ record = NoRecord /\ vault = first /\ disk = files
      /\ lock = NoWorker
  BY DEF RotationInit, VaultInit
<1> QED BY <1>1, <1>2 DEF ServedInv, SavedInv, OpenInv, HeldInv, SettledStart

\* SavedIsServed: the vault on disk holds what the user last saved, and so does the open one,
\* whatever transactions are under way, fail, or are left behind by a crash and recovered,
\* unless a restore or a forced change overtook it.
THEOREM RotationServesSaved ==
  ASSUME NEW files, NEW first, NEW bounds, SettledStart(files, first)
  PROVE  RotationSpec(files, first, bounds) => []SavedIsServed
<1>1. RotationInit(files, first, bounds) => RotInv /\ KeyInv /\ ServedInv
  BY InitServed
<1>2. RotInv /\ KeyInv /\ ServedInv /\ [Next]_vars => RotInv' /\ KeyInv' /\ ServedInv'
  <2>1. CASE Next
    BY <2>1, NextRot, NextKeys, NextServed
  <2>2. CASE UNCHANGED vars
    BY <2>2, StutterRot, StutterOfKeys, AlongServed DEF vars, vaultVars
  <2> QED BY <2>1, <2>2
<1>3. RotInv /\ KeyInv /\ ServedInv => SavedIsServed
  BY ServedInvServes DEF RotInv
<1> QED BY <1>1, <1>2, <1>3, PTL DEF RotationSpec

(* The sync key and the live object *)

\* What a disk says of synchronization.
SyncIn(x) == IF x = Missing THEN 0 ELSE x.body.sync
View(d) == [sync |-> SyncIn(d.settings), journal |-> d.journal, state |-> d.state]
Was == View(Before)
Will == View(After)

\* The settings open the live object r.
Same(x, r) == x.sync = r.key

\* The bucket holds the object that the journal would put back.
OldLive(j, r) == r.etag = j.old \/ r.cipher = j.oldCipher

\* Both have a journal, and neither knows the generation the journal calls old.
Stuck(b, a) == \A x \in {b, a} : \A y \in {b, a} : x.journal # NoJournal /\ y.state # x.journal.old

\* b, a: the disk before and after the pending change; r: the live object.
Stable(b, a, r) ==
  /\ \A x \in {b, a} : x.journal = NoJournal => Same(x, r)
  /\ \A x \in {b, a} : x.journal # NoJournal /\ OldLive(x.journal, r) => Same(b, r)
  /\ \/ b.journal = a.journal
     \/ Same(b, r)
     \/ b.journal # NoJournal /\ a.journal # NoJournal /\ b.journal.old = a.journal.old
  /\ b.sync # a.sync => Stuck(b, a)

\* Of p ciphertexts, some is known, and the journals speak of others.
Known(b, a, p) ==
  \A x \in {b, a} :
    /\ x.state # 0
    /\ x.journal # NoJournal => x.journal.old \in 0 .. p /\ x.journal.oldCipher \in 0 .. p

\* The plans of an operation, and what is left of them.
Asking == <<"resolve", "choose">>
Adopting == <<"state", "clear", "choose">>
Adopted == <<"clear", "choose">>
Choosing == <<"choose">>
Alone == <<"commit">>
Beginning == FreshPlan
Putting == <<"put", "advance", "state", "commit", "clear">>
Advancing == <<"advance", "state", "commit", "clear">>
Knowing == <<"state", "commit", "clear">>
Committing == <<"commit", "clear">>
Clearing == <<"clear">>
Undoes == <<"undo", "state", "clear">>
Undone == <<"state", "clear">>
Pushing == <<"ensure", "send", "state">>
PushClears == <<"clear", "send", "state">>
Sending == <<"send", "state">>
Recording == <<"state">>
Fetching == <<"ensure", "get", "state">>
FetchClears == <<"clear", "get", "state">>
Getting == <<"get", "state">>

\* What an operation knows.
Know(s) == [read |-> s.read.sync, new |-> s.new, etagOf |-> s.object.etag,
            cipherOf |-> s.object.cipher, keyOf |-> s.object.key, sealed |-> s.sealed,
            etag |-> s.etag]

\* Both disks have the journal of this operation.
Journalled(k, b, a) ==
  \A x \in {b, a} :
    x.journal # NoJournal /\ x.journal.old = k.etagOf /\ x.journal.oldCipher = k.cipherOf

Fresh(k, b, r) == Same(b, r) /\ k.keyOf = r.key /\ k.sealed \notin {k.etagOf, k.cipherOf, 0}

\* What an operation relies on, by what it has still to do.
Claim(k, rest, undo, b, a, r) ==
  \/ ~undo /\ rest \in {<< >>, Asking, Fetching, Getting}
  \/ ~undo /\ rest = Recording /\ k.etag # 0
  \/ ~undo /\ rest \in {Adopted, Choosing, Clearing, FetchClears} /\ Same(b, r)
  \/ ~undo /\ rest \in {Adopting, Undone} /\ Same(b, r) /\ k.etag # 0
  \/ ~undo /\ rest = Alone /\ k.read = k.new
  \/ ~undo /\ rest = Beginning /\ Fresh(k, b, r)
  \/ ~undo /\ rest = Putting /\ Fresh(k, b, r) /\ Journalled(k, b, a)
  \/ /\ undo /\ rest = Advancing /\ r.key = k.new /\ Journalled(k, b, a)
     /\ b.sync = k.keyOf /\ k.etag \notin {0, k.etagOf}
  \/ /\ rest = Knowing /\ r.key = k.new /\ k.etag # 0 /\ (undo => b.sync = k.keyOf)
     /\ \/ b.sync = k.new
        \/ \A x \in {b, a} : x.journal # NoJournal /\ k.etag # x.journal.old
  \/ /\ rest = Committing /\ r.key = k.new /\ (undo => b.sync = k.keyOf)
     /\ b.sync = k.new \/ Stuck(b, a)
  \/ ~undo /\ rest = Undoes /\ b.sync = k.keyOf
  \/ ~undo /\ rest = Pushing /\ (k.read = b.sync \/ Stuck(b, a))
  \/ /\ ~undo /\ rest \in {PushClears, Sending} /\ Same(b, r)
     /\ k.read = b.sync \/ \A x \in {b, a} : x.state # r.etag

\* What is left to do once the write that has ended is counted.
Rest == IF op[sync.by].at = "done" THEN Tail(sync.todo) ELSE sync.todo
Undoing == sync.undo /\ ~(op[sync.by].at = "done" /\ Stage = "commit")

Relies ==
  /\ Claim(Know(sync), Rest, Undoing, Was, Will, remote)
  /\ op[sync.by].at = "done" => Rest # Undoes

There == Before.settings # Missing
Promised ==
  There /\ ~strayed =>
    /\ Known(Was, Will, puts) /\ Stable(Was, Will, remote)
    /\ sync # NoSync => Relies

NoRestores ==
  /\ "kinds" \in DOMAIN left /\ "restore" \notin left.kinds
  /\ \A w \in Workers : op[w].kind # "restore"

\* An operation on the bucket writes one file, as its stage says.
Writes(s, stage, e) ==
  \/ /\ stage \in {"prepare", "advance"} /\ e.file = "journal" /\ e.new # NoJournal
     /\ e.new.old = s.object.etag /\ e.new.oldCipher = s.object.cipher
  \/ stage = "clear" /\ e.file = "journal" /\ e.new = NoJournal
  \/ stage = "state" /\ e.file = "state" /\ e.new = s.etag
  \/ /\ stage = "commit" /\ e.file = "settings" /\ SyncIn(e.old) = s.read.sync
     /\ SyncIn(e.new) = s.new /\ e.old # Missing /\ e.new # Missing
OpWrites ==
  sync # NoSync =>
    LET o == op[sync.by] IN
    /\ o.at \in {"call", "commit", "apply", "done", "failed"}
    /\ o.at # "call" => sync.todo # << >> /\ Len(o.entries) = 1 /\ Writes(sync, Stage, o.entries[1])

\* Another request keeps the sync key, and a pull records what it found.
KeepsSync(o) ==
  /\ o.kind = "pull" => \A i \in DOMAIN o.entries :
       o.entries[i].file = "state" => o.entries[i].new # 0
  /\ o.kind = "settings" => \A i \in DOMAIN o.entries :
       o.entries[i].file = "settings" =>
         /\ SyncIn(o.entries[i].new) = SyncIn(o.entries[i].old)
         /\ o.entries[i].new = Missing <=> o.entries[i].old = Missing
OthersWrite ==
  \A w \in Workers : KeepsSync(op[w]) /\ (op[w].kind = "pull" => sync = NoSync)

\* Only a rotation changes the sync key, and nothing removes the settings.
Rotates ==
  /\ Was.sync # Will.sync => record # NoRecord /\ record.kind = "rotated"
  /\ Before.settings = Missing <=> After.settings = Missing
  /\ sync # NoSync => There

RemInv == NoRestores /\ OpWrites /\ OthersWrite /\ Rotates /\ Promised

\* The next stage of each plan,
LEMMA PlanHeads ==
  /\ Asking # << >> /\ Head(Asking) = "resolve"
  /\ Adopting # << >> /\ Head(Adopting) = "state"
  /\ Adopted # << >> /\ Head(Adopted) = "clear"
  /\ Choosing # << >> /\ Head(Choosing) = "choose"
  /\ Alone # << >> /\ Head(Alone) = "commit"
  /\ Beginning # << >> /\ Head(Beginning) = "prepare"
  /\ Putting # << >> /\ Head(Putting) = "put"
  /\ Advancing # << >> /\ Head(Advancing) = "advance"
  /\ Knowing # << >> /\ Head(Knowing) = "state"
  /\ Committing # << >> /\ Head(Committing) = "commit"
  /\ Clearing # << >> /\ Head(Clearing) = "clear"
  /\ Undoes # << >> /\ Head(Undoes) = "undo"
  /\ Undone # << >> /\ Head(Undone) = "state"
  /\ Pushing # << >> /\ Head(Pushing) = "ensure"
  /\ PushClears # << >> /\ Head(PushClears) = "clear"
  /\ Sending # << >> /\ Head(Sending) = "send"
  /\ Recording # << >> /\ Head(Recording) = "state"
  /\ Fetching # << >> /\ Head(Fetching) = "ensure"
  /\ FetchClears # << >> /\ Head(FetchClears) = "clear"
  /\ Getting # << >> /\ Head(Getting) = "get"
<1>1. \A a : <<a>> # << >> /\ Head(<<a>>) = a
  OBVIOUS
<1>2. \A a, b : <<a, b>> # << >> /\ Head(<<a, b>>) = a
  OBVIOUS
<1>3. \A a, b, c : <<a, b, c>> # << >> /\ Head(<<a, b, c>>) = a
  OBVIOUS
<1>4. \A a, b, c, d : <<a, b, c, d>> # << >> /\ Head(<<a, b, c, d>>) = a
  OBVIOUS
<1>5. \A a, b, c, d, e : <<a, b, c, d, e>> # << >> /\ Head(<<a, b, c, d, e>>) = a
  OBVIOUS
<1>6. \A a, b, c, d, e, f : <<a, b, c, d, e, f>> # << >> /\ Head(<<a, b, c, d, e, f>>) = a
  OBVIOUS
<1> QED BY <1>1, <1>2, <1>3, <1>4, <1>5, <1>6 DEF Asking, Adopting, Adopted, Choosing, Alone,
         Beginning, FreshPlan, Putting, Advancing, Knowing, Committing, Clearing, Undoes, Undone,
         Pushing, PushClears, Sending, Recording, Fetching, FetchClears, Getting

\* and the plan that is left after it.
LEMMA PlanTails ==
  /\ Tail(Asking) = Choosing /\ Tail(Adopting) = Adopted /\ Tail(Adopted) = Choosing
  /\ Tail(Alone) = << >> /\ Tail(Beginning) = Putting /\ Tail(Putting) = Advancing
  /\ Tail(Advancing) = Knowing /\ Tail(Knowing) = Committing /\ Tail(Committing) = Clearing
  /\ Tail(Clearing) = << >> /\ Tail(Undoes) = Undone /\ Tail(Undone) = Clearing
  /\ Tail(Pushing) = Sending /\ Tail(PushClears) = Sending /\ Tail(Sending) = Recording
  /\ Tail(Recording) = << >> /\ Tail(Fetching) = Getting /\ Tail(FetchClears) = Getting
  /\ Tail(Getting) = Recording
  /\ <<"clear">> \o Sending = PushClears /\ <<"clear">> \o Getting = FetchClears
<1>1. \A a : Tail(<<a>>) = << >>
  OBVIOUS
<1>2. \A a, b : Tail(<<a, b>>) = <<b>>
  OBVIOUS
<1>3. \A a, b, c : Tail(<<a, b, c>>) = <<b, c>>
  OBVIOUS
<1>4. \A a, b, c, d : Tail(<<a, b, c, d>>) = <<b, c, d>>
  OBVIOUS
<1>5. \A a, b, c, d, e : Tail(<<a, b, c, d, e>>) = <<b, c, d, e>>
  OBVIOUS
<1>6. \A a, b, c, d, e, f : Tail(<<a, b, c, d, e, f>>) = <<b, c, d, e, f>>
  OBVIOUS
<1>7. \A a, b, c : <<a>> \o <<b, c>> = <<a, b, c>>
  <2> TAKE a, b, c
  <2> DEFINE T == {a, b, c}
             s == <<a>> \o <<b, c>>
  <2>1. <<a>> \in Seq(T) /\ <<b, c>> \in Seq(T) /\ Len(<<a>>) = 1 /\ Len(<<b, c>>) = 2
    OBVIOUS
  <2>2. s \in Seq(T) /\ Len(s) = 3
    BY <2>1
  <2>3. s[1] = a /\ s[2] = b /\ s[3] = c
    BY <2>1
  <2> HIDE DEF s
  <2>4. <<a, b, c>> \in Seq(T) /\ Len(<<a, b, c>>) = 3
    OBVIOUS
  <2>5. \A i \in 1 .. 3 : s[i] = <<a, b, c>>[i]
    BY <2>3
  <2>6. s = <<a, b, c>>
    BY <2>2, <2>4, <2>5
  <2> QED BY <2>6 DEF s
<1> QED BY <1>1, <1>2, <1>3, <1>4, <1>5, <1>6, <1>7 DEF Asking, Adopting, Adopted, Choosing,
         Alone, Beginning, FreshPlan, Putting, Advancing, Knowing, Committing, Clearing, Undoes,
         Undone, Pushing, PushClears, Sending, Recording, Fetching, FetchClears, Getting

\* The change is rolled back.
LEMMA BackStable ==
  ASSUME NEW b, NEW a, NEW r, NEW p, Stable(b, a, r), Known(b, a, p)
  PROVE  Stable(b, b, r) /\ Known(b, b, p)
BY DEF Stable, Known, Same

\* What an operation relies on survives that.
LEMMA BackClaim ==
  ASSUME NEW b, NEW a, NEW r, NEW k, NEW rest, NEW undo, Claim(k, rest, undo, b, a, r)
  PROVE  Claim(k, rest, undo, b, b, r)
BY DEF Claim, Same, Fresh, Journalled, Stuck

\* It is completed, and changes no key.
LEMMA OnStable ==
  ASSUME NEW b, NEW a, NEW r, NEW p, Stable(b, a, r), Known(b, a, p), a.sync = b.sync
  PROVE  Stable(a, a, r) /\ Known(a, a, p)
BY DEF Stable, Known, Same

\* What an operation relies on survives that too,
LEMMA OnClaim ==
  ASSUME NEW b, NEW a, NEW r, NEW k, NEW rest, NEW undo, Claim(k, rest, undo, b, a, r),
         a.sync = b.sync
  PROVE  Claim(k, rest, undo, a, a, r)
BY DEF Claim, Same, Fresh, Journalled, Stuck

\* It is completed, and brings the key of the live object.
LEMMA NewStable ==
  ASSUME NEW b, NEW a, NEW r, NEW p, Stable(b, a, r), Known(b, a, p), a.sync = r.key
  PROVE  Stable(a, a, r) /\ Known(a, a, p)
BY DEF Stable, Known, Same

\* and this, unless it is to put the object back.
LEMMA NewClaim ==
  ASSUME NEW b, NEW a, NEW r, NEW k, NEW rest, NEW undo, Claim(k, rest, undo, b, a, r),
         Stable(b, a, r), a.sync = r.key, ~undo, rest # Undoes
  PROVE  Claim(k, rest, undo, a, a, r)
BY DEF Claim, Same, Fresh, Journalled, Stuck, Stable

\* Another change is begun that leaves key and journal alone.
LEMMA OtherStable ==
  ASSUME NEW b, NEW a, NEW r, NEW p, Stable(b, b, r), Known(b, b, p), a.sync = b.sync,
         a.journal = b.journal, a.state # 0
  PROVE  Stable(b, a, r) /\ Known(b, a, p)
BY DEF Stable, Known, Same

\* An object that is new to every journal replaces one with the same key.
LEMMA NextStable ==
  ASSUME NEW b, NEW a, NEW r, NEW q, NEW p \in Nat, Stable(b, a, r), Known(b, a, p),
         q.key = r.key, q.etag = p + 1, q.cipher = p + 1
  PROVE  Stable(b, a, q)
BY DEF Stable, Known, Same, OldLive

(* What an operation writes *)

\* a: b with the write of a stage in effect.
Effect(k, stage, b, a) ==
  \/ /\ stage \in {"prepare", "advance"} /\ a.sync = b.sync /\ a.state = b.state
     /\ a.journal # NoJournal /\ a.journal.old = k.etagOf /\ a.journal.oldCipher = k.cipherOf
  \/ stage = "clear" /\ a.sync = b.sync /\ a.state = b.state /\ a.journal = NoJournal
  \/ stage = "state" /\ a.sync = b.sync /\ a.state = k.etag /\ a.journal = b.journal
  \/ /\ stage = "commit" /\ a.state = b.state /\ a.journal = b.journal
     /\ b.sync = k.read /\ a.sync = k.new

\* The write is begun.
LEMMA BeginsStable ==
  ASSUME NEW b, NEW a, NEW r, NEW p, NEW k, NEW todo, NEW undo,
         Stable(b, b, r), Known(b, b, p), todo # << >>, Claim(k, todo, undo, b, b, r),
         Effect(k, Head(todo), b, a), k.etagOf \in 0 .. p, k.cipherOf \in 0 .. p
  PROVE  Stable(b, a, r) /\ Known(b, a, p)
<1> USE PlanHeads
<1>1. CASE Head(todo) = "prepare"
  <2>1. Fresh(k, b, r)
    BY <1>1 DEF Claim
  <2> QED BY <1>1, <2>1 DEF Effect, Stable, Known, Fresh, Same
<1>2. CASE Head(todo) = "advance"
  <2>1. Journalled(k, b, b)
    BY <1>2 DEF Claim
  <2> QED BY <1>2, <2>1 DEF Effect, Stable, Known, Journalled, Same, OldLive
<1>3. CASE Head(todo) = "clear"
  <2>1. Same(b, r)
    BY <1>3 DEF Claim
  <2> QED BY <1>3, <2>1 DEF Effect, Stable, Known, Same
<1>4. CASE Head(todo) = "state"
  <2>1. k.etag # 0
    BY <1>4 DEF Claim
  <2> QED BY <1>4, <2>1 DEF Effect, Stable, Known, Same
<1>5. CASE Head(todo) = "commit"
  <2>1. \/ k.read = k.new
        \/ r.key = k.new /\ (b.sync = k.new \/ Stuck(b, b))
    BY <1>5 DEF Claim
  <2>2. a.journal = b.journal /\ a.state = b.state /\ b.sync = k.read /\ a.sync = k.new
    BY <1>5 DEF Effect
  <2>3. Known(b, a, p)
    BY <2>2 DEF Known
  <2>4. /\ b.journal = NoJournal => Same(b, r)
        /\ b.journal # NoJournal /\ OldLive(b.journal, r) => Same(b, r)
    BY DEF Stable
  <2>5. OldLive(a.journal, r) <=> OldLive(b.journal, r)
    BY <2>2
  <2>6. a.sync = b.sync => Same(a, r) = Same(b, r)
    BY DEF Same
  <2>7. a.sync # b.sync => Same(a, r) /\ Stuck(b, a)
    <3>1. a.sync # b.sync => r.key = a.sync /\ Stuck(b, b)
      BY <2>1, <2>2
    <3>2. Stuck(b, b) => Stuck(b, a)
      BY <2>2 DEF Stuck
    <3> QED BY <3>1, <3>2 DEF Same
  <2>8. Stable(b, a, r)
    BY <2>2, <2>4, <2>5, <2>6, <2>7 DEF Stable
  <2> QED BY <2>3, <2>8
<1> QED BY <1>1, <1>2, <1>3, <1>4, <1>5 DEF Effect

\* What it relies on survives the beginning of its own write,
LEMMA BeginsClaim ==
  ASSUME NEW b, NEW a, NEW r, NEW k, NEW todo, NEW undo,
         todo # << >>, Claim(k, todo, undo, b, b, r), Effect(k, Head(todo), b, a)
  PROVE  Claim(k, todo, undo, b, a, r)
<1> USE PlanHeads
<1>1. CASE Head(todo) = "prepare"
  BY <1>1 DEF Claim
<1>2. CASE Head(todo) = "advance"
  <2>1. Journalled(k, b, a)
    BY <1>2 DEF Claim, Effect, Journalled
  <2> QED BY <1>2, <2>1 DEF Claim
<1>3. CASE Head(todo) = "clear"
  BY <1>3 DEF Claim, Effect
<1>4. CASE Head(todo) = "state"
  BY <1>4 DEF Claim, Effect
<1>5. CASE Head(todo) = "commit"
  <2>1. Stuck(b, b) => Stuck(b, a)
    BY <1>5 DEF Effect, Stuck
  <2> QED BY <1>5, <2>1 DEF Claim
<1> QED BY <1>1, <1>2, <1>3, <1>4, <1>5 DEF Effect

\* The write is done.
LEMMA EndsStable ==
  ASSUME NEW b, NEW a, NEW r, NEW p, NEW k, NEW todo, NEW undo,
         Stable(b, a, r), Known(b, a, p), todo # << >>, Claim(k, todo, undo, b, a, r),
         Effect(k, Head(todo), b, a)
  PROVE  Stable(a, a, r) /\ Known(a, a, p)
<1>1. CASE a.sync = b.sync
  BY <1>1, OnStable
<1>2. CASE a.sync # b.sync
  <2>1. Head(todo) = "commit" /\ a.sync = k.new /\ b.sync = k.read
    BY <1>2 DEF Effect
  <2>2. a.sync = r.key
    BY <1>2, <2>1, PlanHeads DEF Claim
  <2> QED BY <2>2, NewStable
<1> QED BY <1>1, <1>2

\* and the operation may rely on what comes next.
LEMMA EndsClaim ==
  ASSUME NEW b, NEW a, NEW r, NEW k, NEW todo, NEW undo,
         todo # << >>, Claim(k, todo, undo, b, a, r), Effect(k, Head(todo), b, a)
  PROVE  /\ Claim(k, Tail(todo), undo /\ Head(todo) # "commit", a, a, r)
         /\ Tail(todo) # Undoes
<1> USE PlanHeads, PlanTails
<1>1. CASE Head(todo) = "prepare"
  <2>1. todo = Beginning /\ ~undo /\ Fresh(k, b, r)
    BY <1>1 DEF Claim
  <2>2. Fresh(k, a, r) /\ Journalled(k, a, a)
    BY <1>1, <2>1 DEF Effect, Fresh, Same, Journalled
  <2> QED BY <1>1, <2>1, <2>2 DEF Claim
<1>2. CASE Head(todo) = "advance"
  <2>1. /\ todo = Advancing /\ undo /\ r.key = k.new /\ b.sync = k.keyOf
        /\ k.etag # 0 /\ k.etag # k.etagOf
    BY <1>2 DEF Claim
  <2>2. /\ a.sync = k.keyOf /\ Tail(todo) = Knowing
        /\ \A x \in {a, a} : x.journal # NoJournal /\ k.etag # x.journal.old
    BY <1>2, <2>1 DEF Effect
  <2> QED BY <1>2, <2>1, <2>2 DEF Claim
<1>3. CASE Head(todo) = "clear"
  <2>1. Same(b, r) /\ ~undo
    BY <1>3 DEF Claim
  <2>2. Same(a, r)
    BY <1>3, <2>1 DEF Effect, Same
  <2>3. \/ todo \in {Adopted, Clearing, FetchClears}
        \/ todo = PushClears /\ (k.read = b.sync \/ \A x \in {b, a} : x.state # r.etag)
    BY <1>3 DEF Claim
  <2>4. \/ Tail(todo) \in {Choosing, << >>, Getting}
        \/ Tail(todo) = Sending /\ (k.read = a.sync \/ \A x \in {a, a} : x.state # r.etag)
    BY <1>3, <2>3 DEF Effect
  <2>5. Tail(todo) # Undoes
    BY <2>4
  <2> QED BY <1>3, <2>1, <2>2, <2>4, <2>5 DEF Claim
<1>4. CASE Head(todo) = "state"
  <2>1. a.sync = b.sync /\ a.state = k.etag /\ a.journal = b.journal
    BY <1>4 DEF Effect
  <2>2. \/ ~undo /\ todo = Recording
        \/ ~undo /\ todo \in {Adopting, Undone} /\ Same(b, r)
        \/ /\ todo = Knowing /\ r.key = k.new /\ (undo => b.sync = k.keyOf)
           /\ \/ b.sync = k.new
              \/ \A x \in {b, a} : x.journal # NoJournal /\ k.etag # x.journal.old
    BY <1>4 DEF Claim
  <2>3. CASE ~undo /\ todo = Recording
    BY <1>4, <2>3 DEF Claim
  <2>4. CASE ~undo /\ todo \in {Adopting, Undone} /\ Same(b, r)
    <3>1. Same(a, r) /\ Tail(todo) \in {Adopted, Clearing}
      BY <2>1, <2>4 DEF Same
    <3> QED BY <1>4, <2>4, <3>1 DEF Claim
  <2>5. CASE /\ todo = Knowing /\ r.key = k.new /\ (undo => b.sync = k.keyOf)
             /\ \/ b.sync = k.new
                \/ \A x \in {b, a} : x.journal # NoJournal /\ k.etag # x.journal.old
    <3>1. a.sync = k.new \/ Stuck(a, a)
      BY <2>1, <2>5 DEF Stuck
    <3> QED BY <1>4, <2>1, <2>5, <3>1 DEF Claim
  <2> QED BY <2>2, <2>3, <2>4, <2>5
<1>5. CASE Head(todo) = "commit"
  <2>1. todo = Alone \/ (todo = Committing /\ r.key = k.new)
    BY <1>5 DEF Claim
  <2>2. a.sync = k.new
    BY <1>5 DEF Effect
  <2>3. \/ Tail(todo) = << >>
        \/ Tail(todo) = Clearing /\ Same(a, r)
    BY <2>1, <2>2 DEF Same
  <2> QED BY <1>5, <2>3 DEF Claim
<1> QED BY <1>1, <1>2, <1>3, <1>4, <1>5 DEF Effect

(* What an operation learns from the bucket, and does to it *)

\* Without a journal the settings open what is live.
LEMMA NoJournalSame ==
  ASSUME NEW b, NEW a, NEW r, Stable(b, a, r), NEW d \in {b, a}, d.journal = NoJournal
  PROVE  Same(b, r) /\ ~Stuck(b, a)
<1>1. Same(d, r) /\ ~Stuck(b, a)
  BY DEF Stable, Stuck
<1>2. b.sync = a.sync
  BY <1>1 DEF Stable
<1> QED BY <1>1, <1>2 DEF Same

\* Only the reads and writes of the bucket are done with nothing to be undone.
LEMMA Unbound ==
  ASSUME NEW b, NEW a, NEW r, NEW k, NEW todo, NEW undo, Claim(k, todo, undo, b, a, r),
         todo # << >>, Head(todo) \in {"resolve", "choose", "ensure", "get", "send", "put", "undo"}
  PROVE  ~undo /\ Claim(k, << >>, undo, b, a, r)
<1>1. ~undo
  BY PlanHeads DEF Claim
<1> QED BY <1>1 DEF Claim

\* resolveKeyRecovery chooses a plan that it may carry out.
LEMMA ResolveClaims ==
  ASSUME NEW b, NEW a, NEW r, NEW k, NEW todo, NEW undo, Stable(b, a, r),
         Claim(k, todo, undo, b, a, r), todo # << >>, Head(todo) = "resolve",
         NEW d \in {b, a}
  PROVE  /\ d.journal = NoJournal => Claim(k, Tail(todo), undo, b, a, r)
         /\ d.journal # NoJournal /\ OldLive(d.journal, r) =>
              \A x : x.etag = r.etag /\ r.etag # 0 => Claim(x, Adopting, undo, b, a, r)
         /\ d.journal # NoJournal /\ ~OldLive(d.journal, r) /\ r.key = k.new =>
              \A x : x.etag = r.etag /\ r.etag # 0 /\ x.new = k.new =>
                       Claim(x, Knowing, undo, b, a, r)
<1>1. todo = Asking /\ Tail(todo) = Choosing /\ ~undo
  BY PlanHeads, PlanTails DEF Claim
<1>2. d.journal = NoJournal => Claim(k, Tail(todo), undo, b, a, r)
  BY <1>1, NoJournalSame DEF Claim
<1>3. d.journal # NoJournal /\ OldLive(d.journal, r) => Same(b, r)
  BY DEF Stable
<1>4. ASSUME d.journal # NoJournal, ~OldLive(d.journal, r), r.key = k.new
      PROVE  b.sync = k.new \/ \A x \in {b, a} : x.journal # NoJournal /\ r.etag # x.journal.old
  <2>1. r.etag # d.journal.old
    BY <1>4 DEF OldLive
  <2>2. CASE b.journal = a.journal
    BY <1>4, <2>1, <2>2
  <2>3. CASE Same(b, r)
    BY <1>4, <2>3 DEF Same
  <2>4. CASE b.journal # NoJournal /\ a.journal # NoJournal /\ b.journal.old = a.journal.old
    BY <2>1, <2>4
  <2> QED BY <2>2, <2>3, <2>4 DEF Stable
<1> QED BY <1>1, <1>2, <1>3, <1>4 DEF Claim

\* So does ensureNoKeyRecovery,
LEMMA EnsureClaims ==
  ASSUME NEW b, NEW a, NEW r, NEW k, NEW todo, NEW undo, Stable(b, a, r),
         Claim(k, todo, undo, b, a, r), todo # << >>, Head(todo) = "ensure",
         NEW d \in {b, a}
  PROVE  /\ d.journal = NoJournal => Claim(k, Tail(todo), undo, b, a, r)
         /\ d.journal # NoJournal /\ r.etag = d.journal.old =>
              Claim(k, <<"clear">> \o Tail(todo), undo, b, a, r)
<1>1. /\ ~undo /\ Tail(todo) \in {Sending, Getting}
      /\ <<"clear">> \o Tail(todo) \in {PushClears, FetchClears}
      /\ Tail(todo) = Sending =>
           k.read = b.sync \/ Stuck(b, a) \/ Tail(todo) = Getting
      /\ Tail(todo) = Getting <=> <<"clear">> \o Tail(todo) = FetchClears
      /\ Tail(todo) = Sending <=> <<"clear">> \o Tail(todo) = PushClears
  <2>1. ~undo /\ (todo = Fetching \/ (todo = Pushing /\ (k.read = b.sync \/ Stuck(b, a))))
    BY PlanHeads DEF Claim
  <2>2. Sending # Getting
    BY PlanHeads
  <2>3. PushClears # FetchClears
    <3>1. Tail(PushClears) # Tail(FetchClears)
      BY PlanTails, <2>2
    <3> QED BY <3>1
  <2> QED BY <2>1, <2>2, <2>3, PlanTails
<1>2. ASSUME d.journal = NoJournal
      PROVE  Claim(k, Tail(todo), undo, b, a, r)
  <2>1. Same(b, r) /\ ~Stuck(b, a)
    BY <1>2, NoJournalSame
  <2> QED BY <1>1, <2>1 DEF Claim
<1>3. ASSUME d.journal # NoJournal, r.etag = d.journal.old
      PROVE  Claim(k, <<"clear">> \o Tail(todo), undo, b, a, r)
  <2>1. Same(b, r)
    BY <1>3 DEF Stable, OldLive
  <2>2. Stuck(b, a) => \A x \in {b, a} : x.state # r.etag
    BY <1>3 DEF Stuck
  <2>3. CASE Tail(todo) = Getting
    BY <1>1, <2>1, <2>3 DEF Claim
  <2>4. CASE Tail(todo) = Sending /\ Tail(todo) # Getting
    <3>1. k.read = b.sync \/ \A x \in {b, a} : x.state # r.etag
      BY <1>1, <2>2, <2>4
    <3>2. <<"clear">> \o Tail(todo) = PushClears
      BY <1>1, <2>4
    <3> QED BY <1>1, <2>1, <3>1, <3>2 DEF Claim
  <2> QED BY <1>1, <2>3, <2>4
<1> QED BY <1>2, <1>3

\* the choice of how to rotate,
LEMMA ChooseClaims ==
  ASSUME NEW b, NEW a, NEW r, NEW k, NEW todo, NEW undo,
         Claim(k, todo, undo, b, a, r), todo # << >>, Head(todo) = "choose"
  PROVE  /\ k.read = k.new => Claim(k, Alone, undo, b, a, r)
         /\ \A x : x.keyOf = r.key /\ x.sealed \notin {x.etagOf, x.cipherOf, 0} =>
              Claim(x, Beginning, undo, b, a, r)
<1>1. Same(b, r) /\ ~undo
  BY PlanHeads DEF Claim
<1> QED BY <1>1 DEF Claim, Fresh

\* and a GET that the key opened.
LEMMA GetClaims ==
  ASSUME NEW b, NEW a, NEW r, NEW k, NEW todo, NEW undo,
         Claim(k, todo, undo, b, a, r), todo # << >>, Head(todo) = "get"
  PROVE  \A x : x.etag # 0 => Claim(x, Tail(todo), undo, b, a, r)
<1>1. Tail(todo) = Recording /\ ~undo
  BY PlanHeads, PlanTails DEF Claim
<1> QED BY <1>1 DEF Claim

\* A failure after the PUT leads to its being undone.
LEMMA AbandonClaims ==
  ASSUME NEW b, NEW a, NEW r, NEW k, NEW todo, NEW undo, Claim(k, todo, undo, b, a, r)
  PROVE  Claim(k, IF undo THEN Undoes ELSE << >>, FALSE, b, a, r)
BY DEF Claim

\* The re-sealed object is put in the place of the one it was made from.
LEMMA PutClaims ==
  ASSUME NEW b, NEW a, NEW r, NEW k, NEW todo, NEW undo,
         Stable(b, a, r), Claim(k, todo, undo, b, a, r), todo # << >>, Head(todo) = "put",
         NEW q, q.etag = k.sealed, q.cipher = k.sealed, q.key = k.new
  PROVE  /\ Claim(k, Clearing, undo, b, a, r) /\ Stable(b, a, q)
         /\ Claim(k, << >>, undo, b, a, q)
         /\ \A x : x.etag = q.etag /\ x.new = k.new /\ x.keyOf = k.keyOf /\ x.etagOf = k.etagOf
                     /\ x.cipherOf = k.cipherOf =>
              Claim(x, Tail(todo), TRUE, b, a, q)
<1>1. /\ todo = Putting /\ Tail(todo) = Advancing /\ ~undo /\ Fresh(k, b, r)
      /\ Journalled(k, b, a)
  BY PlanHeads, PlanTails DEF Claim
<1>2. Stable(b, a, q)
  BY <1>1 DEF Stable, Journalled, OldLive, Fresh
<1>3. Claim(k, Clearing, undo, b, a, r) /\ Claim(k, << >>, undo, b, a, q)
  BY <1>1 DEF Claim, Fresh
<1>4. ASSUME NEW x, x.etag = q.etag, x.new = k.new, x.keyOf = k.keyOf, x.etagOf = k.etagOf,
             x.cipherOf = k.cipherOf
      PROVE  Claim(x, Tail(todo), TRUE, b, a, q)
  <2>1. Journalled(x, b, a) /\ b.sync = x.keyOf /\ x.etag \notin {0, x.etagOf}
    BY <1>1, <1>4 DEF Journalled, Fresh, Same
  <2> QED BY <1>1, <1>4, <2>1 DEF Claim
<1> QED BY <1>2, <1>3, <1>4

\* The old object is put back.
LEMMA UndoClaims ==
  ASSUME NEW b, NEW a, NEW r, NEW k, NEW todo, NEW undo,
         Stable(b, a, r), Claim(k, todo, undo, b, a, r), todo # << >>, Head(todo) = "undo",
         NEW q, q.etag # 0, q.key = k.keyOf
  PROVE  /\ Stable(b, a, q) /\ Claim(k, << >>, undo, b, a, q)
         /\ \A x : x.etag = q.etag => Claim(x, Tail(todo), FALSE, b, a, q)
<1>1. todo = Undoes /\ Tail(todo) = Undone /\ ~undo /\ Same(b, q)
  BY PlanHeads, PlanTails DEF Claim, Same
<1>2. \A x \in {b, a} : x.journal = NoJournal => Same(x, q)
  BY <1>1, NoJournalSame DEF Stable, Same
<1>3. Stable(b, a, q)
  BY <1>1, <1>2 DEF Stable
<1> QED BY <1>1, <1>3 DEF Claim

\* A push replaces the object that this machine knows.
LEMMA SendClaims ==
  ASSUME NEW b, NEW a, NEW r, NEW k, NEW todo, NEW undo, NEW p \in Nat,
         Stable(b, a, r), Known(b, a, p), Claim(k, todo, undo, b, a, r), todo # << >>,
         Head(todo) = "send", NEW d \in {b, a}, d.state = r.etag,
         NEW q, q.etag = p + 1, q.cipher = p + 1, q.key = k.read
  PROVE  /\ Stable(b, a, q) /\ Claim(k, << >>, undo, b, a, q)
         /\ \A x : x.etag = q.etag => Claim(x, Tail(todo), FALSE, b, a, q)
<1>1. /\ todo = Sending /\ Tail(todo) = Recording /\ ~undo /\ Same(b, r)
      /\ k.read = b.sync \/ \A x \in {b, a} : x.state # r.etag
  BY PlanHeads, PlanTails DEF Claim
<1>2. q.key = r.key
  BY <1>1 DEF Same
<1>3. Stable(b, a, q)
  BY <1>2, NextStable
<1> QED BY <1>1, <1>3 DEF Claim

\* Another machine replaces what is live, under the same key.
LEMMA OtherClaims ==
  ASSUME NEW b, NEW a, NEW r, NEW k, NEW todo, NEW undo, NEW p \in Nat,
         Claim(k, todo, undo, b, a, r), NEW q, q.etag = p + 1, q.cipher = p + 1, q.key = r.key,
         b.state \in 0 .. p, a.state \in 0 .. p
  PROVE  Claim(k, todo, undo, b, a, q)
<1>1. Same(b, q) = Same(b, r) /\ Fresh(k, b, q) = Fresh(k, b, r)
  BY DEF Same, Fresh
<1>2. \A x \in {b, a} : x.state # q.etag
  OBVIOUS
<1> QED BY <1>1, <1>2 DEF Claim

(* Steps, seen from the sync key *)

\* What a change of one file does to what the disk says of synchronization.
LEMMA EffectIs ==
  ASSUME NEW d, NEW x, NEW e, e.file \in Names, \A f \in Names \ {e.file} : x[f] = d[f],
         d[e.file] = e.old, x[e.file] = e.new, NEW s, NEW stage, Writes(s, stage, e)
  PROVE  /\ Effect(Know(s), stage, View(d), View(x))
         /\ d.settings = Missing <=> x.settings = Missing
<1> DEFINE k == Know(s)
           b == View(d)
           a == View(x)
<1>1. /\ b.sync = SyncIn(d["settings"]) /\ b.journal = d["journal"] /\ b.state = d["state"]
      /\ a.sync = SyncIn(x["settings"]) /\ a.journal = x["journal"] /\ a.state = x["state"]
  BY DEF View
<1>2. /\ k.read = s.read.sync /\ k.new = s.new /\ k.etagOf = s.object.etag
      /\ k.cipherOf = s.object.cipher /\ k.etag = s.etag
  BY DEF Know
<1> HIDE DEF k, b, a
<1>3. {"settings", "journal", "state"} \subseteq Names
  BY DEF Names
<1>4. CASE stage \in {"prepare", "advance"}
  <2>1. /\ e.file = "journal" /\ e.new # NoJournal /\ e.new.old = s.object.etag
        /\ e.new.oldCipher = s.object.cipher
    BY <1>4 DEF Writes
  <2>2. x["journal"] = e.new /\ x["settings"] = d["settings"] /\ x["state"] = d["state"]
    BY <1>3, <2>1
  <2>3. Effect(k, stage, b, a)
    BY <1>1, <1>2, <1>4, <2>1, <2>2 DEF Effect
  <2> QED BY <2>2, <2>3 DEF k, b, a
<1>5. CASE stage = "clear"
  <2>1. e.file = "journal" /\ e.new = NoJournal
    BY <1>5 DEF Writes
  <2>2. x["journal"] = e.new /\ x["settings"] = d["settings"] /\ x["state"] = d["state"]
    BY <1>3, <2>1
  <2>3. Effect(k, stage, b, a)
    BY <1>1, <1>2, <1>5, <2>1, <2>2 DEF Effect
  <2> QED BY <2>2, <2>3 DEF k, b, a
<1>6. CASE stage = "state"
  <2>1. e.file = "state" /\ e.new = s.etag
    BY <1>6 DEF Writes
  <2>2. x["state"] = e.new /\ x["settings"] = d["settings"] /\ x["journal"] = d["journal"]
    BY <1>3, <2>1
  <2>3. Effect(k, stage, b, a)
    BY <1>1, <1>2, <1>6, <2>1, <2>2 DEF Effect
  <2> QED BY <2>2, <2>3 DEF k, b, a
<1>7. CASE stage = "commit"
  <2>1. /\ e.file = "settings" /\ SyncIn(e.old) = s.read.sync /\ SyncIn(e.new) = s.new
        /\ e.old # Missing /\ e.new # Missing
    BY <1>7 DEF Writes
  <2>2. /\ x["settings"] = e.new /\ d["settings"] = e.old
        /\ x["state"] = d["state"] /\ x["journal"] = d["journal"]
    BY <1>3, <2>1
  <2>3. Effect(k, stage, b, a)
    BY <1>1, <1>2, <1>7, <2>1, <2>2 DEF Effect
  <2> QED BY <2>1, <2>2, <2>3 DEF k, b, a
<1> QED BY <1>4, <1>5, <1>6, <1>7 DEF Writes

\* The bounds on the requests never let a kind in.
Spends ==
  \/ left' = left
  \/ \E what \in {"requests", "idles", "faults", "crashes", "others"} :
       left' = [left EXCEPT ![what] = @ - 1]

\* What becomes of the request of v, while the operation on the bucket stays where it is.
Keeps(v) ==
  \/ op'[v] = op[v]
  \/ /\ op'[v].kind # "restore" /\ KeepsSync(op'[v]) /\ (op'[v].kind = "pull" => sync = NoSync)
     /\ sync.by = v =>
          /\ op'[v].at \in {"commit", "apply", "done", "failed"}
          /\ op[v].at # "call" /\ op'[v].entries = op[v].entries

\* No restore is let in later.
LEMMA KindsStay ==
  ASSUME NoRestores, Spends
  PROVE  "kinds" \in DOMAIN left' /\ "restore" \notin left'.kinds
<1>1. CASE left' = left
  BY <1>1 DEF NoRestores
<1>2. ASSUME NEW what \in {"requests", "idles", "faults", "crashes", "others"},
             left' = [left EXCEPT ![what] = @ - 1]
      PROVE  DOMAIN left' = DOMAIN left /\ left'["kinds"] = left["kinds"]
  <2>1. what # "kinds"
    BY <1>2
  <2> QED BY <1>2, <2>1 DEF NoRestores
<1> QED BY <1>1, <1>2 DEF NoRestores, Spends

\* The operation under way is the request of a worker.
LEMMA ByWorker ==
  ASSUME RotInv, sync # NoSync
  PROVE  sync.by \in Workers /\ op[sync.by].kind = "rotated"
BY DEF RotInv, SyncTied, SyncShape, Syncs

\* What the requests keep, all of them keep.
LEMMA KeepsAll ==
  ASSUME RotInv, NoRestores, OpWrites, OthersWrite, sync' = sync, Spends,
         \A v \in Workers : Keeps(v)
  PROVE  NoRestores' /\ OpWrites' /\ OthersWrite'
<1>1. NoRestores'
  BY KindsStay DEF NoRestores, Keeps
<1>2. OthersWrite'
  <2> SUFFICES ASSUME NEW v \in Workers
               PROVE  KeepsSync(op'[v]) /\ (op'[v].kind = "pull" => sync = NoSync)
    BY DEF OthersWrite
  <2>1. KeepsSync(op[v]) /\ (op[v].kind = "pull" => sync = NoSync)
    BY DEF OthersWrite
  <2>2. CASE op'[v] = op[v]
    BY <2>1, <2>2
  <2>3. CASE op'[v] # op[v]
    BY <2>3 DEF Keeps
  <2> QED BY <2>2, <2>3
<1>3. ASSUME sync # NoSync
      PROVE  LET o == op'[sync.by] IN
             /\ o.at \in {"call", "commit", "apply", "done", "failed"}
             /\ o.at # "call" => /\ sync.todo # << >> /\ Len(o.entries) = 1
                                 /\ Writes(sync, Stage, o.entries[1])
  <2>1. sync.by \in Workers
    BY <1>3, ByWorker
  <2>2. PICK v \in Workers : v = sync.by
    BY <2>1
  <2>3. /\ op[v].at \in {"call", "commit", "apply", "done", "failed"}
        /\ op[v].at # "call" => /\ sync.todo # << >> /\ Len(op[v].entries) = 1
                                /\ Writes(sync, Stage, op[v].entries[1])
    BY <1>3, <2>2 DEF OpWrites
  <2>4. CASE op'[v] = op[v]
    BY <2>2, <2>3, <2>4
  <2>5. CASE op'[v] # op[v]
    <3>1. /\ op'[v].at \in {"commit", "apply", "done", "failed"} /\ op[v].at # "call"
          /\ op'[v].entries = op[v].entries
      BY <2>2, <2>5 DEF Keeps
    <3> QED BY <2>2, <2>3, <3>1
  <2> QED BY <2>4, <2>5
<1>4. OpWrites'
  <2>1. Stage' = Stage
    BY DEF Stage
  <2>2. sync' # NoSync => sync # NoSync
    OBVIOUS
  <2> QED BY <1>3, <2>1, <2>2 DEF OpWrites
<1> QED BY <1>1, <1>2, <1>4

\* The promises, with the operation and the bucket where they are.
LEMMA PromisedStays ==
  ASSUME RotInv, Promised, UNCHANGED <<sync, remote, puts>>, ~strayed' => ~strayed,
         There' => There, \A v \in Workers : Keeps(v),
         sync # NoSync => (op'[sync.by].at = "done" <=> op[sync.by].at = "done"),
         \/ Was' = Was /\ Will' = Will
         \/ Was' = Was /\ Will' = Was
         \/ /\ Was' = Will /\ Will' = Will
            /\ There /\ ~strayed' =>
                 \/ Will.sync = Was.sync
                 \/ Will.sync = remote.key /\ (sync # NoSync => ~Undoing /\ Rest # Undoes)
  PROVE  Promised'
<1> SUFFICES ASSUME There', ~strayed'
             PROVE  /\ Known(Was', Will', puts) /\ Stable(Was', Will', remote)
                    /\ sync # NoSync =>
                         /\ Claim(Know(sync), Rest', Undoing', Was', Will', remote)
                         /\ op'[sync.by].at = "done" => Rest' # Undoes
  BY DEF Promised, Relies
<1>1. /\ Known(Was, Will, puts) /\ Stable(Was, Will, remote) /\ There
      /\ sync # NoSync => Relies
  BY DEF Promised
<1>2. sync # NoSync => Rest' = Rest /\ Undoing' = Undoing
  BY DEF Rest, Undoing, Stage
<1>3. PICK b, a, r, p : b = Was /\ a = Will /\ r = remote /\ p = puts
  OBVIOUS
<1>4. PICK k, rest, u : k = Know(sync) /\ rest = Rest /\ u = Undoing
  OBVIOUS
<1>5. Known(b, a, p) /\ Stable(b, a, r)
  BY <1>1, <1>3
<1>6. sync # NoSync =>
        Claim(k, rest, u, b, a, r) /\ (op[sync.by].at = "done" => rest # Undoes)
  BY <1>1, <1>3, <1>4 DEF Relies
<1>7. ASSUME NEW b2, NEW a2, Was' = b2, Will' = a2, Known(b2, a2, p), Stable(b2, a2, r),
             sync # NoSync => Claim(k, rest, u, b2, a2, r)
      PROVE  /\ Known(Was', Will', puts) /\ Stable(Was', Will', remote)
             /\ sync # NoSync =>
                  /\ Claim(Know(sync), Rest', Undoing', Was', Will', remote)
                  /\ op'[sync.by].at = "done" => Rest' # Undoes
  <2>1. Known(Was', Will', puts) /\ Stable(Was', Will', remote)
    BY <1>3, <1>7
  <2>2. sync # NoSync => Claim(Know(sync), Rest', Undoing', Was', Will', remote)
    BY <1>2, <1>3, <1>4, <1>7
  <2>3. sync # NoSync => (op'[sync.by].at = "done" => Rest' # Undoes)
    BY <1>2, <1>4, <1>6
  <2> QED BY <2>1, <2>2, <2>3
<1>8. CASE Was' = Was /\ Will' = Will
  BY <1>3, <1>5, <1>6, <1>7, <1>8
<1>9. CASE Was' = Was /\ Will' = Was
  <2>1. Known(b, b, p) /\ Stable(b, b, r)
    BY <1>5, BackStable
  <2>2. sync # NoSync => Claim(k, rest, u, b, b, r)
    BY <1>6, BackClaim
  <2> QED BY <1>3, <1>7, <1>9, <2>1, <2>2
<1>10. CASE Was' = Will /\ Will' = Will /\ a.sync = b.sync
  <2>1. Known(a, a, p) /\ Stable(a, a, r)
    BY <1>5, <1>10, OnStable
  <2>2. sync # NoSync => Claim(k, rest, u, a, a, r)
    BY <1>6, <1>10, OnClaim
  <2> QED BY <1>3, <1>7, <1>10, <2>1, <2>2
<1>11. CASE /\ Was' = Will /\ Will' = Will /\ a.sync = r.key
            /\ sync # NoSync => ~u /\ rest # Undoes
  <2>1. Known(a, a, p) /\ Stable(a, a, r)
    BY <1>5, <1>11, NewStable
  <2>2. sync # NoSync => Claim(k, rest, u, a, a, r)
    BY <1>5, <1>6, <1>11, NewClaim
  <2> QED BY <1>3, <1>7, <1>11, <2>1, <2>2
<1> QED BY <1>1, <1>3, <1>4, <1>8, <1>9, <1>10, <1>11

\* A step that leaves the pending change where it is.
LEMMA QuietRem ==
  ASSUME RotInv, RemInv, UNCHANGED <<sync, remote, puts>>, strayed => strayed', Spends,
         \A v \in Workers : Keeps(v), Before' = Before, After' = After,
         record # NoRecord => record' # NoRecord /\ record'.kind = record.kind,
         sync # NoSync => (op'[sync.by].at = "done" <=> op[sync.by].at = "done")
  PROVE  RemInv'
<1>1. Was' = Was /\ Will' = Will /\ (There' <=> There)
  BY DEF Was, Will, There
<1>2. NoRestores' /\ OpWrites' /\ OthersWrite'
  BY KeepsAll DEF RemInv
<1>3. Rotates'
  BY <1>1 DEF RemInv, Rotates
<1>4. Promised'
  BY <1>1, PromisedStays DEF RemInv
<1> QED BY <1>2, <1>3, <1>4 DEF RemInv

\* A step that settles it.
LEMMA SettleRem ==
  ASSUME RotInv, RemInv, UNCHANGED <<sync, remote, puts>>, strayed => strayed', Spends,
         \A v \in Workers : Keeps(v), Before' = disk', After' = disk',
         sync # NoSync => (op'[sync.by].at = "done" <=> op[sync.by].at = "done"),
         \/ disk' = Before
         \/ /\ disk' = After
            /\ There /\ ~strayed' =>
                 \/ Will.sync = Was.sync
                 \/ Will.sync = remote.key /\ (sync # NoSync => ~Undoing /\ Rest # Undoes)
  PROVE  RemInv'
<1>1. NoRestores' /\ OpWrites' /\ OthersWrite'
  BY KeepsAll DEF RemInv
<1>2. There' <=> There
  BY DEF RemInv, Rotates, There
<1>3. Was' = Will'
  BY DEF Was, Will
<1>4. Rotates'
  BY <1>2, <1>3 DEF RemInv, Rotates
<1>5. \/ Was' = Was /\ Will' = Was
      \/ /\ Was' = Will /\ Will' = Will
         /\ There /\ ~strayed' =>
              \/ Will.sync = Was.sync
              \/ Will.sync = remote.key /\ (sync # NoSync => ~Undoing /\ Rest # Undoes)
  <2>1. disk' = Before => Was' = Was /\ Will' = Was
    BY DEF Was, Will
  <2>2. disk' = After => Was' = Will /\ Will' = Will
    BY DEF Was, Will
  <2> QED BY <2>1, <2>2
<1>6. Promised'
  BY <1>2, <1>5, PromisedStays DEF RemInv
<1> QED BY <1>1, <1>4, <1>6 DEF RemInv

\* A request is answered, or none is there.
LEMMA IdleKeeps ==
  ASSUME RotInv, NEW w \in Workers, op[w].kind # "rotated", NEW o, op'[w] = o,
         o.kind \notin {"restore", "pull", "settings"}
  PROVE  Keeps(w) /\ (sync # NoSync => sync.by # w)
<1>1. sync.by # w
  BY DEF RotInv, SyncTied
<1> QED BY <1>1 DEF Keeps, KeepsSync

\* A request goes to another stage.
LEMMA MovesKeeps ==
  ASSUME RotInv, RemInv, NEW w \in Workers, op'[w].kind = op[w].kind,
         op'[w].entries = op[w].entries, op[w].at # "call",
         op'[w].at \in {"commit", "apply", "done", "failed"}
  PROVE  Keeps(w)
<1>1. /\ op[w].kind # "restore" /\ KeepsSync(op[w]) /\ (op[w].kind = "pull" => sync = NoSync)
  BY DEF RemInv, NoRestores, OthersWrite
<1>2. KeepsSync(op'[w])
  BY <1>1 DEF KeepsSync
<1> QED BY <1>1, <1>2 DEF Keeps

\* Another edit of the settings leaves the sync key.
LEMMA RequestNoneSync ==
  ASSUME VaultInv, NEW w \in Workers, SetSyncSettings(w)
  PROVE  KeepsSync(op'[w]) /\ op'[w].kind = "settings"
<1>1. PICK region \in {disk.settings.body.region, 1 - disk.settings.body.region} :
        WriteSettings(w, "settings", [disk.settings.body EXCEPT !.region = region])
  BY DEF SetSyncSettings
<1> DEFINE body == [disk.settings.body EXCEPT !.region = region]
           new == Sealed(vault.key, body)
           e == Entry("settings", disk.settings, new)
           o == [kind |-> "settings", at |-> "commit", entries |-> <<e>>, candidate |-> Missing]
<1>2. vault # Closed /\ disk.settings.key = vault.key /\ op' = [op EXCEPT ![w] = o]
  BY <1>1 DEF WriteSettings, Goes
<1>3. /\ vault \in VaultContents /\ vault.key # 0 /\ disk.settings \in SettingsContents
      /\ w \in DOMAIN op
  <2>1. vault \in VaultContents /\ IsDisk(disk) /\ op \in [Workers -> Ops]
    BY DEF VaultInv, Shapes, StoreInv, OpsInv
  <2> QED BY <1>2, <2>1, DiskTypes DEF VaultContents, Closed
<1>4. disk.settings # Missing /\ disk.settings.body \in SettingsBodies
  BY <1>2, <1>3, MissingIn DEF SettingsContents
<1>5. body.sync = disk.settings.body.sync
  BY <1>4 DEF SettingsBodies
<1>6. new.key = vault.key /\ new.body = body /\ new # Missing
  BY <1>3, MissingIn DEF Sealed
<1>7. SyncIn(new) = SyncIn(disk.settings)
  BY <1>4, <1>5, <1>6 DEF SyncIn
<1> HIDE DEF new
<1>8. e.file = "settings" /\ e.old = disk.settings /\ e.new = new
  BY DEF Entry
<1> HIDE DEF e
<1>9. op'[w] = o /\ o.kind = "settings" /\ o.entries = <<e>> /\ DOMAIN <<e>> = {1} /\ <<e>>[1] = e
  BY <1>2, <1>3
<1> HIDE DEF o
<1> QED BY <1>4, <1>6, <1>7, <1>8, <1>9 DEF KeepsSync

\* What the change of a request other than the operation's leads to.
LEMMA BeginsFiles ==
  ASSUME VaultInv, NoRestores, OthersWrite, NEW w \in Workers, Begins(w), record' # NoRecord,
         op[w].kind # "rotated", NEW f \in {"settings", "journal", "state"},
         f \in Written(record'.entries)
  PROVE  LET e == Of(record'.entries, f) IN
         /\ f # "journal"
         /\ f = "settings" => /\ SyncIn(e.new) = SyncIn(disk.settings)
                              /\ e.new = Missing <=> disk.settings = Missing
         /\ f = "state" => op[w].kind = "pull" /\ e.new # 0
<1> DEFINE es == record'.entries
           e == Of(es, f)
<1>1. /\ es = Built(w) /\ BuiltOK(op[w], es) /\ OpShape(op[w]) /\ op[w].at = "commit"
      /\ IsDisk(disk)
  BY BeginsEffect DEF VaultInv, Shapes, OpsInv, StoreInv
<1> HIDE DEF es
<1>2. /\ e \in Elems(es) /\ e.file = f /\ e.old = disk[f] /\ es \in Seq(Entries)
      /\ \E i \in DOMAIN es : es[i].file = f /\ e = es[i]
  BY <1>1, ElemsFacts, OfIs DEF es, BuiltOK
<1> HIDE DEF e
<1>3. CASE op[w].kind = "rekey"
  <2>1. f \in {"vault", "local"} \/ ReSealing(e, op[w].candidate.key)
    BY <1>1, <1>3 DEF BuiltOK, es, e
  <2>2. /\ f = "settings" /\ disk[f] # Missing /\ e.new.key = op[w].candidate.key
        /\ e.new.body = e.old.body
    BY <1>2, <2>1 DEF ReSealing
  <2>3. op[w].candidate.key # 0
    BY <1>1, <1>3 DEF OpShape, RekeysOK
  <2>4. e.new # Missing
    BY <2>2, <2>3, MissingIn
  <2>5. SyncIn(e.new) = SyncIn(disk[f])
    BY <1>2, <2>2, <2>4 DEF SyncIn
  <2> QED BY <2>2, <2>4, <2>5 DEF es, e
<1>4. CASE op[w].kind # "rekey"
  <2>1. es = op[w].entries /\ op[w].kind \in Kinds
    BY <1>1, <1>4, OpParts DEF BuiltOK
  <2>2. PICK i \in DOMAIN op[w].entries : op[w].entries[i].file = f /\ e = op[w].entries[i]
    BY <1>2, <2>1
  <2>3. op[w].kind # "restore" /\ op[w].kind # "recover" /\ op[w].kind # "none"
    BY <1>1, OpParts DEF NoRestores, StagesOK
  <2>4. f \in Written(op[w].entries)
    BY <2>2 DEF Written
  <2>5. \/ op[w].kind = "settings" /\ f = "settings"
        \/ op[w].kind = "pull" /\ f = "state"
    BY <1>1, <1>4, <2>1, <2>3, <2>4 DEF OpShape, SavesOK, InitialisesOK, SettingsOK, PullsOK,
         OthersOK, Kinds
  <2>6. KeepsSync(op[w])
    BY DEF OthersWrite
  <2>7. CASE op[w].kind = "settings" /\ f = "settings"
    <3>1. SyncIn(e.new) = SyncIn(e.old) /\ (e.new = Missing <=> e.old = Missing)
      BY <2>2, <2>6, <2>7 DEF KeepsSync
    <3> QED BY <1>2, <2>7, <3>1 DEF es, e
  <2>8. CASE op[w].kind = "pull" /\ f = "state"
    <3>1. e.new # 0
      BY <2>2, <2>6, <2>8 DEF KeepsSync
    <3> QED BY <2>8, <3>1 DEF es, e
  <2> QED BY <2>5, <2>7, <2>8
<1> QED BY <1>3, <1>4

\* It leaves what the disk says of synchronization, except for a generation that a pull found.
LEMMA BeginsViews ==
  ASSUME VaultInv, NoRestores, OthersWrite, NEW w \in Workers, Begins(w)
  PROVE  /\ Was' = Was /\ Will = Was /\ (There' <=> There)
         /\ record' = NoRecord => Will' = Was
         /\ record' = NoRecord \/ op[w].kind # "rotated" =>
              /\ Will'.sync = Was.sync /\ Will'.journal = Was.journal
              /\ After'.settings = Missing <=> Before'.settings = Missing
              /\ Will'.state = Was.state \/ (op[w].kind = "pull" /\ Will'.state # 0)
<1>1. /\ record = NoRecord /\ Before' = disk' /\ Backs /\ Shapes'
      /\ record' # NoRecord => record'.entries = Built(w)
  BY BeginsEffect
<1>2. Before = disk /\ After = disk
  BY <1>1 DEF Before, After
<1>3. /\ disk'["settings"] = disk["settings"] /\ disk'["journal"] = disk["journal"]
      /\ disk'["state"] = disk["state"]
  BY <1>1 DEF Backs, Names
<1>4. Was' = Was /\ Will = Was /\ (There' <=> There)
  BY <1>1, <1>2, <1>3 DEF Was, Will, View, There
<1>5. record' = NoRecord => After' = disk'
  BY DEF After
<1>6. record' = NoRecord => Will' = Was
  BY <1>1, <1>4, <1>5 DEF Was, Will
<1>7. ASSUME record' # NoRecord, op[w].kind # "rotated"
      PROVE  /\ SyncIn(After'["settings"]) = SyncIn(disk'["settings"])
             /\ After'["settings"] = Missing <=> disk'["settings"] = Missing
             /\ After'["journal"] = disk'["journal"]
             /\ After'["state"] = disk'["state"] \/ (op[w].kind = "pull" /\ After'["state"] # 0)
  <2>1. \A f \in Names :
          /\ f \notin Written(record'.entries) => After'[f] = disk'[f]
          /\ f \in Written(record'.entries) => After'[f] = Of(record'.entries, f).new
    BY <1>1, <1>7, AfterBegins DEF Shapes, StoreInv
  <2>2. {"settings", "journal", "state"} \subseteq Names
    BY DEF Names
  <2>3. "journal" \notin Written(record'.entries)
    BY <1>7, BeginsFiles
  <2>4. "settings" \in Written(record'.entries) =>
          /\ SyncIn(Of(record'.entries, "settings").new) = SyncIn(disk.settings)
          /\ Of(record'.entries, "settings").new = Missing <=> disk.settings = Missing
    BY <1>7, BeginsFiles
  <2>5. "state" \in Written(record'.entries) =>
          op[w].kind = "pull" /\ Of(record'.entries, "state").new # 0
    BY <1>7, BeginsFiles
  <2> QED BY <1>3, <2>1, <2>2, <2>3, <2>4, <2>5
<1>8. ASSUME record' # NoRecord, op[w].kind # "rotated"
      PROVE  /\ Will'.sync = Was.sync /\ Will'.journal = Was.journal
             /\ After'.settings = Missing <=> Before'.settings = Missing
             /\ Will'.state = Was.state \/ (op[w].kind = "pull" /\ Will'.state # 0)
  <2>1. /\ Was'.sync = SyncIn(disk'["settings"]) /\ Was'.journal = disk'["journal"]
        /\ Was'.state = disk'["state"]
    BY <1>1 DEF Was, View
  <2>2. /\ Will'.sync = SyncIn(After'["settings"]) /\ Will'.journal = After'["journal"]
        /\ Will'.state = After'["state"]
    BY DEF Will, View
  <2> QED BY <1>1, <1>4, <1>7, <1>8, <2>1, <2>2
<1> QED BY <1>1, <1>4, <1>5, <1>6, <1>8

\* The one entry of a request of the operation.
LEMMA OwnEntry ==
  ASSUME RotInv, OpWrites, NEW w \in Workers, op[w].kind = "rotated", op[w].at # "call"
  PROVE  /\ sync # NoSync /\ sync.by = w /\ sync.todo # << >> /\ Stage = Head(sync.todo)
         /\ \E e \in Entries :
              /\ Writes(sync, Stage, e) /\ Written(op[w].entries) = {e.file}
              /\ Of(op[w].entries, e.file) = e /\ e.file \in {"journal", "state", "settings"}
<1>1. sync.by = w
  BY DEF RotInv, SyncTied
<1>2. sync # NoSync
  BY <1>1, SyncParts
<1>3. /\ sync.todo # << >> /\ Len(op[w].entries) = 1
      /\ Writes(sync, Stage, op[w].entries[1])
  BY <1>1, <1>2 DEF OpWrites
<1>4. op[w].entries \in Seq(Entries)
  BY OpParts DEF RotInv, VaultInv, Shapes, OpsInv
<1>5. PICK e : e = op[w].entries[1]
  OBVIOUS
<1>6. DOMAIN op[w].entries = {1} /\ e \in Entries
  BY <1>3, <1>4, <1>5
<1>7. Written(op[w].entries) = {e.file}
  BY <1>5, <1>6 DEF Written
<1>8. Of(op[w].entries, e.file) = e
  BY <1>5, <1>6, <1>7, OfIs
<1>9. e.file \in {"journal", "state", "settings"}
  BY <1>3, <1>5 DEF Writes
<1>10. Writes(sync, Stage, e)
  BY <1>3, <1>5
<1>11. Stage = Head(sync.todo)
  BY <1>3 DEF Stage
<1> QED BY <1>1, <1>2, <1>3, <1>6, <1>7, <1>8, <1>9, <1>10, <1>11

\* The write of the operation begins, and does what its stage says.
LEMMA BeginsOwn ==
  ASSUME RotInv, RemInv, NEW w \in Workers, Begins(w), record' # NoRecord,
         op[w].kind = "rotated"
  PROVE  /\ Effect(Know(sync), Stage, Was', Will')
         /\ Before'.settings = Missing <=> After'.settings = Missing
<1>1. /\ Before' = disk' /\ Backs /\ Shapes' /\ op[w].at = "commit" /\ BuiltOK(op[w], Built(w))
      /\ record'.entries = Built(w)
  BY BeginsEffect DEF RotInv
<1>2. PICK e \in Entries :
        /\ Writes(sync, Stage, e) /\ Written(op[w].entries) = {e.file}
        /\ Of(op[w].entries, e.file) = e /\ e.file \in {"journal", "state", "settings"}
  BY <1>1, OwnEntry DEF RemInv
<1>3. record'.entries = op[w].entries
  BY <1>1 DEF BuiltOK
<1>4. e.old = disk[e.file] /\ disk'[e.file] = disk[e.file] /\ e.file \in Names
  BY <1>1, <1>2, <1>3 DEF BuiltOK, Backs, Names
<1>5. \A f \in Names :
        /\ f \notin Written(record'.entries) => After'[f] = disk'[f]
        /\ f \in Written(record'.entries) => After'[f] = Of(record'.entries, f).new
  BY <1>1, AfterBegins DEF Shapes, StoreInv
<1>6. PICK d, x : d = disk' /\ x = After'
  OBVIOUS
<1>7. /\ \A f \in Names \ {e.file} : x[f] = d[f]
      /\ d[e.file] = e.old /\ x[e.file] = e.new
  BY <1>2, <1>3, <1>4, <1>5, <1>6
<1>8. /\ Effect(Know(sync), Stage, View(d), View(x))
      /\ d.settings = Missing <=> x.settings = Missing
  BY <1>2, <1>4, <1>7, EffectIs
<1>9. Was' = View(d) /\ Will' = View(x)
  BY <1>1, <1>6 DEF Was, Will
<1> QED BY <1>1, <1>6, <1>8, <1>9

\* To begin a change keeps the promise.
LEMMA BeginsRem ==
  ASSUME RotInv, RemInv, NEW w \in Workers, Begins(w), UNCHANGED rotationVars
  PROVE  RemInv'
<1>1. /\ OnlyMoves(w) /\ op[w].at = "commit" /\ op'[w].at \in {"apply", "failed"}
      /\ Before' = disk'
      /\ record' # NoRecord => record'.kind = op[w].kind
  BY BeginsEffect DEF RotInv
<1>2. Spends
  BY DEF Begins, Spends
<1>3. \A v \in Workers : Keeps(v)
  <2>1. Keeps(w)
    BY <1>1, MovesKeeps DEF OnlyMoves
  <2> QED BY <1>1, <2>1 DEF OnlyMoves, Keeps
<1>4. UNCHANGED <<sync, remote, puts, strayed>>
  BY DEF rotationVars
<1>5. NoRestores' /\ OpWrites' /\ OthersWrite'
  BY <1>2, <1>3, <1>4, KeepsAll DEF RemInv
<1>6. sync # NoSync =>
        /\ \/ op[sync.by].at # "done" /\ op'[sync.by].at # "done"
           \/ op'[sync.by] = op[sync.by]
        /\ sync.by \in Workers
  BY <1>1, ByWorker DEF OnlyMoves
<1>7. sync # NoSync => (op'[sync.by].at = "done" <=> op[sync.by].at = "done")
  BY <1>6
<1>8. /\ Was' = Was /\ Will = Was /\ (There' <=> There)
      /\ record' = NoRecord => Will' = Was
      /\ record' = NoRecord \/ op[w].kind # "rotated" =>
              /\ Will'.sync = Was.sync /\ Will'.journal = Was.journal
              /\ After'.settings = Missing <=> Before'.settings = Missing
              /\ Will'.state = Was.state \/ (op[w].kind = "pull" /\ Will'.state # 0)
  BY BeginsViews DEF RotInv, RemInv
<1>9. CASE record' = NoRecord \/ op[w].kind # "rotated"
  <2>1. Rotates'
    BY <1>4, <1>8, <1>9 DEF RemInv, Rotates
  <2>2. CASE Will'.state = Was.state
    <3>1. Will' = Was
      BY <1>8, <1>9, <2>2 DEF Will, Was, View
    <3>2. Promised'
      BY <1>3, <1>4, <1>7, <1>8, <3>1, PromisedStays DEF RemInv
    <3> QED BY <1>5, <2>1, <3>2 DEF RemInv
  <2>3. CASE op[w].kind = "pull" /\ Will'.state # 0
    <3>1. sync = NoSync
      BY <2>3 DEF RemInv, OthersWrite
    <3>2. ASSUME There', ~strayed'
          PROVE  Known(Was', Will', puts) /\ Stable(Was', Will', remote)
      <4>1. PICK b, a, r, p : b = Was' /\ a = Will' /\ r = remote /\ p = puts
        OBVIOUS
      <4>2. Known(b, b, p) /\ Stable(b, b, r)
        BY <1>4, <1>8, <3>2, <4>1 DEF RemInv, Promised
      <4>3. a.sync = b.sync /\ a.journal = b.journal /\ a.state # 0
        BY <1>8, <1>9, <2>3, <4>1
      <4> QED BY <4>1, <4>2, <4>3, OtherStable
    <3>3. Promised'
      BY <1>4, <3>1, <3>2 DEF Promised
    <3> QED BY <1>5, <2>1, <3>3 DEF RemInv
  <2> QED BY <1>8, <1>9, <2>2, <2>3
<1>10. CASE record' # NoRecord /\ op[w].kind = "rotated"
  <2>1. /\ Effect(Know(sync), Stage, Was', Will')
        /\ Before'.settings = Missing <=> After'.settings = Missing
    BY <1>10, BeginsOwn
  <2>2. sync # NoSync /\ sync.by = w /\ sync.todo # << >> /\ Stage = Head(sync.todo)
    BY <1>1, <1>10, OwnEntry DEF RemInv
  <2>3. Rotates'
    BY <1>1, <1>4, <1>8, <1>10, <2>1 DEF RemInv, Rotates
  <2>4. /\ Rest = sync.todo /\ Rest' = sync.todo /\ Undoing' = Undoing
    <3>1. op[w].at # "done" /\ op'[w].at # "done" /\ sync'.by = w
      BY <1>1, <1>4, <2>2
    <3> QED BY <1>4, <2>2, <3>1 DEF Rest, Undoing
  <2>5. ASSUME There', ~strayed'
        PROVE  /\ Known(Was', Will', puts) /\ Stable(Was', Will', remote)
               /\ Claim(Know(sync), Rest', Undoing', Was', Will', remote)
    <3>1. PICK b, a, r, p : b = Was' /\ a = Will' /\ r = remote /\ p = puts
      OBVIOUS
    <3>2. PICK k, todo, u : k = Know(sync) /\ todo = sync.todo /\ u = Undoing
      OBVIOUS
    <3>3. Known(b, b, p) /\ Stable(b, b, r) /\ Claim(k, todo, u, b, b, r)
      BY <1>4, <1>8, <2>2, <2>4, <2>5, <3>1, <3>2 DEF RemInv, Promised, Relies
    <3>4. k.etagOf \in 0 .. p /\ k.cipherOf \in 0 .. p
      <4>1. sync.object \in Objs(puts) /\ puts \in Nat
        BY <2>2, SyncParts DEF RotInv, BucketOK
      <4> QED BY <3>1, <3>2, <4>1 DEF Know, Objs
    <3>5. todo # << >> /\ Effect(k, Head(todo), b, a)
      BY <2>1, <2>2, <3>1, <3>2
    <3>6. Stable(b, a, r) /\ Known(b, a, p)
      BY <3>3, <3>4, <3>5, BeginsStable
    <3>7. Claim(k, todo, u, b, a, r)
      BY <3>3, <3>5, BeginsClaim
    <3> QED BY <2>4, <3>1, <3>2, <3>6, <3>7
  <2>6. op'[sync'.by].at # "done"
    BY <1>1, <1>4, <2>2
  <2>7. Promised'
    BY <1>4, <2>5, <2>6 DEF Promised, Relies
  <2> QED BY <1>5, <2>3, <2>7 DEF RemInv
<1> QED BY <1>9, <1>10

\* A write that fails is not a write that has ended.
LEMMA NotDone ==
  ASSUME RotInv, NEW w \in Workers, OnlyMoves(w), op[w].at \in {"commit", "apply"},
         op'[w].at \in {"failed", "apply"}
  PROVE  sync # NoSync => (op'[sync.by].at = "done" <=> op[sync.by].at = "done")
<1>1. SUFFICES ASSUME sync # NoSync
               PROVE  op'[sync.by].at = "done" <=> op[sync.by].at = "done"
  OBVIOUS
<1>2. PICK v \in Workers : v = sync.by
  BY <1>1, ByWorker
<1>3. CASE v = w
  BY <1>2, <1>3
<1>4. CASE v # w
  BY <1>2, <1>4 DEF OnlyMoves
<1> QED BY <1>3, <1>4

\* The other requests stay as they are.
LEMMA MovesAll ==
  ASSUME RotInv, RemInv, NEW w \in Workers, OnlyMoves(w), op[w].at \in {"commit", "apply"},
         op'[w].at \in {"failed", "apply", "done"}
  PROVE  \A v \in Workers : Keeps(v)
<1>1. Keeps(w)
  BY MovesKeeps DEF OnlyMoves
<1> QED BY <1>1 DEF OnlyMoves, Keeps

\* A refused change,
LEMMA RefusedRem ==
  ASSUME RotInv, RemInv, NEW w \in Workers, Refused(w), UNCHANGED rotationVars
  PROVE  RemInv'
<1>1. op[w].at = "commit" /\ Moves(w, "failed") /\ UNCHANGED storageVars
  BY DEF Refused
<1>2. OnlyMoves(w) /\ op'[w].at = "failed"
  BY <1>1, OpOnlyMoves DEF RotInv, VaultInv, Shapes
<1>3. Before' = Before /\ After' = After /\ record' = record
  BY <1>1, StoreStays DEF storageVars, RotInv, VaultInv, Shapes
<1>4. Spends
  BY DEF Refused, Spend, Spends
<1>5. UNCHANGED <<sync, remote, puts, strayed>>
  BY DEF rotationVars
<1>6. \A v \in Workers : Keeps(v)
  BY <1>1, <1>2, MovesAll
<1>7. sync # NoSync => (op'[sync.by].at = "done" <=> op[sync.by].at = "done")
  BY <1>1, <1>2, NotDone
<1> QED BY <1>3, <1>4, <1>5, <1>6, <1>7, QuietRem

\* an applied file,
LEMMA AppliesRem ==
  ASSUME RotInv, RemInv, NEW w \in Workers, Applies(w), UNCHANGED rotationVars
  PROVE  RemInv'
<1>1. /\ op' = op /\ record # NoRecord /\ record' # NoRecord /\ record'.kind = record.kind
      /\ Before' = Before /\ After' = After
  BY AppliesEffect DEF RotInv
<1>2. Spends
  BY DEF Applies, Spends
<1>3. UNCHANGED <<sync, remote, puts, strayed>>
  BY DEF rotationVars
<1>4. \A v \in Workers : Keeps(v)
  BY <1>1 DEF Keeps
<1> QED BY <1>1, <1>2, <1>3, <1>4, QuietRem

\* a failed change,
LEMMA FailsRem ==
  ASSUME RotInv, RemInv, NEW w \in Workers, Fails(w), UNCHANGED rotationVars
  PROVE  RemInv'
<1>1. /\ OnlyMoves(w) /\ op[w].at = "apply" /\ op'[w].at = "failed"
      /\ Before' = Before
      /\ \/ record' = NoRecord /\ disk' = Before /\ After' = Before
         \/ record' = record /\ After' = After
  BY FailsEffect DEF RotInv
<1>2. Spends
  BY DEF Fails, Spend, Spends
<1>3. UNCHANGED <<sync, remote, puts, strayed>>
  BY DEF rotationVars
<1>4. \A v \in Workers : Keeps(v)
  BY <1>1, MovesAll
<1>5. sync # NoSync => (op'[sync.by].at = "done" <=> op[sync.by].at = "done")
  BY <1>1, NotDone
<1>6. CASE record' = NoRecord /\ disk' = Before /\ After' = Before
  BY <1>1, <1>2, <1>3, <1>4, <1>5, <1>6, SettleRem
<1>7. CASE record' = record /\ After' = After
  BY <1>1, <1>2, <1>3, <1>4, <1>5, <1>7, QuietRem
<1> QED BY <1>1, <1>6, <1>7

\* The write of the operation has ended.
LEMMA EndsOwn ==
  ASSUME RotInv, RemInv, NEW w \in Workers, op[w].kind = "rotated", op[w].at = "apply",
         Linked(record, op[w])
  PROVE  /\ Effect(Know(sync), Stage, Was, Will)
         /\ Before.settings = Missing <=> After.settings = Missing
<1>1. record # NoRecord /\ record.entries = op[w].entries
  BY DEF Linked
<1>2. PICK e \in Entries :
        /\ Writes(sync, Stage, e) /\ Written(op[w].entries) = {e.file}
        /\ Of(op[w].entries, e.file) = e /\ e.file \in {"journal", "state", "settings"}
  BY OwnEntry DEF RemInv
<1>3. e.file \in Names /\ IsDisk(disk)
  BY <1>2 DEF Names, RotInv, VaultInv, Shapes, StoreInv
<1>4. PICK d, x : d = Before /\ x = After
  OBVIOUS
<1>5. record.entries \in Seq(Entries)
  BY <1>1, RecordParts DEF RotInv, VaultInv, Shapes, StoreInv
<1>6. d = Applied(record.entries, 0) /\ x = Applied(record.entries, Len(record.entries))
  BY <1>1, <1>4 DEF Before, After
<1>7. \A f \in Names \ {e.file} : x[f] = d[f]
  BY <1>1, <1>2, <1>4, Settled DEF NowhereElse, RotInv, VaultInv, Shapes
<1>8. d[e.file] = e.old /\ x[e.file] = e.new
  BY <1>1, <1>2, <1>3, <1>5, <1>6, AppliedAt
<1>9. /\ Effect(Know(sync), Stage, View(d), View(x))
      /\ d.settings = Missing <=> x.settings = Missing
  BY <1>2, <1>3, <1>7, <1>8, EffectIs
<1> QED BY <1>4, <1>9 DEF Was, Will

\* Another commit is over.
LEMMA EndsOther ==
  ASSUME RotInv, RemInv, NEW w \in Workers, Ends(w), UNCHANGED rotationVars,
         op[w].kind # "rotated"
  PROVE  RemInv'
<1>1. /\ OnlyMoves(w) /\ op[w].at = "apply" /\ op'[w].at = "done" /\ Linked(record, op[w])
      /\ disk = After /\ disk' = disk /\ Before' \in {Before, After} /\ After' = After
      /\ \/ record' = NoRecord /\ Before' = After
         \/ record' # NoRecord /\ record'.kind = record.kind
  BY EndsEffect DEF RotInv
<1>2. Spends
  BY DEF Ends, Spend, Spends
<1>3. UNCHANGED <<sync, remote, puts, strayed>>
  BY DEF rotationVars
<1>4. \A v \in Workers : Keeps(v)
  BY <1>1, MovesAll
<1>5. sync # NoSync => (op'[sync.by].at = "done" <=> op[sync.by].at = "done")
  BY <1>1, ByWorker DEF OnlyMoves
<1>6. Was.sync = Will.sync
  BY <1>1 DEF RemInv, Rotates, Linked
<1>7. CASE Before' = After
  BY <1>1, <1>2, <1>3, <1>4, <1>5, <1>6, <1>7, SettleRem
<1>8. CASE Before' = Before /\ record' # NoRecord /\ record'.kind = record.kind
  BY <1>1, <1>2, <1>3, <1>4, <1>5, <1>8, QuietRem
<1> QED BY <1>1, <1>7, <1>8

\* and one that has ended keep the promise.
LEMMA EndsRem ==
  ASSUME RotInv, RemInv, NEW w \in Workers, Ends(w), UNCHANGED rotationVars
  PROVE  RemInv'
<1>1. CASE op[w].kind # "rotated"
  BY <1>1, EndsOther
<1>2. CASE op[w].kind = "rotated"
  <2>1. /\ OnlyMoves(w) /\ op[w].at = "apply" /\ op'[w].at = "done" /\ Linked(record, op[w])
        /\ After' = After /\ record' = NoRecord /\ Before' = After
    <3>1. record.kind = "rotated" => record.kind \notin {"rekey", "initialise"}
      OBVIOUS
    <3> QED BY <1>2, <3>1, EndsEffect DEF RotInv, Linked
  <2>2. UNCHANGED <<sync, remote, puts, strayed>> /\ Spends
    BY DEF Ends, Spend, Spends, rotationVars
  <2>3. \A v \in Workers : Keeps(v)
    BY <2>1, MovesAll
  <2>4. NoRestores' /\ OpWrites' /\ OthersWrite'
    BY <2>2, <2>3, KeepsAll DEF RemInv
  <2>5. sync # NoSync /\ sync.by = w /\ sync.todo # << >> /\ Stage = Head(sync.todo)
    BY <1>2, <2>1, OwnEntry DEF RemInv
  <2>6. /\ Effect(Know(sync), Stage, Was, Will)
        /\ Before.settings = Missing <=> After.settings = Missing
    BY <1>2, <2>1, EndsOwn
  <2>7. Was' = Will /\ Will' = Will /\ (There' <=> There)
    BY <2>1, <2>6 DEF Was, Will, There
  <2>8. Rotates'
    BY <2>1, <2>2, <2>7 DEF RemInv, Rotates
  <2>9. /\ Rest = sync.todo /\ Undoing = sync.undo /\ Rest' = Tail(sync.todo)
        /\ Undoing' = (sync.undo /\ Stage # "commit")
    <3>1. op[w].at # "done" /\ op'[w].at = "done" /\ sync.by = w /\ sync'.by = w
      BY <2>1, <2>2, <2>5
    <3>2. sync'.todo = sync.todo /\ sync'.undo = sync.undo /\ Stage' = Stage
      BY <2>2 DEF Stage
    <3>3. sync.undo \in BOOLEAN
      BY <2>5, SyncParts
    <3> QED BY <3>1, <3>2, <3>3 DEF Rest, Undoing
  <2>10. ASSUME There', ~strayed'
         PROVE  /\ Known(Was', Will', puts) /\ Stable(Was', Will', remote)
                /\ Claim(Know(sync), Rest', Undoing', Was', Will', remote)
                /\ Rest' # Undoes
    <3>1. PICK b, a, r, p : b = Was /\ a = Will /\ r = remote /\ p = puts
      OBVIOUS
    <3>2. PICK k, todo, u : k = Know(sync) /\ todo = sync.todo /\ u = sync.undo
      OBVIOUS
    <3>3. Known(b, a, p) /\ Stable(b, a, r) /\ Claim(k, todo, u, b, a, r)
      BY <2>2, <2>5, <2>7, <2>9, <2>10, <3>1, <3>2 DEF RemInv, Promised, Relies
    <3>4. todo # << >> /\ Effect(k, Head(todo), b, a)
      BY <2>5, <2>6, <3>1, <3>2
    <3>5. Stable(a, a, r) /\ Known(a, a, p)
      BY <3>3, <3>4, EndsStable
    <3>6. Claim(k, Tail(todo), u /\ Head(todo) # "commit", a, a, r) /\ Tail(todo) # Undoes
      BY <3>3, <3>4, EndsClaim
    <3>7. Rest' = Tail(todo) /\ Undoing' = (u /\ Head(todo) # "commit")
      BY <2>5, <2>9, <3>2
    <3> QED BY <2>7, <3>1, <3>2, <3>5, <3>6, <3>7
  <2>11. Promised'
    BY <2>2, <2>10 DEF Promised, Relies
  <2> QED BY <2>4, <2>8, <2>11 DEF RemInv
<1> QED BY <1>1, <1>2

\* A request that is not the operation's takes a step, and storage does not.
LEMMA QuietRequest ==
  ASSUME RotInv, RemInv, NEW w \in Workers, OthersStay(w), UNCHANGED <<disk, record>>,
         UNCHANGED rotationVars, Spends, op[w].kind # "rotated",
         op'[w].kind # "restore", KeepsSync(op'[w]), op'[w].kind = "pull" => sync = NoSync
  PROVE  RemInv'
<1>1. sync.by # w
  BY DEF RotInv, SyncTied
<1>2. \A v \in Workers : Keeps(v)
  BY <1>1 DEF OthersStay, Keeps
<1>3. sync # NoSync => (op'[sync.by].at = "done" <=> op[sync.by].at = "done")
  BY <1>1, ByWorker DEF OthersStay
<1>4. Before' = Before /\ After' = After
  BY StoreStays DEF RotInv, VaultInv, Shapes
<1>5. UNCHANGED <<sync, remote, puts, strayed>>
  BY DEF rotationVars
<1> QED BY <1>2, <1>3, <1>4, <1>5, QuietRem

\* Only a pull and an edit of the settings write what the sync key is judged by.
LEMMA IdleSync == ASSUME NEW o, o.kind \notin {"pull", "settings"} PROVE KeepsSync(o)
BY DEF KeepsSync

\* To publish in memory,
LEMMA PublishesRem ==
  ASSUME RotInv, RemInv, NEW w \in Workers, Publishes(w), UNCHANGED rotationVars
  PROVE  RemInv'
<1>1. op'[w] = Idle /\ OthersStay(w)
  BY PublishesKeeps DEF RotInv
<1>2. op[w].kind # "rotated" /\ UNCHANGED <<disk, record>> /\ Spends
  BY DEF Publishes, storageVars, Spends
<1>3. op'[w].kind = "none"
  BY <1>1, IdleShape
<1>4. KeepsSync(op'[w])
  BY <1>3, IdleSync
<1> QED BY <1>1, <1>2, <1>3, <1>4, QuietRequest

\* to read the files again,
LEMMA ReloadsRem ==
  ASSUME RotInv, RemInv, NEW w \in Workers, Reloads(w), UNCHANGED rotationVars
  PROVE  RemInv'
<1>1. OthersStay(w)
  BY ReloadsKeeps DEF RotInv
<1>2. op[w].kind # "rotated" /\ UNCHANGED <<disk, record>> /\ Spends
  BY DEF Reloads, storageVars, Spends
<1>3. op[w].kind # "restore" /\ w \in DOMAIN op
  BY DEF RemInv, NoRestores, RotInv, VaultInv, Shapes, OpsInv
<1>4. Finish(w)
  BY <1>3 DEF Reloads
<1>5. op'[w].kind = "none"
  BY <1>3, <1>4, IdleShape DEF Finish
<1>6. KeepsSync(op'[w])
  BY <1>5, IdleSync
<1> QED BY <1>1, <1>2, <1>5, <1>6, QuietRequest

\* to return,
LEMMA ReturnsRem ==
  ASSUME RotInv, RemInv, NEW w \in Workers, Returns(w), UNCHANGED rotationVars
  PROVE  RemInv'
<1>1. OthersStay(w) /\ UNCHANGED <<disk, record>>
  BY ReturnsEffect DEF NoNews, RotInv
<1>2. op[w].kind # "rotated" /\ Spends /\ Finish(w)
  BY DEF Returns, Spends
<1>3. w \in DOMAIN op
  BY DEF RotInv, VaultInv, Shapes, OpsInv
<1>4. op'[w].kind = "none"
  BY <1>2, <1>3, IdleShape DEF Finish
<1>5. KeepsSync(op'[w])
  BY <1>4, IdleSync
<1> QED BY <1>1, <1>2, <1>4, <1>5, QuietRequest

\* No restore runs.
LEMMA NoRestoreSteps ==
  ASSUME RotInv, RemInv, NEW w \in Workers
  PROVE  ~RestoreReads(w) /\ ~LocksAfterRestore(w)
<1>1. OpShape(op[w]) /\ op[w].kind # "restore"
  BY DEF RotInv, VaultInv, Shapes, OpsInv, RemInv, NoRestores
<1>2. op[w].at \notin {"read", "lock"}
  BY <1>1, OpParts DEF StagesOK
<1> QED BY <1>2 DEF RestoreReads, LocksAfterRestore

\* and any step of a request keep the promise.
LEMMA StepRem ==
  ASSUME RotInv, RemInv, NEW w \in Workers, Step(w), UNCHANGED rotationVars
  PROVE  RemInv'
BY NoRestoreSteps, BeginsRem, RefusedRem, AppliesRem, EndsRem, FailsRem, PublishesRem,
   ReloadsRem, ReturnsRem DEF Step

\* A request that writes no settings and brings no state begins.
LEMMA GoesRem ==
  ASSUME RotInv, RemInv, NEW w \in Workers, NEW kind \in {"initialise", "save", "rekey", "config"},
         NEW entries, NEW candidate, Asks(w, kind), Goes(w, kind, entries, candidate), NoNews(w),
         UNCHANGED rotationVars
  PROVE  RemInv'
<1>1. /\ op[w] = Idle /\ w \in DOMAIN op /\ UNCHANGED <<disk, record>> /\ OthersStay(w)
      /\ Spends
  BY DEF Asks, Spend, Spends, NoNews, RotInv, VaultInv, Shapes, OpsInv
<1>2. op'[w].kind = kind
  BY <1>1 DEF Goes
<1>3. KeepsSync(op'[w]) /\ op'[w].kind \notin {"restore", "pull"} /\ op[w].kind # "rotated"
  BY <1>1, <1>2, IdleSync, IdleShape
<1> QED BY <1>1, <1>3, QuietRequest

\* An edit of the settings,
LEMMA SettingsRem ==
  ASSUME RotInv, RemInv, NEW w \in Workers, SetSyncSettings(w), UNCHANGED rotationVars
  PROVE  RemInv'
<1>1. /\ op[w] = Idle /\ Spends
  BY DEF SetSyncSettings, Asks, Spend, Spends
<1>2. UNCHANGED <<disk, record>> /\ OthersStay(w)
  BY SetSyncSettingsEffect DEF NoNews, RotInv
<1>3. KeepsSync(op'[w]) /\ op'[w].kind = "settings"
  BY RequestNoneSync DEF RotInv
<1>4. op[w].kind # "rotated"
  BY <1>1, IdleShape
<1> QED BY <1>1, <1>2, <1>3, <1>4, QuietRequest

\* a save of the library,
LEMMA SaveLibraryRem ==
  ASSUME RotInv, RemInv, NEW w \in Workers, SaveLibrary(w), UNCHANGED rotationVars
  PROVE  RemInv'
<1>1. /\ op' = op /\ record = NoRecord /\ record' = NoRecord
      /\ \A f \in Names \ {"library"} : disk'[f] = disk[f]
  BY SaveLibraryEffect DEF RotInv
<1>2. Spends /\ UNCHANGED <<sync, remote, puts, strayed>>
  BY DEF SaveLibrary, Asks, Spend, Spends, rotationVars
<1>3. Before = disk /\ After = disk /\ Before' = disk' /\ After' = disk'
  BY <1>1 DEF Before, After
<1>4. /\ disk'["settings"] = disk["settings"] /\ disk'["journal"] = disk["journal"]
      /\ disk'["state"] = disk["state"]
  BY <1>1 DEF Names
<1>5. Was' = Was /\ Will' = Will /\ (There' <=> There)
  BY <1>3, <1>4 DEF Was, Will, View, There
<1>6. \A v \in Workers : Keeps(v)
  BY <1>1 DEF Keeps
<1>7. NoRestores' /\ OpWrites' /\ OthersWrite'
  BY <1>2, <1>6, KeepsAll DEF RemInv
<1>8. Rotates'
  <2>1. Was'.sync = Will'.sync /\ (Before'.settings = Missing <=> After'.settings = Missing)
    BY <1>3 DEF Was, Will
  <2> QED BY <1>2, <1>5, <2>1 DEF RemInv, Rotates
<1>9. Promised'
  BY <1>1, <1>2, <1>5, <1>6, PromisedStays DEF RemInv
<1> QED BY <1>7, <1>8, <1>9 DEF RemInv

\* and any request that is made keep it.
LEMMA RequestRem ==
  ASSUME RotInv, RemInv, NEW w \in Workers, Request(w), UNCHANGED rotationVars
  PROVE  RemInv'
<1>0. VaultInv
  BY DEF RotInv
<1>1. ASSUME NEW sign \in {1, -1}, Initialise(w, sign) PROVE RemInv'
  BY <1>0, <1>1, InitialiseEffect, GoesRem DEF Initialise
<1>2. ASSUME NEW sign \in {1, -1}, ChangeMasterPassword(w, sign) PROVE RemInv'
  BY <1>0, <1>2, ChangeEffect, GoesRem DEF ChangeMasterPassword
<1>3. ASSUME NEW s \in Secrets, Save(w, s) PROVE RemInv'
  BY <1>0, <1>3, SaveEffect, GoesRem DEF Save
<1>4. CASE SaveConfig(w)
  BY <1>0, <1>4, SaveConfigEffect, GoesRem DEF SaveConfig
<1>5. ASSUME NEW b \in disk.backups, Restore(w, b) PROVE FALSE
  BY <1>5 DEF Restore, Asks, RemInv, NoRestores
<1> QED BY <1>1, <1>2, <1>3, <1>4, <1>5, SettingsRem, SaveLibraryRem DEF Request

\* Only the memory changes.
LEMMA MemoryRem ==
  ASSUME RotInv, RemInv, op' = op, UNCHANGED <<disk, record>>, Spends, UNCHANGED rotationVars
  PROVE  RemInv'
<1>1. UNCHANGED <<sync, remote, puts, strayed>>
  BY DEF rotationVars
<1>2. Before' = Before /\ After' = After
  BY StoreStays DEF RotInv, VaultInv, Shapes
<1>3. \A v \in Workers : Keeps(v)
  BY DEF Keeps
<1> QED BY <1>1, <1>2, <1>3, QuietRem

\* AutoUnlock completes no change of the settings.
LEMMA AutoUnlockRem ==
  ASSUME RotInv, RemInv, op' = op, AutoUnlock, Spends, UNCHANGED rotationVars
  PROVE  RemInv'
<1>1. \/ UNCHANGED <<disk, record>>
      \/ record' = NoRecord /\ disk' = Now
  BY AutoUnlockEffect DEF RotInv, VaultInv, Shapes
<1>2. CASE UNCHANGED <<disk, record>>
  BY <1>2, MemoryRem
<1>3. CASE record' = NoRecord /\ disk' = Now
  <2>1. UNCHANGED <<sync, remote, puts, strayed>>
    BY DEF rotationVars
  <2>2. Before' = disk' /\ After' = disk'
    BY <1>3 DEF Before, After
  <2>3. \A v \in Workers : Keeps(v)
    BY DEF Keeps
  <2>4. disk' = Before \/ (disk' = After /\ Will.sync = Was.sync)
    <3>1. CASE record # NoRecord /\ record.status = "applied"
      <4>1. record.kind \in {"rekey", "initialise"}
        BY <3>1 DEF RotInv, VaultInv, Shapes, StoreInv, RecordShape
      <4>2. Will.sync = Was.sync
        BY <4>1 DEF RemInv, Rotates
      <4> QED BY <1>3, <3>1, <4>2 DEF Now
    <3>2. CASE ~(record # NoRecord /\ record.status = "applied")
      BY <1>3, <3>2 DEF Now
    <3> QED BY <3>1, <3>2
  <2> QED BY <2>1, <2>2, <2>3, <2>4, SettleRem
<1> QED BY <1>1, <1>2, <1>3

\* The vault keeps the promise.
LEMMA VaultStepRem ==
  ASSUME RotInv, RemInv, VaultStep, UNCHANGED rotationVars
  PROVE  RemInv'
<1>0. VaultInv
  BY DEF RotInv
<1>1. CASE IdleCloses \/ Unlock
  <2>1. op' = op /\ UNCHANGED <<disk, record>> /\ Spends
    BY <1>1 DEF IdleCloses, Unlock, Spend, Spends, storageVars
  <2> QED BY <2>1, MemoryRem
<1>2. CASE LockManually
  <2>1. op' = op /\ (UNCHANGED <<disk, record>> \/ AutoUnlock)
    BY <1>0, <1>2, LockManuallyEffect
  <2>2. Spends
    BY <1>2 DEF LockManually, Spend, Spends
  <2> QED BY <2>1, <2>2, MemoryRem, AutoUnlockRem
<1>3. CASE Start
  <2>1. op' = op /\ AutoUnlock /\ Spends
    BY <1>3 DEF Start, Spends
  <2> QED BY <2>1, AutoUnlockRem
<1> QED BY <1>1, <1>2, <1>3, StepRem, RequestRem DEF VaultStep

\* A write of the key that is completed from the history, and that does not stray.
LEMMA NoStray ==
  ASSUME RotInv, RemInv, record # NoRecord, There, ~strayed, ~Strays("complete"),
         Will.sync # Was.sync
  PROVE  Will.sync = remote.key /\ (sync # NoSync => ~Undoing /\ Rest # Undoes)
<1>1. record.kind = "rotated"
  BY DEF RemInv, Rotates
<1>2. /\ record.entries \in Seq(Entries) /\ IsDisk(disk) /\ "settings" \in Names
      /\ After = Applied(record.entries, Len(record.entries))
      /\ Before = Applied(record.entries, 0)
  BY RecordParts DEF RotInv, VaultInv, Shapes, StoreInv, Names, After, Before
<1>3. "settings" \in Written(record.entries)
  <2>1. SUFFICES ASSUME "settings" \notin Written(record.entries) PROVE FALSE
    OBVIOUS
  <2>2. Before["settings"] = disk["settings"] /\ After["settings"] = disk["settings"]
    BY <1>2, <2>1, AppliedAt
  <2> QED BY <2>2 DEF Was, Will, View
<1>4. After["settings"] = Of(record.entries, "settings").new
  BY <1>2, <1>3, AppliedAt
<1>5. After["settings"] # Missing
  BY DEF There, RemInv, Rotates
<1>6. /\ Stage # "undo" /\ ~(sync # NoSync /\ sync.undo)
      /\ Of(record.entries, "settings").new.body.sync = remote.key
  BY <1>1, <1>3 DEF Strays
<1>7. Will.sync = remote.key
  BY <1>4, <1>5, <1>6 DEF Will, View, SyncIn
<1>8. ASSUME sync # NoSync PROVE ~Undoing /\ Rest # Undoes
  <2>1. ~Undoing
    BY <1>6, <1>8 DEF Undoing
  <2>2. CASE op[sync.by].at = "done"
    BY <1>8, <2>1, <2>2 DEF RemInv, Promised, Relies
  <2>3. CASE op[sync.by].at # "done"
    BY <1>6, <2>1, <2>3, PlanHeads DEF Rest, Stage
  <2> QED BY <2>1, <2>2, <2>3
<1> QED BY <1>7, <1>8

\* So does recovery, from the history or at the start,
LEMMA RecoversRem ==
  ASSUME RotInv, RemInv, NEW w \in Workers, NEW action, Recovers(w, action)
  PROVE  RemInv'
<1>1. /\ record # NoRecord /\ record' = NoRecord /\ op[w] = Idle /\ OthersStay(w)
      /\ op'[w].kind = "recover"
  BY RecoverEffect DEF Recovers, RotInv
<1>2. /\ UNCHANGED <<sync, remote, puts>> /\ Spends /\ (strayed => strayed')
      /\ (strayed' = (strayed \/ Strays(action)))
  BY DEF Recovers, Recover, Spends
<1>3. op[w].kind # "rotated" /\ sync.by # w
  <2>1. op[w].kind # "rotated"
    BY <1>1, IdleShape
  <2> QED BY <2>1 DEF RotInv, SyncTied
<1>4. \A v \in Workers : Keeps(v)
  BY <1>1, <1>3, IdleSync DEF OthersStay, Keeps
<1>5. sync # NoSync => (op'[sync.by].at = "done" <=> op[sync.by].at = "done")
  BY <1>1, <1>3, ByWorker DEF OthersStay
<1>6. Before' = disk' /\ After' = disk'
  BY <1>1 DEF Before, After
<1>7. \/ disk' = Before
      \/ action = "complete" /\ disk' = After
  BY <1>1 DEF Recovers, Recover, Before, After
<1>8. CASE disk' = Before
  BY <1>2, <1>4, <1>5, <1>6, <1>8, SettleRem
<1>9. CASE action = "complete" /\ disk' = After
  <2>1. There /\ ~strayed' =>
          \/ Will.sync = Was.sync
          \/ Will.sync = remote.key /\ (sync # NoSync => ~Undoing /\ Rest # Undoes)
    BY <1>1, <1>2, <1>9, NoStray
  <2> QED BY <1>2, <1>4, <1>5, <1>6, <1>9, <2>1, SettleRem
<1> QED BY <1>7, <1>8, <1>9

\* and the engine that is killed.
LEMMA KilledRem ==
  ASSUME RotInv, RemInv, Killed
  PROVE  RemInv'
<1>1. /\ Before' = Before /\ After' = After /\ \A v \in Workers : op'[v] = Idle
  BY CrashEffect DEF Killed, RotInv
<1>2. sync' = NoSync /\ UNCHANGED <<remote, puts, strayed, record>> /\ Spends
  BY DEF Killed, Crash, Spend, Spends
<1>3. Was' = Was /\ Will' = Will /\ (There' <=> There)
  BY <1>1 DEF Was, Will, There
<1>4. NoRestores'
  BY <1>1, <1>2, KindsStay, IdleShape DEF RemInv, NoRestores
<1>5. OthersWrite'
  BY <1>1, IdleShape, IdleSync DEF OthersWrite
<1>6. OpWrites'
  BY <1>2 DEF OpWrites
<1>7. Rotates'
  BY <1>1, <1>2, <1>3 DEF RemInv, Rotates
<1>8. Promised'
  BY <1>2, <1>3 DEF RemInv, Promised
<1> QED BY <1>4, <1>5, <1>6, <1>7, <1>8 DEF RemInv

(* Steps of the operation on the bucket, seen from the sync key *)

\* The operation reads a disk that is the one before the change or the one after it.
LEMMA ViewsOfDisk ==
  ASSUME RotInv
  PROVE  \A f \in {"journal", "state"} : \E d \in {Was, Will} : d[f] = disk[f]
<1>1. \A f \in Names : disk[f] \in {Before[f], After[f]}
  BY Settled DEF RotInv, VaultInv, Shapes
<1>2. /\ Was["journal"] = Before["journal"] /\ Will["journal"] = After["journal"]
      /\ Was["state"] = Before["state"] /\ Will["state"] = After["state"]
  BY DEF Was, Will, View
<1> QED BY <1>1, <1>2 DEF Names

\* Between its writes the operation may rely on the plan as it stands.
LEMMA CallClaims ==
  ASSUME RotInv, RemInv, NEW w \in Workers, sync.by = w, op[w].at # "done"
  PROVE  /\ sync # NoSync /\ There
         /\ ~strayed => /\ Known(Was, Will, puts) /\ Stable(Was, Will, remote)
                        /\ Claim(Know(sync), sync.todo, sync.undo, Was, Will, remote)
<1>1. sync # NoSync /\ sync.undo \in BOOLEAN
  BY SyncParts
<1>2. There
  BY <1>1 DEF RemInv, Rotates
<1>3. Rest = sync.todo /\ Undoing = sync.undo
  BY <1>1 DEF Rest, Undoing
<1> QED BY <1>1, <1>2, <1>3 DEF RemInv, Promised, Relies

\* The operation takes a step that writes no file.
LEMMA CallRem ==
  ASSUME RotInv, RemInv, NEW w \in Workers, Calls(w), LocallyUnchanged, Spends,
         puts' \in Nat, puts <= puts', NEW k, NEW todo, NEW u \in BOOLEAN, NEW q,
         sync' # NoSync, sync'.by = w, sync'.todo = todo, sync'.undo = u, Know(sync') = k,
         remote' = q,
         ~strayed => Stable(Was, Will, q) /\ Claim(k, todo, u, Was, Will, q)
  PROVE  RemInv'
<1>1. op' = op /\ UNCHANGED <<disk, record, strayed>> /\ sync.by = w /\ op[w].at = "call"
  BY DEF Calls, LocallyUnchanged, storageVars, memoryVars
<1>2. /\ sync # NoSync /\ There
      /\ ~strayed => Known(Was, Will, puts)
  BY <1>1, CallClaims
<1>3. Before' = Before /\ After' = After
  BY <1>1, StoreStays DEF RotInv, VaultInv, Shapes
<1>4. Was' = Was /\ Will' = Will /\ (There' <=> There)
  BY <1>3 DEF Was, Will, There
<1>5. NoRestores'
  BY <1>1, KindsStay DEF RemInv, NoRestores
<1>6. OthersWrite'
  BY <1>1, <1>2 DEF RemInv, OthersWrite
<1>7. OpWrites'
  BY <1>1 DEF OpWrites
<1>8. Rotates'
  BY <1>1, <1>2, <1>3, <1>4 DEF RemInv, Rotates
<1>9. Rest' = todo /\ Undoing' = u
  BY <1>1 DEF Rest, Undoing
<1>10. ASSUME ~strayed PROVE Known(Was, Will, puts')
  <2>1. puts \in Nat /\ 0 .. puts \subseteq 0 .. puts'
    BY DEF RotInv, BucketOK
  <2>2. Known(Was, Will, puts)
    BY <1>2, <1>10
  <2> QED BY <2>1, <2>2 DEF Known
<1>11. Promised'
  BY <1>1, <1>4, <1>9, <1>10 DEF Promised, Relies
<1> QED BY <1>5, <1>6, <1>7, <1>8, <1>11 DEF RemInv

\* What a step leaves the operation knowing.
LEMMA KnowChanged ==
  ASSUME NEW w \in Workers, NEW todo, NEW object, NEW sealed, NEW etag, NEW undo,
         Changed(w, todo, object, sealed, etag, undo)
  PROVE  /\ sync' # NoSync /\ sync'.by = w /\ sync'.todo = todo /\ sync'.undo = undo
         /\ Know(sync') = [read |-> sync.read.sync, new |-> sync.new, etagOf |-> object.etag,
                           cipherOf |-> object.cipher, keyOf |-> object.key,
                           sealed |-> sealed, etag |-> etag]
<1>1. /\ sync'.by = w /\ sync'.todo = todo /\ sync'.undo = undo /\ sync'.new = sync.new
      /\ sync'.read = sync.read /\ sync'.object = object /\ sync'.sealed = sealed
      /\ sync'.etag = etag
  BY DEF Changed
<1> QED BY <1>1, VaultAssumption DEF Know, NoSync

\* Only what is left to do changes.
LEMMA GoesKnow ==
  ASSUME RotInv, NEW w \in Workers, sync.by = w, NEW todo, Goes_(todo)
  PROVE  /\ sync' # NoSync /\ sync'.by = w /\ sync'.todo = todo /\ sync'.undo = sync.undo
         /\ Know(sync') = Know(sync) /\ sync.undo \in BOOLEAN
<1>1. /\ sync.undo \in BOOLEAN
      /\ sync \in [by : {w}, todo : {sync.todo}, new : {sync.new}, read : {sync.read},
                      object : {sync.object}, sealed : {sync.sealed}, etag : {sync.etag},
                      undo : {sync.undo}]
  BY SyncParts
<1>2. /\ sync'.by = w /\ sync'.todo = todo /\ sync'.undo = sync.undo /\ sync'.new = sync.new
      /\ sync'.read = sync.read /\ sync'.object = sync.object /\ sync'.sealed = sync.sealed
      /\ sync'.etag = sync.etag
  BY <1>1 DEF Goes_
<1> QED BY <1>1, <1>2, VaultAssumption DEF Know, NoSync

\* The operation only goes on to something else.
LEMMA GoesOnRem ==
  ASSUME RotInv, RemInv, NEW w \in Workers, Calls(w), LocallyUnchanged, Spends,
         UNCHANGED <<remote, puts>>, NEW todo, Goes_(todo),
         ~strayed => Claim(Know(sync), todo, sync.undo, Was, Will, remote)
  PROVE  RemInv'
<1>1. /\ sync' # NoSync /\ sync'.by = w /\ sync'.todo = todo /\ sync'.undo = sync.undo
      /\ Know(sync') = Know(sync) /\ sync.undo \in BOOLEAN
  BY GoesKnow DEF Calls
<1>2. ~strayed => Stable(Was, Will, remote)
  BY CallClaims DEF Calls
<1>3. puts' \in Nat /\ puts <= puts'
  BY DEF RotInv, BucketOK
<1>4. PICK k, u, q : k = Know(sync) /\ u = sync.undo /\ q = remote
  OBVIOUS
<1> QED BY <1>1, <1>2, <1>3, <1>4, CallRem

\* It gives up with nothing to undo.
LEMMA StopsRem ==
  ASSUME RotInv, RemInv, NEW w \in Workers, Calls(w), LocallyUnchanged, Spends,
         UNCHANGED <<remote, puts>>, Stops, sync.todo # << >>,
         Head(sync.todo) \in {"resolve", "choose", "ensure", "get", "send", "put", "undo"}
  PROVE  RemInv'
<1>1. PICK k, todo, u, b, a, r : /\ k = Know(sync) /\ todo = sync.todo /\ u = sync.undo
                                 /\ b = Was /\ a = Will /\ r = remote
  OBVIOUS
<1>2. ~strayed => Claim(k, todo, u, b, a, r)
  BY <1>1, CallClaims DEF Calls
<1>3. ~strayed => Claim(k, << >>, u, b, a, r)
  BY <1>1, <1>2, Unbound
<1> QED BY <1>1, <1>3, GoesOnRem DEF Stops

\* resolveKeyRecovery keeps the promise.
LEMMA ResolveRem ==
  ASSUME RotInv, RemInv, NEW w \in Workers, ResolveKeyRecovery(w)
  PROVE  RemInv'
<1>1. /\ Calls(w) /\ sync.by = w /\ Stage = "resolve" /\ sync.todo # << >>
      /\ Head(sync.todo) = "resolve" /\ LocallyUnchanged /\ Spends
      /\ UNCHANGED <<remote, puts>> /\ op[w].at # "done"
  BY DEF ResolveKeyRecovery, Calls, Stage, Spends
<1>2. PICK k, todo, u, b, a, r : /\ k = Know(sync) /\ todo = sync.todo /\ u = sync.undo
                                 /\ b = Was /\ a = Will /\ r = remote
  OBVIOUS
<1>3. ~strayed => Claim(k, todo, u, b, a, r) /\ Stable(b, a, r)
  BY <1>1, <1>2, CallClaims
<1>4. PICK d \in {b, a} : d.journal = disk.journal
  BY <1>2, ViewsOfDisk
<1>5. CASE disk.journal = NoJournal /\ Proceeds
  <2>1. ~strayed => Claim(k, Tail(todo), u, b, a, r)
    BY <1>1, <1>2, <1>3, <1>4, <1>5, ResolveClaims
  <2> QED BY <1>1, <1>2, <1>5, <2>1, GoesOnRem DEF Proceeds
<1>6. CASE Stops
  BY <1>1, <1>6, StopsRem
<1>7. ASSUME NEW next \in {Adopting, Knowing}, disk.journal # NoJournal,
             sync' = [sync EXCEPT !.todo = next, !.etag = remote.etag],
             next = Adopting => OldLive(disk.journal, remote),
             next = Knowing => ~OldLive(disk.journal, remote) /\ remote.key = sync.new
      PROVE  RemInv'
  <2>1. /\ sync.undo \in BOOLEAN
        /\ sync \in [by : {w}, todo : {sync.todo}, new : {sync.new}, read : {sync.read},
                     object : {sync.object}, sealed : {sync.sealed}, etag : {sync.etag},
                     undo : {sync.undo}]
    BY <1>1, SyncParts
  <2>2. PICK ob, se, et : ob = sync.object /\ se = sync.sealed /\ et = remote.etag
    OBVIOUS
  <2>3. Changed(w, next, ob, se, et, u)
    BY <1>2, <1>7, <2>1, <2>2 DEF Changed
  <2>4. PICK x : x = Know(sync')
    OBVIOUS
  <2>5. /\ sync' # NoSync /\ sync'.by = w /\ sync'.todo = next /\ sync'.undo = u
        /\ x = [read |-> sync.read.sync, new |-> sync.new, etagOf |-> ob.etag,
                cipherOf |-> ob.cipher, keyOf |-> ob.key, sealed |-> se, etag |-> et]
    BY <2>3, <2>4, KnowChanged
  <2>6. k.new = sync.new
    BY <1>2 DEF Know
  <2>7. x.etag = r.etag /\ x.new = k.new /\ r.etag # 0
    <3>1. remote \in Objs(puts) /\ puts \in Nat
      BY DEF RotInv, BucketOK
    <3>2. r.etag # 0
      BY <1>2, <3>1 DEF Objs
    <3> QED BY <1>2, <2>2, <2>5, <2>6, <3>2
  <2>8. ~strayed => Claim(x, next, u, b, a, r)
    <3>1. CASE next = Adopting
      <4>1. d.journal # NoJournal /\ OldLive(d.journal, r)
        BY <1>2, <1>4, <1>7, <3>1
      <4> QED BY <1>1, <1>2, <1>3, <2>7, <3>1, <4>1, ResolveClaims
    <3>2. CASE next = Knowing
      <4>1. d.journal # NoJournal /\ ~OldLive(d.journal, r) /\ r.key = k.new
        BY <1>2, <1>4, <1>7, <2>6, <3>2
      <4> QED BY <1>1, <1>2, <1>3, <2>7, <3>2, <4>1, ResolveClaims
    <3> QED BY <3>1, <3>2
  <2>9. puts' \in Nat /\ puts <= puts' /\ remote' = r
    BY <1>1, <1>2 DEF RotInv, BucketOK
  <2> QED BY <1>1, <1>2, <1>3, <2>1, <2>4, <2>5, <2>8, <2>9, CallRem
<1> QED BY <1>5, <1>6, <1>7 DEF ResolveKeyRecovery, OldLive, Adopting, Knowing

\* ensureNoKeyRecovery keeps it.
LEMMA EnsureRem ==
  ASSUME RotInv, RemInv, NEW w \in Workers, EnsureNoKeyRecovery(w)
  PROVE  RemInv'
<1>1. /\ Calls(w) /\ sync.by = w /\ Stage = "ensure" /\ sync.todo # << >>
      /\ Head(sync.todo) = "ensure" /\ LocallyUnchanged /\ Spends
      /\ UNCHANGED <<remote, puts>> /\ op[w].at # "done"
  BY DEF EnsureNoKeyRecovery, Calls, Stage, Spends
<1>2. PICK k, todo, u, b, a, r : /\ k = Know(sync) /\ todo = sync.todo /\ u = sync.undo
                                 /\ b = Was /\ a = Will /\ r = remote
  OBVIOUS
<1>3. ~strayed => Claim(k, todo, u, b, a, r) /\ Stable(b, a, r)
  BY <1>1, <1>2, CallClaims
<1>4. PICK d \in {b, a} : d.journal = disk.journal
  BY <1>2, ViewsOfDisk
<1>5. CASE disk.journal = NoJournal /\ Proceeds
  <2>1. ~strayed => Claim(k, Tail(todo), u, b, a, r)
    BY <1>1, <1>2, <1>3, <1>4, <1>5, EnsureClaims
  <2> QED BY <1>1, <1>2, <1>5, <2>1, GoesOnRem DEF Proceeds
<1>6. CASE Stops
  BY <1>1, <1>6, StopsRem
<1>7. CASE /\ disk.journal # NoJournal /\ remote.etag = disk.journal.old
           /\ Goes_(<<"clear">> \o Tail(sync.todo))
  <2>1. PICK next : next = <<"clear">> \o Tail(todo)
    OBVIOUS
  <2>2. ~strayed => Claim(k, next, u, b, a, r)
    BY <1>1, <1>2, <1>3, <1>4, <1>7, <2>1, EnsureClaims
  <2> QED BY <1>1, <1>2, <1>7, <2>1, <2>2, GoesOnRem
<1> QED BY <1>5, <1>6, <1>7 DEF EnsureNoKeyRecovery

\* A GET keeps it.
LEMMA GetsRem ==
  ASSUME RotInv, RemInv, NEW w \in Workers, Gets(w)
  PROVE  RemInv'
<1>1. /\ Calls(w) /\ sync.by = w /\ Stage = "get" /\ sync.todo # << >>
      /\ Head(sync.todo) = "get" /\ LocallyUnchanged /\ Spends
      /\ UNCHANGED <<remote, puts>> /\ op[w].at # "done"
  BY DEF Gets, Calls, Stage, Spends
<1>2. PICK k, todo, u, b, a, r : /\ k = Know(sync) /\ todo = sync.todo /\ u = sync.undo
                                 /\ b = Was /\ a = Will /\ r = remote
  OBVIOUS
<1>3. ~strayed => Claim(k, todo, u, b, a, r) /\ Stable(b, a, r)
  BY <1>1, <1>2, CallClaims
<1>4. CASE Stops
  BY <1>1, <1>4, StopsRem
<1>5. CASE sync' = [sync EXCEPT !.todo = Tail(@), !.etag = remote.etag]
  <2>1. /\ sync.undo \in BOOLEAN
        /\ sync \in [by : {w}, todo : {sync.todo}, new : {sync.new}, read : {sync.read},
                     object : {sync.object}, sealed : {sync.sealed}, etag : {sync.etag},
                     undo : {sync.undo}]
    BY <1>1, SyncParts
  <2>2. PICK next, ob, se, et :
          next = Tail(todo) /\ ob = sync.object /\ se = sync.sealed /\ et = remote.etag
    OBVIOUS
  <2>3. Changed(w, next, ob, se, et, u)
    BY <1>2, <1>5, <2>1, <2>2 DEF Changed
  <2>4. PICK x : x = Know(sync')
    OBVIOUS
  <2>5. /\ sync' # NoSync /\ sync'.by = w /\ sync'.todo = next /\ sync'.undo = u
        /\ x = [read |-> sync.read.sync, new |-> sync.new, etagOf |-> ob.etag,
                cipherOf |-> ob.cipher, keyOf |-> ob.key, sealed |-> se, etag |-> et]
    BY <2>3, <2>4, KnowChanged
  <2>6. x.etag # 0
    <3>1. remote \in Objs(puts) /\ puts \in Nat
      BY DEF RotInv, BucketOK
    <3>2. et # 0
      BY <2>2, <3>1 DEF Objs
    <3> QED BY <2>5, <3>2
  <2>7. ~strayed => Claim(x, next, u, b, a, r)
    BY <1>1, <1>2, <1>3, <2>2, <2>6, GetClaims
  <2>8. puts' \in Nat /\ puts <= puts' /\ remote' = r
    BY <1>1, <1>2 DEF RotInv, BucketOK
  <2> QED BY <1>1, <1>2, <1>3, <2>1, <2>4, <2>5, <2>7, <2>8, CallRem
<1> QED BY <1>4, <1>5 DEF Gets

\* The choice of how to rotate keeps it.
LEMMA ChoosesRem ==
  ASSUME RotInv, RemInv, NEW w \in Workers, Chooses(w)
  PROVE  RemInv'
<1>1. /\ Calls(w) /\ sync.by = w /\ Stage = "choose" /\ sync.todo # << >>
      /\ Head(sync.todo) = "choose" /\ LocallyUnchanged /\ Spends
      /\ UNCHANGED <<remote>> /\ op[w].at # "done"
  BY DEF Chooses, Calls, Stage, Spends
<1>2. PICK k, todo, u, b, a, r : /\ k = Know(sync) /\ todo = sync.todo /\ u = sync.undo
                                 /\ b = Was /\ a = Will /\ r = remote
  OBVIOUS
<1>3. ~strayed => Claim(k, todo, u, b, a, r) /\ Stable(b, a, r) /\ Known(b, a, puts)
  BY <1>1, <1>2, CallClaims
<1>4. CASE Goes_(<<"commit">>) /\ UNCHANGED puts /\ (sync.read.sync = sync.new \/ disk.state = 0)
  <2>1. PICK d \in {b, a} : d.state = disk.state
    BY <1>2, ViewsOfDisk
  <2>2. ~strayed => k.read = k.new
    BY <1>2, <1>3, <1>4, <2>1 DEF Known, Know
  <2>3. ~strayed => Claim(k, Alone, u, b, a, r)
    BY <1>1, <1>2, <1>3, <2>2, ChooseClaims
  <2>4. Goes_(Alone)
    BY <1>4 DEF Alone
  <2> QED BY <1>1, <1>2, <1>4, <2>3, <2>4, GoesOnRem
<1>5. CASE Stops /\ UNCHANGED puts
  BY <1>1, <1>5, StopsRem
<1>6. CASE /\ puts' = puts + 1
           /\ sync' = [sync EXCEPT !.todo = FreshPlan, !.object = remote, !.sealed = puts + 1]
  <2>1. /\ sync.undo \in BOOLEAN
        /\ sync \in [by : {w}, todo : {sync.todo}, new : {sync.new}, read : {sync.read},
                     object : {sync.object}, sealed : {sync.sealed}, etag : {sync.etag},
                     undo : {sync.undo}]
    BY <1>1, SyncParts
  <2>2. PICK next, ob, se, et :
          next = Beginning /\ ob = remote /\ se = puts + 1 /\ et = sync.etag
    OBVIOUS
  <2>3. Changed(w, next, ob, se, et, u)
    BY <1>2, <1>6, <2>1, <2>2 DEF Changed, Beginning
  <2>4. PICK x : x = Know(sync')
    OBVIOUS
  <2>5. /\ sync' # NoSync /\ sync'.by = w /\ sync'.todo = next /\ sync'.undo = u
        /\ x = [read |-> sync.read.sync, new |-> sync.new, etagOf |-> ob.etag,
                cipherOf |-> ob.cipher, keyOf |-> ob.key, sealed |-> se, etag |-> et]
    BY <2>3, <2>4, KnowChanged
  <2>6. /\ remote \in Objs(puts) /\ puts \in Nat /\ puts' \in Nat /\ puts <= puts'
    BY <1>6 DEF RotInv, BucketOK
  <2>7. x.keyOf = r.key /\ x.sealed \notin {x.etagOf, x.cipherOf, 0}
    <3>1. ob.etag \in 1 .. puts /\ ob.cipher \in 1 .. puts /\ ob = r
      BY <1>2, <2>2, <2>6 DEF Objs
    <3>2. se \notin {ob.etag, ob.cipher, 0}
      BY <2>2, <2>6, <3>1
    <3> QED BY <2>5, <3>1, <3>2
  <2>8. ~strayed => Claim(x, next, u, b, a, r)
    BY <1>1, <1>2, <1>3, <2>2, <2>7, ChooseClaims
  <2>9. remote' = r
    BY <1>1, <1>2
  <2> QED BY <1>1, <1>2, <1>3, <2>1, <2>4, <2>5, <2>6, <2>8, <2>9, CallRem
<1> QED BY <1>4, <1>5, <1>6 DEF Chooses

\* Whatever has been put in the place of the object is put back, or nothing is left to do.
LEMMA AbandonsKnow ==
  ASSUME RotInv, NEW w \in Workers, sync.by = w, Abandons
  PROVE  /\ sync' # NoSync /\ sync'.by = w /\ sync'.undo = FALSE /\ Know(sync') = Know(sync)
         /\ sync'.todo = IF sync.undo THEN Undoes ELSE << >>
<1>1. /\ sync.undo \in BOOLEAN
      /\ sync \in [by : {w}, todo : {sync.todo}, new : {sync.new}, read : {sync.read},
                      object : {sync.object}, sealed : {sync.sealed}, etag : {sync.etag},
                      undo : {sync.undo}]
  BY SyncParts
<1>2. PICK next : next = IF sync.undo THEN Undoes ELSE << >>
  OBVIOUS
<1>3. sync' = [sync EXCEPT !.todo = next, !.undo = FALSE]
  BY <1>2 DEF Abandons, Undoes
<1>4. /\ sync'.by = w /\ sync'.todo = next /\ sync'.undo = FALSE /\ sync'.new = sync.new
      /\ sync'.read = sync.read /\ sync'.object = sync.object /\ sync'.sealed = sync.sealed
      /\ sync'.etag = sync.etag
  BY <1>1, <1>3
<1>5. sync' # NoSync
  BY <1>4, VaultAssumption DEF NoSync
<1>6. Know(sync') = Know(sync)
  BY <1>4 DEF Know
<1> QED BY <1>2, <1>4, <1>5, <1>6

\* A commit of the key that is refused keeps it.
LEMMA CommitsNoKeyRem ==
  ASSUME RotInv, RemInv, NEW w \in Workers, CommitsNoKey(w)
  PROVE  RemInv'
<1>1. /\ Calls(w) /\ sync.by = w /\ LocallyUnchanged /\ Spends /\ Abandons
      /\ UNCHANGED <<remote, puts>> /\ op[w].at # "done"
  BY DEF CommitsNoKey, Calls, Spends
<1>2. PICK k, todo, u, b, a, r, next :
        /\ k = Know(sync) /\ todo = sync.todo /\ u = sync.undo /\ b = Was /\ a = Will /\ r = remote
        /\ next = IF sync.undo THEN Undoes ELSE << >>
  OBVIOUS
<1>3. ~strayed => Claim(k, todo, u, b, a, r) /\ Stable(b, a, r)
  BY <1>1, <1>2, CallClaims
<1>4. ~strayed => Claim(k, next, FALSE, b, a, r)
  BY <1>2, <1>3, AbandonClaims
<1>5. /\ sync' # NoSync /\ sync'.by = w /\ sync'.undo = FALSE /\ Know(sync') = k
      /\ sync'.todo = next
  BY <1>1, <1>2, AbandonsKnow
<1>6. puts' \in Nat /\ puts <= puts' /\ remote' = r /\ FALSE \in BOOLEAN
  BY <1>1, <1>2 DEF RotInv, BucketOK
<1> QED BY <1>1, <1>2, <1>3, <1>4, <1>5, <1>6, CallRem

\* A conditional PUT, by what each of its outcomes leaves the operation to rely on.
LEMMA PutsRem ==
  ASSUME RotInv, RemInv, NEW w \in Workers, Calls(w), LocallyUnchanged, sync.todo # << >>,
         puts' \in Nat, puts <= puts', NEW object, NEW match, NEW undo \in BOOLEAN, NEW refused,
         Puts(w, object, match, undo, refused), left' = left => Spends,
         ~strayed =>
           /\ Stable(Was, Will, remote) /\ Claim(Know(sync), refused, sync.undo, Was, Will, remote)
           /\ Claim(Know(sync), << >>, sync.undo, Was, Will, remote),
         ~strayed /\ remote.etag = match =>
           /\ Stable(Was, Will, object) /\ Claim(Know(sync), << >>, sync.undo, Was, Will, object)
           /\ \A x : x.etag = object.etag /\ x.new = sync.new /\ x.keyOf = sync.object.key
                       /\ x.etagOf = sync.object.etag /\ x.cipherOf = sync.object.cipher =>
                Claim(x, Tail(sync.todo), undo, Was, Will, object)
  PROVE  RemInv'
<1>0. sync.by = w /\ Spends
  BY DEF Calls, Puts, Spend, Spends
<1> PICK k, todo, u, b, a, r : /\ k = Know(sync) /\ todo = sync.todo /\ u = sync.undo
                               /\ b = Was /\ a = Will /\ r = remote
  OBVIOUS
<1>1. /\ sync.undo \in BOOLEAN
      /\ sync \in [by : {w}, todo : {sync.todo}, new : {sync.new}, read : {sync.read},
                   object : {sync.object}, sealed : {sync.sealed}, etag : {sync.etag},
                   undo : {sync.undo}]
  BY <1>0, SyncParts
<1>2. ASSUME NEW next, Goes_(next), NEW q, remote' = q,
             ~strayed => Stable(b, a, q) /\ Claim(k, next, u, b, a, q)
      PROVE  RemInv'
  <2>1. /\ sync' # NoSync /\ sync'.by = w /\ sync'.todo = next /\ sync'.undo = u
        /\ Know(sync') = k /\ u \in BOOLEAN
    BY <1>0, <1>2, GoesKnow
  <2> QED BY <1>0, <1>2, <2>1, CallRem
<1>3. CASE Goes_(refused) /\ remote' = remote
  BY <1>2, <1>3
<1>4. CASE /\ remote.etag = match /\ remote' = object
           /\ sync' = [sync EXCEPT !.todo = Tail(@), !.etag = object.etag, !.undo = undo]
  <2>1. PICK next, ob, se, et :
          next = Tail(todo) /\ ob = sync.object /\ se = sync.sealed /\ et = object.etag
    OBVIOUS
  <2>2. Changed(w, next, ob, se, et, undo)
    BY <1>1, <1>4, <2>1 DEF Changed
  <2>3. PICK x : x = Know(sync')
    OBVIOUS
  <2>4. /\ sync' # NoSync /\ sync'.by = w /\ sync'.todo = next /\ sync'.undo = undo
        /\ x = [read |-> sync.read.sync, new |-> sync.new, etagOf |-> ob.etag,
                cipherOf |-> ob.cipher, keyOf |-> ob.key, sealed |-> se, etag |-> et]
    BY <2>2, <2>3, KnowChanged
  <2>6. /\ x.etag = object.etag /\ x.new = sync.new /\ x.keyOf = sync.object.key
        /\ x.etagOf = sync.object.etag /\ x.cipherOf = sync.object.cipher
    BY <2>1, <2>4
  <2>7. ~strayed => Stable(b, a, object) /\ Claim(x, next, undo, b, a, object)
    BY <1>4, <2>1, <2>6
  <2> QED BY <1>0, <1>4, <2>3, <2>4, <2>7, CallRem
<1>5. CASE Stops /\ remote' = remote
  BY <1>2, <1>5 DEF Stops
<1>6. CASE Stops /\ remote.etag = match /\ remote' = object
  BY <1>2, <1>6 DEF Stops
<1> QED BY <1>3, <1>4, <1>5, <1>6 DEF Puts

\* The PUT of the re-sealed object keeps it: the journal is there before the object is.
LEMMA PutsResealedRem ==
  ASSUME RotInv, RemInv, NEW w \in Workers, PutsResealed(w)
  PROVE  RemInv'
<1>1. /\ Calls(w) /\ sync.by = w /\ Stage = "put" /\ sync.todo # << >>
      /\ Head(sync.todo) = "put" /\ LocallyUnchanged
      /\ UNCHANGED <<puts>> /\ op[w].at # "done"
  BY DEF PutsResealed, Calls, Stage
<1>2. PICK k, todo, u, b, a, r : /\ k = Know(sync) /\ todo = sync.todo /\ u = sync.undo
                                 /\ b = Was /\ a = Will /\ r = remote
  OBVIOUS
<1>3. ~strayed => Claim(k, todo, u, b, a, r) /\ Stable(b, a, r)
  BY <1>1, <1>2, CallClaims
<1>4. PICK q, match : q = Object(sync.sealed, sync.sealed, sync.new) /\ match = sync.object.etag
  OBVIOUS
<1>5. Puts(w, q, match, TRUE, Clearing)
  BY <1>4 DEF PutsResealed, Clearing
<1>6. q.etag = k.sealed /\ q.cipher = k.sealed /\ q.key = k.new
  BY <1>2, <1>4 DEF Object, Know
<1>7. ~strayed =>
        /\ Claim(k, Clearing, u, b, a, r) /\ Stable(b, a, q) /\ Claim(k, << >>, u, b, a, q)
        /\ \A x : x.etag = q.etag /\ x.new = k.new /\ x.keyOf = k.keyOf /\ x.etagOf = k.etagOf
                    /\ x.cipherOf = k.cipherOf =>
             Claim(x, Tail(todo), TRUE, b, a, q)
  BY <1>1, <1>2, <1>3, <1>6, PutClaims
<1>8. ~strayed => Claim(k, << >>, u, b, a, r)
  BY <1>1, <1>2, <1>3, Unbound
<1>9. puts' \in Nat /\ puts <= puts' /\ (left' = left => Spends)
  BY <1>1 DEF RotInv, BucketOK, Spends
<1>10. /\ k.new = sync.new /\ k.keyOf = sync.object.key /\ k.etagOf = sync.object.etag
       /\ k.cipherOf = sync.object.cipher
  BY <1>2 DEF Know
<1>11. ~strayed =>
         /\ Stable(Was, Will, remote) /\ Claim(Know(sync), Clearing, sync.undo, Was, Will, remote)
         /\ Claim(Know(sync), << >>, sync.undo, Was, Will, remote)
  BY <1>2, <1>3, <1>7, <1>8
<1>12. ~strayed =>
         /\ Stable(Was, Will, q) /\ Claim(Know(sync), << >>, sync.undo, Was, Will, q)
         /\ \A x : x.etag = q.etag /\ x.new = sync.new /\ x.keyOf = sync.object.key
                     /\ x.etagOf = sync.object.etag /\ x.cipherOf = sync.object.cipher =>
              Claim(x, Tail(sync.todo), TRUE, Was, Will, q)
  BY <1>2, <1>7, <1>10
<1> QED BY <1>1, <1>5, <1>9, <1>11, <1>12, PutsRem

\* The PUT that undoes it keeps it: the settings still have the old key.
LEMMA PutsBackRem ==
  ASSUME RotInv, RemInv, NEW w \in Workers, PutsBack(w)
  PROVE  RemInv'
<1>1. /\ Calls(w) /\ sync.by = w /\ Stage = "undo" /\ sync.todo # << >>
      /\ Head(sync.todo) = "undo" /\ LocallyUnchanged /\ op[w].at # "done"
  BY DEF PutsBack, Calls, Stage
<1>2. PICK k, todo, u, b, a, r, match :
        /\ k = Know(sync) /\ todo = sync.todo /\ u = sync.undo
        /\ b = Was /\ a = Will /\ r = remote /\ match = sync.etag
  OBVIOUS
<1>3. ~strayed => Claim(k, todo, u, b, a, r) /\ Stable(b, a, r)
  BY <1>1, <1>2, CallClaims
<1>4. sync.object \in Objs(puts) /\ puts \in Nat
  BY <1>1, SyncParts DEF RotInv, BucketOK
<1>5. PICK q : /\ q = sync.object \/ q = [sync.object EXCEPT !.etag = puts + 1]
               /\ Puts(w, q, match, FALSE, << >>)
  BY <1>2 DEF PutsBack
<1>6. puts' \in Nat /\ puts <= puts' /\ (left' = left => Spends)
  <2>1. puts' = puts \/ puts' = puts + 1
    BY DEF PutsBack
  <2>2. left' = left => Spends
    BY DEF Spends
  <2> QED BY <1>4, <2>1, <2>2
<1>7. q.etag # 0 /\ q.key = k.keyOf
  BY <1>2, <1>4, <1>5 DEF Objs, Know
<1>8. ~strayed =>
        /\ Stable(b, a, q) /\ Claim(k, << >>, u, b, a, q)
        /\ \A x : x.etag = q.etag => Claim(x, Tail(todo), FALSE, b, a, q)
  BY <1>1, <1>2, <1>3, <1>7, UndoClaims
<1>9. ~strayed => Claim(k, << >>, u, b, a, r)
  BY <1>1, <1>2, <1>3, Unbound
<1>10. ~strayed =>
         /\ Stable(Was, Will, remote)
         /\ Claim(Know(sync), << >>, sync.undo, Was, Will, remote)
  BY <1>2, <1>3, <1>9
<1>11. ~strayed =>
         /\ Stable(Was, Will, q) /\ Claim(Know(sync), << >>, sync.undo, Was, Will, q)
         /\ \A x : x.etag = q.etag => Claim(x, Tail(sync.todo), FALSE, Was, Will, q)
  BY <1>2, <1>8
<1> QED BY <1>1, <1>5, <1>6, <1>10, <1>11, PutsRem

\* A push keeps it: the bucket takes the object only over the generation this machine knows.
LEMMA SendsRem ==
  ASSUME RotInv, RemInv, NEW w \in Workers, Sends(w)
  PROVE  RemInv'
<1>1. /\ Calls(w) /\ sync.by = w /\ Stage = "send" /\ sync.todo # << >>
      /\ Head(sync.todo) = "send" /\ LocallyUnchanged /\ puts' = puts + 1
      /\ op[w].at # "done"
  BY DEF Sends, Calls, Stage
<1>2. PICK k, todo, u, b, a, r, match :
        /\ k = Know(sync) /\ todo = sync.todo /\ u = sync.undo
        /\ b = Was /\ a = Will /\ r = remote /\ match = disk.state
  OBVIOUS
<1>3. ~strayed => Claim(k, todo, u, b, a, r) /\ Stable(b, a, r) /\ Known(b, a, puts)
  BY <1>1, <1>2, CallClaims
<1>4. PICK q : q = Object(puts + 1, puts + 1, sync.read.sync)
  OBVIOUS
<1>5. Puts(w, q, match, FALSE, << >>)
  BY <1>2, <1>4 DEF Sends
<1>6. q.etag = puts + 1 /\ q.cipher = puts + 1 /\ q.key = k.read
  BY <1>2, <1>4 DEF Object, Know
<1>7. puts \in Nat /\ puts' \in Nat /\ puts <= puts' /\ (left' = left => Spends)
  BY <1>1 DEF RotInv, BucketOK, Spends
<1>8. PICK d \in {b, a} : d.state = disk.state
  BY <1>2, ViewsOfDisk
<1>9. ASSUME ~strayed, remote.etag = match
      PROVE  /\ Stable(b, a, q) /\ Claim(k, << >>, u, b, a, q)
             /\ \A x : x.etag = q.etag => Claim(x, Tail(todo), FALSE, b, a, q)
  <2>1. d.state = r.etag
    BY <1>2, <1>8, <1>9
  <2>2. PICK p \in Nat : p = puts
    BY <1>7
  <2>3. q.etag = p + 1 /\ q.cipher = p + 1
    BY <1>6, <2>2
  <2>4. Stable(b, a, r) /\ Known(b, a, p) /\ Claim(k, todo, u, b, a, r) /\ todo # << >>
        /\ Head(todo) = "send"
    BY <1>1, <1>2, <1>3, <1>9, <2>2
  <2> QED BY <1>6, <2>1, <2>3, <2>4, SendClaims
<1>10. ~strayed => Claim(k, << >>, u, b, a, r)
  BY <1>1, <1>2, <1>3, Unbound
<1>11. ~strayed =>
         /\ Stable(Was, Will, remote)
         /\ Claim(Know(sync), << >>, sync.undo, Was, Will, remote)
  BY <1>2, <1>3, <1>10
<1>12. ~strayed /\ remote.etag = match =>
         /\ Stable(Was, Will, q) /\ Claim(Know(sync), << >>, sync.undo, Was, Will, q)
         /\ \A x : x.etag = q.etag => Claim(x, Tail(sync.todo), FALSE, Was, Will, q)
  BY <1>2, <1>9
<1> QED BY <1>1, <1>5, <1>7, <1>11, <1>12, PutsRem

\* Nothing that the promises speak of changes.
LEMMA PromisedSame ==
  ASSUME Promised, UNCHANGED <<sync, remote, puts, strayed>>, Was' = Was, Will' = Will,
         There' <=> There,
         sync # NoSync => (op'[sync.by].at = "done" <=> op[sync.by].at = "done")
  PROVE  Promised'
<1>1. sync # NoSync => Rest' = Rest /\ Undoing' = Undoing
  BY DEF Rest, Undoing, Stage
<1> QED BY <1>1 DEF Promised, Relies

\* The push of another machine keeps it.
LEMMA OtherPushRem ==
  ASSUME RotInv, RemInv, OtherPush
  PROVE  RemInv'
<1>1. /\ op' = op /\ UNCHANGED <<disk, record, sync, strayed>> /\ Spends /\ puts' = puts + 1
      /\ remote' = Object(puts + 1, puts + 1, remote.key)
  BY DEF OtherPush, storageVars, memoryVars, Spend, Spends
<1>2. Before' = Before /\ After' = After
  BY <1>1, StoreStays DEF RotInv, VaultInv, Shapes
<1>3. Was' = Was /\ Will' = Will /\ (There' <=> There)
  BY <1>2 DEF Was, Will, There
<1>4. \A v \in Workers : Keeps(v)
  BY <1>1 DEF Keeps
<1>5. NoRestores' /\ OpWrites' /\ OthersWrite'
  BY <1>1, <1>4, KeepsAll DEF RemInv
<1>6. Rotates'
  BY <1>1, <1>2, <1>3 DEF RemInv, Rotates
<1>7. Rest' = Rest /\ Undoing' = Undoing
  BY <1>1 DEF Rest, Undoing, Stage
<1>8. PICK b, a, r, q : b = Was /\ a = Will /\ r = remote /\ q = remote'
  OBVIOUS
<1>9. PICK k, rest, u : k = Know(sync) /\ rest = Rest /\ u = Undoing
  OBVIOUS
<1>10. PICK p \in Nat : p = puts
  BY DEF RotInv, BucketOK
<1>11. q.etag = p + 1 /\ q.cipher = p + 1 /\ q.key = r.key
  BY <1>1, <1>8, <1>10 DEF Object
<1>12. b.state \in 0 .. p /\ a.state \in 0 .. p
  <2>1. Before.state \in Nat /\ After.state \in Nat /\ Before.state <= puts /\ After.state <= puts
    BY AfterState, Settled, DiskTypes DEF RotInv, VaultInv, Shapes
  <2> QED BY <1>8, <1>10, <2>1 DEF Was, Will, View
<1>13. ASSUME There, ~strayed
       PROVE  /\ Known(b, a, p + 1) /\ Stable(b, a, q)
              /\ sync # NoSync => Claim(k, rest, u, b, a, q)
  <2>1. /\ Known(b, a, p) /\ Stable(b, a, r)
        /\ sync # NoSync => Claim(k, rest, u, b, a, r)
    BY <1>8, <1>9, <1>10, <1>13 DEF RemInv, Promised, Relies
  <2>2. Known(b, a, p + 1)
    <3>1. 0 .. p \subseteq 0 .. (p + 1)
      OBVIOUS
    <3> QED BY <2>1, <3>1 DEF Known
  <2>3. Stable(b, a, q)
    BY <1>11, <2>1, NextStable
  <2>4. sync # NoSync => Claim(k, rest, u, b, a, q)
    BY <1>11, <1>12, <2>1, OtherClaims
  <2> QED BY <2>2, <2>3, <2>4
<1>14. Promised'
  <2>1. ASSUME There, ~strayed
        PROVE  /\ Known(Was', Will', puts') /\ Stable(Was', Will', remote')
               /\ sync # NoSync => Claim(Know(sync'), Rest', Undoing', Was', Will', remote')
    BY <1>1, <1>3, <1>7, <1>8, <1>9, <1>10, <1>13, <2>1
  <2>2. ASSUME There, ~strayed, sync # NoSync PROVE op'[sync.by].at = "done" => Rest' # Undoes
    BY <1>1, <1>7, <2>2 DEF RemInv, Promised, Relies
  <2> QED BY <1>1, <1>3, <2>1, <2>2 DEF Promised, Relies
<1> QED BY <1>5, <1>6, <1>14 DEF RemInv

\* The operation asks for a write.
LEMMA WritesRem ==
  ASSUME RotInv, RemInv, NEW w \in Workers, Calls(w), UNCHANGED <<disk, record>>,
         UNCHANGED rotationVars, Spends, NEW e, NEW o, op' = [op EXCEPT ![w] = o],
         o.kind = "rotated", o.at = "commit", o.entries = <<e>>,
         sync.todo # << >>, Writes(sync, Stage, e)
  PROVE  RemInv'
<1>1. /\ sync.by = w /\ op[w].at = "call" /\ UNCHANGED <<sync, remote, puts, strayed>>
      /\ w \in DOMAIN op
  BY DEF Calls, rotationVars, RotInv, VaultInv, Shapes, OpsInv
<1>2. op'[w] = o /\ \A v \in Workers : v # w => op'[v] = op[v]
  BY <1>1
<1>3. Before' = Before /\ After' = After
  BY StoreStays DEF RotInv, VaultInv, Shapes
<1>4. Was' = Was /\ Will' = Will /\ (There' <=> There)
  BY <1>3 DEF Was, Will, There
<1>5. NoRestores'
  BY <1>2, KindsStay DEF RemInv, NoRestores
<1>6. OthersWrite'
  BY <1>1, <1>2, IdleSync DEF RemInv, OthersWrite
<1>7. OpWrites'
  <2>1. Stage' = Stage /\ sync' = sync /\ sync.by = w /\ op'[w] = o
    BY <1>1, <1>2 DEF Stage
  <2>2. Len(o.entries) = 1 /\ o.entries[1] = e
    OBVIOUS
  <2> QED BY <2>1, <2>2 DEF OpWrites
<1>8. Rotates'
  BY <1>1, <1>3, <1>4 DEF RemInv, Rotates
<1>9. Promised'
  BY <1>1, <1>2, <1>4, PromisedSame DEF RemInv
<1> QED BY <1>5, <1>6, <1>7, <1>8, <1>9 DEF RemInv

\* A write of the journal or of the state is asked for.
LEMMA CommitsRem ==
  ASSUME RotInv, RemInv, NEW w \in Workers, Commits(w)
  PROVE  RemInv'
<1> DEFINE o == [kind |-> "rotated", at |-> "commit", entries |-> <<LocalEntry>>,
                 candidate |-> Missing]
<1>1. /\ Calls(w) /\ UNCHANGED <<disk, record>> /\ UNCHANGED rotationVars /\ Spends
      /\ Stage \in {"prepare", "advance", "clear", "state"}
      /\ op' = [op EXCEPT ![w] = o]
  BY DEF Commits, Goes, storageVars, Spends
<1>2. sync.todo # << >>
  BY <1>1 DEF Stage
<1>3. PICK e : e = LocalEntry
  OBVIOUS
<1>4. Writes(sync, Stage, e)
  <2>1. ASSUME NEW phase \in {"prepared", "advanced"}
        PROVE  /\ Journal(phase) # NoJournal /\ Journal(phase).old = sync.object.etag
               /\ Journal(phase).oldCipher = sync.object.cipher
    <3>1. Journal(phase).phase = phase /\ NoJournal.phase = "none"
      BY DEF Journal, NoJournal
    <3> QED BY <3>1 DEF Journal
  <2>2. CASE Stage = "prepare"
    <3>1. e = Entry("journal", disk.journal, Journal("prepared"))
      BY <1>3, <2>2 DEF LocalEntry
    <3>2. e.file = "journal" /\ e.new = Journal("prepared")
      BY <3>1 DEF Entry
    <3> QED BY <2>1, <2>2, <3>2 DEF Writes
  <2>3. CASE Stage = "advance"
    <3>1. e = Entry("journal", disk.journal, Journal("advanced"))
      BY <1>3, <2>3 DEF LocalEntry
    <3>2. e.file = "journal" /\ e.new = Journal("advanced")
      BY <3>1 DEF Entry
    <3> QED BY <2>1, <2>3, <3>2 DEF Writes
  <2>4. CASE Stage = "clear"
    <3>1. e = Entry("journal", disk.journal, NoJournal)
      BY <1>3, <2>4 DEF LocalEntry
    <3> QED BY <2>4, <3>1 DEF Writes, Entry
  <2>5. CASE Stage = "state"
    <3>1. e = Entry("state", disk.state, sync.etag)
      BY <1>3, <2>5 DEF LocalEntry
    <3> QED BY <2>5, <3>1 DEF Writes, Entry
  <2> QED BY <1>1, <2>2, <2>3, <2>4, <2>5
<1>5. o.kind = "rotated" /\ o.at = "commit" /\ o.entries = <<e>>
  BY <1>3
<1> HIDE DEF o
<1> QED BY <1>1, <1>2, <1>4, <1>5, WritesRem

\* The commit of the key is asked for.
LEMMA CommitsKeyRem ==
  ASSUME RotInv, RemInv, NEW w \in Workers, CommitsKey(w)
  PROVE  RemInv'
<1> DEFINE body == [sync.read EXCEPT !.sync = sync.new]
           new == Sealed(vault.key, body)
           e == Entry("settings", disk.settings, new)
           o == [kind |-> "rotated", at |-> "commit", entries |-> <<e>>, candidate |-> Missing]
<1>1. /\ Calls(w) /\ UNCHANGED <<disk, record>> /\ UNCHANGED rotationVars /\ Spends
      /\ Stage = "commit" /\ disk.settings.body = sync.read /\ op' = [op EXCEPT ![w] = o]
      /\ vault # Closed /\ disk.settings.key = vault.key
  BY DEF CommitsKey, WriteSettings, Goes, storageVars, Spends
<1>2. sync.todo # << >>
  BY <1>1 DEF Stage
<1>3. vault.key # 0
  BY <1>1 DEF RotInv, VaultInv, Shapes, VaultContents, Closed
<1>4. disk.settings # Missing /\ new # Missing
  BY <1>1, <1>3, MissingIn DEF Sealed
<1>5. sync.read \in SettingsBodies
  BY <1>1, SyncParts DEF Calls
<1>6. body.sync = sync.new /\ new.body = body
  BY <1>5 DEF SettingsBodies, Sealed
<1>7. SyncIn(disk.settings) = sync.read.sync /\ SyncIn(new) = sync.new
  BY <1>1, <1>4, <1>6 DEF SyncIn
<1> HIDE DEF new
<1>8. e.file = "settings" /\ e.old = disk.settings /\ e.new = new
  BY DEF Entry
<1> HIDE DEF e
<1>9. Writes(sync, Stage, e)
  BY <1>1, <1>4, <1>7, <1>8 DEF Writes
<1>10. o.kind = "rotated" /\ o.at = "commit" /\ o.entries = <<e>>
  OBVIOUS
<1> HIDE DEF o
<1> QED BY <1>1, <1>2, <1>9, <1>10, WritesRem

\* An operation begins, with the settings as it finds them.
LEMMA OperatesRem ==
  ASSUME RotInv, RemInv, NEW w \in Workers, NEW kind, NEW new,
         NEW todo \in {Asking, Fetching, Pushing}, Operates(w, kind, new, todo)
  PROVE  RemInv'
<1>1. /\ UNCHANGED <<disk, record, remote, puts, strayed>> /\ Spends /\ sync = NoSync
      /\ op' = [op EXCEPT ![w] = Called] /\ vault # Closed /\ disk.settings.key = vault.key
      /\ sync' = [by |-> w, todo |-> todo, new |-> new, read |-> disk.settings.body,
                  object |-> remote, sealed |-> 0, etag |-> 0, undo |-> FALSE]
      /\ \A v \in Workers : op[v].kind # "pull"
  BY DEF Operates, Asks, Spend, Spends, storageVars, Called
<1>2. /\ sync'.by = w /\ sync'.todo = todo /\ sync'.undo = FALSE
      /\ sync'.read = disk.settings.body /\ sync' # NoSync
  BY <1>1, VaultAssumption DEF NoSync
<1>3. /\ op'[w] = Called /\ Called.kind = "rotated" /\ Called.at = "call"
      /\ \A v \in Workers : v # w => op'[v] = op[v]
  BY <1>1, CalledShape DEF RotInv, VaultInv, Shapes, OpsInv
<1>4. Before' = Before /\ After' = After
  BY <1>1, StoreStays DEF RotInv, VaultInv, Shapes
<1>5. Was' = Was /\ Will' = Will /\ (There' <=> There)
  BY <1>4 DEF Was, Will, There
<1>6. disk.settings # Missing /\ disk["settings"] \in {Before["settings"], After["settings"]}
  <2>1. vault.key # 0
    BY <1>1 DEF RotInv, VaultInv, Shapes, VaultContents, Closed
  <2> QED BY <1>1, <2>1, MissingIn, Settled DEF RotInv, VaultInv, Shapes, Names
<1>7. There
  BY <1>6 DEF RemInv, Rotates, There
<1>8. NoRestores'
  BY <1>1, <1>3, KindsStay DEF RemInv, NoRestores
<1>9. OthersWrite'
  BY <1>1, <1>3, IdleSync DEF RemInv, OthersWrite
<1>10. OpWrites'
  BY <1>2, <1>3 DEF OpWrites
<1>11. Rotates'
  BY <1>1, <1>4, <1>5, <1>7 DEF RemInv, Rotates
<1>12. Rest' = todo /\ Undoing' = FALSE
  BY <1>2, <1>3 DEF Rest, Undoing
<1>13. PICK k, b, a, r : k = Know(sync') /\ b = Was /\ a = Will /\ r = remote
  OBVIOUS
<1>14. k.read \in {b.sync, a.sync}
  BY <1>2, <1>6, <1>13 DEF Know, Was, Will, View, SyncIn
<1>15. ASSUME ~strayed
       PROVE  Known(b, a, puts) /\ Stable(b, a, r) /\ Claim(k, todo, FALSE, b, a, r)
  <2>1. Known(b, a, puts) /\ Stable(b, a, r)
    BY <1>7, <1>13, <1>15 DEF RemInv, Promised
  <2>2. k.read = b.sync \/ Stuck(b, a)
    BY <1>14, <2>1 DEF Stable
  <2> QED BY <2>1, <2>2 DEF Claim
<1>16. Promised'
  BY <1>1, <1>3, <1>2, <1>5, <1>12, <1>13, <1>15 DEF Promised, Relies
<1> QED BY <1>8, <1>9, <1>10, <1>11, <1>16 DEF RemInv

\* The operation goes on after a write, or undoes the PUT.
LEMMA ContinuesRem ==
  ASSUME RotInv, RemInv, NEW w \in Workers, Continues(w)
  PROVE  RemInv'
<1>1. /\ UNCHANGED <<disk, record, remote, puts, strayed>> /\ Spends
      /\ op' = [op EXCEPT ![w] = Called] /\ sync.by = w /\ op[w].at \in {"done", "failed"}
  BY DEF Continues, Spends, storageVars, Called
<1>2. /\ op'[w] = Called /\ Called.kind = "rotated" /\ Called.at = "call"
      /\ \A v \in Workers : v # w => op'[v] = op[v]
  BY <1>1, CalledShape DEF RotInv, VaultInv, Shapes, OpsInv
<1>3. Before' = Before /\ After' = After
  BY <1>1, StoreStays DEF RotInv, VaultInv, Shapes
<1>4. Was' = Was /\ Will' = Will /\ (There' <=> There)
  BY <1>3 DEF Was, Will, There
<1>5. /\ sync # NoSync /\ There
      /\ sync.undo \in BOOLEAN
      /\ sync \in [by : {w}, todo : {sync.todo}, new : {sync.new}, read : {sync.read},
                   object : {sync.object}, sealed : {sync.sealed}, etag : {sync.etag},
                   undo : {sync.undo}]
  BY <1>1, SyncParts DEF RemInv, Rotates
<1>6. NoRestores'
  BY <1>1, <1>2, KindsStay DEF RemInv, NoRestores
<1>7. PICK k, b, a, r : k = Know(sync) /\ b = Was /\ a = Will /\ r = remote
  OBVIOUS
<1>8. ~strayed => Known(b, a, puts) /\ Stable(b, a, r)
  BY <1>5, <1>7 DEF RemInv, Promised
<1>9. PICK rest, u :
        /\ u \in BOOLEAN /\ sync' # NoSync /\ sync'.by = w /\ sync'.todo = rest /\ sync'.undo = u
        /\ Know(sync') = k
        /\ ~strayed => Claim(k, rest, u, b, a, r)
  <2>1. CASE op[w].at = "done"
    <3>1. PICK rest, u : rest = Tail(sync.todo) /\ u = (sync.undo /\ Stage # "commit")
      OBVIOUS
    <3>2. sync' = [sync EXCEPT !.todo = rest, !.undo = u]
      BY <2>1, <3>1 DEF Continues
    <3>3. /\ sync'.by = w /\ sync'.todo = rest /\ sync'.undo = u /\ sync'.new = sync.new
          /\ sync'.read = sync.read /\ sync'.object = sync.object /\ sync'.sealed = sync.sealed
          /\ sync'.etag = sync.etag
      BY <1>5, <3>2
    <3>4. Know(sync') = k /\ sync' # NoSync /\ u \in BOOLEAN
      BY <1>5, <1>7, <3>1, <3>3, VaultAssumption DEF Know, NoSync
    <3>5. Rest = rest /\ Undoing = u
      BY <1>1, <2>1, <3>1 DEF Rest, Undoing
    <3>6. ~strayed => Claim(k, rest, u, b, a, r)
      BY <1>5, <1>7, <3>5 DEF RemInv, Promised, Relies
    <3> QED BY <3>3, <3>4, <3>6
  <2>2. CASE op[w].at = "failed"
    <3>1. Abandons
      BY <2>2 DEF Continues
    <3>2. PICK rest : rest = IF sync.undo THEN Undoes ELSE << >>
      OBVIOUS
    <3>3. /\ sync' # NoSync /\ sync'.by = w /\ sync'.undo = FALSE /\ Know(sync') = k
          /\ sync'.todo = rest
      BY <1>1, <1>7, <3>1, <3>2, AbandonsKnow
    <3>4. PICK todo, u : todo = sync.todo /\ u = sync.undo
      OBVIOUS
    <3>5. ~strayed => Claim(k, todo, u, b, a, r)
      BY <1>1, <1>7, <2>2, <3>4, CallClaims
    <3>6. ~strayed => Claim(k, rest, FALSE, b, a, r)
      BY <3>2, <3>4, <3>5, AbandonClaims
    <3> QED BY <3>3, <3>6
  <2> QED BY <1>1, <2>1, <2>2
<1>10. OthersWrite'
  BY <1>2, <1>5, IdleSync DEF RemInv, OthersWrite
<1>11. OpWrites'
  BY <1>2, <1>9 DEF OpWrites
<1>12. Rotates'
  BY <1>1, <1>3, <1>4, <1>5 DEF RemInv, Rotates
<1>13. Rest' = rest /\ Undoing' = u
  BY <1>2, <1>9 DEF Rest, Undoing
<1>14. Promised'
  BY <1>1, <1>2, <1>4, <1>7, <1>8, <1>9, <1>13 DEF Promised, Relies
<1> QED BY <1>6, <1>10, <1>11, <1>12, <1>14 DEF RemInv

\* The operation is over.
LEMMA AnswersRem ==
  ASSUME RotInv, RemInv, NEW w \in Workers, Answers(w)
  PROVE  RemInv'
<1>1. /\ UNCHANGED <<disk, record, remote, puts, strayed>> /\ Spends /\ sync' = NoSync
      /\ op' = [op EXCEPT ![w] = Idle]
  BY DEF Answers, Spends, storageVars
<1>2. op'[w].kind = "none" /\ \A v \in Workers : v # w => op'[v] = op[v]
  BY <1>1, IdleShape DEF RotInv, VaultInv, Shapes, OpsInv
<1>3. Before' = Before /\ After' = After
  BY <1>1, StoreStays DEF RotInv, VaultInv, Shapes
<1>4. Was' = Was /\ Will' = Will /\ (There' <=> There)
  BY <1>3 DEF Was, Will, There
<1>5. NoRestores'
  BY <1>1, <1>2, KindsStay DEF RemInv, NoRestores
<1>6. OthersWrite' /\ OpWrites'
  BY <1>1, <1>2, IdleSync DEF RemInv, OthersWrite, OpWrites
<1>7. Rotates'
  BY <1>1, <1>3, <1>4 DEF RemInv, Rotates
<1>8. Promised'
  BY <1>1, <1>4 DEF RemInv, Promised
<1> QED BY <1>5, <1>6, <1>7, <1>8 DEF RemInv

\* A pull that brings a vault keeps the promise.
LEMMA PullsRem ==
  ASSUME RotInv, RemInv, NEW w \in Workers, PullsFiles(w)
  PROVE  RemInv'
<1>1. /\ sync = NoSync /\ Pull(w, remote.etag) /\ UNCHANGED rotationVars
      /\ remote.etag \in Nat /\ remote.etag # 0 /\ VaultInv
  BY DEF PullsFiles, RotInv, BucketOK, Objs
<1>2. /\ NoNews(w) /\ op[w].kind = "none" /\ op'[w].kind = "pull"
      /\ \A i \in DOMAIN op'[w].entries :
           op'[w].entries[i].file = "state" => op'[w].entries[i].new = remote.etag
  BY <1>1, PullEffect
<1>3. KeepsSync(op'[w])
  BY <1>1, <1>2 DEF KeepsSync
<1>4. Spends
  BY <1>1 DEF Pull, Asks, Spend, Spends
<1>5. OthersStay(w) /\ UNCHANGED <<disk, record>>
  BY <1>2 DEF NoNews
<1> QED BY <1>1, <1>2, <1>3, <1>4, <1>5, QuietRequest

\* Every step keeps the promise,
LEMMA NextRem ==
  ASSUME RotInv, RemInv, Next
  PROVE  RemInv'
<1>1. CASE VaultStep /\ UNCHANGED rotationVars
  BY <1>1, VaultStepRem
<1>2. ASSUME NEW w \in Workers, Rotation(w) PROVE RemInv'
  <2>1. ASSUME NEW new \in SyncKeys, ReplaceKey(w, new) PROVE RemInv'
    BY <2>1, OperatesRem DEF ReplaceKey, Asking
  <2>2. CASE Push(w)
    BY <2>2, OperatesRem DEF Push, Pushing
  <2>3. CASE Fetch(w)
    BY <2>3, OperatesRem DEF Fetch, Fetching
  <2> QED BY <1>2, <2>1, <2>2, <2>3, PullsRem, ResolveRem, EnsureRem, ChoosesRem, GetsRem,
             PutsResealedRem, PutsBackRem, SendsRem, CommitsRem, CommitsKeyRem, CommitsNoKeyRem,
             ContinuesRem, AnswersRem DEF Rotation
<1>3. ASSUME NEW w \in Workers, NEW action, Recovers(w, action) PROVE RemInv'
  BY <1>3, RecoversRem
<1>4. CASE OtherPush
  BY <1>4, OtherPushRem
<1>5. CASE Killed
  BY <1>5, KilledRem
<1> QED BY <1>1, <1>2, <1>3, <1>4, <1>5 DEF Next

\* and so does no step.
LEMMA StutterRem ==
  ASSUME RotInv, RemInv, UNCHANGED vars
  PROVE  RemInv'
<1>1. op' = op /\ UNCHANGED <<disk, record>> /\ left' = left /\ UNCHANGED rotationVars
  BY DEF vars, vaultVars, storageVars, memoryVars
<1> QED BY <1>1, MemoryRem DEF Spends

\* A machine that has synchronised, with key 1, or that has no settings yet.
SyncedStart(files, first) ==
  /\ Started(files, first) /\ files.journal = NoJournal
  /\ files.settings # Missing => files.state # 0 /\ files.settings.body.sync = 1

\* Such a machine starts with the key that opens the live object.
LEMMA InitRem ==
  ASSUME NEW files, NEW first, NEW bounds, SyncedStart(files, first),
         "kinds" \in DOMAIN bounds, "restore" \notin bounds.kinds,
         RotationInit(files, first, bounds)
  PROVE  RotInv /\ RemInv
<1>1. RotInv /\ Now = files
  BY InitRot DEF SyncedStart
<1>2. /\ record = NoRecord /\ op = [w \in Workers |-> Idle] /\ left = bounds /\ disk = files
      /\ remote = Object(1, 1, 1) /\ puts = 1 /\ sync = NoSync
  BY DEF RotationInit, VaultInit
<1>3. Before = files /\ After = files
  BY <1>1, <1>2, Settled DEF RotInv, VaultInv, Shapes
<1>4. NoRestores
  BY <1>2, IdleShape DEF NoRestores
<1>5. OpWrites
  BY <1>2 DEF OpWrites
<1>6. OthersWrite
  <2>1. Idle.kind \notin {"pull", "settings"}
    BY IdleShape
  <2> QED BY <1>2, <2>1, IdleSync DEF OthersWrite
<1>7. Rotates
  BY <1>2, <1>3 DEF Rotates, Was, Will, View
<1>8. Promised
  <2> SUFFICES ASSUME There PROVE Known(Was, Will, puts) /\ Stable(Was, Will, remote)
    BY <1>2 DEF Promised
  <2>1. files.settings # Missing
    BY <1>3 DEF There
  <2>2. files.state # 0 /\ files.settings.body.sync = 1 /\ files.journal = NoJournal
    BY <2>1 DEF SyncedStart
  <2>3. Was = Will /\ Was.sync = 1 /\ Was.journal = NoJournal /\ Was.state # 0
    BY <1>3, <2>1, <2>2 DEF Was, Will, View, SyncIn
  <2>4. remote.key = 1
    BY <1>2 DEF Object
  <2>5. Known(Was, Will, puts)
    BY <2>3 DEF Known
  <2>6. Stable(Was, Will, remote)
    BY <2>3, <2>4 DEF Stable, Same
  <2> QED BY <2>5, <2>6
<1> QED BY <1>1, <1>4, <1>5, <1>6, <1>7, <1>8 DEF RemInv

\* At rest the promise is what RemoteOpens says.
LEMMA RemInvOpens ==
  ASSUME RotInv, RemInv
  PROVE  RemoteOpens
<1> SUFFICES ASSUME Quiet, disk.journal = NoJournal, disk.settings # Missing, ~strayed
             PROVE  disk.settings.body.sync = remote.key
  BY DEF RemoteOpens
<1>1. Before = disk /\ After = disk
  BY Settled DEF Quiet, RotInv, VaultInv, Shapes
<1>2. Stable(Was, Will, remote)
  BY <1>1 DEF RemInv, Promised, There
<1>3. Was.journal = NoJournal /\ Was.sync = disk.settings.body.sync
  BY <1>1 DEF Was, View, SyncIn
<1> QED BY <1>2, <1>3 DEF Stable, Same

\* RemoteOpens: at rest, with no journal, the sync key in the settings opens the live object,
\* whatever write failed, whichever answer was lost, whenever the engine was killed, and
\* whatever was edited or pushed meanwhile (replaceKey and rollback of rekey.go).  A restore of
\* the settings file brings back whatever sync key it had, so none is among the requests.
THEOREM RotationKeepsRemote ==
  ASSUME NEW files, NEW first, NEW bounds, SyncedStart(files, first),
         "kinds" \in DOMAIN bounds, "restore" \notin bounds.kinds
  PROVE  RotationSpec(files, first, bounds) => []RemoteOpens
<1>1. RotationInit(files, first, bounds) => RotInv /\ RemInv
  BY InitRem
<1>2. RotInv /\ RemInv /\ [Next]_vars => RotInv' /\ RemInv'
  <2>1. CASE Next
    BY <2>1, NextRot, NextRem
  <2>2. CASE UNCHANGED vars
    BY <2>2, StutterRot, StutterRem
  <2> QED BY <2>1, <2>2
<1>3. RotInv /\ RemInv => RemoteOpens
  BY RemInvOpens
<1> QED BY <1>1, <1>2, <1>3, PTL DEF RotationSpec
=============================================================================
