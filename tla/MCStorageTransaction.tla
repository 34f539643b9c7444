----------------------- MODULE MCStorageTransaction -----------------------
(* Small workspaces and requests for TLC. *)
EXTENDS StorageTransaction, TLC

ProcSymmetry == Permutations(Proc)

\* a, b at the root (config, metadata), k and l in the group directory d.
MCFile   == {"a", "b", "k"}
MCDir    == {"d"}
MCParent == [f \in MCFile |-> IF f = "k" THEN "d" ELSE "root"]

It(action, path, target, keep, same) ==
  [action |-> action, path |-> path, target |-> target, keep |-> keep, same |-> same]
Wr(f)     == It("write", f, f, TRUE, FALSE)
WrSame(f) == It("write", f, f, TRUE, TRUE)
WrBare(f) == It("write", f, f, FALSE, FALSE)
Mv(f, g)  == It("move", f, g, TRUE, FALSE)
Rm(f)     == It("remove", f, f, TRUE, FALSE)
RmBare(f) == It("remove", f, f, FALSE, FALSE)
Mk(d)     == It("mkdir", d, d, TRUE, FALSE)
RmDir(d)  == It("rmdir", d, d, TRUE, FALSE)
Req(mode, items) == [mode |-> mode, items |-> items]

\* Saving two documents; metadata is rewritten even when it does not change.
SaveRequests == {Req("plain", <<Wr("a"), Wr("b")>>), Req("plain", <<Wr("a"), WrSame("b")>>)}

\* A key moved into a new group, and a group removed with a key in it.
GroupRequests == {Req("plain", <<Mk("d"), Wr("a"), Mv("b", "k")>>),
                  Req("plain", <<Wr("a"), Rm("k"), RmDir("d")>>)}

BareRequests == {Req("plain", <<WrBare("a"), RmBare("b")>>)}

\* The last of these is refused: it could not be put back.
AtomicRequests == {Req("atomic", <<Wr("a"), Wr("b")>>), Req("atomic", <<Mk("d"), Wr("k")>>),
                   Req("atomic", <<WrSame("a"), Wr("b")>>), Req("atomic", <<WrBare("a"), Wr("b")>>)}

\* Every encrypted document sealed again; the second is refused.
RekeyRequests == {Req("discard", <<Wr("a"), Wr("b")>>), Req("discard", <<Wr("a"), Rm("b")>>)}

AllRequests == SaveRequests \cup GroupRequests \cup BareRequests \cup AtomicRequests \cup RekeyRequests

RecoveryRequests == {Req("discard", <<Wr("a"), Wr("b")>>),
                     Req("plain", <<Mk("d"), Wr("a"), Mv("b", "k")>>),
                     Req("plain", <<Wr("a"), Rm("k"), RmDir("d")>>),
                     Req("atomic", <<Wr("a"), Wr("b")>>)}

\* A key and its passphrase assignment moved together.
AtomicMoveRequests == {Req("atomic", <<Wr("a"), Mv("b", "k")>>)}
=============================================================================
