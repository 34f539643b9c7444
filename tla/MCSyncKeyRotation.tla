--------------------------- MODULE MCSyncKeyRotation ---------------------------
(***************************************************************************)
(* The vault and the rotation of the sync key, in the scenarios that the   *)
(* run vault_keys checks.                                                  *)
(***************************************************************************)
EXTENDS SyncKeyRotation

\* The files of a machine whose vault has this key (0: it has none), with a kept
\* generation of each of the older ones; generation 1 of the bucket is its own.
Files(key, older) ==
    [vault |-> Sealed(key, {}), local |-> LocalFor(key), config |-> Plain,
     settings |-> IF key = 0 THEN Missing ELSE Sealed(key, [region |-> 0, sync |-> 1]),
     library |-> Sealed(key, {}),
     state |-> IF key = 0 THEN 0 ELSE 1, journal |-> NoJournal,
     backups |-> {[file |-> f, outer |-> key,
                   was |-> Sealed(key, IF f = "vault" THEN Secrets ELSE {})] : f \in older}]

Bounds(kinds, requests, idles, faults, crashes, others) ==
    [kinds |-> kinds, requests |-> requests, idles |-> idles, faults |-> faults,
     crashes |-> crashes, others |-> others]

VaultKinds == {"save", "rekey", "settings", "config", "restore", "pull", "library"}

Init ==
    \* The first vault, with or without a password.
    \/ RotationInit(Files(0, {}), Closed, Bounds({"initialise", "save"}, 2, 1, 2, 1, 0))
    \* Any two requests, through one failure, one idle lock and one crash.
    \/ \E key \in {1, -1} :
          RotationInit(Files(key, {"vault"}), Sealed(key, {}),
                       Bounds(VaultKinds, 2, 1, 1, 1, 0))
    \* Any three requests where nothing fails.
    \/ \E key \in {1, -1} :
          RotationInit(Files(key, {"library"}), Sealed(key, {}),
                       Bounds(VaultKinds, 3, 0, 0, 0, 0))
    \* Three requests on the vault itself.
    \/ \E key \in {1, -1} :
          RotationInit(Files(key, {"vault"}), Sealed(key, {}),
                       Bounds({"save", "restore", "rekey"}, 3, 0, 1, 1, 0))
    \* A rotation next to edits of the settings and a change of the password.
    \/ RotationInit(Files(1, {}), Sealed(1, {}),
                    Bounds({"rotate", "settings", "rekey"}, 2, 1, 2, 1, 0))
    \* An interrupted rotation, entered again, with pushes of two machines.
    \/ RotationInit(Files(1, {}), Sealed(1, {}),
                    Bounds({"rotate", "push", "fetch"}, 3, 0, 1, 1, 1))

Spec == Init /\ [][Next]_vars
=============================================================================
