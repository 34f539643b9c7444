SPECIFICATION Spec
CONSTANTS
    Workers = {w1, w2}
    NoWorker = NoWorker
    Secrets = {s1, s2}
    Travelled = {s2}
    SyncKeys = {1, 2}
    MaxPuts = 5
INVARIANTS
    TypeOK
    KeysAgree
    SavedIsServed
    RemoteOpens
CHECK_DEADLOCK FALSE
