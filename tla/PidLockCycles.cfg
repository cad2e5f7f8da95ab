SPECIFICATION WorkerFairSpec
CONSTANTS
    Procs = {p1, p2}
    Inodes = {1, 2, 3}
    CrashAt = {"held"}
    Kinds = {"consolidate", "backup"}
    Toggled = {p1}
    Cands = {1, 2}
    BatchSizes = {1, 2}
    MaxStaged = 1
    MaxEdits = 1
    MaxToggles = 1
    MaxFaults = 1
    Env = {}
INVARIANTS
    WorkerTypeOK
    ExclusiveUntilCrash
    EnableIsPending
    EvaluatedOnce
PROPERTIES
    LockDiscipline
    EventuallyConsolidated
    EventuallyBackedUp
    BackupForward
CHECK_DEADLOCK FALSE
