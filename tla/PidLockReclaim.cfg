SPECIFICATION Spec
CONSTANTS
    Procs = {p1, p2, p3}
    Inodes = {1, 2, 3, 4}
    CrashAt = {"idle", "writepid", "check", "remove", "retry", "held"}
INVARIANTS
    MutualExclusion
CHECK_DEADLOCK FALSE
