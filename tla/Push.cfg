SPECIFICATION FairSpec
CONSTANTS
    Sessions = {1, 2}
    Selected = {1}
    Backends = {"postgres", "duckdb"}
    Deploy = {{"all"}, {"all", "some"}}
    BatchSize = 2
    MaxNow = 2
    MaxRev <- RevsTwoOne
    MaxFaults = 1
    Env = {}
INVARIANTS
    FingerprintsHonest
    NothingSlipsPast
PROPERTIES
    EventuallyMirrored
    MirrorIsReplica
CHECK_DEADLOCK FALSE
