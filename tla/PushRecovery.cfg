SPECIFICATION Spec
CONSTANTS
    Sessions = {1, 2}
    Selected = {1}
    Backends = {"postgres"}
    Deploy = {{"all"}}
    BatchSize = 2
    MaxNow = 2
    MaxRev <- RevsTwoOne
    MaxFaults = 3
    Env = {"interrupted"}
INVARIANTS
    NothingSlipsPast
CHECK_DEADLOCK FALSE
