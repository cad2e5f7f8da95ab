SPECIFICATION Spec
CONSTANTS
    Agents = {"claude"}
    MaxLine = 4
    MaxVer = 1
    MaxFaults = 1
    Kind <- KindPlain4
    Envs <- EnvsPartial
INVARIANTS
    NothingLost
