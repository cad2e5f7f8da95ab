SPECIFICATION FairSpec
CONSTANTS
    Agents = {"claude", "codex"}
    MaxLine = 4
    MaxVer = 2
    MaxFaults = 2
    Kind <- KindMixed4
    Envs <- EnvsMixed
INVARIANTS
    TypeOK
    CalmLosesNothing
    CalmIsFaithful
    NothingTwice
    VersionHonest
    ExcludedStaysGone
PROPERTIES
    EventuallyFaithful
    EventuallyCurrent
