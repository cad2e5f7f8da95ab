SPECIFICATION FairSpec
CONSTANTS
    Pids = {p1, p2}
    Clients = {c1, c2}
    None = none
    Auths = {TRUE}
    MaxTokens = 1
    MaxCommands = 1
    MaxFaults = 2
    Env = {}
INVARIANTS
    OneDaemon
PROPERTIES
    NoBystander
    EventuallyServed
