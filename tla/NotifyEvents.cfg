SPECIFICATION FairSpec
CONSTANTS
    Paths = {p}
    Clients = {c}
    Callers = {"watch", "periodic", "single"}
    Filtering = {}
    Interval = 2
    Debounce = 1
    Cap = 1
    MaxWrites = 3
    MaxSingles = 1
INVARIANTS
    TypeOK
    PendingHasTimer
    NoMissedUpdate
PROPERTIES
    RateLimited
    EventuallyShown
