SPECIFICATION Spec
CONSTANTS
    Paths = {p}
    Clients = {c}
    Callers = {"watch", "periodic", "single"}
    Filtering = {c}
    Interval = 2
    Debounce = 1
    Cap = 8
    MaxWrites = 4
    MaxSingles = 2
INVARIANTS
    NoMissedUpdate
