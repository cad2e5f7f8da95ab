SPECIFICATION FairSpec
CONSTANTS
    Notes = {1, 2}
    Bodies = {1, 2}
    Files <- FilesMixed
    Found <- FoundMixed
    Editors = {e}
    Ticker = ticker
    MaxEdits = 2
    MaxFaults = 1
INVARIANTS
    VectorsHonest
PROPERTIES
    NotesSurvive
    VectorsKept
    EventuallyMirrored
