SPECIFICATION FairSpec
CONSTANTS
    Sessions = {"a", "b"}
    MaxEdits = 2
    MaxFaults = 1
INVARIANTS
    TypeOK
    DeletedStaysGone
    SkipCacheMatches
PROPERTIES
    SwapKeepsArchive
    SwapKeepsUserState
    RevisionMarksChange
    RebuildIsFresh
    ResyncEnds
