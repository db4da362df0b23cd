CONSTANTS
    None = None
    Batch <- MCBatch
    Limit = 1
    Cached <- MCCached
    MaxCreations = 1
    MaxRefreshes = 1
    MaxStarts = 1
    MaxVisits = 1
    MaxEdits = 1
SPECIFICATION FairSpec
CONSTRAINT FewEvents
CHECK_DEADLOCK FALSE
INVARIANTS SkipsOnlyForCached RepeatsOnlyForMoved
PROPERTY ComesToRest
